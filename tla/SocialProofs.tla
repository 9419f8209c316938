---------------------------- MODULE SocialProofs ----------------------------
(***************************************************************************)
(* Proofs about Social and Community, for any users, pets, posts, uploads  *)
(* and requests.                                                           *)
(*                                                                         *)
(* Social.  What a request has written and not committed is its own: no    *)
(* other request writes the same post or inserts the same follow           *)
(* (WritersApart), and the table is as the request found it (Holds).  A    *)
(* transaction that rewrites a carousel has put the first items of its     *)
(* list, in their order (Filling).  Whom a request is going to show was    *)
(* visible to it before (Pledged), and a list belongs to one (Headed).     *)
(*                                                                         *)
(* Community.  A name that an uncommitted community has taken is free in   *)
(* the table and nobody else's (NamesHeld), and whoever is about to leave  *)
(* is not the owner, nor ever will be (Leaving).                           *)
(***************************************************************************)
EXTENDS Social, Community, TLAPS

Writes(r) == r.pc \in {"deleteMedia", "media"}
Adding(r) == r.op = "follow" /\ r.fresh

\* The statement a request is at belongs to its handler and has its inputs.
Handler(r) ==
  /\ r.pc = "insertPost" => r.op = "createPost" /\ r.set \in Visibilities
  /\ r.pc = "updatePost" => r.op = "patchPost" /\ r.set \in Visibilities \cup {None}
  /\ r.pc = "deleteMedia" => r.op = "patchPost"
  /\ r.pc = "media" => r.op \in {"createPost", "patchPost"}
  /\ r.pc = "source" => r.op = "discover"
  /\ r.pc = "forPet" => r.op \in {"getPet", "petPosts", "petStories", "follow", "unfollow"}
  /\ r.pc = "rows" => r.op \in {"feed", "stories", "petPosts", "petStories",
                                "postByID", "discover"}
  /\ r.pc \in {"canView", "actor", "touch"} =>
       r.op \in {"like", "unlike", "save", "unsave", "comment", "comments", "report"}
  /\ r.pc \in {"insertFollow", "notify"} => r.op = "follow"
  /\ r.pc = "forUser" => r.op \in {"profile", "followers"}
  /\ r.pc = "target" => r.op \in {"block", "mute"}
  /\ r.pc = "insertBlock" => r.op = "block"
  /\ r.pc \in {"lockUser", "deletePets"} => r.op = "deleteAccount"
  /\ r.pc = "pet" /\ r.op = "patchPet" => r.set \in PetStatuses

PetStages == {"insertPost", "forPet", "readPet", "attach", "insertStory", "insertFollow",
              "notify", "deleteFollow", "pet"}
PostStages == {"updatePost", "deleteMedia", "media", "removePost", "attach", "canView",
               "actor", "touch"}
UserStages == {"forUser", "listUsers", "target", "insertBlock", "insertMute", "release"}

Inputs(r) ==
  /\ Active(r) => r.user \in Users
  /\ r.pc \in PetStages \/ (r.pc = "commit" /\ r.op = "follow") => r.pet \in Pets
  /\ r.pc = "rows" /\ r.op \in {"petPosts", "petStories"} => r.pet \in Pets
  /\ r.pc \in PostStages \/ (r.pc = "rows" /\ r.op = "postByID") => r.post \in Posts
  /\ r.pc \in UserStages \/ (r.pc = "commit" /\ r.op = "block") => r.other \in Users
  /\ r.op = "block" /\ Active(r) => r.user # r.other

\* How far a request has written the media of its post.
Filling(r) ==
  /\ r.pc = "deleteMedia" => r.put = 0 /\ r.list # <<>> /\ r.row.cover = Head(r.list)
  /\ r.pc \in {"insertPost", "updatePost"} => r.put = 0
  /\ r.pc = "media" => r.put <= Len(r.list)
  /\ r.pc = "media" /\ r.list = <<>> =>
       /\ r.row.media \in Lists
       /\ r.row.media # <<>> => r.row.cover = Head(r.row.media)
  /\ r.pc = "media" /\ r.list # <<>> =>
       /\ r.row.cover = Head(r.list) /\ Len(r.row.media) = r.put
       /\ \A i \in 1..r.put : r.row.media[i] = r.list[i]

\* A request that the program may hold, whatever is in the tables.
Proper(r) ==
  /\ r \in SocialRequest /\ (Writes(r) => r.row # NoPost) /\ r.page \in Lists
  /\ Handler(r) /\ Inputs(r) /\ Filling(r)

\* What the posts P and follows F say of an open transaction.
Holds(r, P, F) ==
  /\ r.pc = "media" /\ r.op = "createPost" =>
       P[r.post] = NoPost /\ OwnerOf[r.row.pet] = r.user /\ ~r.row.gone
  /\ Writes(r) /\ r.op = "patchPost" =>
       /\ P[r.post] # NoPost /\ ~P[r.post].gone /\ OwnerOf[P[r.post].pet] = r.user
       /\ r.row.pet = P[r.post].pet /\ ~r.row.gone
  /\ r.pc = "rows" /\ r.op = "postByID" =>
       P[r.post] # NoPost /\ OwnerOf[P[r.post].pet] = r.user
  /\ r.pc \in {"actor", "touch"} => P[r.post] # NoPost
  /\ Adding(r) => <<r.user, r.pet>> \notin F

\* The user that a request shows or is going to show.
Pledged(r, w) ==
  \/ r.seen # None /\ w = r.seen
  \/ r.pc = "listUsers" /\ w = r.other
  \/ /\ \/ r.pc \in {"readPet", "attach", "insertFollow", "notify"}
        \/ r.pc = "commit" /\ r.op = "follow"
        \/ r.pc = "rows" /\ r.op \in {"petPosts", "petStories"}
     /\ w = OwnerOf[r.pet]

WritersApart ==
  \A p, q \in Requests : p # q =>
    /\ Writes(tx[p]) /\ Writes(tx[q]) => tx[p].post # tx[q].post
    /\ Adding(tx[p]) /\ Adding(tx[q]) =>
         <<tx[p].user, tx[p].pet>> # <<tx[q].user, tx[q].pet>>

Covered(row) == row.media \in Lists /\ (row.media # <<>> => row.cover = Head(row.media))

Tables ==
  /\ pet \in [Pets -> PetStatuses]
  /\ private \subseteq Users /\ departed \subseteq Users
  /\ post \in [Posts -> PostRow \cup {NoPost}]
  /\ ties \subseteq Tie /\ stories \subseteq Pets
  /\ reports \subseteq Users \X Users
  /\ follows \subseteq Users \X Pets
  /\ notices \in [Users \X Pets -> Nat] /\ unfollowed \in [Users \X Pets -> Nat]
  /\ blocks \subseteq Users \X Users /\ mutes \subseteq Users \X Users
  /\ \A x \in Posts : post[x] # NoPost => Covered(post[x])
  /\ EveryFollowIsTold
  /\ \A u \in Users : <<u, u>> \notin blocks

SocialInv ==
  /\ Tables
  /\ tx \in [Requests -> SocialRequest] /\ sight \in [Requests -> SUBSET (Users \cup Pets)]
  /\ \A p \in Requests :
       /\ Proper(tx[p]) /\ Holds(tx[p], post, follows)
       /\ \A w \in Users : Pledged(tx[p], w) => w \in sight[p]
  /\ WritersApart

\* A request between the two statements of a creation or of a departure.
Creating(r) == r.pc \in {"insertOwner", "commitCommunity"}
NamesHeld ==
  /\ \A p \in Calls : Creating(call[p]) => community[call[p].name] = Nobody
  /\ \A p, q \in Calls :
       Creating(call[p]) /\ Creating(call[q]) /\ call[p].name = call[q].name => p = q

CallInputs(r) ==
  /\ Running(r) => r.user \in People
  /\ r.pc \in {"insertCommunity", "insertOwner", "commitCommunity", "joinRow", "leaveCheck",
               "leaveRow", "hostCheck"} => r.name \in Names
  /\ r.pc \in {"upsertRSVP", "eventExists", "deleteRSVP"} => r.event \in Events
  /\ r.pc \in {"listingExists", "setSaved"} => r.listing \in Listings

Leaving(r) ==
  /\ r.pc = "leaveRow" => community[r.name] \notin {Nobody, r.user}
  /\ r.pc = "insertEvent" => r.name = Nobody \/ community[r.name] # Nobody
  /\ r.pc = "setSaved" => listing[r.listing] # Nobody

CommunityInv ==
  /\ CommunityTypeOK /\ OwnersBelong /\ NamesHeld
  /\ \A p \in Calls : CallInputs(call[p]) /\ Leaving(call[p])

-----------------------------------------------------------------------------
(* Communities.                                                            *)

LEMMA CallFacts ==
  /\ NoCall \in Call /\ NoCall.pc = "idle"
  /\ Spent \in Call /\ Spent.pc = "done"
  /\ CallInputs(Spent) /\ Leaving(Spent) /\ ~Creating(Spent)
<1>1. NoCall \in Call /\ NoCall.pc = "idle"
  BY DEF NoCall, Call, Answers
<1>2. Spent \in Call /\ Spent.pc = "done"
  BY DEF Spent, NoCall, Call, Answers
<1> QED
  BY <1>1, <1>2 DEF CallInputs, Leaving, Creating, Running

LEMMA CommunityTypes ==
  ASSUME CommunityInv
  PROVE  /\ call \in [Calls -> Call]
         /\ \A p \in Calls : call[p] \in Call /\ CallInputs(call[p]) /\ Leaving(call[p])
         /\ community \in [Names -> People \cup {Nobody}]
         /\ role \in [Names \X People -> Roles]
         /\ rsvp \in [Events \X People -> Answers]
         /\ listing \in [Listings -> People \cup {Nobody}]
BY DEF CommunityInv, CommunityTypeOK

\* A request goes on to r, and whatever it has changed in the tables leaves
\* them in order and takes nothing away that another request relies on.
LEMMA PutKeeps ==
  ASSUME CommunityInv, NEW p \in Calls, NEW r \in Call, Put(p, r),
         CallInputs(r), Leaving(r)',
         community' \in [Names -> People \cup {Nobody}],
         role' \in [Names \X People -> Roles],
         event' \in [Events -> [creator : People, community : Names \cup {Nobody}]
                                 \cup {Nobody}],
         rsvp' \in [Events \X People -> Answers],
         listing' \in [Listings -> People \cup {Nobody}],
         savedBy' \subseteq Listings \X People,
         \A k \in Names \X People : role'[k] # "none" => community'[k[1]] # Nobody,
         \A k \in Events \X People : rsvp'[k] # "none" => event'[k[1]] # Nobody,
         \A s \in savedBy' : listing'[s[1]] # Nobody,
         \A e \in Events : event'[e] # Nobody /\ event'[e].community # Nobody
                             => community'[event'[e].community] # Nobody,
         OwnersBelong',
         \A n \in Names : community[n] # Nobody => community'[n] = community[n],
         \A l \in Listings : listing[l] # Nobody => listing'[l] # Nobody,
         Creating(r) => community'[r.name] = Nobody,
         \A q \in Calls \ {p} : Creating(call[q]) =>
           /\ community'[call[q].name] = Nobody
           /\ Creating(r) => call[q].name # r.name
  PROVE  CommunityInv'
<1>1. /\ call' \in [Calls -> Call] /\ call'[p] = r
      /\ \A q \in Calls \ {p} : call'[q] = call[q]
  BY CommunityTypes DEF Put
<1>2. CommunityTypeOK'
  BY <1>1 DEF CommunityTypeOK
<1>3. NamesHeld'
  <2>1. \A q \in Calls : Creating(call[q])' => community'[call'[q].name] = Nobody
    BY <1>1 DEF Creating
  <2>2. ASSUME NEW q \in Calls, NEW s \in Calls,
               Creating(call[q])', Creating(call[s])', call'[q].name = call'[s].name
        PROVE  q = s
    BY <1>1, <2>2 DEF CommunityInv, NamesHeld, Creating
  <2> QED
    BY <2>1, <2>2 DEF NamesHeld
<1>4. ASSUME NEW q \in Calls PROVE CallInputs(call[q])' /\ Leaving(call[q])'
  <2>1. CASE q = p
    BY <1>1, <2>1 DEF CallInputs, Leaving, Running
  <2>2. CASE q # p
    <3>1. call'[q] = call[q] /\ CallInputs(call[q]) /\ Leaving(call[q])
      BY <1>1, <2>2, CommunityTypes
    <3>2. CallInputs(call[q])'
      BY <3>1 DEF CallInputs, Running
    <3>3. /\ call[q].pc \in {"leaveRow"} => call[q].name \in Names /\ call[q].user \in People
          /\ call[q].name \in Names \cup {Nobody}
          /\ call[q].pc = "setSaved" => call[q].listing \in Listings
      BY <3>1, CommunityTypes DEF CallInputs, Running, Call
    <3> QED
      BY <3>1, <3>2, <3>3 DEF Leaving
  <2> QED
    BY <2>1, <2>2
<1> QED
  BY <1>2, <1>3, <1>4 DEF CommunityInv

\* The tables stay as they are.
LEMMA StillKeeps ==
  ASSUME CommunityInv, NEW p \in Calls, NEW r \in Call, Put(p, r),
         UNCHANGED <<groups, meetings, adoptions>>,
         CallInputs(r), Leaving(r),
         Creating(r) =>
           /\ community[r.name] = Nobody
           /\ \A q \in Calls \ {p} : Creating(call[q]) => call[q].name # r.name
  PROVE  CommunityInv'
<1>1. UNCHANGED <<community, role, event, rsvp, listing, savedBy>>
  BY DEF groups, meetings, adoptions
<1>2. Leaving(r)' /\ OwnersBelong'
  BY <1>1 DEF Leaving, CommunityInv, OwnersBelong
<1>3. \A q \in Calls \ {p} : Creating(call[q]) =>
        /\ community'[call[q].name] = Nobody
        /\ Creating(r) => call[q].name # r.name
  BY <1>1 DEF CommunityInv, NamesHeld
<1>4. CommunityTypeOK
  BY DEF CommunityInv
<1> QED
  BY <1>1, <1>2, <1>3, <1>4, PutKeeps DEF CommunityTypeOK

LEMMA LeaveKeeps ==
  ASSUME CommunityInv, NEW p \in Calls, Leave(p)
  PROVE  CommunityInv'
BY CallFacts, StillKeeps DEF Leave

\* A request goes to its next statement.
LEMMA GotoKeeps ==
  ASSUME CommunityInv, NEW p \in Calls, Running(call[p]), NEW pc, Goto(p, pc),
         \/ pc = "insertOwner" /\ InsertCommunity(p)
         \/ pc = "commitCommunity" /\ InsertOwner(p)
         \/ pc = "leaveRow" /\ LeaveCheck(p)
         \/ pc = "insertEvent" /\ HostCheck(p)
         \/ pc = "deleteRSVP" /\ EventExists(p)
         \/ pc = "setSaved" /\ ListingExists(p)
  PROVE  CommunityInv'
<1>1. PICK r : r = [call[p] EXCEPT !.pc = pc]
  OBVIOUS
<1>2. /\ r \in Call /\ r.pc = pc /\ r.user = call[p].user /\ r.name = call[p].name
      /\ r.event = call[p].event /\ r.listing = call[p].listing
  BY <1>1, CommunityTypes DEF Call
<1>3. CallInputs(call[p]) /\ Leaving(call[p]) /\ call[p].user \in People
  BY CommunityTypes DEF CallInputs
<1>4. Put(p, r) /\ UNCHANGED <<groups, meetings, adoptions>>
  BY <1>1 DEF Goto
<1>5. CallInputs(r)
  BY <1>2, <1>3 DEF CallInputs, Running, InsertCommunity, InsertOwner, LeaveCheck, HostCheck,
       EventExists, ListingExists
<1>6. CASE pc = "insertOwner" /\ InsertCommunity(p)
  <2>1. \A q \in Calls \ {p} : Creating(call[q]) => call[q].name # r.name
    BY <1>2, <1>6 DEF InsertCommunity, NameFree, Creating
  <2> QED
    BY <1>2, <1>4, <1>5, <1>6, <2>1, StillKeeps DEF InsertCommunity, Leaving
<1>7. CASE pc = "commitCommunity" /\ InsertOwner(p)
  <2>1. Creating(call[p])
    BY <1>7 DEF InsertOwner, Creating
  <2> QED
    BY <1>2, <1>4, <1>5, <1>7, <2>1, StillKeeps DEF CommunityInv, NamesHeld, Leaving
<1>8. CASE pc = "leaveRow" /\ LeaveCheck(p)
  <2>1. r.name \in Names /\ r.user \in People
    BY <1>2, <1>3, <1>8 DEF CallInputs, LeaveCheck
  <2>2. CASE community[r.name] # Nobody /\ role[<<r.name, r.user>>] # "owner"
    <3>1. community[r.name] # r.user
      BY <2>1, <2>2 DEF CommunityInv, OwnersBelong
    <3> QED
      BY <1>2, <1>4, <1>5, <1>8, <2>2, <3>1, StillKeeps DEF Leaving, Creating
  <2>3. CASE ~(community[r.name] # Nobody /\ role[<<r.name, r.user>>] # "owner")
    BY <1>2, <1>8, <2>3, LeaveKeeps DEF LeaveCheck
  <2> QED
    BY <2>2, <2>3
<1>9. CASE pc = "insertEvent" /\ HostCheck(p)
  <2>1. r.name \in Names /\ <<r.name, r.user>> \in Names \X People
    BY <1>2, <1>3, <1>9 DEF CallInputs, HostCheck
  <2>2. CASE role[<<r.name, r.user>>] # "none"
    <3>1. PICK k \in Names \X People : k = <<r.name, r.user>>
      BY <2>1
    <3>2. k[1] = r.name
      BY <3>1
    <3>3. community[r.name] # Nobody
      BY <2>2, <3>1, <3>2 DEF CommunityInv, CommunityTypeOK
    <3> QED
      BY <1>2, <1>4, <1>5, <1>9, <3>3, StillKeeps DEF Leaving, Creating
  <2>3. CASE role[<<r.name, r.user>>] = "none"
    BY <1>2, <1>9, <2>3, LeaveKeeps DEF HostCheck
  <2> QED
    BY <2>2, <2>3
<1>10. CASE pc = "deleteRSVP" /\ EventExists(p)
  BY <1>2, <1>4, <1>5, <1>10, StillKeeps DEF Leaving, Creating
<1>11. CASE pc = "setSaved" /\ ListingExists(p)
  <2>1. CASE listing[r.listing] # Nobody
    BY <1>2, <1>4, <1>5, <1>11, <2>1, StillKeeps DEF Leaving, Creating
  <2>2. CASE listing[r.listing] = Nobody
    BY <1>2, <1>11, <2>2, LeaveKeeps DEF ListingExists
  <2> QED
    BY <2>1, <2>2
<1> QED
  BY <1>6, <1>7, <1>8, <1>9, <1>10, <1>11

LEMMA BeginCallKeeps ==
  ASSUME CommunityInv, NEW p \in Calls, BeginCall(p)
  PROVE  CommunityInv'
<1>1. PICK u \in People :
        \/ \E n \in Names, op \in {"create", "join", "leave"} : BeginCommunity(p, u, n, op)
        \/ \E n \in Names \cup {Nobody} : BeginEvent(p, u, n)
        \/ \E e \in Events, s \in Answers : BeginRSVP(p, u, e, s)
        \/ BeginListing(p, u)
        \/ \E l \in Listings, op \in {"save", "unsave"} : BeginSave(p, u, l, op)
  BY DEF BeginCall
<1>2. CASE \E n \in Names, op \in {"create", "join", "leave"} : BeginCommunity(p, u, n, op)
  <2>1. PICK n \in Names, op \in {"create", "join", "leave"} : BeginCommunity(p, u, n, op)
    BY <1>2
  <2>2. PICK pc : pc = CASE op = "create" -> "insertCommunity" [] op = "join" -> "joinRow"
                         [] OTHER -> "leaveCheck"
    OBVIOUS
  <2>3. pc \in {"insertCommunity", "joinRow", "leaveCheck"}
    BY <2>2
  <2>4. PICK r : r = [NoCall EXCEPT !.op = op, !.user = u, !.name = n, !.pc = pc]
    OBVIOUS
  <2>5. /\ r \in Call /\ r.pc = pc /\ r.user = u /\ r.name = n
    BY <2>3, <2>4 DEF NoCall, Call, Answers
  <2>6. CallInputs(r) /\ Leaving(r) /\ ~Creating(r)
    BY <2>3, <2>5 DEF CallInputs, Leaving, Creating
  <2> QED
    BY <2>1, <2>2, <2>4, <2>5, <2>6, StillKeeps DEF BeginCommunity, Enter
<1>3. CASE \E n \in Names \cup {Nobody} : BeginEvent(p, u, n)
  <2>1. PICK n \in Names \cup {Nobody} : BeginEvent(p, u, n)
    BY <1>3
  <2>2. PICK r : r = [NoCall EXCEPT !.op = "event", !.user = u, !.name = n,
                        !.pc = IF n = Nobody THEN "insertEvent" ELSE "hostCheck"]
    OBVIOUS
  <2>3. /\ r \in Call /\ r.pc = (IF n = Nobody THEN "insertEvent" ELSE "hostCheck")
        /\ r.user = u /\ r.name = n
    BY <2>2 DEF NoCall, Call, Answers
  <2>4. CallInputs(r) /\ Leaving(r) /\ ~Creating(r)
    BY <2>3 DEF CallInputs, Leaving, Creating
  <2> QED
    BY <2>1, <2>2, <2>3, <2>4, StillKeeps DEF BeginEvent, Enter
<1>4. CASE \E e \in Events, s \in Answers : BeginRSVP(p, u, e, s)
  <2>1. PICK e \in Events, s \in Answers : BeginRSVP(p, u, e, s)
    BY <1>4
  <2>2. PICK r : r = [NoCall EXCEPT !.op = "rsvp", !.user = u, !.event = e, !.status = s,
                        !.pc = IF s = "none" THEN "eventExists" ELSE "upsertRSVP"]
    OBVIOUS
  <2>3. /\ r \in Call /\ r.pc \in {"eventExists", "upsertRSVP"}
        /\ r.user = u /\ r.event = e
    BY <2>2 DEF NoCall, Call, Answers
  <2>4. CallInputs(r) /\ Leaving(r) /\ ~Creating(r)
    BY <2>3 DEF CallInputs, Leaving, Creating
  <2> QED
    BY <2>1, <2>2, <2>3, <2>4, StillKeeps DEF BeginRSVP, Enter
<1>5. CASE BeginListing(p, u)
  <2>1. PICK r : r = [NoCall EXCEPT !.op = "list", !.user = u, !.pc = "insertListing"]
    OBVIOUS
  <2>2. r \in Call /\ r.pc = "insertListing" /\ r.user = u
    BY <2>1 DEF NoCall, Call, Answers
  <2>3. CallInputs(r) /\ Leaving(r) /\ ~Creating(r)
    BY <2>2 DEF CallInputs, Leaving, Creating
  <2> QED
    BY <1>5, <2>1, <2>2, <2>3, StillKeeps DEF BeginListing, Enter
<1>6. CASE \E l \in Listings, op \in {"save", "unsave"} : BeginSave(p, u, l, op)
  <2>1. PICK l \in Listings, op \in {"save", "unsave"} : BeginSave(p, u, l, op)
    BY <1>6
  <2>2. PICK r : r = [NoCall EXCEPT !.op = op, !.user = u, !.listing = l,
                        !.pc = "listingExists"]
    OBVIOUS
  <2>3. r \in Call /\ r.pc = "listingExists" /\ r.user = u /\ r.listing = l
    BY <2>2 DEF NoCall, Call, Answers
  <2>4. CallInputs(r) /\ Leaving(r) /\ ~Creating(r)
    BY <2>3 DEF CallInputs, Leaving, Creating
  <2> QED
    BY <2>1, <2>2, <2>3, <2>4, StillKeeps DEF BeginSave, Enter
<1> QED
  BY <1>1, <1>2, <1>3, <1>4, <1>5, <1>6

\* The new community and its owner's role appear together.
LEMMA CommitCommunityKeeps ==
  ASSUME CommunityInv, NEW p \in Calls, CommitCommunity(p)
  PROVE  CommunityInv'
<1>1. PICK n \in Names, u \in People :
        n = call[p].name /\ u = call[p].user /\ community[n] = Nobody
  <2>1. CallInputs(call[p]) /\ call[p].pc = "commitCommunity"
    BY CommunityTypes DEF CommitCommunity
  <2> QED
    BY <2>1 DEF CallInputs, Running, CommunityInv, NamesHeld, Creating
<1>2. /\ community' = [community EXCEPT ![n] = u]
      /\ role' = [role EXCEPT ![<<n, u>>] = "owner"]
      /\ Put(p, Spent) /\ UNCHANGED <<event, rsvp, listing, savedBy>>
  BY <1>1 DEF CommitCommunity, meetings, adoptions
<1>3. /\ community' \in [Names -> People \cup {Nobody}] /\ community'[n] = u
      /\ \A m \in Names \ {n} : community'[m] = community[m]
  BY <1>2, CommunityTypes
<1>4. /\ role' \in [Names \X People -> Roles] /\ role'[<<n, u>>] = "owner"
      /\ \A k \in Names \X People : k # <<n, u>> => role'[k] = role[k]
  BY <1>2, CommunityTypes DEF Roles
<1>5. u # Nobody
  BY NobodyAssumption
<1>6. OwnersBelong'
  <2> SUFFICES ASSUME NEW m \in Names, NEW w \in People
               PROVE  role'[<<m, w>>] = "owner" <=> community'[m] = w
    BY DEF OwnersBelong
  <2>1. role[<<m, w>>] = "owner" <=> community[m] = w
    BY DEF CommunityInv, OwnersBelong
  <2>2. w # Nobody
    BY NobodyAssumption
  <2> QED
    BY <1>1, <1>3, <1>4, <2>1, <2>2
<1>7. \A k \in Names \X People : role'[k] # "none" => community'[k[1]] # Nobody
  BY <1>1, <1>3, <1>4, <1>5 DEF CommunityInv, CommunityTypeOK
<1>8. \A m \in Names : community[m] # Nobody => community'[m] = community[m]
  BY <1>1, <1>3
<1>9. \A q \in Calls \ {p} : Creating(call[q]) => community'[call[q].name] = Nobody
  <2> SUFFICES ASSUME NEW q \in Calls \ {p}, Creating(call[q])
               PROVE  community'[call[q].name] = Nobody
    OBVIOUS
  <2>1. Creating(call[p])
    BY DEF CommitCommunity, Creating
  <2>2. call[q].name # n /\ community[call[q].name] = Nobody
    BY <1>1, <2>1 DEF CommunityInv, NamesHeld
  <2>3. call[q].name \in Names
    BY CommunityTypes DEF CallInputs, Creating
  <2> QED
    BY <1>3, <2>2, <2>3
<1>10. \A e \in Events : event[e] # Nobody /\ event[e].community # Nobody
                           => community'[event[e].community] # Nobody
  BY <1>1, <1>3, <1>5 DEF CommunityInv, CommunityTypeOK
<1>11. CommunityTypeOK
  BY DEF CommunityInv
<1>12. Leaving(Spent)'
  BY DEF Spent, NoCall, Leaving
<1> QED
  BY <1>2, <1>3, <1>4, <1>6, <1>7, <1>8, <1>9, <1>10, <1>11, <1>12, CallFacts, PutKeeps
     DEF CommunityTypeOK

LEMMA RolesKeep ==
  ASSUME CommunityInv, NEW p \in Calls, JoinRow(p) \/ LeaveRow(p)
  PROVE  CommunityInv'
<1>1. PICK n \in Names, u \in People : n = call[p].name /\ u = call[p].user
  <2>1. CallInputs(call[p]) /\ call[p].pc \in {"joinRow", "leaveRow"}
    BY CommunityTypes DEF JoinRow, LeaveRow
  <2> QED
    BY <2>1 DEF CallInputs, Running
<1>2. UNCHANGED <<community, event, rsvp, listing, savedBy>>
  BY DEF JoinRow, LeaveRow, meetings, adoptions
<1>3. CommunityTypeOK /\ OwnersBelong
  BY DEF CommunityInv
<1>4. \A q \in Calls : Creating(call[q]) => community'[call[q].name] = Nobody
  BY <1>2 DEF CommunityInv, NamesHeld
\* A request that has gone on to r, with a role s that is not the owner's.
<1>5. ASSUME NEW r \in Call, CallInputs(r), Leaving(r), ~Creating(r), Put(p, r),
             NEW s \in {"none", "member"}, role' = [role EXCEPT ![<<n, u>>] = s],
             role[<<n, u>>] # "owner", s # "none" => community[n] # Nobody
      PROVE  CommunityInv'
  <2>1. /\ role' \in [Names \X People -> Roles] /\ role'[<<n, u>>] = s
        /\ \A k \in Names \X People : k # <<n, u>> => role'[k] = role[k]
    BY <1>5, CommunityTypes DEF Roles
  <2>2. OwnersBelong'
    <3> SUFFICES ASSUME NEW m \in Names, NEW w \in People
                 PROVE  role'[<<m, w>>] = "owner" <=> community'[m] = w
      BY DEF OwnersBelong
    <3>1. role[<<m, w>>] = "owner" <=> community[m] = w
      BY <1>3 DEF OwnersBelong
    <3> QED
      BY <1>2, <1>5, <2>1, <3>1
  <2>3. \A k \in Names \X People : role'[k] # "none" => community'[k[1]] # Nobody
    BY <1>2, <1>3, <1>5, <2>1 DEF CommunityTypeOK
  <2>4. Leaving(r)'
    BY <1>2, <1>5 DEF Leaving
  <2> QED
    BY <1>2, <1>3, <1>4, <1>5, <2>1, <2>2, <2>3, <2>4, PutKeeps DEF CommunityTypeOK
<1>6. CASE JoinRow(p)
  <2>1. PICK new : new = (community[n] # Nobody /\ role[<<n, u>>] = "none")
    OBVIOUS
  <2>2. CASE new
    BY <1>1, <1>5, <1>6, <2>1, <2>2, CallFacts DEF JoinRow
  <2>3. CASE ~new
    <3>1. PICK r : r = [call[p] EXCEPT !.pc = "joinExists"]
      OBVIOUS
    <3>2. r \in Call /\ r.pc = "joinExists" /\ r.user = u
      BY SMTT(30), <1>1, <3>1, CommunityTypes DEF Call
    <3>3. CallInputs(r) /\ Leaving(r) /\ ~Creating(r)
      BY <3>2 DEF CallInputs, Leaving, Creating
    <3>4. UNCHANGED <<groups, meetings, adoptions>> /\ Put(p, r)
      BY <1>1, <1>6, <2>1, <2>3, <3>1 DEF JoinRow, groups
    <3> QED
      BY <3>2, <3>3, <3>4, StillKeeps
  <2> QED
    BY <2>1, <2>2, <2>3
<1>7. CASE LeaveRow(p)
  <2>1. community[n] # u
    BY <1>1, <1>7, CommunityTypes DEF LeaveRow, Leaving
  <2>2. role[<<n, u>>] # "owner"
    BY <1>3, <2>1 DEF OwnersBelong
  <2> QED
    BY <1>1, <1>5, <1>7, <2>2, CallFacts DEF LeaveRow
<1> QED
  BY <1>6, <1>7

\* Events, RSVPs, listings and saves.
LEMMA MeetingsKeep ==
  ASSUME CommunityInv, NEW p \in Calls,
         \/ InsertEvent(p) \/ UpsertRSVP(p) \/ DeleteRSVP(p)
         \/ InsertListing(p) \/ SetSaved(p)
  PROVE  CommunityInv'
<1>1. CommunityTypeOK /\ CallInputs(call[p]) /\ Leaving(call[p]) /\ call[p] \in Call
  BY CommunityTypes DEF CommunityInv
<1>2. UNCHANGED <<community, role>> /\ Put(p, Spent)
  BY DEF InsertEvent, UpsertRSVP, DeleteRSVP, InsertListing, SetSaved, groups
<1>3. OwnersBelong' /\ Leaving(Spent)'
  BY <1>2 DEF CommunityInv, OwnersBelong, Leaving, Spent, NoCall
<1>4. \A q \in Calls : Creating(call[q]) => community'[call[q].name] = Nobody
  BY <1>2 DEF CommunityInv, NamesHeld
<1>5. CASE InsertEvent(p)
  <2>1. PICK e \in Events :
          /\ event[e] = Nobody
          /\ event' = [event EXCEPT ![e] = [creator |-> call[p].user,
                                            community |-> call[p].name]]
    BY <1>5 DEF InsertEvent
  <2>2. call[p].user \in People /\ call[p].name \in Names \cup {Nobody}
    BY <1>1, <1>5 DEF InsertEvent, CallInputs, Running, Call
  <2>3. PICK m : m = [creator |-> call[p].user, community |-> call[p].name]
    OBVIOUS
  <2>4. /\ m \in [creator : People, community : Names \cup {Nobody}]
        /\ m.community = call[p].name
    BY <2>2, <2>3
  <2>5. /\ event' \in [Events -> [creator : People, community : Names \cup {Nobody}]
                                   \cup {Nobody}]
        /\ event'[e] = m /\ \A f \in Events \ {e} : event'[f] = event[f]
    BY <1>1, <2>1, <2>3, <2>4 DEF CommunityTypeOK
  <2>6. m.community = Nobody \/ community[m.community] # Nobody
    BY <1>1, <1>5, <2>4 DEF InsertEvent, Leaving
  <2>7. \A f \in Events : event'[f] # Nobody /\ event'[f].community # Nobody
                            => community'[event'[f].community] # Nobody
    BY <1>1, <1>2, <2>5, <2>6 DEF CommunityTypeOK
  <2>8. \A k \in Events \X People : rsvp[k] # "none" => event'[k[1]] # Nobody
    <3> SUFFICES ASSUME NEW k \in Events \X People, rsvp[k] # "none"
                 PROVE event'[k[1]] # Nobody
      OBVIOUS
    <3>1. event[k[1]] # Nobody /\ k[1] \in Events
      BY <1>1 DEF CommunityTypeOK
    <3>2. k[1] # e
      BY <2>1, <3>1
    <3> QED
      BY <2>5, <3>1, <3>2
  <2>9. UNCHANGED <<rsvp, listing, savedBy>>
    BY <1>5 DEF InsertEvent, adoptions
  <2> QED
    BY <1>1, <1>2, <1>3, <1>4, <2>5, <2>7, <2>8, <2>9, CallFacts, PutKeeps
       DEF CommunityTypeOK
<1>6. CASE UpsertRSVP(p) \/ DeleteRSVP(p)
  <2>1. PICK k \in Events \X People : k = <<call[p].event, call[p].user>>
    BY <1>1, <1>6 DEF UpsertRSVP, DeleteRSVP, CallInputs, Running
  <2>2. k[1] = call[p].event
    BY <2>1
  <2>3. PICK s \in Answers :
          /\ rsvp' = [rsvp EXCEPT ![k] = s]
          /\ s # "none" => event[k[1]] # Nobody
    <3>1. CASE DeleteRSVP(p)
      BY <2>1, <3>1 DEF DeleteRSVP, Answers
    <3>2. CASE UpsertRSVP(p) /\ event[call[p].event] # Nobody
      BY <1>1, <2>1, <2>2, <3>2 DEF UpsertRSVP, Call
    <3>3. CASE UpsertRSVP(p) /\ event[call[p].event] = Nobody
      <4>1. rsvp[k] = "none" /\ rsvp' = [rsvp EXCEPT ![k] = rsvp[k]]
        BY <1>1, <2>2, <3>3 DEF UpsertRSVP, CommunityTypeOK
      <4> QED
        BY <4>1 DEF Answers
    <3> QED
      BY <1>6, <3>1, <3>2, <3>3
  <2>4. /\ rsvp' \in [Events \X People -> Answers] /\ rsvp'[k] = s
        /\ \A l \in Events \X People : l # k => rsvp'[l] = rsvp[l]
    BY <2>3, CommunityTypes
  <2>5. UNCHANGED <<event, listing, savedBy>>
    BY <1>6 DEF UpsertRSVP, DeleteRSVP, adoptions
  <2>6. \A l \in Events \X People : rsvp'[l] # "none" => event'[l[1]] # Nobody
    BY <1>1, <2>3, <2>4, <2>5 DEF CommunityTypeOK
  <2> QED
    BY <1>1, <1>2, <1>3, <1>4, <2>4, <2>5, <2>6, CallFacts, PutKeeps DEF CommunityTypeOK
<1>7. CASE InsertListing(p)
  <2>1. PICK l \in Listings :
          listing[l] = Nobody /\ listing' = [listing EXCEPT ![l] = call[p].user]
    BY <1>7 DEF InsertListing
  <2>2. call[p].user \in People /\ call[p].user # Nobody
    BY <1>1, <1>7, NobodyAssumption DEF InsertListing, CallInputs, Running
  <2>3. /\ listing' \in [Listings -> People \cup {Nobody}]
        /\ \A k \in Listings : listing[k] # Nobody => listing'[k] # Nobody
    BY <2>1, <2>2, CommunityTypes
  <2>4. UNCHANGED <<event, rsvp, savedBy>>
    BY <1>7 DEF InsertListing, meetings
  <2>5. \A s \in savedBy' : listing'[s[1]] # Nobody
    BY <1>1, <2>3, <2>4 DEF CommunityTypeOK
  <2> QED
    BY <1>1, <1>2, <1>3, <1>4, <2>3, <2>4, <2>5, CallFacts, PutKeeps DEF CommunityTypeOK
<1>8. CASE SetSaved(p)
  <2>1. PICK k \in Listings \X People : k = <<call[p].listing, call[p].user>>
    BY <1>1, <1>8 DEF SetSaved, CallInputs, Running
  <2>2. listing[k[1]] # Nobody
    BY <1>1, <1>8, <2>1 DEF SetSaved, Leaving
  <2>3. savedBy' \subseteq savedBy \cup {k} /\ UNCHANGED <<event, rsvp, listing>>
    BY <1>8, <2>1 DEF SetSaved, meetings
  <2>4. savedBy' \subseteq Listings \X People /\ \A s \in savedBy' : listing'[s[1]] # Nobody
    BY <1>1, <2>2, <2>3 DEF CommunityTypeOK
  <2> QED
    BY <1>1, <1>2, <1>3, <1>4, <2>3, <2>4, CallFacts, PutKeeps DEF CommunityTypeOK
<1> QED
  BY <1>5, <1>6, <1>7, <1>8

LEMMA CommunityStart == CommunityInitial => CommunityInv
<1> SUFFICES ASSUME CommunityInitial PROVE CommunityInv
  OBVIOUS
<1>1. /\ call = [p \in Calls |-> NoCall] /\ savedBy = {}
      /\ community = [n \in Names |-> Nobody] /\ role = [k \in Names \X People |-> "none"]
      /\ event = [e \in Events |-> Nobody] /\ rsvp = [k \in Events \X People |-> "none"]
      /\ listing = [l \in Listings |-> Nobody]
  BY DEF CommunityInitial, CommunityInit
<1>2. CommunityTypeOK
  BY <1>1, CallFacts DEF CommunityTypeOK, Roles, Answers
<1>3. OwnersBelong
  BY <1>1, NobodyAssumption DEF OwnersBelong
<1>4. \A p \in Calls : call[p].pc = "idle"
  BY <1>1, CallFacts
<1> QED
  BY <1>2, <1>3, <1>4 DEF CommunityInv, NamesHeld, CallInputs, Leaving, Creating, Running

LEMMA CommunityStep ==
  ASSUME CommunityInv, [CommunityNext]_communityVars
  PROVE  CommunityInv'
<1>1. CASE UNCHANGED communityVars
  <2>1. UNCHANGED <<community, role, event, rsvp, listing, savedBy, call>>
    BY <1>1 DEF communityVars, groups, meetings, adoptions
  <2>2. CommunityTypeOK' /\ OwnersBelong'
    BY <2>1 DEF CommunityInv, CommunityTypeOK, OwnersBelong
  <2>3. NamesHeld' /\ \A p \in Calls : CallInputs(call[p])' /\ Leaving(call[p])'
    BY <2>1 DEF CommunityInv, NamesHeld, CallInputs, Leaving, Creating, Running
  <2> QED
    BY <2>2, <2>3 DEF CommunityInv
<1>2. ASSUME NEW p \in Calls, BeginCall(p) PROVE CommunityInv'
  BY <1>2, BeginCallKeeps
<1>3. ASSUME NEW p \in Calls, CommitCommunity(p) PROVE CommunityInv'
  BY <1>3, CommitCommunityKeeps
<1>4. ASSUME NEW p \in Calls, JoinRow(p) \/ LeaveRow(p) PROVE CommunityInv'
  BY <1>4, RolesKeep
<1>5. ASSUME NEW p \in Calls,
             \/ InsertEvent(p) \/ UpsertRSVP(p) \/ DeleteRSVP(p)
             \/ InsertListing(p) \/ SetSaved(p)
      PROVE  CommunityInv'
  BY <1>5, MeetingsKeep
<1>6. ASSUME NEW p \in Calls, NameTaken(p) \/ JoinExists(p) \/ Break(p)
      PROVE  CommunityInv'
  BY <1>6, LeaveKeeps DEF NameTaken, JoinExists, Break
<1>7. ASSUME NEW p \in Calls,
             \/ InsertCommunity(p) \/ InsertOwner(p) \/ LeaveCheck(p)
             \/ HostCheck(p) \/ EventExists(p) \/ ListingExists(p)
      PROVE  CommunityInv'
  <2>1. Running(call[p])
    BY <1>7 DEF Running, InsertCommunity, InsertOwner, LeaveCheck, HostCheck, EventExists,
         ListingExists
  <2>2. \/ Leave(p)
        \/ InsertCommunity(p) /\ Goto(p, "insertOwner")
        \/ InsertOwner(p) /\ Goto(p, "commitCommunity")
        \/ LeaveCheck(p) /\ Goto(p, "leaveRow")
        \/ HostCheck(p) /\ Goto(p, "insertEvent")
        \/ EventExists(p) /\ Goto(p, "deleteRSVP")
        \/ ListingExists(p) /\ Goto(p, "setSaved")
    BY <1>7 DEF InsertCommunity, InsertOwner, LeaveCheck, HostCheck, EventExists,
         ListingExists
  <2> QED
    BY <2>1, <2>2, LeaveKeeps, GotoKeeps
<1> QED
  BY <1>1, <1>2, <1>3, <1>4, <1>5, <1>6, <1>7 DEF CommunityNext

\* A community has its owner, and only its owner, as the member with that role
\* (community/handler.go:108-215), and so it is not without one while a leave
\* that read another role is still on its way.
THEOREM EachCommunityHasItsOwner == CommunitySpec => []OwnersBelong
<1>1. CommunityInv => OwnersBelong
  BY DEF CommunityInv
<1> QED
  BY <1>1, CommunityStart, CommunityStep, PTL DEF CommunitySpec

\* The rows of communities, events, adoption and their members have their
\* types and refer to rows that exist.
THEOREM CommunityTypesHold == CommunitySpec => []CommunityTypeOK
<1>1. CommunityInv => CommunityTypeOK
  BY DEF CommunityInv
<1> QED
  BY <1>1, CommunityStart, CommunityStep, PTL DEF CommunitySpec

-----------------------------------------------------------------------------
(* Requests of Social.                                                     *)

LEMMA ListFacts ==
  /\ <<>> \in Lists
  /\ \A l \in Lists : l \in Seq(Media) /\ (l # <<>> => Head(l) \in Media /\ Head(l) = l[1])
<1>1. <<>> \in Lists /\ <<>> \in Seq(Media)
  BY DEF Lists
<1>2. \A l \in Lists : l \in Seq(Media)
  BY <1>1, CarouselsAssumption DEF Lists
<1>3. ASSUME NEW l \in Lists, l # <<>> PROVE Head(l) \in Media /\ Head(l) = l[1]
  <2>1. l \in Seq(Media)
    BY <1>2
  <2> QED
    BY <1>3, <2>1
<1> QED
  BY <1>1, <1>2, <1>3

LEMMA RequestFacts ==
  /\ Idle \in SocialRequest /\ Idle.pc = "idle" /\ Idle.fresh = FALSE /\ Idle.seen = None
  /\ Idle.page = <<>> /\ Idle.put = 0 /\ Idle.row = NoPost
  /\ Idle.pet = None /\ Idle.post = None /\ Idle.shown = None /\ Idle.list = <<>>
  /\ Finished \in SocialRequest /\ Finished.pc = "done" /\ Finished.fresh = FALSE
  /\ Finished.seen = None /\ Finished.page = <<>>
<1>1. NoPost \in PostRow \cup {NoPost}
  OBVIOUS
<1>2. Idle \in SocialRequest
  BY <1>1, ListFacts DEF Idle, SocialRequest
<1>3. Finished \in SocialRequest /\ Finished.pc = "done" /\ Finished.fresh = FALSE
      /\ Finished.seen = None /\ Finished.page = <<>>
  BY <1>1, ListFacts DEF Finished, Idle, SocialRequest
<1> QED
  BY <1>2, <1>3 DEF Idle

LEMMA SocialTypes ==
  ASSUME SocialInv
  PROVE  /\ tx \in [Requests -> SocialRequest]
         /\ sight \in [Requests -> SUBSET (Users \cup Pets)]
         /\ \A p \in Requests :
              /\ tx[p] \in SocialRequest /\ Proper(tx[p]) /\ Holds(tx[p], post, follows)
              /\ Handler(tx[p]) /\ Inputs(tx[p]) /\ Filling(tx[p])
         /\ Tables
         /\ post \in [Posts -> PostRow \cup {NoPost}] /\ pet \in [Pets -> PetStatuses]
BY DEF SocialInv, Proper, Tables

LEMMA SetFacts ==
  ASSUME SocialInv, NEW p \in Requests, NEW r \in SocialRequest, Set(p, r)
  PROVE  /\ tx' \in [Requests -> SocialRequest] /\ tx'[p] = r
         /\ \A q \in Requests \ {p} : tx'[q] = tx[q] /\ sight[q] \subseteq sight'[q]
         /\ sight' \in [Requests -> SUBSET (Users \cup Pets)]
         /\ \/ r.seen = None /\ r.pc = "done"
            \/ /\ sight[p] \subseteq sight'[p]
               /\ Active(tx[p]) /\ tx[p].op \in Viewers =>
                    Prospect(tx[p].user) \subseteq sight'[p]
<1>1. /\ tx' = [tx EXCEPT ![p] = r]
      /\ sight' = [q \in Requests |->
            IF q = p /\ r.seen = None /\ r.pc = "done" THEN {}
            ELSE IF Active(tx[q]) /\ tx[q].op \in Viewers
              THEN sight[q] \cup Prospect(tx[q].user)
            ELSE sight[q]]
  BY DEF Set
<1>2. \A u : Prospect(u) \subseteq Users \cup Pets
  BY DEF Prospect
<1>3. \A q \in Requests : sight[q] \subseteq Users \cup Pets
  BY SocialTypes
<1>4. tx' \in [Requests -> SocialRequest] /\ tx'[p] = r
      /\ \A q \in Requests \ {p} : tx'[q] = tx[q]
  BY <1>1, SocialTypes
<1> HIDE DEF Active, Viewers
<1>5. \A q \in Requests : sight'[q] \subseteq Users \cup Pets
  BY <1>1, <1>2, <1>3
<1>6. sight' \in [Requests -> SUBSET (Users \cup Pets)]
  BY <1>1, <1>5
<1>7. \A q \in Requests \ {p} : sight[q] \subseteq sight'[q]
  BY <1>1
<1>8. \/ r.seen = None /\ r.pc = "done"
      \/ /\ sight[p] \subseteq sight'[p]
         /\ Active(tx[p]) /\ tx[p].op \in Viewers =>
              Prospect(tx[p].user) \subseteq sight'[p]
  BY <1>1
<1> QED
  BY <1>4, <1>6, <1>7, <1>8

\* A request that a page or a page's user is visible to may show that user.
LEMMA Visible ==
  ASSUME NEW u, NEW w \in Users, ~Apart(u, w)
  PROVE  w \in Prospect(u)
BY DEF Apart, Prospect, Severed

\* Whom the request may have seen by the end of its step.
Sighted(p, w) ==
  \/ w \in sight[p]
  \/ Active(tx[p]) /\ tx[p].op \in Viewers /\ w \in Prospect(tx[p].user)

\* A request goes on to r and may change the tables, which stay in order and
\* in which the other open transactions find what they found before.
LEMMA SetKeeps ==
  ASSUME SocialInv, NEW p \in Requests, NEW r, Proper(r), Set(p, r), Tables',
         Holds(r, post', follows'),
         \A q \in Requests \ {p} : Holds(tx[q], post', follows'),
         \A w \in Users : Pledged(r, w) => Sighted(p, w),
         \A q \in Requests \ {p} :
           /\ Writes(r) /\ Writes(tx[q]) => tx[q].post # r.post
           /\ Adding(r) /\ Adding(tx[q]) =>
                <<tx[q].user, tx[q].pet>> # <<r.user, r.pet>>
  PROVE  SocialInv'
<1>1. /\ tx' \in [Requests -> SocialRequest] /\ tx'[p] = r /\ r \in SocialRequest
      /\ \A q \in Requests \ {p} : tx'[q] = tx[q] /\ sight[q] \subseteq sight'[q]
      /\ sight' \in [Requests -> SUBSET (Users \cup Pets)]
      /\ \/ r.seen = None /\ r.pc = "done"
         \/ /\ sight[p] \subseteq sight'[p]
            /\ Active(tx[p]) /\ tx[p].op \in Viewers =>
                 Prospect(tx[p].user) \subseteq sight'[p]
  <2>1. r \in SocialRequest
    BY DEF Proper
  <2> QED
    BY <2>1, SetFacts
<1>2. \A w \in Users : Pledged(r, w) => w \in sight'[p]
  <2>1. CASE r.seen = None /\ r.pc = "done"
    BY <2>1 DEF Pledged
  <2>2. CASE /\ sight[p] \subseteq sight'[p]
             /\ Active(tx[p]) /\ tx[p].op \in Viewers =>
                  Prospect(tx[p].user) \subseteq sight'[p]
    BY <2>2 DEF Sighted
  <2> QED
    BY <1>1, <2>1, <2>2
<1>3. ASSUME NEW q \in Requests
      PROVE  /\ Proper(tx'[q]) /\ Holds(tx'[q], post', follows')
             /\ \A w \in Users : Pledged(tx'[q], w) => w \in sight'[q]
  <2>1. CASE q = p
    BY <1>1, <1>2, <2>1
  <2>2. CASE q # p
    <3>1. \A w \in Users : Pledged(tx[q], w) => w \in sight[q]
      BY DEF SocialInv
    <3> QED
      BY <1>1, <2>2, <3>1, SocialTypes
  <2> QED
    BY <2>1, <2>2
<1>4. WritersApart'
  <2> SUFFICES ASSUME NEW q \in Requests, NEW s \in Requests, q # s
               PROVE  /\ Writes(tx'[q]) /\ Writes(tx'[s]) => tx'[q].post # tx'[s].post
                      /\ Adding(tx'[q]) /\ Adding(tx'[s]) =>
                           <<tx'[q].user, tx'[q].pet>> # <<tx'[s].user, tx'[s].pet>>
    BY DEF WritersApart, Writes, Adding
  <2>1. CASE q # p /\ s # p
    BY <1>1, <2>1 DEF SocialInv, WritersApart
  <2>2. CASE q = p
    BY <1>1, <2>2
  <2>3. CASE s = p
    BY <1>1, <2>3
  <2> QED
    BY <2>1, <2>2, <2>3
<1> QED
  BY <1>1, <1>3, <1>4 DEF SocialInv, Proper, Holds, Pledged, Handler, Inputs, Filling, Writes,
     Adding, Active

\* The tables stay as they are.
LEMMA StepKeeps ==
  ASSUME SocialInv, NEW p \in Requests, NEW r, Proper(r), Step(p, r),
         Holds(r, post, follows),
         \A w \in Users : Pledged(r, w) => Sighted(p, w),
         \A q \in Requests \ {p} :
           /\ Writes(r) /\ Writes(tx[q]) => tx[q].post # r.post
           /\ Adding(r) /\ Adding(tx[q]) =>
                <<tx[q].user, tx[q].pet>> # <<r.user, r.pet>>
  PROVE  SocialInv'
<1>1. /\ Set(p, r)
      /\ UNCHANGED <<pet, private, departed, post, ties, stories, reports, follows, notices,
                     unfollowed, blocks, mutes>>
  BY DEF Step, accounts, content, fans, safety
<1>2. Tables'
  BY <1>1 DEF SocialInv, Tables, EveryFollowIsTold, Covered
<1>3. Holds(r, post', follows') /\ \A q \in Requests : Holds(tx[q], post', follows')
  BY <1>1, SocialTypes
<1> QED
  BY <1>1, <1>2, <1>3, SetKeeps

LEMMA DoneFacts ==
  ASSUME NEW r \in SocialRequest, r.pc = "done", r.fresh = FALSE, r.page \in Lists
  PROVE  /\ Proper(r) /\ ~Writes(r) /\ ~Adding(r) /\ \A P, F : Holds(r, P, F)
         /\ \A w \in Users : Pledged(r, w) => r.seen = w
BY DEF Proper, Handler, Inputs, Filling, Holds, Pledged, Writes, Adding, Active, PetStages,
   PostStages, UserStages

\* A request ends, having changed at most tables other than posts and follows.
LEMMA DoneKeeps ==
  ASSUME SocialInv, NEW p \in Requests, NEW r \in SocialRequest,
         r.pc = "done", r.fresh = FALSE, r.page \in Lists, Set(p, r), Tables',
         UNCHANGED <<post, follows>>,
         r.seen # None => Sighted(p, r.seen)
  PROVE  SocialInv'
<1>1. \A q \in Requests : Holds(tx[q], post', follows')
  BY SocialTypes
<1>2. /\ Proper(r) /\ ~Writes(r) /\ ~Adding(r) /\ Holds(r, post', follows')
      /\ \A w \in Users : Pledged(r, w) => r.seen = w
  BY DoneFacts
<1>3. \A w \in Users : Pledged(r, w) => r.seen # None
  BY <1>2, SocialNoneAssumption
<1> QED
  BY <1>1, <1>2, <1>3, SetKeeps

LEMMA EndKeeps ==
  ASSUME SocialInv, NEW p \in Requests, End(p)
  PROVE  SocialInv'
<1>1. /\ Set(p, Finished)
      /\ UNCHANGED <<pet, private, departed, post, ties, stories, reports, follows, notices,
                     unfollowed, blocks, mutes>>
  BY DEF End, Step, accounts, content, fans, safety
<1>2. Tables'
  BY <1>1 DEF SocialInv, Tables, EveryFollowIsTold, Covered
<1> QED
  BY <1>1, <1>2, RequestFacts, ListFacts, DoneKeeps

LEMMA AnswerKeeps ==
  ASSUME SocialInv, NEW p \in Requests, NEW w \in Users, NEW s \in Pets \cup {None},
         NEW l \in Lists, Answer(p, w, s, l), Sighted(p, w)
  PROVE  SocialInv'
<1> PICK f \in SocialRequest : f = Finished /\ f.pc = "done" /\ f.fresh = FALSE
  BY RequestFacts
<1>1. PICK r : r = [f EXCEPT !.seen = w, !.shown = s, !.page = l]
  OBVIOUS
<1>0. l \in Seq(Media)
  BY ListFacts
<1>2. /\ r \in SocialRequest /\ r.pc = "done" /\ r.fresh = FALSE /\ r.page = l
      /\ r.seen = w
  BY ZenonT(60), <1>0, <1>1 DEF SocialRequest
<1>3. /\ Set(p, r)
      /\ UNCHANGED <<pet, private, departed, post, ties, stories, reports, follows, notices,
                     unfollowed, blocks, mutes>>
  BY <1>1 DEF Answer, Step, accounts, content, fans, safety
<1>4. Tables'
  BY <1>3 DEF SocialInv, Tables, EveryFollowIsTold, Covered
<1> QED
  BY <1>2, <1>3, <1>4, DoneKeeps

\* A page of other users, of whom l is one.
LEMMA ListKeeps ==
  ASSUME SocialInv, NEW p \in Requests, NEW w \in Users \cup {None},
         NEW l \in Users \cup {None},
         Step(p, [Finished EXCEPT !.seen = w, !.listed = l]),
         w # None => Sighted(p, w)
  PROVE  SocialInv'
<1> PICK f \in SocialRequest : f = Finished /\ f.pc = "done" /\ f.fresh = FALSE
                                 /\ f.page = <<>>
  BY RequestFacts
<1>1. PICK r : r = [f EXCEPT !.seen = w, !.listed = l]
  OBVIOUS
<1>2. /\ r \in SocialRequest /\ r.pc = "done" /\ r.fresh = FALSE /\ r.page = <<>>
      /\ r.seen = w
  <2>1. r \in SocialRequest
    <3>1. PICK g : g = [f EXCEPT !.seen = w]
      OBVIOUS
    <3>2. g \in SocialRequest
      BY <3>1 DEF SocialRequest
    <3>3. r = [g EXCEPT !.listed = l]
      BY <1>1, <3>1
    <3> QED
      BY <3>2, <3>3 DEF SocialRequest
  <2>2. r.pc = f.pc /\ r.fresh = f.fresh /\ r.page = f.page /\ r.seen = w
    BY ZenonT(60), <1>1 DEF SocialRequest
  <2> QED
    BY <2>1, <2>2
<1>3. /\ Set(p, r)
      /\ UNCHANGED <<pet, private, departed, post, ties, stories, reports, follows, notices,
                     unfollowed, blocks, mutes>>
  BY <1>1 DEF Step, accounts, content, fans, safety
<1>4. Tables'
  BY <1>3 DEF SocialInv, Tables, EveryFollowIsTold, Covered
<1> QED
  BY <1>2, <1>3, <1>4, ListFacts, DoneKeeps

-----------------------------------------------------------------------------
(* Reads, and the rules of visibility.                                     *)

\* A request goes to another statement of its handler, with what it has read
\* or written.
LEMMA HopFacts ==
  ASSUME NEW o \in SocialRequest, NEW pc \in Statements
  PROVE  \E r \in SocialRequest :
           /\ r = [o EXCEPT !.pc = pc] /\ r.pc = pc /\ r.op = o.op /\ r.user = o.user
           /\ r.pet = o.pet /\ r.post = o.post /\ r.other = o.other /\ r.set = o.set
           /\ r.list = o.list /\ r.put = o.put /\ r.row = o.row /\ r.fresh = o.fresh
           /\ r.page = o.page /\ r.seen = o.seen
<1>1. PICK r : r = [o EXCEPT !.pc = pc]
  OBVIOUS
<1>2. r \in SocialRequest
  BY <1>1 DEF SocialRequest
<1> QED
  BY <1>1, <1>2 DEF SocialRequest

\* The same with more than the statement changed: the pet that may be shown, the
\* row of a page, the user that is shown, an insert, a carousel.
Showing(o, pc, s) == [o EXCEPT !.pc = pc, !.shown = s]

LEMMA ShowingFacts ==
  ASSUME NEW o \in SocialRequest, NEW pc \in Statements, NEW s \in Pets \cup {None}
  PROVE  \E r \in SocialRequest :
           /\ r = Showing(o, pc, s) /\ r.pc = pc /\ r.op = o.op /\ r.user = o.user
           /\ r.pet = o.pet /\ r.post = o.post /\ r.other = o.other /\ r.set = o.set
           /\ r.list = o.list /\ r.put = o.put /\ r.row = o.row /\ r.fresh = o.fresh
           /\ r.page = o.page /\ r.seen = o.seen
<1>1. PICK r : r = [o EXCEPT !.pc = pc, !.shown = s]
  OBVIOUS
<1>2. r \in SocialRequest
  BY <1>1 DEF SocialRequest
<1> QED
  BY <1>1, <1>2 DEF Showing, SocialRequest

RowFound(o, pc, x, a) == [o EXCEPT !.pc = pc, !.post = x, !.pet = a]

LEMMA RowFoundFacts ==
  ASSUME NEW o \in SocialRequest, NEW pc \in Statements, NEW x \in Posts, NEW a \in Pets
  PROVE  \E r \in SocialRequest :
           /\ r = RowFound(o, pc, x, a) /\ r.pc = pc /\ r.op = o.op /\ r.user = o.user
           /\ r.pet = a /\ r.post = x /\ r.other = o.other /\ r.set = o.set
           /\ r.list = o.list /\ r.put = o.put /\ r.row = o.row /\ r.fresh = o.fresh
           /\ r.page = o.page /\ r.seen = o.seen
<1>1. PICK r : r = [o EXCEPT !.pc = pc, !.post = x, !.pet = a]
  OBVIOUS
<1>2. r \in SocialRequest
  BY <1>1 DEF SocialRequest
<1> QED
  BY <1>1, <1>2 DEF RowFound, SocialRequest

Pledging(o, pc, w) == [o EXCEPT !.pc = pc, !.seen = w]

LEMMA PledgingFacts ==
  ASSUME NEW o \in SocialRequest, NEW pc \in Statements, NEW w \in Users \cup {None}
  PROVE  \E r \in SocialRequest :
           /\ r = Pledging(o, pc, w) /\ r.pc = pc /\ r.op = o.op /\ r.user = o.user
           /\ r.pet = o.pet /\ r.post = o.post /\ r.other = o.other /\ r.set = o.set
           /\ r.list = o.list /\ r.put = o.put /\ r.row = o.row /\ r.fresh = o.fresh
           /\ r.page = o.page /\ r.seen = w
<1>1. PICK r : r = [o EXCEPT !.pc = pc, !.seen = w]
  OBVIOUS
<1>2. r \in SocialRequest
  BY <1>1 DEF SocialRequest
<1> QED
  BY <1>1, <1>2 DEF Pledging, SocialRequest

AddingRow(o, pc, new) == [o EXCEPT !.pc = pc, !.fresh = new]

LEMMA AddingFacts ==
  ASSUME NEW o \in SocialRequest, NEW pc \in Statements, NEW new \in BOOLEAN
  PROVE  \E r \in SocialRequest :
           /\ r = AddingRow(o, pc, new) /\ r.pc = pc /\ r.op = o.op /\ r.user = o.user
           /\ r.pet = o.pet /\ r.post = o.post /\ r.other = o.other /\ r.set = o.set
           /\ r.list = o.list /\ r.put = o.put /\ r.row = o.row /\ r.fresh = new
           /\ r.page = o.page /\ r.seen = o.seen
<1>1. PICK r : r = [o EXCEPT !.pc = pc, !.fresh = new]
  OBVIOUS
<1>2. r \in SocialRequest
  BY <1>1 DEF SocialRequest
<1> QED
  BY <1>1, <1>2 DEF AddingRow, SocialRequest

Posting(o, pc, x, row) == [o EXCEPT !.pc = pc, !.post = x, !.fresh = TRUE, !.row = row]

LEMMA PostingFacts ==
  ASSUME NEW o \in SocialRequest, NEW pc \in Statements, NEW x \in Posts,
         NEW row \in PostRow
  PROVE  \E r \in SocialRequest :
           /\ r = Posting(o, pc, x, row) /\ r.pc = pc /\ r.op = o.op /\ r.user = o.user
           /\ r.pet = o.pet /\ r.post = x /\ r.other = o.other /\ r.set = o.set
           /\ r.list = o.list /\ r.put = o.put /\ r.row = row
           /\ r.page = o.page /\ r.seen = o.seen
<1>1. PICK r : r = [o EXCEPT !.pc = pc, !.post = x, !.fresh = TRUE, !.row = row]
  OBVIOUS
<1>2. r \in SocialRequest
  BY <1>1 DEF SocialRequest
<1> QED
  BY <1>1, <1>2 DEF Posting, SocialRequest

Editing(o, pc, row) == [o EXCEPT !.pc = pc, !.row = row]

LEMMA EditingFacts ==
  ASSUME NEW o \in SocialRequest, NEW pc \in Statements, NEW row \in PostRow
  PROVE  \E r \in SocialRequest :
           /\ r = Editing(o, pc, row) /\ r.pc = pc /\ r.op = o.op /\ r.user = o.user
           /\ r.pet = o.pet /\ r.post = o.post /\ r.other = o.other /\ r.set = o.set
           /\ r.list = o.list /\ r.put = o.put /\ r.row = row /\ r.fresh = o.fresh
           /\ r.page = o.page /\ r.seen = o.seen
<1>1. PICK r : r = [o EXCEPT !.pc = pc, !.row = row]
  OBVIOUS
<1>2. r \in SocialRequest
  BY <1>1 DEF SocialRequest
<1> QED
  BY <1>1, <1>2 DEF Editing, SocialRequest

\* Whom a request has pledged to show it has seen already.
LEMMA PledgesAreSeen ==
  ASSUME SocialInv, NEW p \in Requests, NEW w \in Users, Pledged(tx[p], w)
  PROVE  Sighted(p, w)
BY DEF SocialInv, Sighted

\* What a request may look at now it may show.
LEMMA SeesNow ==
  ASSUME SocialInv, NEW p \in Requests, NEW w \in Users, Active(tx[p]), tx[p].op \in Viewers,
         ~Apart(tx[p].user, w)
  PROVE  Sighted(p, w)
BY Visible DEF Sighted

LEMMA PostFacts ==
  ASSUME SocialInv, NEW x \in Posts, post[x] # NoPost
  PROVE  /\ post[x] \in PostRow /\ post[x].pet \in Pets /\ OwnerOf[post[x].pet] \in Users
         /\ Covered(post[x]) /\ post[x].gone \in BOOLEAN
<1>1. post[x] \in PostRow /\ Covered(post[x])
  BY SocialTypes DEF Tables
<1> QED
  BY <1>1, OwnerOfAssumption DEF PostRow

LEMMA CheckPetKeeps ==
  ASSUME SocialInv, NEW p \in Requests, CheckPet(p)
  PROVE  SocialInv'
<1> PICK o \in SocialRequest : o = tx[p]
  BY SocialTypes
<1>1. /\ o.pc = "forPet" /\ o.user \in Users /\ o.pet \in Pets /\ OwnerOf[o.pet] \in Users
      /\ o.op \in {"getPet", "petPosts", "petStories", "follow", "unfollow"}
      /\ Proper(o) /\ Holds(o, post, follows)
  <2>1. Proper(o) /\ Holds(o, post, follows) /\ Handler(o) /\ Inputs(o) /\ o.pc = "forPet"
    BY SocialTypes DEF CheckPet
  <2> QED
    BY <2>1, OwnerOfAssumption DEF Handler, Inputs, Active, PetStages
<1>2. CASE End(p)
  BY <1>2, EndKeeps
<1>3. CASE ~End(p)
  <2>1. /\ ForPet(o.user, o.pet)
        /\ Step(p, [o EXCEPT
             !.pc = CASE o.op = "getPet" -> "readPet"
                      [] o.op = "follow" -> "insertFollow"
                      [] o.op = "unfollow" -> "deleteFollow"
                      [] OTHER -> "rows",
             !.shown = IF o.op = "getPet" /\ Restricted(o.user, o.pet) THEN None
                       ELSE o.pet])
    BY <1>3 DEF CheckPet
  <2>2. PICK pc, s :
          /\ pc = CASE o.op = "getPet" -> "readPet"
                    [] o.op = "follow" -> "insertFollow"
                    [] o.op = "unfollow" -> "deleteFollow"
                    [] OTHER -> "rows"
          /\ s = IF o.op = "getPet" /\ Restricted(o.user, o.pet) THEN None ELSE o.pet
    OBVIOUS
  <2>3. /\ pc \in Statements /\ s \in Pets \cup {None}
        /\ \/ pc = "readPet" /\ o.op = "getPet"
           \/ pc = "insertFollow" /\ o.op = "follow"
           \/ pc = "deleteFollow" /\ o.op = "unfollow"
           \/ pc = "rows" /\ o.op \in {"petPosts", "petStories"}
    BY <1>1, <2>2 DEF Statements
  <2>5. pc \in Statements /\ s \in Pets \cup {None}
    BY <2>3
  <2>6. PICK r \in SocialRequest :
          /\ r = Showing(o, pc, s) /\ r.pc = pc /\ r.op = o.op /\ r.user = o.user
          /\ r.pet = o.pet /\ r.post = o.post /\ r.other = o.other /\ r.row = o.row
          /\ r.fresh = o.fresh /\ r.page = o.page /\ r.seen = o.seen
    BY <2>5, ShowingFacts
  <2>7. Proper(r) /\ ~Writes(r)
    BY <1>1, <2>3, <2>6 DEF Proper, Handler, Inputs, Filling, Writes, Active, PetStages,
       PostStages, UserStages
  <2>8. Holds(r, post, follows) /\ (Adding(r) => Adding(o))
    BY <1>1, <2>3, <2>6 DEF Holds, Writes, Adding
  <2>9. \A w \in Users : Pledged(r, w) => Sighted(p, w)
    <3> SUFFICES ASSUME NEW w \in Users, Pledged(r, w) PROVE Sighted(p, w)
      OBVIOUS
    <3>1. CASE r.seen # None /\ w = r.seen
      BY <2>6, <3>1, PledgesAreSeen DEF Pledged
    <3>2. CASE ~(r.seen # None /\ w = r.seen)
      <4>1. w = OwnerOf[o.pet] /\ o.op \in {"getPet", "follow", "petPosts", "petStories"}
        BY <1>1, <2>3, <2>6, <3>2 DEF Pledged
      <4>2. ~Apart(o.user, w)
        BY <2>1, <4>1 DEF ForPet
      <4>3. Active(o) /\ o.op \in Viewers
        BY <1>1, <4>1 DEF Active, Viewers
      <4> QED
        BY <4>2, <4>3, SeesNow
    <3> QED
      BY <3>1, <3>2
  <2>10. \A q \in Requests \ {p} : Adding(r) /\ Adding(tx[q]) =>
           <<tx[q].user, tx[q].pet>> # <<r.user, r.pet>>
    BY <2>6, <2>8 DEF SocialInv, WritersApart
  <2>11. Step(p, r)
    BY <2>1, <2>2, <2>6 DEF Showing
  <2> QED
    BY <2>7, <2>8, <2>9, <2>10, <2>11, StepKeeps
<1> QED
  BY <1>2, <1>3

LEMMA ReadPetKeeps ==
  ASSUME SocialInv, NEW p \in Requests, ReadPet(p)
  PROVE  SocialInv'
<1> PICK o \in SocialRequest : o = tx[p]
  BY SocialTypes
<1>1. /\ OwnerOf[o.pet] \in Users /\ o.shown \in Pets \cup {None} /\ o.pc = "readPet"
  <2>1. Inputs(o) /\ o.pc = "readPet"
    BY SocialTypes DEF ReadPet
  <2> QED
    BY <2>1, OwnerOfAssumption DEF Inputs, PetStages, SocialRequest
<1>2. Sighted(p, OwnerOf[o.pet])
  BY <1>1, PledgesAreSeen DEF Pledged
<1>3. <<>> \in Lists
  BY ListFacts
<1>4. End(p) \/ Answer(p, OwnerOf[o.pet], o.shown, <<>>)
  BY DEF ReadPet
<1> QED
  BY <1>1, <1>2, <1>3, <1>4, EndKeeps, AnswerKeeps

LEMMA PostRowsKeeps ==
  ASSUME SocialInv, NEW p \in Requests, PostRows(p)
  PROVE  SocialInv'
<1> PICK o \in SocialRequest : o = tx[p]
  BY SocialTypes
<1>1. /\ o.pc = "rows" /\ Proper(o) /\ Holds(o, post, follows) /\ o.user \in Users
  BY SocialTypes DEF PostRows, Inputs, Active
<1>2. PICK x \in Posts :
        /\ Listed(o, x)
        /\ Step(p, [o EXCEPT !.pc = "attach", !.post = x, !.pet = post[x].pet])
  BY DEF PostRows
<1>3. post[x] # NoPost /\ o.op \in {"feed", "petPosts", "postByID"}
  BY <1>2 DEF Listed, InFeed, CanViewPost, Readable, Live
<1>4. PICK a \in Pets : a = post[x].pet /\ OwnerOf[a] \in Users
  BY <1>3, PostFacts
<1>7. PICK r \in SocialRequest :
        /\ r = RowFound(o, "attach", x, a)
        /\ r.pc = "attach" /\ r.op = o.op /\ r.user = o.user /\ r.pet = a /\ r.post = x
        /\ r.other = o.other /\ r.row = o.row /\ r.fresh = o.fresh /\ r.page = o.page
        /\ r.seen = o.seen
  <2>1. "attach" \in Statements
    BY DEF Statements
  <2> QED
    BY <1>2, <1>4, <2>1, RowFoundFacts
<1>8. Proper(r) /\ ~Writes(r) /\ ~Adding(r) /\ Holds(r, post, follows)
  BY <1>1, <1>3, <1>4, <1>7 DEF Proper, Handler, Inputs, Filling, Writes, Active, PetStages,
     PostStages, UserStages, Adding, Holds
<1>9. Sighted(p, OwnerOf[a])
  <2>1. Active(o) /\ o.op \in Viewers
    BY <1>1, <1>3 DEF Active, Viewers
  <2>2. CASE o.op = "feed"
    <3>1. ~Apart(o.user, OwnerOf[a])
      BY <1>2, <1>4, <2>2 DEF Listed, InFeed, CanViewPost, Author
    <3> QED
      BY <1>4, <2>1, <3>1, SeesNow
  <2>3. CASE o.op = "petPosts"
    <3>1. o.pet = a
      BY <1>2, <1>4, <2>3 DEF Listed
    <3> QED
      BY <1>1, <1>4, <2>3, <3>1, PledgesAreSeen DEF Pledged
  <2>4. CASE o.op = "postByID"
    <3>1. OwnerOf[a] = o.user
      BY <1>1, <1>2, <1>4, <2>4 DEF Listed, Holds
    <3>2. ~Apart(o.user, OwnerOf[a])
      BY <1>4, <3>1, SocialTypes DEF Apart, Tables
    <3> QED
      BY <1>4, <2>1, <3>2, SeesNow
  <2> QED
    BY <1>3, <2>2, <2>3, <2>4
<1>10. \A w \in Users : Pledged(r, w) => Sighted(p, w)
  <2> SUFFICES ASSUME NEW w \in Users, Pledged(r, w) PROVE Sighted(p, w)
    OBVIOUS
  <2>1. CASE r.seen # None /\ w = r.seen
    BY <1>7, <2>1, PledgesAreSeen DEF Pledged
  <2>2. CASE w = OwnerOf[a]
    BY <1>9, <2>2
  <2> QED
    BY <1>7, <2>1, <2>2 DEF Pledged
<1>11. Step(p, r)
  BY <1>2, <1>4, <1>7 DEF RowFound
<1> QED
  BY <1>8, <1>10, <1>11, StepKeeps

LEMMA AttachMediaKeeps ==
  ASSUME SocialInv, NEW p \in Requests, AttachMedia(p)
  PROVE  SocialInv'
<1> PICK o \in SocialRequest : o = tx[p]
  BY SocialTypes
<1>1. o.pc = "attach" /\ o.post \in Posts /\ o.pet \in Pets /\ OwnerOf[o.pet] \in Users
  <2>1. Inputs(o) /\ o.pc = "attach"
    BY SocialTypes DEF AttachMedia
  <2> QED
    BY <2>1, OwnerOfAssumption DEF Inputs, PetStages, PostStages
<1>2. post[o.post].media \in Lists
  <2>1. CASE post[o.post] = NoPost
    BY <2>1, ListFacts DEF NoPost
  <2>2. CASE post[o.post] # NoPost
    BY <1>1, <2>2, PostFacts DEF Covered
  <2> QED
    BY <2>1, <2>2
<1>3. Sighted(p, OwnerOf[o.pet])
  BY <1>1, PledgesAreSeen DEF Pledged
<1>4. PICK s \in Pets \cup {None} : Answer(p, OwnerOf[o.pet], s, post[o.post].media)
  BY <1>1 DEF AttachMedia
<1> QED
  BY <1>1, <1>2, <1>3, <1>4, AnswerKeeps

LEMMA StoryRowsKeeps ==
  ASSUME SocialInv, NEW p \in Requests, StoryRows(p)
  PROVE  SocialInv'
<1> PICK o \in SocialRequest : o = tx[p]
  BY SocialTypes
<1>1. PICK a \in Pets :
        /\ \/ o.op = "stories" /\ ~Apart(o.user, OwnerOf[a])
           \/ o.op = "petStories" /\ a = o.pet
        /\ Answer(p, OwnerOf[a], a, <<>>)
  BY DEF StoryRows
<1>2. o.pc = "rows" /\ Active(o) /\ OwnerOf[a] \in Users /\ <<>> \in Lists
  BY OwnerOfAssumption, ListFacts DEF StoryRows, Active
<1>3. Sighted(p, OwnerOf[a])
  <2>1. CASE o.op = "stories" /\ ~Apart(o.user, OwnerOf[a])
    BY <1>2, <2>1, SeesNow DEF Viewers
  <2>2. CASE o.op = "petStories" /\ a = o.pet
    BY <1>2, <2>2, PledgesAreSeen DEF Pledged
  <2> QED
    BY <1>1, <2>1, <2>2
<1> QED
  BY <1>1, <1>2, <1>3, AnswerKeeps

LEMMA NearbyRowsKeeps ==
  ASSUME SocialInv, NEW p \in Requests, NearbyRows(p)
  PROVE  SocialInv'
<1>1. PICK a \in Pets : Discoverable(tx[p].user, a) /\ Answer(p, OwnerOf[a], a, <<>>)
  BY DEF NearbyRows
<1>2. Active(tx[p]) /\ tx[p].op \in Viewers /\ OwnerOf[a] \in Users /\ <<>> \in Lists
  BY OwnerOfAssumption, ListFacts DEF NearbyRows, Active, Viewers
<1>3. Sighted(p, OwnerOf[a])
  BY <1>1, <1>2, SeesNow DEF Discoverable
<1> QED
  BY <1>1, <1>2, <1>3, AnswerKeeps

LEMMA UsersKeep ==
  ASSUME SocialInv, NEW p \in Requests, CheckUser(p) \/ ListFollowers(p)
  PROVE  SocialInv'
<1> PICK o \in SocialRequest : o = tx[p]
  BY SocialTypes
<1>1. /\ o.pc \in {"forUser", "listUsers"} /\ o.other \in Users /\ Active(o)
      /\ Proper(o) /\ Handler(o) /\ Inputs(o)
  <2>1. o.pc \in {"forUser", "listUsers"} /\ Inputs(o)
    BY SocialTypes DEF CheckUser, ListFollowers
  <2> QED
    BY <2>1, SocialTypes DEF Inputs, UserStages, Active
<1>2. <<>> \in Lists
  BY ListFacts
<1>3. CASE ListFollowers(p)
  <2>1. Sighted(p, o.other)
    BY <1>1, <1>3, PledgesAreSeen DEF Pledged, ListFollowers
  <2>2. PICK l \in Users \cup {None} :
          Step(p, [Finished EXCEPT !.seen = o.other, !.listed = l])
    BY <1>3 DEF ListFollowers
  <2> QED
    BY <1>1, <2>1, <2>2, ListKeeps
<1>4. CASE CheckUser(p) /\ ~End(p)
  <2>1. ForUser(o.user, o.other) /\ o.pc = "forUser"
    BY <1>4 DEF CheckUser
  <2>2. Sighted(p, o.other)
    BY <1>1, <2>1, SeesNow DEF ForUser, Handler, Viewers
  <2>3. CASE Answer(p, o.other, None, <<>>)
    BY <1>1, <1>2, <2>2, <2>3, AnswerKeeps
  <2>4. CASE Step(p, [o EXCEPT !.pc = "listUsers"])
    <3>1. PICK r \in SocialRequest :
           /\ r = [o EXCEPT !.pc = "listUsers"] /\ r.pc = "listUsers" /\ r.op = o.op
           /\ r.user = o.user /\ r.other = o.other /\ r.fresh = o.fresh
           /\ r.page = o.page /\ r.seen = o.seen
      <4>1. "listUsers" \in Statements
        BY DEF Statements
      <4> QED
        BY <4>1, HopFacts
    <3>2. Proper(r) /\ ~Writes(r) /\ ~Adding(r) /\ Holds(r, post, follows)
      BY <1>1, <2>1, <3>1 DEF Proper, Handler, Inputs, Filling, Writes, Active, PetStages,
         PostStages, UserStages, Adding, Holds
    <3>3. ASSUME NEW w \in Users, Pledged(r, w) PROVE Sighted(p, w)
      <4>1. w = o.other \/ Pledged(o, w)
        BY <3>1, <3>3 DEF Pledged
      <4> QED
        BY <2>2, <4>1, PledgesAreSeen
    <3> QED
      BY <2>4, <3>1, <3>2, <3>3, StepKeeps
  <2> QED
    BY <1>4, <2>1, <2>3, <2>4 DEF CheckUser
<1> QED
  BY <1>3, <1>4, EndKeeps

-----------------------------------------------------------------------------
(* Statements that only check or lock.                                     *)

\* A request goes on within its transaction, which stays as it was.
LEMMA HopKeeps ==
  ASSUME SocialInv, NEW p \in Requests, NEW r \in SocialRequest, Step(p, r),
         r.op = tx[p].op, r.user = tx[p].user, r.pet = tx[p].pet, r.fresh = tx[p].fresh,
         r.seen = tx[p].seen, r.page = tx[p].page, r.pc # "media", r.pc # "deleteMedia",
         Handler(r), Inputs(r), Filling(r), ~(r.pc = "rows" /\ r.op = "postByID"),
         r.pc \in {"actor", "touch"} => post[r.post] # NoPost,
         \A w \in Users : Pledged(r, w) => Pledged(tx[p], w)
  PROVE  SocialInv'
<1>1. Proper(r) /\ ~Writes(r)
  BY SocialTypes DEF Proper, Writes
<1>2. Holds(r, post, follows) /\ (Adding(r) => Adding(tx[p]))
  BY <1>1, SocialTypes DEF Holds, Writes, Adding
<1>3. \A q \in Requests \ {p} : Adding(r) /\ Adding(tx[q]) =>
        <<tx[q].user, tx[q].pet>> # <<r.user, r.pet>>
  BY <1>2 DEF SocialInv, WritersApart
<1>4. \A w \in Users : Pledged(r, w) => Sighted(p, w)
  BY PledgesAreSeen
<1> QED
  BY <1>1, <1>2, <1>3, <1>4, StepKeeps

LEMMA HopsKeep ==
  ASSUME SocialInv, NEW p \in Requests, NEW pc \in Statements,
         Step(p, [tx[p] EXCEPT !.pc = pc]),
         \/ pc = "rows" /\ tx[p].op = "discover"
         \/ pc = "touch" /\ tx[p].pc = "actor"
         \/ pc = "commit" /\ tx[p].pc \in {"notify", "deletePets"}
         \/ pc = "insertBlock" /\ tx[p].pc = "target" /\ tx[p].op = "block"
         \/ pc = "insertMute" /\ tx[p].pc = "target" /\ tx[p].op # "block"
         \/ pc = "deletePets" /\ tx[p].pc = "lockUser",
         Active(tx[p])
  PROVE  SocialInv'
<1> PICK o \in SocialRequest : o = tx[p]
  BY SocialTypes
<1>1. Handler(o) /\ Inputs(o) /\ Holds(o, post, follows)
  BY SocialTypes
<1>2. PICK r \in SocialRequest :
        /\ r = [o EXCEPT !.pc = pc] /\ r.pc = pc /\ r.op = o.op /\ r.user = o.user
        /\ r.pet = o.pet /\ r.post = o.post /\ r.other = o.other /\ r.set = o.set
        /\ r.fresh = o.fresh /\ r.page = o.page /\ r.seen = o.seen
  BY HopFacts
<1>3. Handler(r) /\ Inputs(r) /\ Filling(r)
  BY <1>1, <1>2 DEF Handler, Inputs, Filling, Active, PetStages, PostStages, UserStages
<1>4. r.pc \in {"actor", "touch"} => post[r.post] # NoPost
  BY <1>1, <1>2 DEF Holds
<1>5. \A w \in Users : Pledged(r, w) => Pledged(o, w)
  BY <1>1, <1>2 DEF Pledged, Handler
<1>6. r.pc \notin {"media", "deleteMedia"} /\ ~(r.pc = "rows" /\ r.op = "postByID")
  BY <1>2
<1>7. Step(p, r)
  BY <1>2
<1> QED
  BY ZenonT(60), <1>2, <1>3, <1>4, <1>5, <1>6, <1>7, HopKeeps

LEMMA ChecksKeep ==
  ASSUME SocialInv, NEW p \in Requests,
         CheckSource(p) \/ CheckActor(p) \/ Notify(p) \/ CheckTarget(p) \/ LockUser(p)
           \/ DeletePets(p)
  PROVE  SocialInv'
<1>1. CASE End(p)
  BY <1>1, EndKeeps
<1>2. CASE ~End(p)
  <2>0. Handler(tx[p])
    BY SocialTypes
  <2>1. \E pc \in Statements :
          /\ Step(p, [tx[p] EXCEPT !.pc = pc])
          /\ \/ pc = "rows" /\ tx[p].op = "discover"
             \/ pc = "touch" /\ tx[p].pc = "actor"
             \/ pc = "commit" /\ tx[p].pc \in {"notify", "deletePets"}
             \/ pc = "insertBlock" /\ tx[p].pc = "target" /\ tx[p].op = "block"
             \/ pc = "insertMute" /\ tx[p].pc = "target" /\ tx[p].op # "block"
             \/ pc = "deletePets" /\ tx[p].pc = "lockUser"
    <3> {"rows", "touch", "commit", "insertBlock", "insertMute", "deletePets"} \subseteq Statements
      BY DEF Statements
    <3>1. CASE CheckSource(p)
      BY <1>2, <2>0, <3>1 DEF CheckSource, Handler
    <3>2. CASE CheckActor(p)
      BY <1>2, <3>2 DEF CheckActor
    <3>3. CASE Notify(p)
      BY <3>3 DEF Notify
    <3>4. CASE CheckTarget(p)
      <4>1. CASE tx[p].op = "block"
        BY <1>2, <3>4, <4>1 DEF CheckTarget
      <4>2. CASE tx[p].op # "block"
        BY <1>2, <3>4, <4>2 DEF CheckTarget
      <4> QED
        BY <4>1, <4>2
    <3>5. CASE LockUser(p)
      BY <1>2, <3>5 DEF LockUser
    <3>6. CASE DeletePets(p)
      BY <3>6 DEF DeletePets
    <3> QED
      BY <3>1, <3>2, <3>3, <3>4, <3>5, <3>6
  <2>2. Active(tx[p])
    BY DEF CheckSource, CheckActor, Notify, CheckTarget, LockUser, DeletePets, Active
  <2> QED
    BY <2>1, <2>2, HopsKeep
<1> QED
  BY <1>1, <1>2

-----------------------------------------------------------------------------
(* Statements that end their request.                                      *)


LEMMA TouchKeeps ==
  ASSUME SocialInv, NEW p \in Requests, Touch(p)
  PROVE  SocialInv'
<1> PICK o \in SocialRequest : o = tx[p]
  BY SocialTypes
<1>1. /\ o.pc = "touch" /\ o.user \in Users /\ o.post \in Posts /\ post[o.post] # NoPost
      /\ o.op \in {"like", "unlike", "save", "unsave", "comment", "comments", "report"}
      /\ o.seen \in Users \cup {None}
  <2>1. o.pc = "touch" /\ Inputs(o) /\ Handler(o) /\ Holds(o, post, follows)
    BY SocialTypes DEF Touch
  <2> QED
    BY <2>1 DEF Inputs, Handler, Holds, PostStages, Active, SocialRequest
<1>2. PICK f \in SocialRequest : f = Finished /\ f.pc = "done" /\ f.fresh = FALSE
                                 /\ f.page = <<>>
  BY RequestFacts
<1>3. PICK r : r = [f EXCEPT !.seen = o.seen]
  OBVIOUS
<1>4. /\ r \in SocialRequest /\ r.pc = "done" /\ r.fresh = FALSE /\ r.page = <<>>
      /\ r.seen = o.seen
  BY <1>1, <1>2, <1>3 DEF SocialRequest
<1>5. Set(p, r) /\ UNCHANGED <<pet, private, departed, post, stories, follows, notices,
                               unfollowed, blocks, mutes>>
  BY <1>2, <1>3 DEF Touch, accounts, fans, safety
<1>6. Author(o.post) \in Users
  BY <1>1, PostFacts DEF Author
<1>7. ties' \subseteq Tie /\ reports' \subseteq Users \X Users
  <2>1. ties \subseteq Tie /\ reports \subseteq Users \X Users
    BY SocialTypes DEF Tables
  <2>2. reports' \subseteq reports \cup {<<o.user, Author(o.post)>>}
    BY DEF Touch
  <2>3. ties' \subseteq ties
          \cup {<<k, o.user, o.post>> : k \in {o.op} \cap {"like", "save", "comment"}}
    BY DEF Touch
  <2>4. \A k \in {"like", "save", "comment"} : <<k, o.user, o.post>> \in Tie
    BY <1>1 DEF Tie
  <2> QED
    BY <1>1, <1>6, <2>1, <2>2, <2>3, <2>4
<1>8. Tables'
  BY <1>5, <1>7 DEF SocialInv, Tables, EveryFollowIsTold, Covered, Tie
<1>9. r.seen # None => Sighted(p, r.seen)
  BY <1>1, <1>4, PledgesAreSeen DEF Pledged
<1> QED
  BY <1>4, <1>5, <1>8, <1>9, ListFacts, DoneKeeps

LEMMA ListCommentsKeeps ==
  ASSUME SocialInv, NEW p \in Requests, ListComments(p)
  PROVE  SocialInv'
<1> PICK o \in SocialRequest : o = tx[p]
  BY SocialTypes
<1>1. o.pc = "touch" /\ o.op = "comments" /\ o.seen \in Users \cup {None}
  BY DEF ListComments, SocialRequest
<1>2. PICK l \in Users \cup {None} :
        Step(p, [Finished EXCEPT !.seen = o.seen, !.listed = l])
  BY DEF ListComments
<1>3. o.seen # None => Sighted(p, o.seen)
  BY <1>1, PledgesAreSeen DEF Pledged
<1> QED
  BY <1>1, <1>2, <1>3, ListKeeps

\* A request ends without an answer.
LEMMA FinishKeeps ==
  ASSUME SocialInv, NEW p \in Requests, Set(p, Finished), Tables', UNCHANGED <<post, follows>>
  PROVE  SocialInv'
BY RequestFacts, ListFacts, DoneKeeps

\* The user and the inputs of a request at a statement that ends it.
LEMMA AtAStatement ==
  ASSUME SocialInv, NEW p \in Requests, Active(tx[p])
  PROVE  /\ tx[p].user \in Users
         /\ tx[p].pc \in {"insertStory", "pet", "deleteFollow"} => tx[p].pet \in Pets
         /\ tx[p].pc \in {"insertMute", "release"} => tx[p].other \in Users
         /\ tx[p].op = "block" /\ tx[p].pc = "commit" => tx[p].other \in Users
         /\ tx[p].op = "block" => tx[p].user # tx[p].other
         /\ tx[p].op = "follow" /\ tx[p].pc = "commit" => tx[p].pet \in Pets
         /\ tx[p].pc = "pet" /\ tx[p].op = "patchPet" => tx[p].set \in PetStatuses
<1>1. Inputs(tx[p]) /\ Handler(tx[p])
  BY SocialTypes
<1> QED
  BY <1>1 DEF Inputs, Handler, PetStages, UserStages

LEMMA StoriesKeep ==
  ASSUME SocialInv, NEW p \in Requests, InsertStory(p)
  PROVE  SocialInv'
<1>1. /\ Set(p, Finished) /\ stories' = stories \cup {tx[p].pet} /\ tx[p].pet \in Pets
      /\ UNCHANGED <<pet, private, departed, post, ties, reports, follows, notices, unfollowed,
                     blocks, mutes>>
  BY AtAStatement DEF InsertStory, Active, accounts, fans, safety
<1>2. Tables'
  BY <1>1 DEF SocialInv, Tables, EveryFollowIsTold, Covered, Tie
<1> QED
  BY <1>1, <1>2, FinishKeeps

LEMMA SafetyKeeps ==
  ASSUME SocialInv, NEW p \in Requests, CommitBlock(p) \/ InsertMute(p) \/ Release(p)
  PROVE  SocialInv'
<1>1. /\ Set(p, Finished)
      /\ UNCHANGED <<pet, private, departed, post, ties, stories, reports, follows, notices,
                     unfollowed>>
  BY DEF CommitBlock, InsertMute, Release, accounts, content, fans
<1>2. /\ blocks \subseteq Users \X Users /\ mutes \subseteq Users \X Users
      /\ \A u \in Users : <<u, u>> \notin blocks
  BY SocialTypes DEF Tables
<1>3. /\ blocks' \subseteq Users \X Users /\ mutes' \subseteq Users \X Users
      /\ \A u \in Users : <<u, u>> \notin blocks'
  <2>1. CASE CommitBlock(p)
    <3>1. tx[p].user \in Users /\ tx[p].other \in Users /\ tx[p].user # tx[p].other
      BY <2>1, AtAStatement DEF CommitBlock, Active
    <3>2. blocks' \subseteq blocks \cup {<<tx[p].user, tx[p].other>>} /\ mutes' = mutes
      BY <2>1 DEF CommitBlock
    <3> QED
      BY <1>2, <3>1, <3>2
  <2>2. CASE InsertMute(p)
    <3>1. tx[p].user \in Users /\ tx[p].other \in Users
      BY <2>2, AtAStatement DEF InsertMute, Active
    <3>2. mutes' = mutes \cup {<<tx[p].user, tx[p].other>>} /\ blocks' = blocks
      BY <2>2 DEF InsertMute
    <3> QED
      BY <1>2, <3>1, <3>2
  <2>3. CASE Release(p)
    <3>1. blocks' \subseteq blocks /\ mutes' \subseteq mutes
      BY <2>3 DEF Release
    <3> QED
      BY <1>2, <3>1
  <2> QED
    BY <2>1, <2>2, <2>3
<1>4. Tables'
  BY <1>1, <1>3 DEF SocialInv, Tables, EveryFollowIsTold, Covered, Tie
<1> QED
  BY <1>1, <1>4, FinishKeeps

LEMMA AccountsKeep ==
  ASSUME SocialInv, NEW p \in Requests,
         CreatePet(p) \/ PatchPet(p) \/ PatchMe(p) \/ CommitDeletion(p)
  PROVE  SocialInv'
<1>1. /\ Set(p, Finished)
      /\ UNCHANGED <<post, ties, stories, reports, follows, notices, unfollowed, blocks, mutes>>
  BY DEF CreatePet, PatchPet, PatchMe, CommitDeletion, content, fans, safety
<1>2. pet \in [Pets -> PetStatuses] /\ private \subseteq Users /\ departed \subseteq Users
  BY SocialTypes DEF Tables
<1>3. tx[p].user \in Users
  BY AtAStatement DEF CreatePet, PatchPet, PatchMe, CommitDeletion, Active
<1>4. pet' \in [Pets -> PetStatuses] /\ private' \subseteq Users /\ departed' \subseteq Users
  <2>1. CASE CreatePet(p)
    BY <1>2, <2>1 DEF CreatePet, PetStatuses
  <2>2. CASE PatchPet(p)
    <3>1. tx[p].op = "patchPet" => tx[p].set \in PetStatuses
      BY <2>2, AtAStatement DEF PatchPet, Active
    <3>2. "gone" \in PetStatuses
      BY DEF PetStatuses
    <3> QED
      BY <1>2, <2>2, <3>1, <3>2 DEF PatchPet
  <2>3. CASE PatchMe(p)
    BY <1>2, <1>3, <2>3 DEF PatchMe
  <2>4. CASE CommitDeletion(p)
    BY <1>2, <1>3, <2>4 DEF CommitDeletion, PetStatuses
  <2> QED
    BY <2>1, <2>2, <2>3, <2>4
<1>5. Tables'
  BY <1>1, <1>4 DEF SocialInv, Tables, EveryFollowIsTold, Covered, Tie
<1> QED
  BY <1>1, <1>5, FinishKeeps

LEMMA ExpiryKeeps ==
  ASSUME SocialInv, NEW a \in Pets, ExpireStory(a)
  PROVE  SocialInv'
<1>1. /\ stories' \subseteq stories
      /\ UNCHANGED <<pet, private, departed, post, ties, reports, follows, notices, unfollowed,
                     blocks, mutes, tx, sight>>
  BY DEF ExpireStory, accounts, fans, safety
<1>2. Tables'
  BY <1>1 DEF SocialInv, Tables, EveryFollowIsTold, Covered, Tie
<1>3. WritersApart'
  BY <1>1 DEF SocialInv, WritersApart, Writes, Adding
<1> QED
  BY <1>1, <1>2, <1>3 DEF SocialInv

LEMMA CanViewKeeps ==
  ASSUME SocialInv, NEW p \in Requests, CanView(p)
  PROVE  SocialInv'
<1> PICK o \in SocialRequest : o = tx[p]
  BY SocialTypes
<1>1. /\ o.pc = "canView" /\ o.user \in Users /\ o.post \in Posts
      /\ o.op \in {"like", "unlike", "save", "unsave", "comment", "comments", "report"}
      /\ Proper(o) /\ Holds(o, post, follows)
  <2>1. o.pc = "canView" /\ Inputs(o) /\ Handler(o)
    BY SocialTypes DEF CanView
  <2> QED
    BY <2>1, SocialTypes DEF Inputs, Handler, PostStages, Active
<1>2. CASE End(p)
  BY <1>2, EndKeeps
<1>3. CASE ~End(p)
  <2>1. PICK pc \in {"actor", "touch"}, w \in Users \cup {None} :
          /\ Step(p, [o EXCEPT !.pc = pc, !.seen = w])
          /\ \/ o.op = "report" /\ w = None /\ Live(o.post)
             \/ o.op # "report" /\ w = Author(o.post) /\ CanViewPost(o.user, o.post)
    <3>1. PICK pc \in {"actor", "touch"} : pc = IF o.pet = None THEN "touch" ELSE "actor"
      OBVIOUS
    <3>2. CASE o.op = "report"
      BY <1>3, <3>1, <3>2 DEF CanView
    <3>3. CASE o.op # "report"
      <4>1. /\ CanViewPost(o.user, o.post)
            /\ Step(p, [o EXCEPT !.pc = pc, !.seen = Author(o.post)])
        BY <1>3, <3>1, <3>3 DEF CanView
      <4>2. post[o.post] # NoPost
        BY <4>1 DEF CanViewPost, Readable, Live
      <4>3. PICK w \in Users \cup {None} : w = Author(o.post)
        BY <1>1, <4>2, PostFacts DEF Author
      <4> QED
        BY <3>1, <3>3, <4>1, <4>3
    <3> QED
      BY <3>2, <3>3
  <2>2. post[o.post] # NoPost
    BY <2>1 DEF CanViewPost, Readable, Live
  <2>3. PICK r \in SocialRequest :
          /\ r = Pledging(o, pc, w) /\ r.pc = pc /\ r.seen = w /\ r.op = o.op
          /\ r.user = o.user /\ r.pet = o.pet /\ r.post = o.post /\ r.other = o.other
          /\ r.row = o.row /\ r.fresh = o.fresh /\ r.page = o.page
    <3>1. pc \in Statements
      BY DEF Statements
    <3> QED
      BY <2>1, <3>1, PledgingFacts
  <2>4. Proper(r) /\ ~Writes(r) /\ ~Adding(r) /\ Holds(r, post, follows)
    <3>1. r.pc \in {"actor", "touch"}
      BY <2>1, <2>3
    <3> QED
      BY <1>1, <2>2, <2>3, <3>1 DEF Proper, Handler, Inputs, Filling, Writes, Active, PetStages,
         PostStages, UserStages, Adding, Holds
  <2>5. ASSUME NEW v \in Users, Pledged(r, v) PROVE Sighted(p, v)
    <3>1. w # None /\ v = w
      BY <2>3, <2>5 DEF Pledged
    <3>2. ~Apart(o.user, v)
      BY <2>1, <3>1 DEF CanViewPost
    <3>3. Active(o) /\ o.op \in Viewers
      BY <1>1, <2>1, <3>1 DEF Active, Viewers
    <3> QED
      BY <3>2, <3>3, SeesNow
  <2>6. Step(p, r)
    BY <2>1, <2>3 DEF Pledging
  <2> QED
    BY <2>4, <2>5, <2>6, StepKeeps
<1> QED
  BY <1>2, <1>3

-----------------------------------------------------------------------------
(* Follows and blocks.                                                     *)

LEMMA InsertsKeep ==
  ASSUME SocialInv, NEW p \in Requests, InsertFollow(p) \/ InsertBlock(p)
  PROVE  SocialInv'
<1> PICK o \in SocialRequest : o = tx[p]
  BY SocialTypes
<1>1. /\ o.pc \in {"insertFollow", "insertBlock"} /\ Handler(o) /\ Inputs(o) /\ Active(o)
      /\ o.page \in Lists
  BY SocialTypes DEF InsertFollow, InsertBlock, Active, Proper
<1>2. PICK pc \in {"notify", "commit"}, new \in BOOLEAN :
        /\ Step(p, [o EXCEPT !.pc = pc, !.fresh = new])
        /\ \/ o.pc = "insertFollow" /\ pc \in {"notify", "commit"}
           \/ o.pc = "insertBlock" /\ pc = "commit"
        /\ o.pc = "insertFollow" => FollowFree(p) /\ (new => ~Follows(o.user, o.pet))
  <2>1. CASE InsertFollow(p)
    <3>1. PICK new \in BOOLEAN : new = ~Follows(o.user, o.pet)
      OBVIOUS
    <3>2. PICK pc \in {"notify", "commit"} : pc = IF new THEN "notify" ELSE "commit"
      OBVIOUS
    <3> QED
      BY <2>1, <3>1, <3>2 DEF InsertFollow
  <2>2. CASE InsertBlock(p)
    <3>1. PICK new \in BOOLEAN : new = (<<o.user, o.other>> \notin blocks)
      OBVIOUS
    <3> QED
      BY <2>2, <3>1 DEF InsertBlock
  <2> QED
    BY <2>1, <2>2
<1>3. PICK r \in SocialRequest :
        /\ r = AddingRow(o, pc, new) /\ r.pc = pc /\ r.fresh = new /\ r.op = o.op
        /\ r.user = o.user /\ r.pet = o.pet /\ r.post = o.post /\ r.other = o.other
        /\ r.page = o.page /\ r.seen = o.seen
  <2>1. pc \in Statements
    BY <1>2 DEF Statements
  <2> QED
    BY <1>2, <2>1, AddingFacts
<1>4. Proper(r) /\ ~Writes(r)
  BY <1>1, <1>2, <1>3 DEF Proper, Handler, Inputs, Filling, Writes, Active, PetStages,
     PostStages, UserStages
<1>5. Adding(r) => new /\ o.pc = "insertFollow"
  BY <1>1, <1>2, <1>3 DEF Adding, Handler
<1>6. Holds(r, post, follows)
  BY <1>2, <1>3, <1>4, <1>5 DEF Holds, Writes, Follows
<1>7. \A w \in Users : Pledged(r, w) => Sighted(p, w)
  <2>1. \A w \in Users : Pledged(r, w) => Pledged(o, w)
    BY <1>1, <1>2, <1>3 DEF Pledged, Handler
  <2> QED
    BY <2>1, PledgesAreSeen
<1>8. ASSUME NEW q \in Requests \ {p}, Adding(r), Adding(tx[q])
      PROVE  <<tx[q].user, tx[q].pet>> # <<r.user, r.pet>>
  BY <1>2, <1>3, <1>5, <1>8 DEF FollowFree, Adding
<1>9. Step(p, r)
  BY <1>2, <1>3 DEF AddingRow
<1> QED
  BY <1>4, <1>6, <1>7, <1>8, <1>9, StepKeeps

LEMMA CommitFollowKeeps ==
  ASSUME SocialInv, NEW p \in Requests, CommitFollow(p)
  PROVE  SocialInv'
<1> PICK o \in SocialRequest : o = tx[p]
  BY SocialTypes
<1> DEFINE f == <<o.user, o.pet>>
<1>1. /\ o.op = "follow" /\ o.pc = "commit" /\ o.user \in Users /\ o.pet \in Pets
      /\ OwnerOf[o.pet] \in Users /\ Holds(o, post, follows)
  BY AtAStatement, SocialTypes, OwnerOfAssumption DEF CommitFollow, Active
<1>2. PICK d \in SocialRequest : d = Finished /\ d.pc = "done" /\ d.fresh = FALSE
                                 /\ d.page = <<>>
  BY RequestFacts
<1>3. PICK r : r = [d EXCEPT !.seen = OwnerOf[o.pet]]
  OBVIOUS
<1>4. /\ r \in SocialRequest /\ r.pc = "done" /\ r.fresh = FALSE /\ r.page = <<>>
      /\ r.seen = OwnerOf[o.pet]
  BY <1>1, <1>2, <1>3 DEF SocialRequest
<1>5. /\ Proper(r) /\ ~Writes(r) /\ ~Adding(r) /\ Holds(r, post', follows')
      /\ \A w \in Users : Pledged(r, w) => w = OwnerOf[o.pet]
  BY <1>4, DoneFacts, ListFacts
<1>6. /\ Set(p, r)
      /\ UNCHANGED <<pet, private, departed, post, ties, stories, reports, unfollowed, blocks,
                     mutes>>
  BY <1>2, <1>3 DEF CommitFollow, accounts, content, safety
<1>7. \/ follows' = follows /\ notices' = notices
      \/ /\ Adding(o) /\ f \notin follows
         /\ follows' = follows \cup {f} /\ notices' = [notices EXCEPT ![f] = @ + 1]
  BY <1>1 DEF CommitFollow, Holds, Adding
<1>8. Tables'
  <2>1. /\ f \in Users \X Pets /\ follows \subseteq Users \X Pets
        /\ notices \in [Users \X Pets -> Nat] /\ EveryFollowIsTold
        /\ unfollowed \in [Users \X Pets -> Nat]
    BY <1>1, SocialTypes DEF Tables
  <2>2. /\ follows' \subseteq Users \X Pets /\ notices' \in [Users \X Pets -> Nat]
    BY <1>7, <2>1
  <2>3. ASSUME NEW g \in Users \X Pets
        PROVE  notices'[g] = unfollowed[g] + (IF g \in follows' THEN 1 ELSE 0)
    <3>1. notices[g] = unfollowed[g] + (IF g \in follows THEN 1 ELSE 0)
          /\ notices[g] \in Nat /\ unfollowed[g] \in Nat
      BY <2>1 DEF EveryFollowIsTold
    <3>2. CASE g = f
      BY <1>7, <2>1, <3>1, <3>2
    <3>3. CASE g # f
      BY <1>7, <2>1, <3>1, <3>3
    <3> QED
      BY <3>2, <3>3
  <2>4. EveryFollowIsTold'
    BY <1>6, <2>3 DEF EveryFollowIsTold
  <2> QED
    BY <1>6, <2>2, <2>4 DEF SocialInv, Tables, Covered, Tie
<1>9. ASSUME NEW q \in Requests \ {p} PROVE Holds(tx[q], post', follows')
  <2>1. Holds(tx[q], post, follows)
    BY SocialTypes
  <2>2. Adding(tx[q]) => <<tx[q].user, tx[q].pet>> \notin follows'
    BY <1>7, <2>1 DEF SocialInv, WritersApart, Holds
  <2> QED
    BY <1>6, <2>1, <2>2 DEF Holds
<1>10. Sighted(p, OwnerOf[o.pet])
  BY <1>1, PledgesAreSeen DEF Pledged
<1> QED
  BY <1>5, <1>6, <1>8, <1>9, <1>10, SetKeeps

LEMMA DeleteFollowKeeps ==
  ASSUME SocialInv, NEW p \in Requests, DeleteFollow(p)
  PROVE  SocialInv'
<1> DEFINE f == <<tx[p].user, tx[p].pet>>
<1>1. /\ tx[p].pc = "deleteFollow" /\ f \in Users \X Pets
  BY AtAStatement DEF DeleteFollow, Active
<1>2. /\ Set(p, Finished) /\ follows' = follows \ {f}
      /\ unfollowed' = IF f \in follows THEN [unfollowed EXCEPT ![f] = @ + 1]
                       ELSE unfollowed
      /\ UNCHANGED <<pet, private, departed, post, ties, stories, reports, notices, blocks,
                     mutes>>
  BY DEF DeleteFollow, accounts, content, safety
<1>3. Tables'
  <2>1. /\ follows \subseteq Users \X Pets /\ notices \in [Users \X Pets -> Nat]
        /\ unfollowed \in [Users \X Pets -> Nat] /\ EveryFollowIsTold
    BY SocialTypes DEF Tables
  <2>2. follows' \subseteq Users \X Pets /\ unfollowed' \in [Users \X Pets -> Nat]
    BY <1>1, <1>2, <2>1
  <2>3. ASSUME NEW g \in Users \X Pets
        PROVE  notices[g] = unfollowed'[g] + (IF g \in follows' THEN 1 ELSE 0)
    <3>1. notices[g] = unfollowed[g] + (IF g \in follows THEN 1 ELSE 0)
          /\ notices[g] \in Nat /\ unfollowed[g] \in Nat
      BY <2>1 DEF EveryFollowIsTold
    <3>2. CASE g = f
      BY <1>2, <2>1, <3>1, <3>2
    <3>3. CASE g # f
      BY <1>2, <2>1, <3>1, <3>3
    <3> QED
      BY <3>2, <3>3
  <2>4. EveryFollowIsTold'
    BY <1>2, <2>3 DEF EveryFollowIsTold
  <2> QED
    BY <1>2, <2>2, <2>4 DEF SocialInv, Tables, Covered, Tie
<1>4. ASSUME NEW q \in Requests PROVE Holds(tx[q], post', follows')
  <2>1. Holds(tx[q], post, follows)
    BY SocialTypes
  <2> QED
    BY <1>2, <2>1 DEF Holds
<1>5. /\ Proper(Finished) /\ ~Writes(Finished) /\ ~Adding(Finished)
      /\ Holds(Finished, post', follows')
      /\ \A w \in Users : Pledged(Finished, w) => Finished.seen = w
  BY RequestFacts, ListFacts, DoneFacts
<1>6. \A w \in Users : ~Pledged(Finished, w)
  BY <1>5, RequestFacts, SocialNoneAssumption
<1> QED
  BY <1>2, <1>3, <1>4, <1>5, <1>6, SetKeeps

-----------------------------------------------------------------------------
(* Posts and their carousels.                                              *)

LEMMA RowsAreRows ==
  /\ NoPost.gone = FALSE /\ NoPost.media = <<>>
  /\ \A row \in PostRow : row # NoPost /\ row.pet \in Pets
BY SocialNoneAssumption DEF PostRow, NoPost

\* A transaction on a post that nobody else writes.
LEMMA WriteKeeps ==
  ASSUME SocialInv, NEW p \in Requests, NEW r, Proper(r), Step(p, r), Writes(r),
         Holds(r, post, follows), r.op # "follow", r.seen = tx[p].seen,
         \A q \in Requests \ {p} : Writes(tx[q]) => tx[q].post # r.post
  PROVE  SocialInv'
<1>1. ~Adding(r)
  BY DEF Adding
<1>2. \A w \in Users : Pledged(r, w) => Sighted(p, w)
  <2>1. \A w \in Users : Pledged(r, w) => Pledged(tx[p], w)
    BY DEF Pledged, Writes
  <2> QED
    BY <2>1, PledgesAreSeen
<1> QED
  BY <1>1, <1>2, StepKeeps

LEMMA InsertPostKeeps ==
  ASSUME SocialInv, NEW p \in Requests, InsertPost(p)
  PROVE  SocialInv'
<1> PICK o \in SocialRequest : o = tx[p]
  BY SocialTypes
<1>1. /\ o.pc = "insertPost" /\ o.op = "createPost" /\ o.set \in Visibilities
      /\ o.user \in Users /\ o.pet \in Pets /\ o.put = 0 /\ o.page \in Lists /\ o.list \in Lists
      /\ OwnerOf[o.pet] = o.user
  <2>1. o.pc = "insertPost" /\ Handler(o) /\ Inputs(o) /\ Filling(o) /\ Proper(o)
    BY SocialTypes DEF InsertPost
  <2>2. OwnerOf[o.pet] = o.user
    BY DEF InsertPost, Owns
  <2> QED
    BY <2>1, <2>2 DEF Handler, Inputs, Filling, Proper, Active, PetStages, SocialRequest
<1>2. PICK row : row = [pet |-> o.pet, vis |-> o.set, media |-> <<>>, cover |-> CoverOf(o.list),
                        gone |-> FALSE]
  OBVIOUS
<1>3. /\ row \in PostRow /\ row.pet = o.pet /\ row.media = <<>> /\ row.gone = FALSE
      /\ row.cover = CoverOf(o.list)
  <2>1. CoverOf(o.list) \in Media \cup {None}
    BY <1>1, ListFacts DEF CoverOf
  <2> QED
    BY <1>1, <1>2, <2>1 DEF PostRow
<1>4. PICK x \in Posts :
        /\ post[x] = NoPost
        /\ \A q \in Requests : tx[q].op = "createPost" => tx[q].post # x
        /\ Step(p, [o EXCEPT !.pc = "media", !.post = x, !.fresh = TRUE, !.row = row])
  BY <1>2 DEF InsertPost
<1>5. PICK r \in SocialRequest :
        /\ r = Posting(o, "media", x, row) /\ r.pc = "media" /\ r.post = x /\ r.row = row
        /\ r.op = o.op /\ r.user = o.user /\ r.list = o.list /\ r.put = o.put
        /\ r.page = o.page /\ r.seen = o.seen
  <2>1. "media" \in Statements
    BY DEF Statements
  <2> QED
    BY <1>3, <1>4, <2>1, PostingFacts
<1>6. Filling(r)
  <2>1. <<>> \in Lists /\ o.list \in Seq(Media)
    BY <1>1, ListFacts
  <2> QED
    BY <1>1, <1>3, <1>5, <2>1 DEF Filling, CoverOf
<1>7. Proper(r) /\ Writes(r)
  BY <1>1, <1>3, <1>5, <1>6, RowsAreRows DEF Proper, Handler, Inputs, Writes, Active,
     PetStages, PostStages, UserStages
<1>8. Holds(r, post, follows)
  BY <1>1, <1>3, <1>4, <1>5 DEF Holds, Writes, Adding
<1>9. ASSUME NEW q \in Requests \ {p}, Writes(tx[q]) PROVE tx[q].post # r.post
  <2>1. CASE tx[q].op = "createPost"
    BY <1>4, <1>5, <2>1
  <2>2. CASE tx[q].op = "patchPost"
    BY <1>4, <1>5, <1>9, <2>2, SocialTypes DEF Holds
  <2> QED
    BY <1>9, <2>1, <2>2, SocialTypes DEF Handler, Writes
<1>10. Step(p, r)
  BY <1>4, <1>5 DEF Posting
<1> QED
  BY <1>1, <1>5, <1>7, <1>8, <1>9, <1>10, WriteKeeps

\* Nobody else writes a post that a request may edit.
LEMMA EditableIsFree ==
  ASSUME SocialInv, NEW p \in Requests, NEW x \in Posts, PostFree(p, x), post[x] # NoPost,
         NEW q \in Requests \ {p}, Writes(tx[q])
  PROVE  tx[q].post # x
<1>1. Handler(tx[q]) /\ Holds(tx[q], post, follows) /\ tx[q].row # NoPost
  BY SocialTypes DEF Proper
<1>2. CASE tx[q].op = "createPost"
  BY <1>1, <1>2 DEF Holds, Handler, Writes
<1>3. CASE tx[q].op = "patchPost"
  BY <1>1, <1>3 DEF PostFree
<1> QED
  BY <1>1, <1>2, <1>3 DEF Handler, Writes

LEMMA UpdatePostKeeps ==
  ASSUME SocialInv, NEW p \in Requests, UpdatePost(p)
  PROVE  SocialInv'
<1> PICK o \in SocialRequest : o = tx[p]
  BY SocialTypes
<1>1. /\ o.pc = "updatePost" /\ o.op = "patchPost" /\ o.set \in Visibilities \cup {None}
      /\ o.user \in Users /\ o.post \in Posts /\ o.put = 0 /\ o.page \in Lists
      /\ o.list \in Lists
  <2>1. o.pc = "updatePost" /\ Handler(o) /\ Inputs(o) /\ Filling(o) /\ Proper(o)
    BY SocialTypes DEF UpdatePost
  <2> QED
    BY <2>1 DEF Handler, Inputs, Filling, Proper, Active, PostStages, SocialRequest
<1>2. PICK old \in PostRow :
        /\ old = post[o.post] /\ Covered(old) /\ ~old.gone /\ OwnerOf[old.pet] = o.user
  BY <1>1, PostFacts DEF UpdatePost, Editable, Live, Author
<1>3. PICK row \in PostRow, pc \in {"media", "deleteMedia"} :
        /\ Step(p, [o EXCEPT !.pc = pc, !.row = row])
        /\ row.pet = old.pet /\ ~row.gone /\ row.media = old.media
        /\ \/ pc = "media" /\ o.list = <<>> /\ row.cover = old.cover
           \/ pc = "deleteMedia" /\ o.list # <<>> /\ row.cover = Head(o.list)
  <2>1. PICK v \in Visibilities : v = IF o.set = None THEN old.vis ELSE o.set
    BY <1>1 DEF PostRow
  <2>2. PICK c \in Media \cup {None} : c = IF o.list = <<>> THEN old.cover ELSE Head(o.list)
    BY <1>1, ListFacts DEF PostRow
  <2>3. PICK row : row = [old EXCEPT !.vis = v, !.cover = c]
    OBVIOUS
  <2>4. /\ row \in PostRow /\ row.pet = old.pet /\ ~row.gone /\ row.media = old.media
        /\ row.cover = c
    BY <1>2, <2>3 DEF PostRow
  <2>5. PICK pc \in {"media", "deleteMedia"} :
          pc = IF o.list = <<>> THEN "media" ELSE "deleteMedia"
    OBVIOUS
  <2>6. Step(p, [o EXCEPT !.pc = pc, !.row = row])
    BY <1>2, <2>1, <2>2, <2>3, <2>5 DEF UpdatePost
  <2> QED
    BY <2>2, <2>4, <2>5, <2>6
<1>4. PICK r \in SocialRequest :
        /\ r = Editing(o, pc, row) /\ r.pc = pc /\ r.row = row /\ r.op = o.op
        /\ r.user = o.user /\ r.post = o.post /\ r.list = o.list /\ r.put = o.put
        /\ r.page = o.page /\ r.seen = o.seen
  <2>1. pc \in Statements
    BY DEF Statements
  <2> QED
    BY <2>1, EditingFacts
<1>5. Filling(r)
  <2>1. o.list \in Seq(Media)
    BY <1>1, ListFacts
  <2> QED
    BY <1>1, <1>2, <1>3, <1>4, <2>1 DEF Filling, Covered
<1>6. Proper(r) /\ Writes(r)
  BY <1>1, <1>3, <1>4, <1>5, RowsAreRows DEF Proper, Handler, Inputs, Writes, Active,
     PetStages, PostStages, UserStages
<1>7. Holds(r, post, follows)
  BY <1>1, <1>2, <1>3, <1>4, RowsAreRows DEF Holds, Writes, Adding
<1>8. \A q \in Requests \ {p} : Writes(tx[q]) => tx[q].post # r.post
  BY <1>1, <1>2, <1>4, EditableIsFree, RowsAreRows DEF UpdatePost
<1>9. Step(p, r)
  BY <1>3, <1>4 DEF Editing
<1> QED
  BY <1>1, <1>4, <1>6, <1>7, <1>8, <1>9, WriteKeeps

LEMMA AppendFacts ==
  ASSUME NEW s \in Seq(Media), NEW m \in Media
  PROVE  /\ Append(s, m) \in Seq(Media) /\ Len(Append(s, m)) = Len(s) + 1
         /\ Append(s, m)[Len(s) + 1] = m
         /\ \A i \in 1..Len(s) : Append(s, m)[i] = s[i]
OBVIOUS

\* A post's row with other media.
WithMedia(row, l) == [row EXCEPT !.media = l]

LEMMA WithMediaFacts ==
  ASSUME NEW old \in PostRow, NEW l \in Seq(Media)
  PROVE  \E row \in PostRow :
           /\ row = WithMedia(old, l) /\ row.media = l /\ row.pet = old.pet
           /\ row.cover = old.cover /\ row.gone = old.gone
<1>1. PICK row : row = [old EXCEPT !.media = l]
  OBVIOUS
<1>2. row \in PostRow
  BY <1>1 DEF PostRow
<1> QED
  BY <1>1, <1>2 DEF WithMedia, PostRow

LEMMA DeleteMediaKeeps ==
  ASSUME SocialInv, NEW p \in Requests, DeleteMedia(p)
  PROVE  SocialInv'
<1> PICK o \in SocialRequest : o = tx[p]
  BY SocialTypes
<1>1. /\ o.pc = "deleteMedia" /\ o.op = "patchPost" /\ o.user \in Users /\ o.post \in Posts
      /\ o.page \in Lists /\ o.list \in Lists /\ o.list # <<>> /\ o.put = 0
      /\ Holds(o, post, follows) /\ o.row \in PostRow /\ o.row.cover = Head(o.list)
  <2>1. /\ o.pc = "deleteMedia" /\ Handler(o) /\ Inputs(o) /\ Filling(o) /\ Proper(o)
        /\ Holds(o, post, follows)
    BY SocialTypes DEF DeleteMedia
  <2> QED
    BY <2>1 DEF Handler, Inputs, Filling, Proper, Active, PostStages, SocialRequest, Writes
<1>2. PICK old \in PostRow : old = o.row
  BY <1>1
<1>4. PICK row \in PostRow :
        /\ row = WithMedia(old, <<>>) /\ row.media = <<>> /\ row.pet = old.pet
        /\ row.cover = old.cover /\ row.gone = old.gone
  <2>1. <<>> \in Seq(Media)
    BY ListFacts
  <2> QED
    BY <1>2, <2>1, WithMediaFacts
<1>5. PICK r \in SocialRequest :
        /\ r = Editing(o, "media", row) /\ r.pc = "media" /\ r.row = row /\ r.op = o.op
        /\ r.user = o.user /\ r.post = o.post /\ r.list = o.list /\ r.put = o.put
        /\ r.page = o.page /\ r.seen = o.seen
  <2>1. "media" \in Statements
    BY DEF Statements
  <2> QED
    BY <1>4, <2>1, EditingFacts
<1>6. Filling(r)
  <2>1. o.list \in Seq(Media)
    BY <1>1, ListFacts
  <2> QED
    BY <1>1, <1>2, <1>4, <1>5, <2>1 DEF Filling
<1>7. Proper(r) /\ Writes(r)
  BY <1>1, <1>4, <1>5, <1>6, RowsAreRows DEF Proper, Handler, Inputs, Writes, Active,
     PetStages, PostStages, UserStages
<1>8. Holds(r, post, follows)
  <2>1. /\ post[o.post] # NoPost /\ ~post[o.post].gone /\ OwnerOf[post[o.post].pet] = o.user
        /\ o.row.pet = post[o.post].pet /\ ~o.row.gone
    BY <1>1 DEF Holds, Writes
  <2>2. r.pc = "media" /\ r.op = "patchPost" /\ r.post = o.post /\ r.user = o.user
    BY <1>1, <1>5
  <2>3. r.row.pet = o.row.pet /\ r.row.gone = o.row.gone
    BY <1>2, <1>4, <1>5
  <2> QED
    BY <2>1, <2>2, <2>3 DEF Holds, Adding
<1>9. \A q \in Requests \ {p} : Writes(tx[q]) => tx[q].post # r.post
  BY <1>1, <1>5 DEF SocialInv, WritersApart, Writes
<1>10. Step(p, r)
  BY <1>2, <1>4, <1>5 DEF DeleteMedia, Editing, WithMedia
<1> QED
  BY <1>1, <1>5, <1>7, <1>8, <1>9, <1>10, WriteKeeps

LEMMA InsertMediaKeeps ==
  ASSUME SocialInv, NEW p \in Requests, InsertMedia(p)
  PROVE  SocialInv'
<1> PICK o \in SocialRequest : o = tx[p]
  BY SocialTypes
<1>1. /\ o.pc = "media" /\ o.op \in {"createPost", "patchPost"} /\ o.user \in Users
      /\ o.post \in Posts /\ o.page \in Lists /\ o.list \in Lists /\ o.put \in Nat
      /\ o.put < Len(o.list) /\ Holds(o, post, follows) /\ o.row \in PostRow
  <2>1. /\ o.pc = "media" /\ o.put < Len(o.list) /\ Handler(o) /\ Inputs(o) /\ Proper(o)
        /\ Holds(o, post, follows)
    BY SocialTypes DEF InsertMedia
  <2> QED
    BY <2>1 DEF Handler, Inputs, Proper, Active, PostStages, SocialRequest, Writes
<1>2. o.list \in Seq(Media) /\ o.list # <<>> /\ o.list[o.put + 1] \in Media
  <2>1. o.list \in Seq(Media)
    BY <1>1, ListFacts
  <2> QED
    BY <1>1, <2>1
<1>3. /\ o.row.cover = Head(o.list) /\ Len(o.row.media) = o.put
      /\ \A i \in 1..o.put : o.row.media[i] = o.list[i]
  BY <1>1, <1>2, SocialTypes DEF Filling
<1>4. PICK old \in PostRow, media \in Seq(Media) : old = o.row /\ media = old.media
  BY <1>1 DEF PostRow
<1>5. PICK m \in Media, n \in Nat : m = o.list[o.put + 1] /\ n = o.put + 1
  BY <1>1, <1>2
<1>6. PICK list : list = Append(media, m)
  OBVIOUS
<1>7. /\ list \in Seq(Media) /\ Len(list) = Len(media) + 1 /\ list[Len(media) + 1] = m
      /\ \A i \in 1..Len(media) : list[i] = media[i]
  BY SMTT(30), <1>4, <1>5, <1>6, AppendFacts
<1>8. Len(list) = n /\ \A i \in 1..n : list[i] = o.list[i]
  <2>1. Len(media) = o.put /\ \A i \in 1..o.put : media[i] = o.list[i]
    BY <1>3, <1>4
  <2>2. \A i \in 1..n : i \in 1..o.put \/ i = o.put + 1
    BY <1>1, <1>5
  <2> QED
    BY <1>5, <1>7, <2>1, <2>2
<1>9. PICK row \in PostRow :
        /\ row = WithMedia(old, list) /\ row.media = list /\ row.pet = old.pet
        /\ row.cover = old.cover /\ row.gone = old.gone
  BY <1>4, <1>7, WithMediaFacts
<1>10. PICK r \in SocialRequest :
         /\ r = [o EXCEPT !.put = n, !.row = row] /\ r.put = n /\ r.row = row
         /\ r.pc = o.pc /\ r.op = o.op /\ r.user = o.user /\ r.post = o.post
         /\ r.list = o.list /\ r.page = o.page /\ r.seen = o.seen
  <2>1. n \in Nat /\ row \in PostRow
    BY <1>5, <1>9
  <2>2. PICK r : r = [o EXCEPT !.put = n, !.row = row]
    OBVIOUS
  <2>3. r \in SocialRequest
    <3>1. PICK g : g = [o EXCEPT !.put = n]
      OBVIOUS
    <3>2. g \in SocialRequest
      BY SMTT(30), <2>1, <3>1 DEF SocialRequest
    <3>3. r = [g EXCEPT !.row = row]
      BY <2>2, <3>1
    <3> QED
      BY <2>1, <3>2, <3>3 DEF SocialRequest
  <2>4. r.put = n /\ r.row = row
    BY <2>2 DEF SocialRequest
  <2>5. /\ r.pc = o.pc /\ r.op = o.op /\ r.user = o.user /\ r.post = o.post
        /\ r.list = o.list /\ r.page = o.page /\ r.seen = o.seen
    BY <2>2 DEF SocialRequest
  <2> QED
    BY ZenonT(60), <2>2, <2>3, <2>4, <2>5
<1>11. Filling(r)
  <2>1. n <= Len(o.list)
    BY <1>1, <1>2, <1>5
  <2> QED
    BY <1>1, <1>2, <1>3, <1>4, <1>8, <1>9, <1>10, <2>1 DEF Filling
<1>12. Proper(r) /\ Writes(r)
  BY <1>1, <1>9, <1>10, <1>11, RowsAreRows DEF Proper, Handler, Inputs, Writes, Active,
     PetStages, PostStages, UserStages
<1>13. Holds(r, post, follows)
  BY <1>1, <1>4, <1>9, <1>10 DEF Holds, Writes, Adding
<1>14. \A q \in Requests \ {p} : Writes(tx[q]) => tx[q].post # r.post
  BY <1>1, <1>10 DEF SocialInv, WritersApart, Writes
<1>15. Step(p, r)
  <2>1. Step(p, [o EXCEPT !.put = n, !.row.media = Append(@, m)])
    BY <1>5 DEF InsertMedia
  <2>2. [o EXCEPT !.put = n, !.row.media = Append(@, m)]
          = [o EXCEPT !.put = n, !.row = [o.row EXCEPT !.media = Append(o.row.media, m)]]
    OBVIOUS
  <2>3. row = [o.row EXCEPT !.media = Append(o.row.media, m)]
    BY <1>4, <1>9, <1>6 DEF WithMedia
  <2> QED
    BY <1>10, <2>1, <2>2, <2>3
<1>16. r.op # "follow" /\ r.seen = tx[p].seen
  BY <1>1, <1>10
<1> QED
  BY <1>12, <1>13, <1>14, <1>15, <1>16, WriteKeeps

\* The request that a committed post is loaded with.
Loading(u, x) == [Idle EXCEPT !.pc = "rows", !.op = "postByID", !.user = u, !.post = x]

LEMMA LoadFacts ==
  ASSUME NEW u \in Users, NEW x \in Posts
  PROVE  \E r \in SocialRequest :
           /\ r = Loading(u, x) /\ r.pc = "rows" /\ r.op = "postByID" /\ r.user = u
           /\ r.post = x /\ r.fresh = FALSE /\ r.page = <<>> /\ r.seen = None
<1>1. PICK i \in SocialRequest :
        i = Idle /\ i.fresh = FALSE /\ i.page = <<>> /\ i.seen = None
  BY RequestFacts
<1>2. "rows" \in Statements /\ "postByID" \in Handlers
  BY DEF Statements, Handlers, Viewers
<1>3. PICK r : r = [i EXCEPT !.pc = "rows", !.op = "postByID", !.user = u, !.post = x]
  OBVIOUS
<1>4. r \in SocialRequest
  BY <1>2, <1>3 DEF SocialRequest
<1>5. r = Loading(u, x)
  BY <1>1, <1>3 DEF Loading
<1>6. /\ r.pc = "rows" /\ r.op = "postByID" /\ r.user = u /\ r.post = x
      /\ r.fresh = i.fresh /\ r.page = i.page /\ r.seen = i.seen
  BY <1>3 DEF SocialRequest
<1> QED
  BY <1>1, <1>4, <1>5, <1>6

LEMMA CommitPostKeeps ==
  ASSUME SocialInv, NEW p \in Requests, CommitPost(p)
  PROVE  /\ SocialInv'
         /\ \A x \in Posts : post[x].gone => post'[x] = post[x]
<1> PICK o \in SocialRequest : o = tx[p]
  BY SocialTypes
<1>1. /\ o.pc = "media" /\ o.op \in {"createPost", "patchPost"} /\ o.user \in Users
      /\ o.post \in Posts /\ o.list \in Lists /\ o.put = Len(o.list)
      /\ Holds(o, post, follows) /\ Filling(o) /\ o.row \in PostRow
  <2>1. /\ o.pc = "media" /\ o.put = Len(o.list) /\ Handler(o) /\ Inputs(o) /\ Proper(o)
        /\ Holds(o, post, follows) /\ Filling(o)
    BY SocialTypes DEF CommitPost
  <2> QED
    BY <2>1 DEF Handler, Inputs, Proper, Active, PostStages, SocialRequest, Writes
<1>2. PICK x \in Posts, row \in PostRow : x = o.post /\ row = o.row
  BY <1>1
<1>4. PICK r \in SocialRequest :
        /\ r = Loading(o.user, x) /\ r.pc = "rows" /\ r.op = "postByID" /\ r.user = o.user
        /\ r.post = x /\ r.fresh = FALSE /\ r.page = <<>> /\ r.seen = None
  BY ZenonT(60), <1>1, <1>2, LoadFacts
<1>5. /\ Set(p, r) /\ post' = [post EXCEPT ![x] = row]
      /\ UNCHANGED <<pet, private, departed, ties, stories, reports, follows, notices,
                     unfollowed, blocks, mutes>>
  BY <1>2, <1>4 DEF CommitPost, Loading, accounts, fans, safety
<1>6. Covered(row)
  <2>1. CASE o.list = <<>>
    BY <1>1, <1>2, <2>1 DEF Filling, Covered
  <2>2. CASE o.list # <<>>
    <3>1. o.list \in Seq(Media) /\ row.media \in Seq(Media)
      BY <1>1, ListFacts DEF PostRow
    <3>2. /\ row.cover = Head(o.list) /\ Len(row.media) = Len(o.list)
          /\ \A i \in 1..Len(o.list) : row.media[i] = o.list[i]
      BY <1>1, <1>2, <2>2 DEF Filling
    <3>3. row.media = o.list
      BY <3>1, <3>2
    <3> QED
      BY <1>1, <3>2, <3>3 DEF Covered
  <2> QED
    BY <2>1, <2>2
<1>7. /\ row # NoPost /\ OwnerOf[row.pet] = o.user /\ ~row.gone
      /\ post[x] = NoPost \/ (~post[x].gone /\ post[x].pet = row.pet)
  BY <1>1, <1>2, RowsAreRows DEF Holds, Writes
<1>8. post \in [Posts -> PostRow \cup {NoPost}]
  BY SocialTypes
<1>9. post'[x] = row /\ \A y \in Posts \ {x} : post'[y] = post[y]
  BY <1>5, <1>8
<1>10. Tables'
  <2>1. post' \in [Posts -> PostRow \cup {NoPost}]
    BY <1>5, <1>8
  <2>2. \A y \in Posts : post'[y] # NoPost => Covered(post'[y])
    BY <1>6, <1>9, PostFacts
  <2> QED
    BY <1>5, <2>1, <2>2 DEF SocialInv, Tables, EveryFollowIsTold, Covered, Tie
<1>11. ASSUME NEW q \in Requests \ {p} PROVE Holds(tx[q], post', follows')
  <2>1. Holds(tx[q], post, follows) /\ Inputs(tx[q]) /\ Handler(tx[q]) /\ follows' = follows
    BY <1>5, SocialTypes
  <2>2. Writes(tx[q]) => tx[q].post # x
    BY <1>1, <1>2 DEF SocialInv, WritersApart, Writes
  <2>3. tx[q].pc \in PostStages \/ (tx[q].pc = "rows" /\ tx[q].op = "postByID") =>
          tx[q].post \in Posts
    BY <2>1 DEF Inputs
  <2>4. CASE tx[q].post = x
    BY <1>7, <1>9, <2>1, <2>2, <2>4 DEF Holds, Writes
  <2>5. CASE tx[q].post # x /\ tx[q].post \in Posts
    BY <1>9, <2>1, <2>5 DEF Holds, Writes
  <2>6. CASE tx[q].post \notin Posts
    BY <2>1, <2>3, <2>6 DEF Holds, Writes, PostStages
  <2> QED
    BY <2>4, <2>5, <2>6
<1>12. Proper(r) /\ ~Writes(r) /\ ~Adding(r)
  BY <1>1, <1>4, ListFacts DEF Proper, Handler, Inputs, Filling, Writes, Active, PetStages,
     PostStages, UserStages, Adding
<1>13. Holds(r, post', follows')
  BY <1>4, <1>7, <1>9, <1>12 DEF Holds
<1>14. \A w \in Users : ~Pledged(r, w)
  BY <1>4 DEF Pledged
<1>15. SocialInv'
  BY <1>5, <1>10, <1>11, <1>12, <1>13, <1>14, SetKeeps
<1>16. \A y \in Posts : post[y].gone => post'[y] = post[y]
  BY <1>7, <1>9, RowsAreRows
<1> QED
  BY <1>15, <1>16

LEMMA RemovePostKeeps ==
  ASSUME SocialInv, NEW p \in Requests, RemovePost(p)
  PROVE  /\ SocialInv'
         /\ \A x \in Posts : post[x].gone => post'[x] = post[x]
<1>1. PICK x \in Posts :
        /\ x = tx[p].post /\ PostFree(p, x) /\ Live(x) /\ Set(p, Finished)
        /\ post' = [post EXCEPT ![x].gone = TRUE]
        /\ UNCHANGED <<pet, private, departed, ties, stories, reports, follows, notices,
                       unfollowed, blocks, mutes>>
  <2>1. tx[p].post \in Posts
    BY SocialTypes DEF RemovePost, Inputs, PostStages
  <2> QED
    BY <2>1 DEF RemovePost, Editable, accounts, fans, safety
<1>2. PICK old \in PostRow : old = post[x] /\ Covered(old) /\ ~old.gone
  BY <1>1, PostFacts DEF Live
<1>3. PICK row : row = [old EXCEPT !.gone = TRUE]
  OBVIOUS
<1>4. /\ row \in PostRow /\ row.pet = old.pet /\ row.media = old.media
      /\ row.cover = old.cover
  BY <1>2, <1>3 DEF PostRow
<1>5. post \in [Posts -> PostRow \cup {NoPost}]
  BY SocialTypes
<1>6. /\ post' = [post EXCEPT ![x] = row]
      /\ post'[x] = row /\ \A y \in Posts \ {x} : post'[y] = post[y]
  BY <1>1, <1>2, <1>3, <1>5
<1>7. Tables'
  <2>1. post' \in [Posts -> PostRow \cup {NoPost}]
    BY <1>4, <1>5, <1>6
  <2>2. Covered(row)
    BY <1>2, <1>4 DEF Covered
  <2>3. \A y \in Posts : post'[y] # NoPost => Covered(post'[y])
    BY <1>6, <2>2, PostFacts
  <2> QED
    BY <1>1, <2>1, <2>3 DEF SocialInv, Tables, EveryFollowIsTold, Covered, Tie
<1>8. ASSUME NEW q \in Requests \ {p} PROVE Holds(tx[q], post', follows')
  <2>1. Holds(tx[q], post, follows) /\ Inputs(tx[q]) /\ Handler(tx[q]) /\ follows' = follows
    BY <1>1, SocialTypes
  <2>2. Writes(tx[q]) => tx[q].post # x
    BY <1>1, <1>2, EditableIsFree, RowsAreRows
  <2>3. tx[q].pc \in PostStages \/ (tx[q].pc = "rows" /\ tx[q].op = "postByID") =>
          tx[q].post \in Posts
    BY <2>1 DEF Inputs
  <2>4. CASE tx[q].post = x
    BY <1>2, <1>4, <1>6, <2>1, <2>2, <2>4, RowsAreRows DEF Holds, Writes
  <2>5. CASE tx[q].post # x /\ tx[q].post \in Posts
    BY <1>6, <2>1, <2>5 DEF Holds, Writes
  <2>6. CASE tx[q].post \notin Posts
    BY <2>1, <2>3, <2>6 DEF Holds, Writes, PostStages
  <2> QED
    BY <2>4, <2>5, <2>6
<1>9. /\ Proper(Finished) /\ ~Writes(Finished) /\ ~Adding(Finished)
      /\ Holds(Finished, post', follows')
      /\ \A w \in Users : Pledged(Finished, w) => Finished.seen = w
  BY RequestFacts, ListFacts, DoneFacts
<1>10. \A w \in Users : ~Pledged(Finished, w)
  BY <1>9, RequestFacts, SocialNoneAssumption
<1>11. SocialInv'
  BY <1>1, <1>7, <1>8, <1>9, <1>10, SetKeeps
<1>12. \A y \in Posts : post[y].gone => post'[y] = post[y]
  BY <1>2, <1>6
<1> QED
  BY <1>11, <1>12

-----------------------------------------------------------------------------
(* Requests that arrive.                                                   *)

Entries ==
  {"insertPost", "updatePost", "removePost", "rows", "forPet", "source", "canView",
   "insertStory", "forUser", "target", "release", "pet", "patchMe", "lockUser"}

LEMMA EntryKeeps ==
  ASSUME SocialInv, NEW p \in Requests, NEW r \in SocialRequest, Step(p, r),
         r.pc \in Entries, r.pc = "rows" => r.op \in {"feed", "stories", "discover"},
         r.fresh = FALSE, r.page = <<>>, r.seen = None, r.put = 0,
         Handler(r), Inputs(r)
  PROVE  SocialInv'
<1>1. Filling(r) /\ ~Writes(r) /\ ~Adding(r)
  BY DEF Filling, Writes, Adding, Entries
<1>2. Proper(r)
  BY <1>1, ListFacts DEF Proper
<1>3. Holds(r, post, follows)
  BY <1>1 DEF Holds, Entries
<1>4. \A w \in Users : ~Pledged(r, w)
  BY DEF Pledged, Entries
<1> QED
  BY <1>1, <1>2, <1>3, <1>4, StepKeeps

\* A request that its handler has given the inputs of its first statement.
Blank(g) == g.fresh = FALSE /\ g.page = <<>> /\ g.seen = None /\ g.put = 0

Entrant(g, op) ==
  /\ g \in SocialRequest /\ Blank(g) /\ g.pc \in Entries /\ g.user \in Users
  /\ g.pc = "insertPost" => op = "createPost" /\ g.set \in Visibilities /\ g.pet \in Pets
  /\ g.pc = "updatePost" =>
       op = "patchPost" /\ g.set \in Visibilities \cup {None} /\ g.post \in Posts
  /\ g.pc = "removePost" => op = "deletePost" /\ g.post \in Posts
  /\ g.pc = "rows" => op \in {"feed", "stories", "discover"}
  /\ g.pc = "source" => op = "discover"
  /\ g.pc = "forPet" =>
       op \in {"getPet", "petPosts", "petStories", "follow", "unfollow"} /\ g.pet \in Pets
  /\ g.pc = "canView" =>
       /\ op \in {"like", "unlike", "save", "unsave", "comment", "comments", "report"}
       /\ g.post \in Posts
  /\ g.pc = "insertStory" => op = "createStory" /\ g.pet \in Pets
  /\ g.pc = "forUser" => op \in {"profile", "followers"} /\ g.other \in Users
  /\ g.pc = "target" => op \in {"block", "mute"} /\ g.other \in Users /\ g.user # g.other
  /\ g.pc = "release" => op \in {"unblock", "unmute"} /\ g.other \in Users
  /\ g.pc = "pet" =>
       /\ op \in {"createPet", "patchPet", "deletePet"} /\ g.pet \in Pets
       /\ op = "patchPet" => g.set \in PetStatuses
  /\ g.pc = "patchMe" => op \in {"goPrivate", "goPublic"}
  /\ g.pc = "lockUser" => op = "deleteAccount"

LEMMA ArriveKeeps ==
  ASSUME SocialInv, NEW p \in Requests, NEW op \in Handlers, NEW g, Entrant(g, op),
         Arrive(p, op, g)
  PROVE  SocialInv'
<1>1. g \in SocialRequest
  BY DEF Entrant
<1>2. PICK r : r = [g EXCEPT !.op = op]
  OBVIOUS
<1>3. r \in SocialRequest
  BY <1>1, <1>2 DEF SocialRequest
<1>4. /\ r.op = op /\ r.pc = g.pc /\ r.user = g.user /\ r.pet = g.pet /\ r.post = g.post
      /\ r.other = g.other /\ r.set = g.set /\ r.fresh = g.fresh /\ r.page = g.page
      /\ r.seen = g.seen /\ r.put = g.put
  BY <1>1, <1>2 DEF SocialRequest
<1>5. Handler(r)
  BY <1>4 DEF Entrant, Handler, Entries
<1>6. Inputs(r)
  BY <1>4 DEF Entrant, Inputs, Active, Entries, PetStages, PostStages, UserStages
<1>7. r.pc \in Entries /\ (r.pc = "rows" => r.op \in {"feed", "stories", "discover"})
      /\ r.fresh = FALSE /\ r.page = <<>> /\ r.seen = None /\ r.put = 0
  BY <1>4 DEF Entrant, Blank
<1>8. Step(p, r)
  BY <1>2 DEF Arrive
<1> QED
  BY <1>3, <1>5, <1>6, <1>7, <1>8, EntryKeeps

LEMMA HandlersAreNamed ==
  /\ Entries \subseteq Statements
  /\ {"createPost", "patchPost", "deletePost", "feed", "stories", "discover", "getPet",
      "petPosts", "petStories", "follow", "unfollow", "like", "unlike", "save", "unsave",
      "comment", "comments", "report", "createStory", "profile", "followers", "block", "mute",
      "unblock", "unmute", "createPet", "patchPet", "deletePet", "goPrivate", "goPublic",
      "deleteAccount"} \subseteq Handlers
BY DEF Entries, Statements, Handlers, Viewers

LEMMA IdleFacts == Idle \in SocialRequest /\ Blank(Idle)
BY RequestFacts DEF Blank

LEMMA BeginReadKeeps ==
  ASSUME SocialInv, NEW p \in Requests, NEW u \in Users, NEW op,
         BeginRead(p, u, op)
  PROVE  SocialInv'
<1>1. PICK i \in SocialRequest : i = Idle /\ Blank(i)
  BY IdleFacts
<1>2. "rows" \in Statements /\ op \in Handlers
  BY HandlersAreNamed DEF Entries, BeginRead
<1>3. PICK g : g = [i EXCEPT !.pc = "rows", !.user = u]
  OBVIOUS
<1>4. g \in SocialRequest
  BY <1>2, <1>3 DEF SocialRequest
<1>5. Blank(g) /\ g.pc = "rows" /\ g.user = u
  BY <1>1, <1>3, <1>4 DEF SocialRequest, Blank
<1>6. Arrive(p, op, g)
  BY <1>1, <1>3 DEF BeginRead
<1>7. Entrant(g, op)
  BY <1>4, <1>5 DEF Entrant, Entries, BeginRead
<1> QED
  BY <1>2, <1>6, <1>7, ArriveKeeps

LEMMA BeginAccountKeeps ==
  ASSUME SocialInv, NEW p \in Requests, NEW u \in Users, NEW op,
         BeginAccount(p, u, op)
  PROVE  SocialInv'
<1>1. PICK i \in SocialRequest : i = Idle /\ Blank(i)
  BY IdleFacts
<1>2. PICK pc \in {"lockUser", "patchMe"} :
        pc = IF op = "deleteAccount" THEN "lockUser" ELSE "patchMe"
  OBVIOUS
<1>3. pc \in Statements /\ op \in Handlers
  BY <1>2, HandlersAreNamed DEF Entries, BeginAccount
<1>4. PICK g : g = [i EXCEPT !.user = u, !.pc = pc]
  OBVIOUS
<1>5. g \in SocialRequest
  BY <1>3, <1>4 DEF SocialRequest
<1>6. Blank(g) /\ g.user = u /\ g.pc = pc
  BY <1>1, <1>4, <1>5 DEF SocialRequest, Blank
<1>7. Arrive(p, op, g)
  BY <1>1, <1>2, <1>4 DEF BeginAccount
<1>8. Entrant(g, op)
  BY <1>2, <1>5, <1>6 DEF Entrant, Entries, BeginAccount
<1> QED
  BY <1>3, <1>7, <1>8, ArriveKeeps

LEMMA BeginUserKeeps ==
  ASSUME SocialInv, NEW p \in Requests, NEW u \in Users, NEW w \in Users, NEW op,
         BeginUser(p, u, w, op)
  PROVE  SocialInv'
<1>1. PICK i \in SocialRequest : i = Idle /\ Blank(i)
  BY IdleFacts
<1>2. PICK pc \in {"forUser", "target", "release"} :
        pc = CASE op \in {"profile", "followers"} -> "forUser"
               [] op \in {"block", "mute"} -> "target"
               [] OTHER -> "release"
  OBVIOUS
<1>3. pc \in Statements /\ op \in Handlers
  BY <1>2, HandlersAreNamed DEF Entries, BeginUser
<1>4. PICK g : g = [i EXCEPT !.user = u, !.other = w, !.pc = pc]
  OBVIOUS
<1>5. g \in SocialRequest
  BY <1>3, <1>4 DEF SocialRequest
<1>6. Blank(g) /\ g.user = u /\ g.other = w /\ g.pc = pc
  BY <1>1, <1>4, <1>5 DEF SocialRequest, Blank
<1>7. Arrive(p, op, g)
  BY <1>1, <1>2, <1>4 DEF BeginUser
<1>8. Entrant(g, op)
  BY <1>2, <1>5, <1>6 DEF Entrant, Entries, BeginUser
<1> QED
  BY <1>3, <1>7, <1>8, ArriveKeeps

LEMMA BeginPetKeeps ==
  ASSUME SocialInv, NEW p \in Requests, NEW u \in Users, NEW a \in Pets, NEW op,
         BeginPet(p, u, a, op)
  PROVE  SocialInv'
<1>1. PICK i \in SocialRequest : i = Idle /\ Blank(i)
  BY IdleFacts
<1>2. "forPet" \in Statements /\ op \in Handlers
  BY HandlersAreNamed DEF Entries, BeginPet
<1>3. PICK g : g = [i EXCEPT !.pc = "forPet", !.user = u, !.pet = a]
  OBVIOUS
<1>4. g \in SocialRequest
  BY <1>2, <1>3 DEF SocialRequest
<1>5. Blank(g) /\ g.pc = "forPet" /\ g.user = u /\ g.pet = a
  BY <1>1, <1>3, <1>4 DEF SocialRequest, Blank
<1>6. Arrive(p, op, g)
  BY <1>1, <1>3 DEF BeginPet
<1>7. Entrant(g, op)
  BY <1>4, <1>5 DEF Entrant, Entries, BeginPet
<1> QED
  BY <1>2, <1>6, <1>7, ArriveKeeps

LEMMA BeginOwnKeeps ==
  ASSUME SocialInv, NEW p \in Requests, NEW u \in Users, NEW a \in Pets, NEW op,
         NEW s \in {"active", "paused", None},
         BeginOwn(p, u, a, op, s)
  PROVE  SocialInv'
<1>1. PICK i \in SocialRequest : i = Idle /\ Blank(i)
  BY IdleFacts
<1>2. s \in PetStatuses \cup {None}
  BY DEF PetStatuses
<1>3. "pet" \in Statements /\ op \in Handlers
  BY <1>2, HandlersAreNamed DEF Entries, BeginOwn
<1>4. PICK g : g = [i EXCEPT !.pc = "pet", !.user = u, !.pet = a, !.set = s]
  OBVIOUS
<1>5. g \in SocialRequest
  BY <1>2, <1>3, <1>4 DEF SocialRequest
<1>6. Blank(g) /\ g.pc = "pet" /\ g.user = u /\ g.pet = a /\ g.set = s
  BY <1>1, <1>4, <1>5 DEF SocialRequest, Blank
<1>7. Arrive(p, op, g)
  BY <1>1, <1>2, <1>4 DEF BeginOwn
<1>8. Entrant(g, op)
  BY <1>2, <1>5, <1>6 DEF Entrant, Entries, BeginOwn, PetStatuses
<1> QED
  BY <1>3, <1>7, <1>8, ArriveKeeps

LEMMA BeginCreatePostKeeps ==
  ASSUME SocialInv, NEW p \in Requests, NEW u \in Users, NEW a \in Pets,
         NEW v \in Visibilities, NEW l \in Lists,
         BeginCreatePost(p, u, a, v, l)
  PROVE  SocialInv'
<1>1. PICK i \in SocialRequest : i = Idle /\ Blank(i)
  BY IdleFacts
<1>2. "insertPost" \in Statements /\ "createPost" \in Handlers
  BY HandlersAreNamed DEF Entries
<1>3. PICK g : g = [i EXCEPT !.pc = "insertPost", !.user = u,
                             !.pet = a, !.set = v, !.list = l]
  OBVIOUS
<1>4. g \in SocialRequest
  BY <1>2, <1>3 DEF SocialRequest
<1>5. Blank(g) /\ g.pc = "insertPost" /\ g.user = u /\ g.pet = a /\ g.set = v
      /\ g.list = l
  BY <1>1, <1>3, <1>4 DEF SocialRequest, Blank
<1>6. Arrive(p, "createPost", g)
  BY <1>1, <1>3 DEF BeginCreatePost
<1>7. Entrant(g, "createPost")
  BY <1>4, <1>5 DEF Entrant, Entries
<1> QED
  BY <1>2, <1>6, <1>7, ArriveKeeps

LEMMA BeginCreateStoryKeeps ==
  ASSUME SocialInv, NEW p \in Requests, NEW u \in Users, NEW a \in Pets,
         BeginCreateStory(p, u, a)
  PROVE  SocialInv'
<1>1. PICK i \in SocialRequest : i = Idle /\ Blank(i)
  BY IdleFacts
<1>2. "insertStory" \in Statements /\ "createStory" \in Handlers
  BY HandlersAreNamed DEF Entries
<1>3. PICK g : g = [i EXCEPT !.pc = "insertStory", !.user = u, !.pet = a]
  OBVIOUS
<1>4. g \in SocialRequest
  BY <1>2, <1>3 DEF SocialRequest
<1>5. Blank(g) /\ g.pc = "insertStory" /\ g.user = u /\ g.pet = a
  BY <1>1, <1>3, <1>4 DEF SocialRequest, Blank
<1>6. Arrive(p, "createStory", g)
  BY <1>1, <1>3 DEF BeginCreateStory
<1>7. Entrant(g, "createStory")
  BY <1>4, <1>5 DEF Entrant, Entries
<1> QED
  BY <1>2, <1>6, <1>7, ArriveKeeps

LEMMA BeginDiscoverKeeps ==
  ASSUME SocialInv, NEW p \in Requests, NEW u \in Users, NEW a \in Pets \cup {None},
         BeginDiscover(p, u, a)
  PROVE  SocialInv'
<1>1. PICK i \in SocialRequest : i = Idle /\ Blank(i)
  BY IdleFacts
<1>2. PICK pc \in {"rows", "source"} : pc = IF a = None THEN "rows" ELSE "source"
  OBVIOUS
<1>3. pc \in Statements /\ "discover" \in Handlers
  BY <1>2, HandlersAreNamed DEF Entries
<1>4. PICK g : g = [i EXCEPT !.pc = pc, !.user = u, !.pet = a]
  OBVIOUS
<1>5. g \in SocialRequest
  BY <1>3, <1>4 DEF SocialRequest
<1>6. Blank(g) /\ g.pc = pc /\ g.user = u /\ g.pet = a
  BY <1>1, <1>4, <1>5 DEF SocialRequest, Blank
<1>7. Arrive(p, "discover", g)
  BY <1>1, <1>2, <1>4 DEF BeginDiscover
<1>8. Entrant(g, "discover")
  BY <1>2, <1>5, <1>6 DEF Entrant, Entries
<1> QED
  BY <1>3, <1>7, <1>8, ArriveKeeps

LEMMA BeginPatchPostKeeps ==
  ASSUME SocialInv, NEW p \in Requests, NEW u \in Users, NEW x \in Posts,
         NEW v \in Visibilities \cup {None}, NEW l \in Lists,
         BeginPatchPost(p, u, x, v, l)
  PROVE  SocialInv'
<1>1. PICK i \in SocialRequest : i = Idle /\ Blank(i)
  BY IdleFacts
<1>2. "updatePost" \in Statements /\ "patchPost" \in Handlers
  BY HandlersAreNamed DEF Entries
<1>3. PICK g : g = [i EXCEPT !.pc = "updatePost", !.user = u,
                             !.post = x, !.set = v, !.list = l]
  OBVIOUS
<1>4. g \in SocialRequest
  BY <1>2, <1>3 DEF SocialRequest
<1>5. Blank(g) /\ g.pc = "updatePost" /\ g.user = u /\ g.post = x /\ g.set = v
      /\ g.list = l
  BY <1>1, <1>3, <1>4 DEF SocialRequest, Blank
<1>6. Arrive(p, "patchPost", g)
  BY <1>1, <1>3 DEF BeginPatchPost
<1>7. Entrant(g, "patchPost")
  BY <1>4, <1>5 DEF Entrant, Entries
<1> QED
  BY <1>2, <1>6, <1>7, ArriveKeeps

LEMMA BeginDeletePostKeeps ==
  ASSUME SocialInv, NEW p \in Requests, NEW u \in Users, NEW x \in Posts,
         BeginDeletePost(p, u, x)
  PROVE  SocialInv'
<1>1. PICK i \in SocialRequest : i = Idle /\ Blank(i)
  BY IdleFacts
<1>2. "removePost" \in Statements /\ "deletePost" \in Handlers
  BY HandlersAreNamed DEF Entries
<1>3. PICK g : g = [i EXCEPT !.pc = "removePost", !.user = u, !.post = x]
  OBVIOUS
<1>4. g \in SocialRequest
  BY <1>2, <1>3 DEF SocialRequest
<1>5. Blank(g) /\ g.pc = "removePost" /\ g.user = u /\ g.post = x
  BY <1>1, <1>3, <1>4 DEF SocialRequest, Blank
<1>6. Arrive(p, "deletePost", g)
  BY <1>1, <1>3 DEF BeginDeletePost
<1>7. Entrant(g, "deletePost")
  BY <1>4, <1>5 DEF Entrant, Entries
<1> QED
  BY <1>2, <1>6, <1>7, ArriveKeeps

LEMMA BeginTouchKeeps ==
  ASSUME SocialInv, NEW p \in Requests, NEW u \in Users, NEW x \in Posts, NEW op,
         NEW a \in Pets \cup {None},
         BeginTouch(p, u, x, op, a)
  PROVE  SocialInv'
<1>1. PICK i \in SocialRequest : i = Idle /\ Blank(i)
  BY IdleFacts
<1>2. "canView" \in Statements /\ op \in Handlers
  BY HandlersAreNamed DEF Entries, BeginTouch
<1>3. PICK g : g = [i EXCEPT !.pc = "canView", !.user = u, !.post = x, !.pet = a]
  OBVIOUS
<1>4. g \in SocialRequest
  BY <1>2, <1>3 DEF SocialRequest
<1>5. Blank(g) /\ g.pc = "canView" /\ g.user = u /\ g.post = x /\ g.pet = a
  BY <1>1, <1>3, <1>4 DEF SocialRequest, Blank
<1>6. Arrive(p, op, g)
  BY <1>1, <1>3 DEF BeginTouch
<1>7. Entrant(g, op)
  BY <1>4, <1>5 DEF Entrant, Entries, BeginTouch
<1> QED
  BY <1>2, <1>6, <1>7, ArriveKeeps

LEMMA BeginKeeps ==
  ASSUME SocialInv, NEW p \in Requests, Begin(p)
  PROVE  SocialInv'
<1>1. PICK u \in Users :
        \/ \E op : BeginRead(p, u, op)
        \/ \E op : BeginAccount(p, u, op)
        \/ \E w \in Users : \E op : BeginUser(p, u, w, op)
        \/ \E a \in Pets :
             \/ \E op : BeginPet(p, u, a, op)
             \/ \E s \in {"active", "paused", None} : \E op : BeginOwn(p, u, a, op, s)
             \/ \E v \in Visibilities, l \in Lists : BeginCreatePost(p, u, a, v, l)
             \/ BeginCreateStory(p, u, a)
        \/ \E a \in Pets \cup {None} : BeginDiscover(p, u, a)
        \/ \E x \in Posts :
             \/ \E v \in Visibilities \cup {None}, l \in Lists : BeginPatchPost(p, u, x, v, l)
             \/ BeginDeletePost(p, u, x)
             \/ \E a \in Pets \cup {None} : \E op : BeginTouch(p, u, x, op, a)
  BY DEF Begin, Lists
<1>2. CASE \E op : BeginRead(p, u, op) \/ BeginAccount(p, u, op)
  BY <1>2, BeginReadKeeps, BeginAccountKeeps
<1>3. CASE \E w \in Users : \E op : BeginUser(p, u, w, op)
  BY <1>3, BeginUserKeeps
<1>4. ASSUME NEW a \in Pets,
             \/ \E op : BeginPet(p, u, a, op)
             \/ \E s \in {"active", "paused", None} : \E op : BeginOwn(p, u, a, op, s)
             \/ \E v \in Visibilities, l \in Lists : BeginCreatePost(p, u, a, v, l)
             \/ BeginCreateStory(p, u, a)
      PROVE  SocialInv'
  BY <1>4, BeginPetKeeps, BeginOwnKeeps, BeginCreatePostKeeps, BeginCreateStoryKeeps
<1>5. CASE \E a \in Pets \cup {None} : BeginDiscover(p, u, a)
  BY <1>5, BeginDiscoverKeeps
<1>6. ASSUME NEW x \in Posts,
             \/ \E v \in Visibilities \cup {None}, l \in Lists : BeginPatchPost(p, u, x, v, l)
             \/ BeginDeletePost(p, u, x)
             \/ \E a \in Pets \cup {None} : \E op : BeginTouch(p, u, x, op, a)
      PROVE  SocialInv'
  BY <1>6, BeginPatchPostKeeps, BeginDeletePostKeeps, BeginTouchKeeps
<1> QED
  BY <1>1, <1>2, <1>3, <1>4, <1>5, <1>6

-----------------------------------------------------------------------------
(* Lists of users.                                                         *)

\* A list of users belongs to somebody whom the request is going to show.
Headed(r) ==
  /\ r.op = "comments" /\ r.pc \in {"actor", "touch"} => r.seen # None
  /\ r.listed # None => r.pc = "done" /\ r.seen # None
ListsAreHeaded == \A p \in Requests : Headed(tx[p])

LEMMA HeadedKeeps ==
  ASSUME SocialInv, ListsAreHeaded, NEW p \in Requests, NEW r, Set(p, r), Headed(r)
  PROVE  ListsAreHeaded'
<1>1. tx' = [tx EXCEPT ![p] = r] /\ tx \in [Requests -> SocialRequest]
  BY SocialTypes DEF Set
<1>2. ASSUME NEW q \in Requests PROVE Headed(tx[q])'
  <2>1. tx'[q] = r \/ tx'[q] = tx[q]
    BY <1>1
  <2> QED
    BY <2>1 DEF ListsAreHeaded, Headed
<1> QED
  BY <1>2 DEF ListsAreHeaded

\* A request begins, is answered without a list, or ends.
LEMMA UnlistedKeeps ==
  ASSUME SocialInv, ListsAreHeaded, NEW p \in Requests, NEW r, Set(p, r),
         r.listed = None, r.pc \notin {"actor", "touch"}
  PROVE  ListsAreHeaded'
BY HeadedKeeps DEF Headed

\* A request goes on.
LEMMA OnwardKeeps ==
  ASSUME SocialInv, ListsAreHeaded, NEW p \in Requests, tx[p].pc # "done",
         NEW r, Set(p, r), r.seen = tx[p].seen, r.listed = tx[p].listed, r.op = tx[p].op,
         r.pc \in {"actor", "touch"} => tx[p].pc = "actor"
  PROVE  ListsAreHeaded'
BY HeadedKeeps DEF Headed, ListsAreHeaded

LEMMA UnlistedFacts ==
  /\ Idle \in SocialRequest /\ Idle.listed = None /\ Idle.pc = "idle"
  /\ Finished \in SocialRequest /\ Finished.listed = None /\ Finished.pc = "done"
<1>1. Idle \in SocialRequest /\ Finished \in SocialRequest
  BY RequestFacts
<1> QED
  BY <1>1 DEF Idle, Finished, SocialRequest

LEMMA BeginUnlisted ==
  ASSUME SocialInv, ListsAreHeaded, NEW p \in Requests, Begin(p)
  PROVE  ListsAreHeaded'
<1> DEFINE Bare(r) == Set(p, r) /\ r.listed = None /\ r.pc \notin {"actor", "touch"}
<1>1. PICK i \in SocialRequest : i = Idle /\ i.listed = None
  BY UnlistedFacts
<1>2. PICK u \in Users :
        \/ \E op : BeginRead(p, u, op)
        \/ \E op : BeginAccount(p, u, op)
        \/ \E w, op : BeginUser(p, u, w, op)
        \/ \E a, op : BeginPet(p, u, a, op)
        \/ \E a, op, v : BeginOwn(p, u, a, op, v)
        \/ \E a, v, l : BeginCreatePost(p, u, a, v, l)
        \/ \E a : BeginCreateStory(p, u, a)
        \/ \E a : BeginDiscover(p, u, a)
        \/ \E x, v, l : BeginPatchPost(p, u, x, v, l)
        \/ \E x : BeginDeletePost(p, u, x)
        \/ \E x, op, a : BeginTouch(p, u, x, op, a)
  BY DEF Begin
<1>3. ASSUME NEW op, BeginRead(p, u, op)
      PROVE  ListsAreHeaded'
  <2>1. Set(p, [[i EXCEPT !.pc = "rows", !.user = u] EXCEPT !.op = op])
    BY <1>1, <1>3 DEF BeginRead, Arrive, Step
  <2>2. PICK g : g = [i EXCEPT !.pc = "rows", !.user = u]
    OBVIOUS
  <2>3. PICK r : r = [g EXCEPT !.op = op]
    OBVIOUS
  <2>4. Bare(r)
    BY <1>1, <2>1, <2>2, <2>3 DEF SocialRequest
  <2> QED
    BY <2>4, UnlistedKeeps
<1>4. ASSUME NEW op, BeginAccount(p, u, op)
      PROVE  ListsAreHeaded'
  <2>1. PICK pc \in {"lockUser", "patchMe"} :
        pc = IF op = "deleteAccount" THEN "lockUser" ELSE "patchMe"
    OBVIOUS
  <2>2. Set(p, [[i EXCEPT !.user = u, !.pc = pc] EXCEPT !.op = op])
    BY <2>1, <1>1, <1>4 DEF BeginAccount, Arrive, Step
  <2>3. PICK g : g = [i EXCEPT !.user = u, !.pc = pc]
    OBVIOUS
  <2>4. PICK r : r = [g EXCEPT !.op = op]
    OBVIOUS
  <2>5. Bare(r)
    BY <2>1, <1>1, <2>2, <2>3, <2>4 DEF SocialRequest
  <2> QED
    BY <2>5, UnlistedKeeps
<1>5. ASSUME NEW w, NEW op, BeginUser(p, u, w, op)
      PROVE  ListsAreHeaded'
  <2>1. PICK pc \in {"forUser", "target", "release"} :
        pc = CASE op \in {"profile", "followers"} -> "forUser"
             [] op \in {"block", "mute"} -> "target"
             [] OTHER -> "release"
    OBVIOUS
  <2>2. Set(p, [[i EXCEPT !.user = u, !.other = w, !.pc = pc] EXCEPT !.op = op])
    BY <2>1, <1>1, <1>5 DEF BeginUser, Arrive, Step
  <2>3. PICK g : g = [i EXCEPT !.user = u, !.other = w, !.pc = pc]
    OBVIOUS
  <2>4. PICK r : r = [g EXCEPT !.op = op]
    OBVIOUS
  <2>5. Bare(r)
    BY <2>1, <1>1, <2>2, <2>3, <2>4 DEF SocialRequest
  <2> QED
    BY <2>5, UnlistedKeeps
<1>6. ASSUME NEW a, NEW op, BeginPet(p, u, a, op)
      PROVE  ListsAreHeaded'
  <2>1. Set(p, [[i EXCEPT !.pc = "forPet", !.user = u, !.pet = a] EXCEPT !.op = op])
    BY <1>1, <1>6 DEF BeginPet, Arrive, Step
  <2>2. PICK g : g = [i EXCEPT !.pc = "forPet", !.user = u, !.pet = a]
    OBVIOUS
  <2>3. PICK r : r = [g EXCEPT !.op = op]
    OBVIOUS
  <2>4. Bare(r)
    BY <1>1, <2>1, <2>2, <2>3 DEF SocialRequest
  <2> QED
    BY <2>4, UnlistedKeeps
<1>7. ASSUME NEW a, NEW op, NEW v, BeginOwn(p, u, a, op, v)
      PROVE  ListsAreHeaded'
  <2>1. Set(p, [[i EXCEPT !.pc = "pet", !.user = u, !.pet = a, !.set = v] EXCEPT !.op = op])
    BY <1>1, <1>7 DEF BeginOwn, Arrive, Step
  <2>2. PICK g : g = [i EXCEPT !.pc = "pet", !.user = u, !.pet = a, !.set = v]
    OBVIOUS
  <2>3. PICK r : r = [g EXCEPT !.op = op]
    OBVIOUS
  <2>4. Bare(r)
    BY <1>1, <2>1, <2>2, <2>3 DEF SocialRequest
  <2> QED
    BY <2>4, UnlistedKeeps
<1>8. ASSUME NEW a, NEW v, NEW l, BeginCreatePost(p, u, a, v, l)
      PROVE  ListsAreHeaded'
  <2>1. Set(p, [[i EXCEPT !.pc = "insertPost", !.user = u, !.pet = a, !.set = v, !.list = l]
                  EXCEPT !.op = "createPost"])
    BY <1>1, <1>8 DEF BeginCreatePost, Arrive, Step
  <2>2. PICK g : g = [i EXCEPT !.pc = "insertPost", !.user = u, !.pet = a, !.set = v, !.list = l]
    OBVIOUS
  <2>3. PICK r : r = [g EXCEPT !.op = "createPost"]
    OBVIOUS
  <2>4. Bare(r)
    BY <1>1, <2>1, <2>2, <2>3 DEF SocialRequest
  <2> QED
    BY <2>4, UnlistedKeeps
<1>9. ASSUME NEW a, BeginCreateStory(p, u, a)
      PROVE  ListsAreHeaded'
  <2>1. Set(p, [[i EXCEPT !.pc = "insertStory", !.user = u, !.pet = a] EXCEPT !.op = "createStory"])
    BY <1>1, <1>9 DEF BeginCreateStory, Arrive, Step
  <2>2. PICK g : g = [i EXCEPT !.pc = "insertStory", !.user = u, !.pet = a]
    OBVIOUS
  <2>3. PICK r : r = [g EXCEPT !.op = "createStory"]
    OBVIOUS
  <2>4. Bare(r)
    BY <1>1, <2>1, <2>2, <2>3 DEF SocialRequest
  <2> QED
    BY <2>4, UnlistedKeeps
<1>10. ASSUME NEW a, BeginDiscover(p, u, a)
      PROVE  ListsAreHeaded'
  <2>1. PICK pc \in {"rows", "source"} :
        pc = IF a = None THEN "rows" ELSE "source"
    OBVIOUS
  <2>2. Set(p, [[i EXCEPT !.pc = pc, !.user = u, !.pet = a] EXCEPT !.op = "discover"])
    BY <2>1, <1>1, <1>10 DEF BeginDiscover, Arrive, Step
  <2>3. PICK g : g = [i EXCEPT !.pc = pc, !.user = u, !.pet = a]
    OBVIOUS
  <2>4. PICK r : r = [g EXCEPT !.op = "discover"]
    OBVIOUS
  <2>5. Bare(r)
    BY <2>1, <1>1, <2>2, <2>3, <2>4 DEF SocialRequest
  <2> QED
    BY <2>5, UnlistedKeeps
<1>11. ASSUME NEW x, NEW v, NEW l, BeginPatchPost(p, u, x, v, l)
      PROVE  ListsAreHeaded'
  <2>1. Set(p, [[i EXCEPT !.pc = "updatePost", !.user = u, !.post = x, !.set = v, !.list = l]
                  EXCEPT !.op = "patchPost"])
    BY <1>1, <1>11 DEF BeginPatchPost, Arrive, Step
  <2>2. PICK g : g = [i EXCEPT !.pc = "updatePost", !.user = u, !.post = x, !.set = v, !.list = l]
    OBVIOUS
  <2>3. PICK r : r = [g EXCEPT !.op = "patchPost"]
    OBVIOUS
  <2>4. Bare(r)
    BY <1>1, <2>1, <2>2, <2>3 DEF SocialRequest
  <2> QED
    BY <2>4, UnlistedKeeps
<1>12. ASSUME NEW x, BeginDeletePost(p, u, x)
      PROVE  ListsAreHeaded'
  <2>1. Set(p, [[i EXCEPT !.pc = "removePost", !.user = u, !.post = x] EXCEPT !.op = "deletePost"])
    BY <1>1, <1>12 DEF BeginDeletePost, Arrive, Step
  <2>2. PICK g : g = [i EXCEPT !.pc = "removePost", !.user = u, !.post = x]
    OBVIOUS
  <2>3. PICK r : r = [g EXCEPT !.op = "deletePost"]
    OBVIOUS
  <2>4. Bare(r)
    BY <1>1, <2>1, <2>2, <2>3 DEF SocialRequest
  <2> QED
    BY <2>4, UnlistedKeeps
<1>13. ASSUME NEW x, NEW op, NEW a, BeginTouch(p, u, x, op, a)
      PROVE  ListsAreHeaded'
  <2>1. Set(p, [[i EXCEPT !.pc = "canView", !.user = u, !.post = x, !.pet = a] EXCEPT !.op = op])
    BY <1>1, <1>13 DEF BeginTouch, Arrive, Step
  <2>2. PICK g : g = [i EXCEPT !.pc = "canView", !.user = u, !.post = x, !.pet = a]
    OBVIOUS
  <2>3. PICK r : r = [g EXCEPT !.op = op]
    OBVIOUS
  <2>4. Bare(r)
    BY <1>1, <2>1, <2>2, <2>3 DEF SocialRequest
  <2> QED
    BY <2>4, UnlistedKeeps
<1> QED
  BY <1>2, <1>3, <1>4, <1>5, <1>6, <1>7, <1>8, <1>9, <1>10, <1>11, <1>12, <1>13

LEMMA HeadedStep ==
  ASSUME SocialInv, ListsAreHeaded, [SocialNext]_socialVars
  PROVE  ListsAreHeaded'
<1>1. CASE UNCHANGED tx
  BY <1>1 DEF ListsAreHeaded, Headed
<1>2. ASSUME NEW p \in Requests, Begin(p)
      PROVE  ListsAreHeaded'
  BY <1>2, BeginUnlisted
<1>3. ASSUME NEW p \in Requests,
             \/ RefusePost(p) \/ EmptyPage(p) \/ RefusePet(p) \/ Fail(p)
             \/ RemovePost(p) \/ InsertStory(p) \/ DeleteFollow(p) \/ CommitBlock(p)
             \/ InsertMute(p) \/ Release(p) \/ CreatePet(p) \/ PatchPet(p) \/ PatchMe(p)
             \/ CommitDeletion(p)
      PROVE  ListsAreHeaded'
  <2>1. Set(p, Finished)
    BY <1>3 DEF RefusePost, EmptyPage, RefusePet, Fail, RemovePost, InsertStory, DeleteFollow,
       CommitBlock, InsertMute, Release, CreatePet, PatchPet, PatchMe, CommitDeletion, End, Step
  <2> QED
    BY <2>1, UnlistedFacts, UnlistedKeeps
<1>4. ASSUME NEW p \in Requests,
             \/ InsertPost(p) \/ UpdatePost(p) \/ DeleteMedia(p) \/ InsertMedia(p)
             \/ PostRows(p) \/ InsertFollow(p) \/ Notify(p) \/ InsertBlock(p) \/ DeletePets(p)
      PROVE  ListsAreHeaded'
  <2>1. PICK o \in SocialRequest : o = tx[p]
    BY SocialTypes
  <2> DEFINE On(r) == /\ Set(p, r) /\ o.pc # "done"
                      /\ r.seen = o.seen /\ r.listed = o.listed /\ r.op = o.op
                      /\ r.pc \notin {"actor", "touch"}
  <2>2. CASE InsertPost(p)
    <3>1. PICK x, row : Set(p, [o EXCEPT !.pc = "media", !.post = x, !.fresh = TRUE, !.row = row])
      BY <2>1, <2>2 DEF InsertPost, Step
    <3>2. PICK r : r = [o EXCEPT !.pc = "media", !.post = x, !.fresh = TRUE, !.row = row]
      OBVIOUS
    <3>3. On(r)
      BY <2>1, <2>2, <3>1, <3>2 DEF InsertPost, SocialRequest
    <3> QED
      BY <2>1, <3>3, OnwardKeeps
  <2>3. CASE UpdatePost(p)
    <3>1. PICK c : c = IF o.list = <<>> THEN "media" ELSE "deleteMedia"
      OBVIOUS
    <3>2. PICK new : Set(p, [o EXCEPT !.pc = c, !.row = new])
      BY <2>1, <2>3, <3>1 DEF UpdatePost, Step
    <3>3. c \in {"media", "deleteMedia"}
      BY <3>1
    <3>4. PICK r : r = [o EXCEPT !.pc = c, !.row = new]
      OBVIOUS
    <3>5. On(r)
      BY <2>1, <2>3, <3>2, <3>3, <3>4 DEF UpdatePost, SocialRequest
    <3> QED
      BY <2>1, <3>5, OnwardKeeps
  <2>4. CASE DeleteMedia(p)
    <3>1. PICK row : Set(p, [o EXCEPT !.pc = "media", !.row = row])
      BY <2>1, <2>4 DEF DeleteMedia, Step
    <3>2. PICK r : r = [o EXCEPT !.pc = "media", !.row = row]
      OBVIOUS
    <3>3. On(r)
      BY <2>1, <2>4, <3>1, <3>2 DEF DeleteMedia, SocialRequest
    <3> QED
      BY <2>1, <3>3, OnwardKeeps
  <2>5. CASE InsertMedia(p)
    <3>1. PICK n, row : Set(p, [o EXCEPT !.put = n, !.row = row])
      BY <2>1, <2>5 DEF InsertMedia, Step
    <3>2. PICK r : r = [o EXCEPT !.put = n, !.row = row]
      OBVIOUS
    <3>3. On(r)
      BY <2>1, <2>5, <3>1, <3>2 DEF InsertMedia, SocialRequest
    <3> QED
      BY <2>1, <3>3, OnwardKeeps
  <2>6. CASE PostRows(p)
    <3>1. PICK x, d : Set(p, [o EXCEPT !.pc = "attach", !.post = x, !.pet = d])
      BY <2>1, <2>6 DEF PostRows, Step
    <3>2. PICK r : r = [o EXCEPT !.pc = "attach", !.post = x, !.pet = d]
      OBVIOUS
    <3>3. On(r)
      BY <2>1, <2>6, <3>1, <3>2 DEF PostRows, SocialRequest
    <3> QED
      BY <2>1, <3>3, OnwardKeeps
  <2>7. CASE InsertFollow(p)
    <3>1. PICK new : new = ~Follows(o.user, o.pet)
      OBVIOUS
    <3>2. PICK c : c = IF new THEN "notify" ELSE "commit"
      OBVIOUS
    <3>3. Set(p, [o EXCEPT !.pc = c, !.fresh = new])
      BY <2>1, <2>7, <3>1, <3>2 DEF InsertFollow, Step
    <3>4. c \in {"notify", "commit"}
      BY <3>2
    <3>5. PICK r : r = [o EXCEPT !.pc = c, !.fresh = new]
      OBVIOUS
    <3>6. On(r)
      BY <2>1, <2>7, <3>3, <3>4, <3>5 DEF InsertFollow, SocialRequest
    <3> QED
      BY <2>1, <3>6, OnwardKeeps
  <2>8. CASE Notify(p)
    <3>1. \E r : On(r)
      BY <2>1, <2>8 DEF Notify, Step, SocialRequest
    <3> QED
      BY <2>1, <3>1, OnwardKeeps
  <2>9. CASE InsertBlock(p)
    <3>1. PICK new : Set(p, [o EXCEPT !.pc = "commit", !.fresh = new])
      BY <2>1, <2>9 DEF InsertBlock, Step
    <3>2. PICK r : r = [o EXCEPT !.pc = "commit", !.fresh = new]
      OBVIOUS
    <3>3. On(r)
      BY <2>1, <2>9, <3>1, <3>2 DEF InsertBlock, SocialRequest
    <3> QED
      BY <2>1, <3>3, OnwardKeeps
  <2>10. CASE DeletePets(p)
    <3>1. \E r : On(r)
      BY <2>1, <2>10 DEF DeletePets, Step, SocialRequest
    <3> QED
      BY <2>1, <3>1, OnwardKeeps
  <2> QED
    BY <1>4, <2>2, <2>3, <2>4, <2>5, <2>6, <2>7, <2>8, <2>9, <2>10
<1>5. ASSUME NEW p \in Requests,
             \/ CheckPet(p) \/ CheckSource(p) \/ CheckActor(p) \/ CheckTarget(p)
             \/ LockUser(p)
      PROVE  ListsAreHeaded'
  <2>1. PICK o \in SocialRequest : o = tx[p]
    BY SocialTypes
  <2>2. CASE End(p)
    BY <2>2, UnlistedFacts, UnlistedKeeps DEF End, Step
  <2>3. CASE ~End(p)
    <3> DEFINE On(r) == /\ Set(p, r) /\ o.pc # "done"
                        /\ r.seen = o.seen /\ r.listed = o.listed /\ r.op = o.op
                        /\ r.pc \in {"actor", "touch"} => o.pc = "actor"
    <3>1. CASE CheckPet(p)
      <4>1. PICK c : c = CASE o.op = "getPet" -> "readPet"
                           [] o.op = "follow" -> "insertFollow"
                           [] o.op = "unfollow" -> "deleteFollow"
                           [] OTHER -> "rows"
        OBVIOUS
      <4>2. PICK s : Set(p, [o EXCEPT !.pc = c, !.shown = s])
        BY <2>1, <2>3, <3>1, <4>1 DEF CheckPet, Step
      <4>3. c \in {"readPet", "insertFollow", "deleteFollow", "rows"}
        BY <4>1
      <4>4. PICK r : r = [o EXCEPT !.pc = c, !.shown = s]
        OBVIOUS
      <4>5. On(r)
        BY <2>1, <3>1, <4>2, <4>3, <4>4 DEF CheckPet, SocialRequest
      <4> QED
        BY <2>1, <4>5, OnwardKeeps
    <3>2. CASE CheckSource(p)
      <4>1. \E r : On(r)
        BY <2>1, <2>3, <3>2 DEF CheckSource, Step, SocialRequest
      <4> QED
        BY <2>1, <4>1, OnwardKeeps
    <3>3. CASE CheckActor(p)
      <4>1. \E r : On(r)
        BY <2>1, <2>3, <3>3 DEF CheckActor, Step, SocialRequest
      <4> QED
        BY <2>1, <4>1, OnwardKeeps
    <3>4. CASE CheckTarget(p)
      <4>1. \E r : On(r)
        BY <2>1, <2>3, <3>4 DEF CheckTarget, Step, SocialRequest
      <4> QED
        BY <2>1, <4>1, OnwardKeeps
    <3>5. CASE LockUser(p)
      <4>1. \E r : On(r)
        BY <2>1, <2>3, <3>5 DEF LockUser, Step, SocialRequest
      <4> QED
        BY <2>1, <4>1, OnwardKeeps
    <3> QED
      BY <1>5, <3>1, <3>2, <3>3, <3>4, <3>5
  <2> QED
    BY <2>2, <2>3
<1>6. ASSUME NEW p \in Requests,
             \/ CommitPost(p) \/ ReadPet(p) \/ AttachMedia(p) \/ StoryRows(p) \/ NearbyRows(p)
             \/ Touch(p) \/ CommitFollow(p)
      PROVE  ListsAreHeaded'
  <2>1. PICK i \in SocialRequest : i = Idle /\ i.listed = None
    BY UnlistedFacts
  <2>2. PICK f \in SocialRequest : f = Finished /\ f.listed = None /\ f.pc = "done"
    BY UnlistedFacts
  <2> DEFINE Bare(r) == Set(p, r) /\ r.listed = None /\ r.pc \notin {"actor", "touch"}
  <2>3. CASE CommitPost(p)
    <3>1. PICK u, x : Set(p, [i EXCEPT !.pc = "rows", !.op = "postByID", !.user = u, !.post = x])
      BY <2>1, <2>3 DEF CommitPost
    <3>2. PICK r : r = [i EXCEPT !.pc = "rows", !.op = "postByID", !.user = u, !.post = x]
      OBVIOUS
    <3>3. Bare(r)
      BY <2>1, <3>1, <3>2 DEF SocialRequest
    <3> QED
      BY <3>3, UnlistedKeeps
  <2>4. CASE ReadPet(p)
    <3>1. CASE End(p)
      BY <3>1, UnlistedFacts, UnlistedKeeps DEF End, Step
    <3>2. CASE ~End(p)
      <4>1. PICK w, d, l : Set(p, [f EXCEPT !.seen = w, !.shown = d, !.page = l])
        BY <2>2, <2>4, <3>2 DEF ReadPet, Answer, Step
      <4>2. PICK r : r = [f EXCEPT !.seen = w, !.shown = d, !.page = l]
        OBVIOUS
      <4>3. Bare(r)
        BY <2>2, <4>1, <4>2 DEF SocialRequest
      <4> QED
        BY <4>3, UnlistedKeeps
    <3> QED
      BY <3>1, <3>2
  <2>5. CASE AttachMedia(p)
    <3>1. PICK w, d, l : Set(p, [f EXCEPT !.seen = w, !.shown = d, !.page = l])
      BY <2>2, <2>5 DEF AttachMedia, Answer, Step
    <3>2. PICK r : r = [f EXCEPT !.seen = w, !.shown = d, !.page = l]
      OBVIOUS
    <3>3. Bare(r)
      BY <2>2, <3>2, <3>1 DEF SocialRequest
    <3> QED
      BY <3>3, UnlistedKeeps
  <2>6. CASE StoryRows(p)
    <3>1. PICK w, d, l : Set(p, [f EXCEPT !.seen = w, !.shown = d, !.page = l])
      BY <2>2, <2>6 DEF StoryRows, Answer, Step
    <3>2. PICK r : r = [f EXCEPT !.seen = w, !.shown = d, !.page = l]
      OBVIOUS
    <3>3. Bare(r)
      BY <2>2, <3>2, <3>1 DEF SocialRequest
    <3> QED
      BY <3>3, UnlistedKeeps
  <2>7. CASE NearbyRows(p)
    <3>1. PICK w, d, l : Set(p, [f EXCEPT !.seen = w, !.shown = d, !.page = l])
      BY <2>2, <2>7 DEF NearbyRows, Answer, Step
    <3>2. PICK r : r = [f EXCEPT !.seen = w, !.shown = d, !.page = l]
      OBVIOUS
    <3>3. Bare(r)
      BY <2>2, <3>2, <3>1 DEF SocialRequest
    <3> QED
      BY <3>3, UnlistedKeeps
  <2>8. CASE Touch(p)
    <3>1. \E r : Bare(r)
      BY <2>2, <2>8 DEF Touch, SocialRequest
    <3> QED
      BY <3>1, UnlistedKeeps
  <2>9. CASE CommitFollow(p)
    <3>1. \E r : Bare(r)
      BY <2>2, <2>9 DEF CommitFollow, SocialRequest
    <3> QED
      BY <3>1, UnlistedKeeps
  <2> QED
    BY <1>6, <2>3, <2>4, <2>5, <2>6, <2>7, <2>8, <2>9
<1>7. ASSUME NEW p \in Requests, CanView(p)
      PROVE  ListsAreHeaded'
  <2>1. PICK o \in SocialRequest : o = tx[p]
    BY SocialTypes
  <2>2. CASE End(p)
    BY <2>2, UnlistedFacts, UnlistedKeeps DEF End, Step
  <2>3. CASE ~End(p)
    <3>1. o.pc = "canView" /\ o.post \in Posts
      BY <1>7, <2>1, SocialTypes DEF CanView, Inputs, PostStages
    <3>2. PICK pc, w :
            /\ Set(p, [o EXCEPT !.pc = pc, !.seen = w])
            /\ o.op # "report" => w = Author(o.post) /\ CanViewPost(o.user, o.post)
            /\ o.op = "report" => w = None
      BY <1>7, <2>1, <2>3 DEF CanView, Step
    <3>3. o.op # "report" => w \in Users
      BY <3>1, <3>2, PostFacts DEF CanViewPost, Readable, Live, Author
    <3>4. PICK r : r = [o EXCEPT !.pc = pc, !.seen = w]
      OBVIOUS
    <3>5. r.op = o.op /\ r.seen = w /\ r.listed = o.listed
      <4>1. PICK v : v = [o EXCEPT !.pc = pc]
        OBVIOUS
      <4>2. v.op = o.op /\ v.listed = o.listed /\ r = [v EXCEPT !.seen = w]
        BY <3>4, <4>1 DEF SocialRequest
      <4> QED
        BY <3>4, <4>1, <4>2 DEF SocialRequest
    <3>6. (w # None \/ o.op = "report") /\ o.listed = None
      BY <2>1, <3>1, <3>2, <3>3, SocialNoneAssumption DEF ListsAreHeaded, Headed
    <3>7. Headed(r)
      BY <3>5, <3>6 DEF Headed
    <3> QED
      BY <3>2, <3>4, <3>7, HeadedKeeps
  <2> QED
    BY <2>2, <2>3
<1>8. ASSUME NEW p \in Requests, CheckUser(p) \/ ListFollowers(p) \/ ListComments(p)
      PROVE  ListsAreHeaded'
  <2>1. PICK o \in SocialRequest : o = tx[p]
    BY SocialTypes
  <2>2. PICK f \in SocialRequest : f = Finished /\ f.listed = None /\ f.pc = "done"
    BY UnlistedFacts
  <2>3. CASE End(p)
    BY <2>3, UnlistedFacts, UnlistedKeeps DEF End, Step
  <2>4. CASE CheckUser(p) /\ ~End(p)
    <3>1. o.pc = "forUser" /\ o.op # "comments"
      BY <2>1, <2>4, SocialTypes DEF CheckUser, Handler
    <3>2. \/ Set(p, [f EXCEPT !.seen = o.other, !.shown = None, !.page = <<>>])
          \/ Set(p, [o EXCEPT !.pc = "listUsers"])
      BY <2>1, <2>2, <2>4 DEF CheckUser, Answer, Step
    <3>3. CASE Set(p, [f EXCEPT !.seen = o.other, !.shown = None, !.page = <<>>])
      BY <2>2, <3>3, UnlistedKeeps DEF SocialRequest
    <3>4. CASE Set(p, [o EXCEPT !.pc = "listUsers"])
      <4>1. PICK r : r = [o EXCEPT !.pc = "listUsers"]
        OBVIOUS
      <4>2. r.seen = o.seen /\ r.listed = o.listed /\ r.op = o.op /\ r.pc = "listUsers"
        BY <4>1 DEF SocialRequest
      <4> QED
        BY <2>1, <3>1, <3>4, <4>1, <4>2, OnwardKeeps
    <3> QED
      BY <3>2, <3>3, <3>4
  <2>5. CASE ListFollowers(p) \/ ListComments(p)
    <3>1. PICK w, l : w \in Users /\ Set(p, [f EXCEPT !.seen = w, !.listed = l])
      <4>1. CASE ListFollowers(p)
        <5>1. o.other \in Users
          BY <2>1, <4>1, SocialTypes DEF ListFollowers, Inputs, UserStages
        <5> QED
          BY <2>1, <2>2, <4>1, <5>1 DEF ListFollowers, Step
      <4>2. CASE ListComments(p)
        <5>1. o.seen \in Users
          BY <2>1, <4>2 DEF ListComments, ListsAreHeaded, Headed, SocialRequest
        <5> QED
          BY <2>1, <2>2, <4>2, <5>1 DEF ListComments, Step
      <4> QED
        BY <2>5, <4>1, <4>2
    <3>2. PICK r : r = [f EXCEPT !.seen = w, !.listed = l]
      OBVIOUS
    <3>3. r.seen = w /\ r.pc = "done"
      BY <2>2, <3>2 DEF SocialRequest
    <3>4. Headed(r)
      BY <3>1, <3>3, SocialNoneAssumption DEF Headed
    <3> QED
      BY <3>1, <3>2, <3>4, HeadedKeeps
  <2> QED
    BY <1>8, <2>3, <2>4, <2>5
<1> QED
  BY <1>1, <1>2, <1>3, <1>4, <1>5, <1>6, <1>7, <1>8 DEF SocialNext, ExpireStory, socialVars

-----------------------------------------------------------------------------
(* The specification.                                                      *)

LEMMA SocialStart == SocialInitial => SocialInv
<1> SUFFICES ASSUME SocialInitial PROVE SocialInv
  OBVIOUS
<1>1. /\ pet = [a \in Pets |-> IF a \in Born THEN "active" ELSE "none"]
      /\ private = {} /\ departed = {} /\ post \in StartPosts
      /\ ties = {} /\ stories = {} /\ reports = {}
      /\ follows \subseteq Users \X Born
      /\ notices = [f \in Users \X Pets |-> IF f \in follows THEN 1 ELSE 0]
      /\ unfollowed = [f \in Users \X Pets |-> 0] /\ blocks = {} /\ mutes = {}
      /\ tx = [p \in Requests |-> Idle] /\ sight = [p \in Requests |-> {}]
  BY DEF SocialInitial, SocialInit
<1>2. pet \in [Pets -> PetStatuses]
  BY <1>1 DEF PetStatuses
<1>3. /\ follows \subseteq Users \X Pets
      /\ notices \in [Users \X Pets -> Nat] /\ unfollowed \in [Users \X Pets -> Nat]
  BY <1>1, BornAssumption
<1>4. EveryFollowIsTold
  BY <1>1 DEF EveryFollowIsTold
<1>5. post \in [Posts -> PostRow \cup {NoPost}]
      /\ \A x \in Posts : post[x] # NoPost => Covered(post[x])
  BY <1>1, StartPostsAssumption DEF Covered, Lists
<1>6. Tables
  BY <1>1, <1>2, <1>3, <1>4, <1>5 DEF Tables
<1>7. /\ Proper(Idle) /\ ~Writes(Idle) /\ ~Adding(Idle) /\ Holds(Idle, post, follows)
      /\ \A w \in Users : ~Pledged(Idle, w)
  BY RequestFacts, ListFacts DEF Proper, Handler, Inputs, Filling, Writes, Adding, Holds,
     Pledged, Active, PetStages, PostStages, UserStages
<1>8. \A p \in Requests : tx[p] = Idle
  BY <1>1
<1>9. tx \in [Requests -> SocialRequest] /\ sight \in [Requests -> SUBSET (Users \cup Pets)]
  BY <1>1, RequestFacts
<1>10. WritersApart
  BY <1>7, <1>8 DEF WritersApart
<1> QED
  BY <1>6, <1>7, <1>8, <1>9, <1>10 DEF SocialInv

LEMMA SocialStep ==
  ASSUME SocialInv, [SocialNext]_socialVars
  PROVE  SocialInv' /\ \A x \in Posts : post[x].gone => post'[x] = post[x]
<1>1. CASE UNCHANGED socialVars
  <2>1. UNCHANGED <<pet, private, departed, post, ties, stories, reports, follows, notices,
                    unfollowed, blocks, mutes, tx, sight>>
    BY <1>1 DEF socialVars, accounts, content, fans, safety
  <2>2. Tables'
    BY <2>1 DEF SocialInv, Tables, EveryFollowIsTold, Covered, Tie
  <2>3. WritersApart'
    BY <2>1 DEF SocialInv, WritersApart, Writes, Adding
  <2> QED
    BY <2>1, <2>2, <2>3 DEF SocialInv
<1>2. ASSUME NEW a \in Pets, ExpireStory(a)
      PROVE  SocialInv' /\ post' = post
  BY <1>2, ExpiryKeeps DEF ExpireStory
<1>3. ASSUME NEW p \in Requests,
             \/ Begin(p)
             \/ InsertPost(p) \/ UpdatePost(p) \/ DeleteMedia(p) \/ InsertMedia(p)
             \/ RefusePost(p)
             \/ CheckPet(p) \/ ReadPet(p) \/ PostRows(p) \/ AttachMedia(p)
             \/ StoryRows(p) \/ CheckSource(p) \/ NearbyRows(p) \/ EmptyPage(p)
             \/ CanView(p) \/ CheckActor(p) \/ Touch(p) \/ ListComments(p) \/ InsertStory(p)
             \/ InsertFollow(p) \/ Notify(p) \/ CommitFollow(p) \/ DeleteFollow(p)
             \/ CheckUser(p) \/ ListFollowers(p) \/ CheckTarget(p)
             \/ InsertBlock(p) \/ CommitBlock(p) \/ InsertMute(p) \/ Release(p)
             \/ CreatePet(p) \/ PatchPet(p) \/ RefusePet(p)
             \/ PatchMe(p) \/ LockUser(p) \/ DeletePets(p) \/ CommitDeletion(p)
             \/ Fail(p)
      PROVE  SocialInv' /\ post' = post
  <2>1. CASE Begin(p)
    <3>1. post' = post
      BY ZenonT(60), <2>1 DEF Begin, BeginRead, BeginAccount, BeginUser, BeginPet, BeginOwn,
         BeginCreatePost, BeginCreateStory, BeginDiscover, BeginPatchPost, BeginDeletePost,
         BeginTouch, Arrive, Step, content
    <3> QED
      BY <2>1, <3>1, BeginKeeps
  <2>2. CASE InsertPost(p) \/ UpdatePost(p) \/ DeleteMedia(p) \/ InsertMedia(p)
    BY <2>2, InsertPostKeeps, UpdatePostKeeps, DeleteMediaKeeps, InsertMediaKeeps
       DEF InsertPost, UpdatePost, DeleteMedia, InsertMedia, Step, content
  <2>3. CASE RefusePost(p) \/ EmptyPage(p) \/ RefusePet(p) \/ Fail(p)
    <3>1. End(p)
      BY <2>3 DEF RefusePost, EmptyPage, RefusePet, Fail
    <3> QED
      BY <3>1, EndKeeps DEF End, Step, content
  <2>4. CASE CheckPet(p) \/ ReadPet(p) \/ PostRows(p) \/ AttachMedia(p)
    BY <2>4, CheckPetKeeps, ReadPetKeeps, PostRowsKeeps, AttachMediaKeeps
       DEF CheckPet, ReadPet, PostRows, AttachMedia, Answer, End, Step, content
  <2>5. CASE StoryRows(p) \/ NearbyRows(p) \/ CheckUser(p) \/ ListFollowers(p)
    BY <2>5, StoryRowsKeeps, NearbyRowsKeeps, UsersKeep
       DEF StoryRows, NearbyRows, CheckUser, ListFollowers, Answer, End, Step, content
  <2>6. CASE CheckSource(p) \/ CheckActor(p) \/ Notify(p) \/ CheckTarget(p) \/ LockUser(p)
               \/ DeletePets(p)
    BY <2>6, ChecksKeep
       DEF CheckSource, CheckActor, Notify, CheckTarget, LockUser, DeletePets, End, Step,
           content
  <2>7. CASE CanView(p) \/ Touch(p) \/ ListComments(p) \/ InsertStory(p)
    BY <2>7, CanViewKeeps, TouchKeeps, ListCommentsKeeps, StoriesKeep
       DEF CanView, Touch, ListComments, InsertStory, End, Step, content
  <2>8. CASE InsertFollow(p) \/ InsertBlock(p) \/ CommitFollow(p) \/ DeleteFollow(p)
    BY <2>8, InsertsKeep, CommitFollowKeeps, DeleteFollowKeeps
       DEF InsertFollow, InsertBlock, CommitFollow, DeleteFollow, Step, content
  <2>9. CASE CommitBlock(p) \/ InsertMute(p) \/ Release(p)
    BY <2>9, SafetyKeeps DEF CommitBlock, InsertMute, Release, content
  <2>10. CASE CreatePet(p) \/ PatchPet(p) \/ PatchMe(p) \/ CommitDeletion(p)
    BY <2>10, AccountsKeep DEF CreatePet, PatchPet, PatchMe, CommitDeletion, content
  <2> QED
    BY <1>3, <2>1, <2>2, <2>3, <2>4, <2>5, <2>6, <2>7, <2>8, <2>9, <2>10
<1>4. ASSUME NEW p \in Requests, CommitPost(p) \/ RemovePost(p)
      PROVE  SocialInv' /\ \A x \in Posts : post[x].gone => post'[x] = post[x]
  BY <1>4, CommitPostKeeps, RemovePostKeeps
<1>5. CASE SocialNext
  BY <1>2, <1>3, <1>4, <1>5 DEF SocialNext
<1> QED
  BY <1>1, <1>5 DEF socialVars, content

\* The invariant that the properties follow from.
LEMMA SocialInvariant == SocialSpec => []SocialInv
BY SocialStart, SocialStep, PTL DEF SocialSpec

LEMMA ListsInvariant == SocialSpec => []ListsAreHeaded
<1>1. SocialInitial => ListsAreHeaded
  BY UnlistedFacts DEF SocialInitial, SocialInit, ListsAreHeaded, Headed
<1> QED
  BY <1>1, HeadedStep, SocialInvariant, PTL DEF SocialSpec

\* Every table holds what its columns allow, and every request is at a
\* statement of its handler with the transaction that the statement needs
\* (social/handlers.go, pets.go, safety.go, account/deletion.go).
THEOREM SocialTypesHold == SocialSpec => []SocialTypeOK
<1>1. SocialInv => SocialTypeOK
  BY DEF SocialInv, Tables, Proper, Writes, SocialTypeOK
<1> QED
  BY <1>1, SocialInvariant, PTL

\* A post's carousel is one list that a request sent, whole and in order,
\* however many requests edit the post and wherever they fail
\* (social/handlers.go:246-511, 578-613).
THEOREM CarouselsStayWhole == SocialSpec => []CarouselIsOneRequest
<1>1. SocialInv => CarouselIsOneRequest
  BY DEF SocialInv, Tables, Proper, Covered, CarouselIsOneRequest
<1> QED
  BY <1>1, SocialInvariant, PTL

\* Every follow is announced exactly once, through any retries and failures
\* of concurrent requests (social/handlers.go:1044-1094).
THEOREM FollowsAreToldOnce == SocialSpec => []EveryFollowIsTold
<1>1. SocialInv => EveryFollowIsTold
  BY DEF SocialInv, Tables
<1> QED
  BY <1>1, SocialInvariant, PTL

\* Nobody is shown who was asked for, nobody's pet, post or story is shown, and
\* nobody's post or pet acted on, whom a block kept from the requester for the
\* whole of the request, nor are their comments or followers listed
\* (social/handlers.go:79-83, 738-754; visibility/pets.go, users.go).  Whom such
\* a list of somebody else names is not meant: the code has no rule for it.
THEOREM BlocksAreRespected == SocialSpec => []BlocksHold
<1>1. ASSUME SocialInv, NEW p \in Requests, tx[p].pc = "done", tx[p].seen # None
      PROVE  tx[p].seen \in sight[p]
  <2>1. tx[p].seen \in Users
    BY <1>1, SocialTypes DEF SocialRequest
  <2> QED
    BY <1>1, <2>1 DEF SocialInv, Pledged
<1>2. SocialInv /\ ListsAreHeaded => BlocksHold
  BY <1>1 DEF BlocksHold, ListsAreHeaded, Headed
<1> QED
  BY <1>2, SocialInvariant, ListsInvariant, PTL

\* A deleted post never comes back and is never edited again, whatever edits
\* of several statements are under way (social/handlers.go:416-536).
THEOREM DeletedPostsStayDeleted == SocialSpec => DeletedPostsAreFrozen
<1>1. SocialInv /\ [SocialNext]_socialVars =>
        [\A x \in Posts : post[x].gone => post'[x] = post[x]]_socialVars
  BY SocialStep
<1> QED
  BY <1>1, SocialInvariant, PTL DEF SocialSpec, DeletedPostsAreFrozen

=============================================================================
