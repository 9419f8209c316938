----------------------------- MODULE Community -----------------------------
(***************************************************************************)
(* Communities and their members, events and RSVPs, adoption listings and  *)
(* saves: the handlers of modules/community, events and adoption, run      *)
(* concurrently against PostgreSQL under READ COMMITTED.  One action is    *)
(* one SQL statement; a community and its owner's membership are written   *)
(* by one transaction.  A community is named by its unique name; nothing   *)
(* deletes a community, an event or a listing.                             *)
(***************************************************************************)
EXTENDS Naturals, FiniteSets

CONSTANTS
  People,      \* users
  Names,       \* communities.name, which is UNIQUE
  Events,      \* events.id
  Listings,    \* adoption_listings.id
  Calls,       \* HTTP requests, each of which runs one handler once
  Nobody       \* the absent value

ASSUME NobodyAssumption == Nobody \notin People \cup Names \cup Events \cup Listings

VARIABLES
  community,   \* owner_user_id of a community, or Nobody
  role,        \* community_members: role[<<n, u>>]
  event,       \* creator and community of an event, or Nobody
  rsvp,        \* event_rsvps: rsvp[<<e, u>>]
  listing,     \* owner_user_id of a listing, or Nobody
  savedBy,     \* adoption_saves: <<listing, user>>
  call         \* the requests and their open transactions

groups == <<community, role>>
meetings == <<event, rsvp>>
adoptions == <<listing, savedBy>>
communityVars == <<groups, meetings, adoptions, call>>

Roles == {"none", "member", "owner"}
Answers == {"none", "going", "interested"}

NoCall == [pc |-> "idle", op |-> Nobody, user |-> Nobody, name |-> Nobody,
           event |-> Nobody, listing |-> Nobody, status |-> "none"]
Spent == [NoCall EXCEPT !.pc = "done"]
Running(r) == r.pc \notin {"idle", "done"}

Put(p, r) == call' = [call EXCEPT ![p] = r]
Goto(p, pc) ==
  /\ Put(p, [call[p] EXCEPT !.pc = pc])
  /\ UNCHANGED <<groups, meetings, adoptions>>
Leave(p) == Put(p, Spent) /\ UNCHANGED <<groups, meetings, adoptions>>
Enter(p, r) ==
  call[p].pc = "idle" /\ Put(p, r) /\ UNCHANGED <<groups, meetings, adoptions>>

-----------------------------------------------------------------------------
(* Communities.                                                            *)

BeginCommunity(p, u, n, op) ==
  /\ op \in {"create", "join", "leave"}
  /\ Enter(p, [NoCall EXCEPT !.op = op, !.user = u, !.name = n,
       !.pc = CASE op = "create" -> "insertCommunity" [] op = "join" -> "joinRow"
                [] OTHER -> "leaveCheck"])

\* The uncommitted row of the same name makes an INSERT wait.
NameFree(p) ==
  \A q \in Calls \ {p} : ~(call[q].pc \in {"insertOwner", "commitCommunity"}
                             /\ call[q].name = call[p].name)

InsertCommunity(p) ==
  /\ call[p].pc = "insertCommunity" /\ NameFree(p)
  /\ community[call[p].name] = Nobody
  /\ Goto(p, "insertOwner")

\* unique_violation: community_name_taken.
NameTaken(p) ==
  /\ call[p].pc = "insertCommunity" /\ NameFree(p)
  /\ community[call[p].name] # Nobody
  /\ Leave(p)

InsertOwner(p) == call[p].pc = "insertOwner" /\ Goto(p, "commitCommunity")

CommitCommunity(p) ==
  LET r == call[p] IN
  /\ r.pc = "commitCommunity"
  /\ community' = [community EXCEPT ![r.name] = r.user]
  /\ role' = [role EXCEPT ![<<r.name, r.user>>] = "owner"]
  /\ Put(p, Spent) /\ UNCHANGED <<meetings, adoptions>>

\* INSERT ... SELECT ... ON CONFLICT DO NOTHING; a join without an effect
\* then asks whether the community exists.
JoinRow(p) ==
  LET r == call[p]
      new == community[r.name] # Nobody /\ role[<<r.name, r.user>>] = "none" IN
  /\ r.pc = "joinRow"
  /\ role' = IF new THEN [role EXCEPT ![<<r.name, r.user>>] = "member"] ELSE role
  /\ Put(p, IF new THEN Spent ELSE [r EXCEPT !.pc = "joinExists"])
  /\ UNCHANGED <<community, meetings, adoptions>>

JoinExists(p) == call[p].pc = "joinExists" /\ Leave(p)

\* Fault: the check of the role is forgotten.
LeaveCheckExists(p) ==
  LET r == call[p] IN
  /\ r.pc = "leaveCheck"
  /\ IF community[r.name] = Nobody THEN Leave(p) ELSE Goto(p, "leaveRow")

\* community_not_found, owner_cannot_leave.
LeaveCheck(p) ==
  LET r == call[p] IN
  /\ r.pc = "leaveCheck"
  /\ IF community[r.name] = Nobody \/ role[<<r.name, r.user>>] = "owner"
       THEN Leave(p) ELSE Goto(p, "leaveRow")

LeaveRow(p) ==
  LET r == call[p] IN
  /\ r.pc = "leaveRow"
  /\ role' = [role EXCEPT ![<<r.name, r.user>>] = "none"]
  /\ Put(p, Spent) /\ UNCHANGED <<community, meetings, adoptions>>

-----------------------------------------------------------------------------
(* Events.                                                                 *)

\* n = Nobody: an event of no community.
BeginEvent(p, u, n) ==
  Enter(p, [NoCall EXCEPT !.op = "event", !.user = u, !.name = n,
              !.pc = IF n = Nobody THEN "insertEvent" ELSE "hostCheck"])

HostCheck(p) ==
  LET r == call[p] IN
  /\ r.pc = "hostCheck"
  /\ IF role[<<r.name, r.user>>] # "none" THEN Goto(p, "insertEvent") ELSE Leave(p)

InsertEvent(p) ==
  LET r == call[p] IN
  /\ r.pc = "insertEvent"
  /\ \E e \in Events :
       /\ event[e] = Nobody
       /\ event' = [event EXCEPT ![e] = [creator |-> r.user, community |-> r.name]]
  /\ Put(p, Spent) /\ UNCHANGED <<groups, rsvp, adoptions>>

BeginRSVP(p, u, e, status) ==
  /\ status \in Answers
  /\ Enter(p, [NoCall EXCEPT !.op = "rsvp", !.user = u, !.event = e, !.status = status,
              !.pc = IF status = "none" THEN "eventExists" ELSE "upsertRSVP"])

\* INSERT ... SELECT ... ON CONFLICT DO UPDATE; event_not_found.
UpsertRSVP(p) ==
  LET r == call[p] IN
  /\ r.pc = "upsertRSVP"
  /\ rsvp' = IF event[r.event] # Nobody
               THEN [rsvp EXCEPT ![<<r.event, r.user>>] = r.status] ELSE rsvp
  /\ Put(p, Spent) /\ UNCHANGED <<groups, event, adoptions>>

EventExists(p) ==
  /\ call[p].pc = "eventExists"
  /\ IF event[call[p].event] # Nobody THEN Goto(p, "deleteRSVP") ELSE Leave(p)

DeleteRSVP(p) ==
  LET r == call[p] IN
  /\ r.pc = "deleteRSVP"
  /\ rsvp' = [rsvp EXCEPT ![<<r.event, r.user>>] = "none"]
  /\ Put(p, Spent) /\ UNCHANGED <<groups, event, adoptions>>

-----------------------------------------------------------------------------
(* Adoption.                                                               *)

BeginListing(p, u) ==
  Enter(p, [NoCall EXCEPT !.op = "list", !.user = u, !.pc = "insertListing"])

InsertListing(p) ==
  LET r == call[p] IN
  /\ r.pc = "insertListing"
  /\ \E l \in Listings :
       listing[l] = Nobody /\ listing' = [listing EXCEPT ![l] = r.user]
  /\ Put(p, Spent) /\ UNCHANGED <<groups, meetings, savedBy>>

BeginSave(p, u, l, op) ==
  /\ op \in {"save", "unsave"}
  /\ Enter(p, [NoCall EXCEPT !.op = op, !.user = u, !.listing = l,
              !.pc = "listingExists"])

ListingExists(p) ==
  /\ call[p].pc = "listingExists"
  /\ IF listing[call[p].listing] # Nobody THEN Goto(p, "setSaved") ELSE Leave(p)

SetSaved(p) ==
  LET r == call[p]  s == {<<r.listing, r.user>>} IN
  /\ r.pc = "setSaved"
  /\ savedBy' = IF r.op = "save" THEN savedBy \cup s ELSE savedBy \ s
  /\ Put(p, Spent) /\ UNCHANGED <<groups, meetings, listing>>

\* A statement fails, the connection is lost or the process dies.
Break(p) == Running(call[p]) /\ Leave(p)

-----------------------------------------------------------------------------
(* The specification.                                                      *)

CommunityInit(c) ==
  /\ community = [n \in Names |-> Nobody]
  /\ role = [k \in Names \X People |-> "none"]
  /\ event = [e \in Events |-> Nobody]
  /\ rsvp = [k \in Events \X People |-> "none"]
  /\ listing = [l \in Listings |-> Nobody]
  /\ savedBy = {}
  /\ call = c

BeginCall(p) ==
  \E u \in People :
    \/ \E n \in Names, op \in {"create", "join", "leave"} : BeginCommunity(p, u, n, op)
    \/ \E n \in Names \cup {Nobody} : BeginEvent(p, u, n)
    \/ \E e \in Events, s \in Answers : BeginRSVP(p, u, e, s)
    \/ BeginListing(p, u)
    \/ \E l \in Listings, op \in {"save", "unsave"} : BeginSave(p, u, l, op)

CommunityInitial == CommunityInit([p \in Calls |-> NoCall])

CommunityNext ==
  \E p \in Calls :
    \/ BeginCall(p)
    \/ InsertCommunity(p) \/ NameTaken(p) \/ InsertOwner(p) \/ CommitCommunity(p)
    \/ JoinRow(p) \/ JoinExists(p) \/ LeaveCheck(p) \/ LeaveRow(p)
    \/ HostCheck(p) \/ InsertEvent(p)
    \/ UpsertRSVP(p) \/ EventExists(p) \/ DeleteRSVP(p)
    \/ InsertListing(p) \/ ListingExists(p) \/ SetSaved(p)
    \/ Break(p)

CommunitySpec == CommunityInitial /\ [][CommunityNext]_communityVars

-----------------------------------------------------------------------------
(* Properties.                                                             *)

Call ==
  [pc : {"idle", "done", "insertCommunity", "insertOwner", "commitCommunity",
         "joinRow", "joinExists", "leaveCheck", "leaveRow", "hostCheck",
         "insertEvent", "upsertRSVP", "eventExists", "deleteRSVP",
         "insertListing", "listingExists", "setSaved"},
   op : {"create", "join", "leave", "event", "rsvp", "list", "save", "unsave", Nobody},
   user : People \cup {Nobody}, name : Names \cup {Nobody},
   event : Events \cup {Nobody}, listing : Listings \cup {Nobody}, status : Answers]

\* Members, RSVPs and saves belong to communities, events and listings that
\* exist (the foreign keys of migrations/000001_init.sql), each in a state
\* that its column allows.
CommunityTypeOK ==
  /\ community \in [Names -> People \cup {Nobody}]
  /\ role \in [Names \X People -> Roles]
  /\ event \in [Events -> [creator : People, community : Names \cup {Nobody}]
                            \cup {Nobody}]
  /\ rsvp \in [Events \X People -> Answers]
  /\ listing \in [Listings -> People \cup {Nobody}]
  /\ savedBy \subseteq Listings \X People
  /\ call \in [Calls -> Call]
  /\ \A k \in Names \X People : role[k] # "none" => community[k[1]] # Nobody
  /\ \A k \in Events \X People : rsvp[k] # "none" => event[k[1]] # Nobody
  /\ \A s \in savedBy : listing[s[1]] # Nobody
  /\ \A e \in Events : event[e] # Nobody /\ event[e].community # Nobody
                          => community[event[e].community] # Nobody

\* A community always has exactly its owner as its member with the role of
\* owner: no join, leave, retry or crash takes the role away or gives it to
\* another, and no community exists without it, although leave reads the role
\* in one statement and deletes the row in another (community/handler.go:
\* 108-215).
OwnersBelong ==
  \A n \in Names, u \in People : role[<<n, u>>] = "owner" <=> community[n] = u
=============================================================================
