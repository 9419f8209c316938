------------------------------ MODULE Matching ------------------------------
(***************************************************************************)
(* Swipes, matches and blocks: matching/service.go (Swipe), safety.go      *)
(* (createBlock, deleteBlock) and the changes of pets/pets.go that a swipe *)
(* depends on, run concurrently against PostgreSQL under READ COMMITTED.   *)
(* One action is one SQL statement of a handler; the writes of a           *)
(* transaction are kept in its record and become visible at Commit.        *)
(* A match stands for the matches row, its chat and the two chat_members,  *)
(* which one transaction inserts together.                                 *)
(***************************************************************************)
EXTENDS Naturals, FiniteSets

CONSTANTS
  Pets,      \* pets.id, ordered as LEAST and GREATEST order uuids
  Owners,    \* users
  OwnerOf,   \* OwnerOf[a]: pets.owner_id
  Decisions, \* the decisions this instance uses
  ReqIds,    \* client_request_id values
  Requests,  \* HTTP requests, each of which runs one handler once
  Changing,  \* the pets whose owners pause, resume or delete them here
  None       \* the absent value

ASSUME PetsAssumption == Pets \subseteq Nat
ASSUME ChangingAssumption == Changing \subseteq Pets
ASSUME OwnerOfAssumption == OwnerOf \in [Pets -> Owners]
ASSUME DecisionsAssumption == Decisions \subseteq {"skip", "like", "super_like"}
ASSUME MatchingNoneAssumption ==
  /\ None \notin Pets /\ None \notin Owners
  /\ None \notin Decisions /\ None \notin ReqIds
  /\ None \notin [decision : Decisions, req : ReqIds]

VARIABLES
  petStatus,  \* pets.status; "deleted" stands for deleted_at too
  swipe,      \* pet_swipes: swipe[<<a, b>>] is a's swipe about b, None if no row
  match,      \* matches.status of a pair, "none" when there is no row
  notices,    \* notifications rows of type match, per pair and owner
  blocks,     \* blocks rows <<blocker, blocked>>
  severed,    \* history: the matches a committed block found active
  published,  \* history: the match.created events handed to the hub
  tx          \* the requests and their open transactions

rows == <<petStatus, swipe, match, notices, blocks>>
vars == <<rows, severed, published, tx>>

Interested(d) == d \in {"like", "super_like"}
Pairs == {m \in Pets \X Pets : m[1] < m[2]}
PairOf(a, b) == IF a < b THEN <<a, b>> ELSE <<b, a>>
Between(u, v) ==
  {m \in Pairs : {OwnerOf[m[1]], OwnerOf[m[2]]} = {u, v}}

-----------------------------------------------------------------------------
(* Requests.                                                               *)

PCs == {"idle", "lock", "check", "load", "insert", "reciprocal", "match",
        "block", "sever", "severing", "commit", "publish", "done"}
Answers == {"none", "refused", "conflict", "matched", "unmatched", "blocked"}

Idle == [pc |-> "idle", user |-> None, source |-> None, target |-> None,
         decision |-> None, req |-> None, locked |-> {}, swiped |-> FALSE,
         created |-> FALSE, other |-> None, found |-> {}, todo |-> {},
         cut |-> {}, answer |-> "none"]

Transaction ==
  [pc : PCs, user : Owners \cup {None},
   source : Pets \cup {None}, target : Pets \cup {None},
   decision : Decisions \cup {None}, req : ReqIds \cup {None},
   locked : SUBSET Pets,     \* pets rows locked FOR UPDATE
   swiped : BOOLEAN,         \* uncommitted: the pet_swipes row
   created : BOOLEAN,        \* uncommitted: match, chat, members and notices
   other : Owners \cup {None},  \* the user to block
   found : SUBSET Pairs,     \* matches in the snapshot of the severing UPDATE
   todo : SUBSET Pairs,      \* those it has still to lock and re-read
   cut : SUBSET Pairs,       \* uncommitted: status = blocked
   answer : Answers]

Active(p) == tx[p].pc \notin {"idle", "done"}
Pair(r) == PairOf(r.source, r.target)

\* Row locks are exclusive and end with the transaction.
PetFree(p, a) == \A q \in Requests \ {p} : a \notin tx[q].locked
MatchFree(p, m) ==
  \A q \in Requests \ {p} :
     m \notin tx[q].cut /\ ~(tx[q].created /\ Pair(tx[q]) = m)

Set(p, r) == tx' = [tx EXCEPT ![p] = r]
Step(p, r) == Set(p, r) /\ UNCHANGED <<rows, severed, published>>
End(p, answer) == Step(p, [Idle EXCEPT !.pc = "done", !.source = tx[p].source,
                             !.target = tx[p].target, !.req = tx[p].req,
                             !.decision = tx[p].decision, !.answer = answer])

-----------------------------------------------------------------------------
(* Swipe.                                                                  *)

\* Fault: the decision is not validated, and may be any text.
BeginSwipeUnvalidated(p, u, a, b, d, i) ==
  /\ tx[p].pc = "idle"
  /\ a # b
  /\ \E text \in {d, "love"} :
       Step(p, [Idle EXCEPT !.pc = "lock", !.user = u, !.source = a,
                            !.target = b, !.decision = text, !.req = i])

BeginSwipe(p, u, a, b, d, i) ==
  /\ tx[p].pc = "idle"
  /\ a # b
  /\ Step(p, [Idle EXCEPT !.pc = "lock", !.user = u, !.source = a,
                          !.target = b, !.decision = d, !.req = i])

\* Fault: the rows are locked in the order of the arguments.
LockPetAsGiven(p) ==
  LET a == IF tx[p].source \in tx[p].locked THEN tx[p].target
                                            ELSE tx[p].source IN
  /\ tx[p].pc = "lock"
  /\ PetFree(p, a)
  /\ Step(p, [tx[p] EXCEPT !.locked = @ \cup {a},
                           !.pc = IF tx[p].locked = {} THEN @ ELSE "check"])

\* Fault: only the swiping pet is locked.
LockPetSourceOnly(p) ==
  /\ tx[p].pc = "lock"
  /\ PetFree(p, tx[p].source)
  /\ Step(p, [tx[p] EXCEPT !.locked = {tx[p].source}, !.pc = "check"])

\* Fault: no FOR UPDATE.
LockPetUnlocked(p) ==
  /\ tx[p].pc = "lock"
  /\ Step(p, [tx[p] EXCEPT !.pc = "check"])

\* lockPetPair: SELECT ... ORDER BY id FOR UPDATE locks one row after another.
NextPet(r) == IF r.locked = {} THEN Pair(r)[1] ELSE Pair(r)[2]
LockPet(p) ==
  /\ tx[p].pc = "lock"
  /\ PetFree(p, NextPet(tx[p]))
  /\ Step(p, [tx[p] EXCEPT !.locked = @ \cup {NextPet(tx[p])},
                           !.pc = IF tx[p].locked = {} THEN @ ELSE "check"])

MaySwipe(r) ==
  /\ petStatus[r.source] = "active" /\ petStatus[r.target] = "active"
  /\ OwnerOf[r.source] = r.user /\ OwnerOf[r.target] # r.user

\* ErrPetNotFound, ErrForbidden, ErrInvalidSwipe.
Refuse(p) ==
  /\ tx[p].pc = "check"
  /\ ~MaySwipe(tx[p])
  /\ End(p, "refused")

\* The stored swipe a request repeats: swipeByRequestID first, swipeByTarget
\* when there is none.
Earlier(r) ==
  LET byRequest == {b \in Pets : /\ swipe[<<r.source, b>>] # None
                                 /\ swipe[<<r.source, b>>].req = r.req}
  IN IF byRequest # {} THEN byRequest
     ELSE {b \in {r.target} : swipe[<<r.source, b>>] # None}

\* Fault: an earlier swipe is taken as the answer without comparing it.
SameDecisionUnchecked(r) == Earlier(r) # {}

SameDecision(r) ==
  /\ Earlier(r) = {r.target}
  /\ swipe[<<r.source, r.target>>].decision = r.decision

\* ErrIdempotencyConflict, ErrAlreadySwiped.
Conflict(p) ==
  /\ tx[p].pc = "check"
  /\ MaySwipe(tx[p])
  /\ Earlier(tx[p]) # {}
  /\ ~SameDecision(tx[p])
  /\ End(p, "conflict")

Repeat(p) ==
  /\ tx[p].pc = "check"
  /\ MaySwipe(tx[p])
  /\ SameDecision(tx[p])
  /\ Step(p, [tx[p] EXCEPT !.pc = "load"])

\* Fault: the match that is loaded is handled as one that was created.
LoadMatchAsCreated(p) ==
  /\ tx[p].pc = "load"
  /\ Step(p, [tx[p] EXCEPT !.pc = "commit",
                !.created = match[Pair(tx[p])] = "active",
                !.answer = IF match[Pair(tx[p])] = "active" THEN "matched"
                                                            ELSE "unmatched"])

\* swipeResult: the match is part of the answer while it is active.
LoadMatch(p) ==
  /\ tx[p].pc = "load"
  /\ Step(p, [tx[p] EXCEPT !.pc = "commit",
                !.answer = IF match[Pair(tx[p])] = "active" THEN "matched"
                                                            ELSE "unmatched"])

FirstSwipe(p) ==
  /\ tx[p].pc = "check"
  /\ MaySwipe(tx[p])
  /\ Earlier(tx[p]) = {}
  /\ Step(p, [tx[p] EXCEPT !.pc = "insert"])

\* The unique keys of pet_swipes cannot be taken: SwipeKeysAreFree.
InsertSwipe(p) ==
  /\ tx[p].pc = "insert"
  /\ Step(p, [tx[p] EXCEPT !.swiped = TRUE, !.answer = "unmatched",
                           !.pc = IF Interested(tx[p].decision)
                                    THEN "reciprocal" ELSE "commit"])

\* Fault: source and target are swapped, so it finds the row just inserted.
ReciprocalSwapped(p) ==
  /\ tx[p].pc = "reciprocal"
  /\ Step(p, [tx[p] EXCEPT !.pc = "match"])

Reciprocal(p) ==
  /\ tx[p].pc = "reciprocal"
  /\ LET back == swipe[<<tx[p].target, tx[p].source>>] IN
     Step(p, [tx[p] EXCEPT !.pc = IF back # None /\ Interested(back.decision)
                                    THEN "match" ELSE "commit"])

\* createOrLoadMatch and the two notifications.  ON CONFLICT the row that is
\* there is loaded; only a row of its own makes the swipe notify.
CreateMatch(p) ==
  /\ tx[p].pc = "match"
  /\ MatchFree(p, Pair(tx[p]))
  /\ Step(p, [tx[p] EXCEPT !.pc = "commit",
                !.created = match[Pair(tx[p])] = "none",
                !.answer = IF match[Pair(tx[p])] = "blocked" THEN "unmatched"
                                                             ELSE "matched"])

-----------------------------------------------------------------------------
(* createBlock and deleteBlock.                                            *)

BeginBlock(p, u, v) ==
  /\ tx[p].pc = "idle"
  /\ u # v
  /\ Step(p, [Idle EXCEPT !.pc = "block", !.user = u, !.other = v])

\* INSERT ... ON CONFLICT DO NOTHING waits for an insertion of the same row.
InsertBlock(p) ==
  /\ tx[p].pc = "block"
  /\ \A q \in Requests \ {p} :
        ~(/\ tx[q].pc \in {"sever", "severing", "commit"}
          /\ tx[q].user = tx[p].user /\ tx[q].other = tx[p].other)
  /\ Step(p, [tx[p] EXCEPT !.pc = "sever"])

\* UPDATE matches SET status = 'blocked': its snapshot, then row by row.
BeginSever(p) ==
  LET found == {m \in Between(tx[p].user, tx[p].other) :
                   match[m] = "active"} IN
  /\ tx[p].pc = "sever"
  /\ Step(p, [tx[p] EXCEPT !.pc = "severing", !.found = found, !.todo = found])

SeverMatch(p, m) ==
  /\ tx[p].pc = "severing"
  /\ m \in tx[p].todo
  /\ MatchFree(p, m)
  /\ Step(p, [tx[p] EXCEPT !.todo = @ \ {m},
                !.cut = IF match[m] = "active" THEN @ \cup {m} ELSE @])

EndSever(p) ==
  /\ tx[p].pc = "severing"
  /\ tx[p].todo = {}
  /\ Step(p, [tx[p] EXCEPT !.pc = "commit", !.answer = "blocked"])

DeleteBlock(u, v) ==
  /\ <<u, v>> \in blocks
  /\ blocks' = blocks \ {<<u, v>>}
  /\ UNCHANGED <<petStatus, swipe, match, notices, severed, published, tx>>

-----------------------------------------------------------------------------
(* The end of a request.                                                   *)

\* COMMIT.  A swipe that created the match still has to publish it.
Commit(p) ==
  LET r == tx[p]
      ended == [Idle EXCEPT !.pc = "done", !.source = r.source,
                  !.target = r.target, !.req = r.req,
                  !.decision = r.decision, !.answer = r.answer]
  IN
  /\ r.pc = "commit"
  /\ swipe' = [ab \in Pets \X Pets |->
                 IF r.swiped /\ ab = <<r.source, r.target>>
                   THEN [decision |-> r.decision, req |-> r.req]
                   ELSE swipe[ab]]
  /\ match' = [m \in Pairs |-> CASE m \in r.cut -> "blocked"
                                 [] r.created /\ m = Pair(r) -> "active"
                                 [] OTHER -> match[m]]
  /\ notices' = [m \in Pairs |-> [u \in Owners |->
                   IF /\ r.created /\ m = Pair(r)
                      /\ u \in {OwnerOf[r.source], OwnerOf[r.target]}
                     THEN notices[m][u] + 1 ELSE notices[m][u]]]
  /\ blocks' = blocks \cup (IF r.other = None THEN {}
                                              ELSE {<<r.user, r.other>>})
  /\ severed' = severed \cup r.found
  /\ Set(p, IF r.created THEN [ended EXCEPT !.pc = "publish"] ELSE ended)
  /\ UNCHANGED <<petStatus, published>>

\* PublishToUsers after the commit, its error ignored.
Publish(p) ==
  /\ tx[p].pc = "publish"
  /\ published' = published \cup {Pair(tx[p])}
  /\ Set(p, [tx[p] EXCEPT !.pc = "done"])
  /\ UNCHANGED <<rows, severed>>

\* A failed statement, a cancelled request, a deadlock's victim or a crash:
\* the transaction is rolled back, or its commit gets no answer.
Fail(p) ==
  /\ Active(p)
  /\ End(p, "none")

\* pets.go patch and delete: one UPDATE, which waits for the swipes that hold
\* the row.  "paused" stands for every status but active and deleted.
ChangePet(a, status) ==
  /\ a \in Changing
  /\ petStatus[a] # "deleted"
  /\ \A q \in Requests : a \notin tx[q].locked
  /\ petStatus' = [petStatus EXCEPT ![a] = status]
  /\ UNCHANGED <<swipe, match, notices, blocks, severed, published, tx>>

InitWith(status) ==
  /\ petStatus = status
  /\ swipe = [ab \in Pets \X Pets |-> None]
  /\ match = [m \in Pairs |-> "none"]
  /\ notices = [m \in Pairs |-> [u \in Owners |-> 0]]
  /\ blocks = {} /\ severed = {} /\ published = {}
  /\ tx = [p \in Requests |-> Idle]

Init == InitWith([a \in Pets |-> "active"])

SwipeStep(p) ==
  \/ LockPet(p) \/ Refuse(p) \/ Conflict(p) \/ Repeat(p) \/ LoadMatch(p)
  \/ FirstSwipe(p) \/ InsertSwipe(p) \/ Reciprocal(p) \/ CreateMatch(p)

BlockStep(p) ==
  \/ InsertBlock(p) \/ BeginSever(p)
  \/ \E m \in Pairs : SeverMatch(p, m)
  \/ EndSever(p)

Next ==
  \/ \E p \in Requests :
       \/ \E u \in Owners, a, b \in Pets, d \in Decisions, i \in ReqIds :
            BeginSwipe(p, u, a, b, d, i)
       \/ \E u, v \in Owners : BeginBlock(p, u, v)
       \/ SwipeStep(p) \/ BlockStep(p)
       \/ Commit(p) \/ Publish(p) \/ Fail(p)
  \/ \E u, v \in Owners : DeleteBlock(u, v)
  \/ \E a \in Pets, s \in {"active", "paused", "deleted"} : ChangePet(a, s)

Spec == Init /\ [][Next]_vars

-----------------------------------------------------------------------------
(* Properties.                                                             *)

\* Every variable has its type.
TypeOK ==
  /\ petStatus \in [Pets -> {"active", "paused", "deleted"}]
  /\ swipe \in [Pets \X Pets ->
                  [decision : Decisions, req : ReqIds] \cup {None}]
  /\ match \in [Pairs -> {"none", "active", "blocked"}]
  /\ notices \in [Pairs -> [Owners -> Nat]]
  /\ blocks \subseteq Owners \X Owners
  /\ severed \subseteq Pairs /\ published \subseteq Pairs
  /\ tx \in [Requests -> Transaction]

Likes(a, b) == swipe[<<a, b>>] # None /\ Interested(swipe[<<a, b>>].decision)

\* Two pets have a match exactly when each has liked the other: two likes that
\* cross never miss each other, although neither transaction sees the other's
\* swipe before it commits (service.go:150, 211-223).
MatchIffMutual ==
  \A m \in Pairs :
    match[m] # "none" <=> Likes(m[1], m[2]) /\ Likes(m[2], m[1])

\* Each of the two owners is told of a match once, however often the swipes
\* are retried, and match.created is published about committed matches only,
\* whatever fails between the insertion and the commit (service.go:231-255).
ToldOnce ==
  /\ \A m \in Pairs, u \in Owners :
       notices[m][u] =
         IF match[m] # "none" /\ u \in {OwnerOf[m[1]], OwnerOf[m[2]]}
           THEN 1 ELSE 0
  /\ \A m \in published : match[m] # "none"

\* The answer to a swipe stands: what it reports is the stored decision of that
\* pet about that pet, also when the request is a retry or repeats another
\* request's id, and a match it reports is there (service.go:169-199).
AnswersStand ==
  \A p \in Requests :
    LET r == tx[p] IN
    r.pc = "done" /\ r.answer \in {"matched", "unmatched"} =>
      /\ swipe[<<r.source, r.target>>] # None
      /\ swipe[<<r.source, r.target>>].decision = r.decision
      /\ r.answer = "matched" => match[Pair(r)] # "none"

\* The INSERT of a swipe never meets the unique keys of pet_swipes, so requests
\* that race with the same id or the same pets are answered as repetitions and
\* not with an internal error (service.go:201-207).
SwipeKeysAreFree ==
  \A p \in Requests :
    tx[p].pc = "insert" =>
      /\ swipe[<<tx[p].source, tx[p].target>>] = None
      /\ \A b \in Pets : swipe[<<tx[p].source, b>>] # None =>
                           swipe[<<tx[p].source, b>>].req # tx[p].req

\* Swipe p has yet to lock a pet that q has locked.
WaitsFor(p, q) ==
  /\ tx[p].pc = "lock" /\ p # q
  /\ {tx[p].source, tx[p].target} \cap tx[q].locked # {}

\* Swipes never wait in a circle, of two or of any other number: among any of
\* them one waits for no other, as pets are locked in one order
\* (service.go:363-386).
SwipesNeverDeadlock ==
  \A S \in SUBSET Requests :
    IsFiniteSet(S) /\ S # {} => \E p \in S : \A q \in S : ~WaitsFor(p, q)

\* A match that a block has found active is blocked from its commit on: neither
\* further swipes nor an unblock revive it (safety.go:137-152, 161-164).
SeveredForGood == \A m \in severed : match[m] = "blocked"

\* To its readers a swipe is one step, as MutualMatch has it.
Mutual ==
  INSTANCE MutualMatch WITH
    decided <- [ab \in Pets \X Pets |->
                  IF swipe[ab] = None THEN None ELSE swipe[ab].decision]
ImplementsMutualMatch == Mutual!Spec

\* "a block should stop either party from seeing the other"
\* (migrations/000004_safety_primitives.sql:13-14): blocked users have no active
\* match.  Broken by a swipe after the block, which Swipe does not look for,
\* and by one that is under way while the block commits.
BlockedUsersHaveNoMatch ==
  \A m \in Pairs, uv \in blocks :
    m \in Between(uv[1], uv[2]) => match[m] # "active"
=============================================================================
