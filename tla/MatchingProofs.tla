---------------------------- MODULE MatchingProofs ----------------------------
(***************************************************************************)
(* Proofs about Matching, for any number of pets, owners, request ids and  *)
(* requests: a match exists exactly when interest is mutual, each owner is *)
(* told of it once, a severed match stays severed, answers stand, and the  *)
(* whole implements MutualMatch.                                           *)
(*                                                                         *)
(* The argument rests on two locks.  A swipe that has checked its pets     *)
(* holds both of them until it commits, so that nobody else inserts a      *)
(* swipe of either and what it has read of their swipes is still so; and a *)
(* block that is severing a match holds its row.  Local says so of one     *)
(* transaction, Apart of two, Database of the committed rows.              *)
(***************************************************************************)
EXTENDS Matching, FiniteSetTheorems, WellFoundedInduction, TLAPS

Swiping(r) == r.source # None
Blocking(r) == r.other # None
Checked == {"check", "load", "insert", "reciprocal", "match"}

\* How far a request has got, and with which arguments.
Control(r) ==
  /\ r.pc \in {"lock", "publish"} \cup Checked => Swiping(r)
  /\ r.pc \in {"block", "sever", "severing"} => Blocking(r)
  /\ r.pc = "commit" => Swiping(r) \/ Blocking(r)
  /\ Swiping(r) =>
       /\ r.source \in Pets /\ r.target \in Pets /\ r.source # r.target
       /\ r.decision \in Decisions /\ r.req \in ReqIds
       /\ r.other = None /\ r.found = {} /\ r.todo = {} /\ r.cut = {}
  /\ Blocking(r) =>
       /\ r.user \in Owners /\ r.other \in Owners /\ r.source = None
  /\ r.pc \in {"idle", "done", "publish"} =>
       r.other = None /\ r.found = {} /\ r.todo = {} /\ r.cut = {}
  /\ r.pc \in {"block", "sever"} => r.found = {} /\ r.todo = {} /\ r.cut = {}
  /\ r.pc = "commit" => r.todo = {}

\* The two pets are locked in the order of their ids, and from the check on.
Locking(r) ==
  /\ r.pc = "lock" => r.locked \subseteq {Pair(r)[1]}
  /\ r.pc \in Checked \/ (r.pc = "commit" /\ Swiping(r)) =>
       r.locked = {r.source, r.target}
  /\ r.locked # {} => Swiping(r) /\ r.pc \in {"lock", "commit"} \cup Checked

\* A swipe to be inserted, or just inserted, is the first one of its pet about
\* the other and the first with its request id.
Unswiped(r) ==
  r.pc \in {"insert", "reciprocal", "match"} \/ r.swiped =>
    /\ swipe[<<r.source, r.target>>] = None
    /\ \A b \in Pets : swipe[<<r.source, b>>] # None => swipe[<<r.source, b>>].req # r.req
    /\ OwnerOf[r.source] # OwnerOf[r.target]

\* It creates a match if the other pet has liked its own.
Deciding(r) ==
  /\ r.swiped => Swiping(r) /\ r.pc \in {"reciprocal", "match", "commit"}
  /\ r.pc \in {"reciprocal", "match"} => r.swiped /\ Interested(r.decision)
  /\ r.pc = "match" => Likes(r.target, r.source)
  /\ r.created => r.swiped /\ r.pc = "commit"
  /\ r.pc = "commit" /\ r.swiped =>
       (r.created <=> Interested(r.decision) /\ Likes(r.target, r.source))

Stands(r) ==
  /\ swipe[<<r.source, r.target>>] # None
  /\ swipe[<<r.source, r.target>>].decision = r.decision
  /\ r.answer = "matched" => match[Pair(r)] # "none"

\* What a request answers, or is going to answer.
Answering(r) ==
  /\ r.answer \in {"matched", "unmatched"} =>
       Swiping(r) /\ r.pc \in {"reciprocal", "match", "commit", "publish", "done"}
  /\ r.pc = "load" => /\ swipe[<<r.source, r.target>>] # None
                      /\ swipe[<<r.source, r.target>>].decision = r.decision
  /\ r.pc \in {"reciprocal", "match"} => r.answer = "unmatched"
  /\ r.pc = "commit" /\ Swiping(r) => r.answer \in {"matched", "unmatched"}
  /\ r.pc = "commit" /\ Swiping(r) /\ ~r.swiped => Stands(r)
  /\ r.swiped /\ r.answer = "matched" => r.created
  /\ r.pc \in {"publish", "done"} /\ r.answer \in {"matched", "unmatched"} => Stands(r)
  /\ r.pc = "publish" => match[Pair(r)] # "none"

\* A block severs what its snapshot holds, or finds it severed.
Severing(r) ==
  /\ r.todo \subseteq r.found /\ r.cut \subseteq r.found \ r.todo
  /\ \A m \in r.found : match[m] # "none"
  /\ \A m \in r.cut : match[m] = "active"
  /\ \A m \in r.found \ r.todo : m \in r.cut \/ match[m] = "blocked"

Local(r) ==
  /\ Control(r) /\ Locking(r) /\ Unswiped(r)
  /\ Deciding(r) /\ Answering(r) /\ Severing(r)

\* Row locks are exclusive.
Apart(r, s) == r.locked \cap s.locked = {} /\ r.cut \cap s.cut = {}

Database == MatchIffMutual /\ ToldOnce /\ SeveredForGood

MatchingInv ==
  /\ TypeOK
  /\ \A p \in Requests : Local(tx[p])
  /\ \A p, q \in Requests : p # q => Apart(tx[p], tx[q])
  /\ Database

-----------------------------------------------------------------------------
LEMMA InitMatchingInv == Init => MatchingInv
<1> SUFFICES ASSUME Init PROVE MatchingInv
  OBVIOUS
<1> USE MatchingNoneAssumption, PetsAssumption DEF Init, InitWith, Idle
<1>1. TypeOK
  BY DEF TypeOK, Transaction, PCs, Answers
<1>2. ASSUME NEW p \in Requests PROVE Local(tx[p])
  BY DEF Local, Control, Locking, Unswiped, Deciding, Answering, Severing,
     Swiping, Blocking, Checked
<1>3. ASSUME NEW p \in Requests, NEW q \in Requests PROVE Apart(tx[p], tx[q])
  BY DEF Apart
<1>4. Database
  BY DEF Database, MatchIffMutual, ToldOnce, SeveredForGood, Likes, Pairs
<1>5. QED
  BY <1>1, <1>2, <1>3, <1>4 DEF MatchingInv

\* The pair of two pets is one of Pairs, and holds the two.
LEMMA PairFacts ==
  ASSUME NEW a \in Pets, NEW b \in Pets, a # b
  PROVE  /\ PairOf(a, b) \in Pairs
         /\ PairOf(a, b) = PairOf(b, a)
         /\ PairOf(a, b) \in {<<a, b>>, <<b, a>>}
         /\ PairOf(a, b)[1] < PairOf(a, b)[2]
         /\ {PairOf(a, b)[1], PairOf(a, b)[2]} = {a, b}
  BY PetsAssumption DEF PairOf, Pairs

\* Distinct pairs have distinct members.
LEMMA PairsDiffer ==
  ASSUME NEW a \in Pets, NEW b \in Pets, a # b, NEW m \in Pairs, m # PairOf(a, b)
  PROVE  <<m[1], m[2]>> # <<a, b>> /\ <<m[2], m[1]>> # <<a, b>>
  BY PetsAssumption DEF PairOf, Pairs

\* A step of p that leaves the database alone keeps the invariant if p's new
\* record fits in.
LEMMA LocalStep ==
  ASSUME MatchingInv, NEW p \in Requests, NEW r \in Transaction, Step(p, r),
         Local(r),
         \A q \in Requests \ {p} : Apart(r, tx[q])
  PROVE  MatchingInv'
<1>1. /\ tx' = [tx EXCEPT ![p] = r]
      /\ tx \in [Requests -> Transaction]
      /\ UNCHANGED <<petStatus, swipe, match, notices, blocks, severed, published>>
  BY DEF Step, Set, rows, MatchingInv, TypeOK
<1>2. tx'[p] = r /\ \A q \in Requests \ {p} : tx'[q] = tx[q]
  BY <1>1
<1>3. TypeOK'
  BY <1>1 DEF MatchingInv, TypeOK
<1>4. ASSUME NEW q \in Requests PROVE Local(tx[q])'
  <2>1. Local(tx'[q])
    BY <1>2 DEF MatchingInv
  <2>2. QED
    BY <1>1, <2>1 DEF Local, Control, Locking, Unswiped, Deciding, Answering,
       Severing, Stands, Likes
<1>5. ASSUME NEW q \in Requests, NEW v \in Requests, q # v
      PROVE  Apart(tx[q], tx[v])'
  <2>1. Apart(tx'[q], tx'[v])
    BY <1>2, <1>5 DEF MatchingInv, Apart
  <2>2. QED
    BY <2>1 DEF Apart
<1>6. Database'
  BY <1>1 DEF MatchingInv, Database, MatchIffMutual, ToldOnce, SeveredForGood, Likes
<1>7. QED
  BY <1>3, <1>4, <1>5, <1>6 DEF MatchingInv

\* What the invariant says of one request.
LEMMA OneRequest ==
  ASSUME MatchingInv, NEW p \in Requests
  PROVE  /\ tx[p] \in Transaction /\ Local(tx[p])
         /\ \A q \in Requests \ {p} :
              /\ tx[q] \in Transaction /\ Local(tx[q])
              /\ Apart(tx[p], tx[q]) /\ Apart(tx[q], tx[p])
         /\ OwnerOf \in [Pets -> Owners]
  BY OwnerOfAssumption DEF MatchingInv, TypeOK

-----------------------------------------------------------------------------
(* The steps of a swipe before it commits.                                 *)

LEMMA BeginSwipeStep ==
  ASSUME MatchingInv, NEW p \in Requests, NEW u \in Owners, NEW a \in Pets, NEW b \in Pets,
         NEW d \in Decisions, NEW i \in ReqIds, BeginSwipe(p, u, a, b, d, i)
  PROVE  MatchingInv'
<1> DEFINE r == [Idle EXCEPT !.pc = "lock", !.user = u, !.source = a,
                          !.target = b, !.decision = d, !.req = i]
<1>1. /\ tx[p] \in Transaction /\ Local(tx[p])
      /\ \A q \in Requests \ {p} : Apart(tx[p], tx[q])
      /\ OwnerOf \in [Pets -> Owners]
  BY OneRequest
<1>2. Step(p, r)
  BY DEF BeginSwipe
<1>3. r \in Transaction
  BY ZenonT(60), <1>1, MatchingNoneAssumption DEF BeginSwipe, Transaction, PCs, Answers, Idle, Local, Control,
     Swiping, Blocking, Checked
<1>4. Local(r)
  <2>1. Control(r)
    BY <1>1, MatchingNoneAssumption DEF BeginSwipe, Local, Control, Swiping,
       Blocking, Checked, Transaction, Idle
  <2>2. Locking(r)
    BY <1>1, MatchingNoneAssumption DEF BeginSwipe, Local, Control, Locking,
       Checked, Swiping, Blocking, Transaction, Idle
  <2>3. Unswiped(r)
    BY <1>1, MatchingNoneAssumption DEF BeginSwipe, Local, Control, Unswiped,
       Deciding, Checked, Swiping, Blocking, Transaction, Idle
  <2>4. Deciding(r)
    BY <1>1, MatchingNoneAssumption DEF BeginSwipe, Local, Control, Unswiped,
       Deciding, Checked, Swiping, Blocking, Transaction, Idle
  <2>5. Answering(r)
    BY <1>1, MatchingNoneAssumption DEF BeginSwipe, Local, Control, Deciding,
       Answering, Checked, Swiping, Blocking, Transaction, Idle
  <2>6. Severing(r)
    BY <1>1, MatchingNoneAssumption DEF BeginSwipe, Local, Control, Severing,
       Swiping, Blocking, Transaction, Idle
  <2>7. QED
    BY <2>1, <2>2, <2>3, <2>4, <2>5, <2>6 DEF Local
<1>5. ASSUME NEW q \in Requests \ {p} PROVE Apart(r, tx[q])
  BY <1>1, <1>5 DEF BeginSwipe, Apart, Idle
<1>6. QED
  BY <1>2, <1>3, <1>4, <1>5, LocalStep

LEMMA LockPetStep ==
  ASSUME MatchingInv, NEW p \in Requests, LockPet(p)
  PROVE  MatchingInv'
<1> DEFINE r == [tx[p] EXCEPT !.locked = @ \cup {NextPet(tx[p])},
                           !.pc = IF tx[p].locked = {} THEN @ ELSE "check"]
<1>1. /\ tx[p] \in Transaction /\ Local(tx[p])
      /\ \A q \in Requests \ {p} : Apart(tx[p], tx[q])
      /\ OwnerOf \in [Pets -> Owners]
  BY OneRequest
<1>2. Step(p, r)
  BY DEF LockPet
<1>0. NextPet(tx[p]) \in Pets
  BY <1>1, PairFacts DEF LockPet, NextPet, Pair, Local, Control, Swiping
<1>3. r \in Transaction
  BY ZenonT(60), <1>0, <1>1, MatchingNoneAssumption DEF LockPet, Transaction, PCs, Answers, Idle, Local, Control,
     Swiping, Blocking, Checked
<1>4. Local(r)
  <2>1. Control(r)
    BY <1>1, MatchingNoneAssumption, PairFacts DEF LockPet, Local, Control,
       Swiping, Blocking, Checked, Transaction, NextPet, Pair
  <2>2. Locking(r)
    <3>1. /\ tx[p].pc = "lock" /\ tx[p].locked \subseteq {Pair(tx[p])[1]}
          /\ tx[p].source \in Pets /\ tx[p].target \in Pets /\ tx[p].source # tx[p].target
      BY <1>1 DEF LockPet, Local, Control, Locking, Swiping
    <3>2. {Pair(tx[p])[1], Pair(tx[p])[2]} = {tx[p].source, tx[p].target}
      BY <3>1, PairFacts DEF Pair
    <3>3. /\ Pair(r) = Pair(tx[p]) /\ r.source = tx[p].source /\ r.target = tx[p].target
          /\ r.locked = tx[p].locked \cup {NextPet(tx[p])}
          /\ r.pc = IF tx[p].locked = {} THEN "lock" ELSE "check"
          /\ Swiping(r)
      BY <1>1, <3>1, MatchingNoneAssumption DEF Transaction, Pair, Swiping
    <3> HIDE DEF r
    <3>4. CASE tx[p].locked = {}
      <4>1. r.pc = "lock" /\ r.locked = {Pair(r)[1]}
        BY <3>3, <3>4 DEF NextPet
      <4>2. QED
        BY <3>3, <4>1 DEF Locking, Checked
    <3>5. CASE tx[p].locked # {}
      <4>1. r.pc = "check" /\ r.locked = {tx[p].source, tx[p].target}
        BY <3>1, <3>2, <3>3, <3>5 DEF NextPet
      <4>2. QED
        BY <3>3, <4>1 DEF Locking, Checked
    <3>6. QED
      BY <3>4, <3>5
  <2>3. Unswiped(r)
    BY <1>1, MatchingNoneAssumption, PairFacts DEF LockPet, Local, Control,
       Unswiped, Deciding, Checked, Swiping, Blocking, Transaction, NextPet,
       Pair
  <2>4. Deciding(r)
    BY <1>1, MatchingNoneAssumption, PairFacts DEF LockPet, Local, Control,
       Unswiped, Deciding, Checked, Swiping, Blocking, Transaction, NextPet,
       Pair
  <2>5. Answering(r)
    BY <1>1, MatchingNoneAssumption, PairFacts DEF LockPet, Local, Control,
       Deciding, Answering, Checked, Swiping, Blocking, Transaction, NextPet,
       Pair
  <2>6. Severing(r)
    BY <1>1, MatchingNoneAssumption, PairFacts DEF LockPet, Local, Control,
       Severing, Swiping, Blocking, Transaction, NextPet, Pair
  <2>7. QED
    BY <2>1, <2>2, <2>3, <2>4, <2>5, <2>6 DEF Local
<1>5. ASSUME NEW q \in Requests \ {p} PROVE Apart(r, tx[q])
  BY <1>1, <1>5 DEF LockPet, Apart, Idle, PetFree
<1>6. QED
  BY <1>2, <1>3, <1>4, <1>5, LocalStep

LEMMA RepeatStep ==
  ASSUME MatchingInv, NEW p \in Requests, Repeat(p)
  PROVE  MatchingInv'
<1> DEFINE r == [tx[p] EXCEPT !.pc = "load"]
<1>1. /\ tx[p] \in Transaction /\ Local(tx[p])
      /\ \A q \in Requests \ {p} : Apart(tx[p], tx[q])
      /\ OwnerOf \in [Pets -> Owners]
  BY OneRequest
<1>2. Step(p, r)
  BY DEF Repeat
<1>3. r \in Transaction
  BY <1>1, MatchingNoneAssumption DEF Repeat, Transaction, PCs, Answers, Idle, Local, Control,
     Swiping, Blocking, Checked
<1>4. Local(r)
  <2>1. Control(r)
    BY <1>1, MatchingNoneAssumption DEF Repeat, Local, Control, Swiping,
       Blocking, Checked, Transaction, SameDecision, Earlier
  <2>2. Locking(r)
    BY <1>1, MatchingNoneAssumption DEF Repeat, Local, Control, Locking,
       Checked, Swiping, Blocking, Transaction, SameDecision, Earlier
  <2>3. Unswiped(r)
    BY <1>1, MatchingNoneAssumption DEF Repeat, Local, Control, Unswiped,
       Deciding, Checked, Swiping, Blocking, Transaction, SameDecision, Earlier
  <2>4. Deciding(r)
    BY <1>1, MatchingNoneAssumption DEF Repeat, Local, Control, Unswiped,
       Deciding, Checked, Swiping, Blocking, Transaction, SameDecision, Earlier
  <2>5. Answering(r)
    BY <1>1, MatchingNoneAssumption DEF Repeat, Local, Control, Deciding,
       Answering, Checked, Swiping, Blocking, Transaction, SameDecision, Earlier
  <2>6. Severing(r)
    BY <1>1, MatchingNoneAssumption DEF Repeat, Local, Control, Severing,
       Swiping, Blocking, Transaction, SameDecision, Earlier
  <2>7. QED
    BY <2>1, <2>2, <2>3, <2>4, <2>5, <2>6 DEF Local
<1>5. ASSUME NEW q \in Requests \ {p} PROVE Apart(r, tx[q])
  BY <1>1, <1>5 DEF Repeat, Apart, Idle
<1>6. QED
  BY <1>2, <1>3, <1>4, <1>5, LocalStep

LEMMA LoadMatchStep ==
  ASSUME MatchingInv, NEW p \in Requests, LoadMatch(p)
  PROVE  MatchingInv'
<1> DEFINE r == [tx[p] EXCEPT !.pc = "commit",
                !.answer = IF match[Pair(tx[p])] = "active" THEN "matched"
                                                            ELSE "unmatched"]
<1>1. /\ tx[p] \in Transaction /\ Local(tx[p])
      /\ \A q \in Requests \ {p} : Apart(tx[p], tx[q])
      /\ OwnerOf \in [Pets -> Owners]
  BY OneRequest
<1>2. Step(p, r)
  BY DEF LoadMatch
<1>3. r \in Transaction
  BY ZenonT(60), <1>1, MatchingNoneAssumption DEF LoadMatch, Transaction, PCs, Answers, Idle, Local, Control,
     Swiping, Blocking, Checked
<1>4. Local(r)
  <2>1. Control(r)
    BY <1>1, MatchingNoneAssumption DEF LoadMatch, Local, Control, Swiping,
       Blocking, Checked, Transaction, Stands, Pair
  <2>2. Locking(r)
    BY <1>1, MatchingNoneAssumption DEF LoadMatch, Local, Control, Locking,
       Checked, Swiping, Blocking, Transaction, Stands, Pair
  <2>3. Unswiped(r)
    BY <1>1, MatchingNoneAssumption DEF LoadMatch, Local, Control, Unswiped,
       Deciding, Checked, Swiping, Blocking, Transaction, Stands, Pair
  <2>4. Deciding(r)
    BY <1>1, MatchingNoneAssumption DEF LoadMatch, Local, Control, Unswiped,
       Deciding, Checked, Swiping, Blocking, Transaction, Stands, Pair
  <2>5. Answering(r)
    BY <1>1, MatchingNoneAssumption DEF LoadMatch, Local, Control, Deciding,
       Answering, Checked, Swiping, Blocking, Transaction, Stands, Pair
  <2>6. Severing(r)
    BY <1>1, MatchingNoneAssumption DEF LoadMatch, Local, Control, Severing,
       Swiping, Blocking, Transaction, Stands, Pair
  <2>7. QED
    BY <2>1, <2>2, <2>3, <2>4, <2>5, <2>6 DEF Local
<1>5. ASSUME NEW q \in Requests \ {p} PROVE Apart(r, tx[q])
  BY <1>1, <1>5 DEF LoadMatch, Apart, Idle
<1>6. QED
  BY <1>2, <1>3, <1>4, <1>5, LocalStep

LEMMA FirstSwipeStep ==
  ASSUME MatchingInv, NEW p \in Requests, FirstSwipe(p)
  PROVE  MatchingInv'
<1> DEFINE r == [tx[p] EXCEPT !.pc = "insert"]
<1>1. /\ tx[p] \in Transaction /\ Local(tx[p])
      /\ \A q \in Requests \ {p} : Apart(tx[p], tx[q])
      /\ OwnerOf \in [Pets -> Owners]
  BY OneRequest
<1>2. Step(p, r)
  BY DEF FirstSwipe
<1>3. r \in Transaction
  BY <1>1, MatchingNoneAssumption DEF FirstSwipe, Transaction, PCs, Answers, Idle, Local, Control,
     Swiping, Blocking, Checked
<1>4. Local(r)
  <2>1. Control(r)
    BY <1>1, MatchingNoneAssumption DEF FirstSwipe, Local, Control, Swiping,
       Blocking, Checked, Transaction, Earlier, MaySwipe
  <2>2. Locking(r)
    BY <1>1, MatchingNoneAssumption DEF FirstSwipe, Local, Control, Locking,
       Checked, Swiping, Blocking, Transaction, Earlier, MaySwipe
  <2>3. Unswiped(r)
    BY <1>1, MatchingNoneAssumption DEF FirstSwipe, Local, Control, Unswiped,
       Deciding, Checked, Swiping, Blocking, Transaction, Earlier, MaySwipe
  <2>4. Deciding(r)
    BY <1>1, MatchingNoneAssumption DEF FirstSwipe, Local, Control, Unswiped,
       Deciding, Checked, Swiping, Blocking, Transaction, Earlier, MaySwipe
  <2>5. Answering(r)
    BY <1>1, MatchingNoneAssumption DEF FirstSwipe, Local, Control, Deciding,
       Answering, Checked, Swiping, Blocking, Transaction, Earlier, MaySwipe
  <2>6. Severing(r)
    BY <1>1, MatchingNoneAssumption DEF FirstSwipe, Local, Control, Severing,
       Swiping, Blocking, Transaction, Earlier, MaySwipe
  <2>7. QED
    BY <2>1, <2>2, <2>3, <2>4, <2>5, <2>6 DEF Local
<1>5. ASSUME NEW q \in Requests \ {p} PROVE Apart(r, tx[q])
  BY <1>1, <1>5 DEF FirstSwipe, Apart, Idle
<1>6. QED
  BY <1>2, <1>3, <1>4, <1>5, LocalStep

LEMMA InsertSwipeStep ==
  ASSUME MatchingInv, NEW p \in Requests, InsertSwipe(p)
  PROVE  MatchingInv'
<1> DEFINE r == [tx[p] EXCEPT !.swiped = TRUE, !.answer = "unmatched",
                           !.pc = IF Interested(tx[p].decision)
                                    THEN "reciprocal" ELSE "commit"]
<1>1. /\ tx[p] \in Transaction /\ Local(tx[p])
      /\ \A q \in Requests \ {p} : Apart(tx[p], tx[q])
      /\ OwnerOf \in [Pets -> Owners]
  BY OneRequest
<1>2. Step(p, r)
  BY DEF InsertSwipe
<1>3. r \in Transaction
  BY ZenonT(60), <1>1, MatchingNoneAssumption DEF InsertSwipe, Transaction, PCs, Answers, Idle, Local, Control,
     Swiping, Blocking, Checked
<1>4. Local(r)
  <2>1. Control(r)
    BY <1>1, MatchingNoneAssumption DEF InsertSwipe, Local, Control, Swiping,
       Blocking, Checked, Transaction
  <2>2. Locking(r)
    BY <1>1, MatchingNoneAssumption DEF InsertSwipe, Local, Control, Locking,
       Checked, Swiping, Blocking, Transaction
  <2>3. Unswiped(r)
    BY <1>1, MatchingNoneAssumption DEF InsertSwipe, Local, Control, Unswiped,
       Deciding, Checked, Swiping, Blocking, Transaction
  <2>4. Deciding(r)
    BY <1>1, MatchingNoneAssumption DEF InsertSwipe, Local, Control, Unswiped,
       Deciding, Checked, Swiping, Blocking, Transaction
  <2>5. Answering(r)
    BY <1>1, MatchingNoneAssumption DEF InsertSwipe, Local, Control, Deciding,
       Answering, Checked, Swiping, Blocking, Transaction
  <2>6. Severing(r)
    BY <1>1, MatchingNoneAssumption DEF InsertSwipe, Local, Control, Severing,
       Swiping, Blocking, Transaction
  <2>7. QED
    BY <2>1, <2>2, <2>3, <2>4, <2>5, <2>6 DEF Local
<1>5. ASSUME NEW q \in Requests \ {p} PROVE Apart(r, tx[q])
  BY <1>1, <1>5 DEF InsertSwipe, Apart, Idle
<1>6. QED
  BY <1>2, <1>3, <1>4, <1>5, LocalStep

LEMMA ReciprocalStep ==
  ASSUME MatchingInv, NEW p \in Requests, Reciprocal(p)
  PROVE  MatchingInv'
<1> DEFINE r == [tx[p] EXCEPT !.pc =
                  IF /\ swipe[<<tx[p].target, tx[p].source>>] # None
                     /\ Interested(swipe[<<tx[p].target, tx[p].source>>].decision)
                    THEN "match" ELSE "commit"]
<1>1. /\ tx[p] \in Transaction /\ Local(tx[p])
      /\ \A q \in Requests \ {p} : Apart(tx[p], tx[q])
      /\ OwnerOf \in [Pets -> Owners]
  BY OneRequest
<1>2. Step(p, r)
  BY DEF Reciprocal
<1>3. r \in Transaction
  <2>1. PICK c : c = IF /\ swipe[<<tx[p].target, tx[p].source>>] # None
                        /\ Interested(swipe[<<tx[p].target, tx[p].source>>].decision)
                       THEN "match" ELSE "commit"
    OBVIOUS
  <2>2. c \in PCs
    BY <2>1 DEF PCs
  <2>3. [tx[p] EXCEPT !.pc = c] \in Transaction
    BY <1>1, <2>2 DEF Transaction
  <2>4. QED
    BY <2>1, <2>3
<1>4. Local(r)
  <2>1. Control(r)
    BY <1>1, MatchingNoneAssumption DEF Reciprocal, Local, Control, Swiping,
       Blocking, Checked, Transaction, Likes
  <2>2. Locking(r)
    BY <1>1, MatchingNoneAssumption DEF Reciprocal, Local, Control, Locking,
       Checked, Swiping, Blocking, Transaction, Likes
  <2>3. Unswiped(r)
    BY <1>1, MatchingNoneAssumption DEF Reciprocal, Local, Control, Unswiped,
       Deciding, Checked, Swiping, Blocking, Transaction, Likes
  <2>4. Deciding(r)
    <3>1. /\ r.pc \in {"match", "commit"}
          /\ r.pc = "match" <=> Likes(tx[p].target, tx[p].source)
          /\ r.source = tx[p].source /\ r.target = tx[p].target
          /\ r.decision = tx[p].decision
      BY <1>1 DEF Transaction, Likes
    <3>2. /\ r.swiped /\ ~r.created
          /\ Interested(tx[p].decision) /\ Swiping(tx[p])
      BY <1>1 DEF Reciprocal, Local, Deciding, Transaction
    <3> HIDE DEF r
    <3>3. QED
      BY <3>1, <3>2 DEF Deciding, Swiping
  <2>5. Answering(r)
    BY <1>1, MatchingNoneAssumption DEF Reciprocal, Local, Control, Deciding,
       Answering, Checked, Swiping, Blocking, Transaction, Likes
  <2>6. Severing(r)
    BY <1>1, MatchingNoneAssumption DEF Reciprocal, Local, Control, Severing,
       Swiping, Blocking, Transaction, Likes
  <2>7. QED
    BY <2>1, <2>2, <2>3, <2>4, <2>5, <2>6 DEF Local
<1>5. ASSUME NEW q \in Requests \ {p} PROVE Apart(r, tx[q])
  BY <1>1, <1>5 DEF Reciprocal, Apart, Idle
<1>6. QED
  BY <1>2, <1>3, <1>4, <1>5, LocalStep

LEMMA CreateMatchStep ==
  ASSUME MatchingInv, NEW p \in Requests, CreateMatch(p)
  PROVE  MatchingInv'
<1> DEFINE r == [tx[p] EXCEPT !.pc = "commit",
                !.created = match[Pair(tx[p])] = "none",
                !.answer = IF match[Pair(tx[p])] = "blocked" THEN "unmatched"
                                                             ELSE "matched"]
<1>1. /\ tx[p] \in Transaction /\ Local(tx[p])
      /\ \A q \in Requests \ {p} : Apart(tx[p], tx[q])
      /\ OwnerOf \in [Pets -> Owners]
  BY OneRequest
<1>2. Step(p, r)
  BY DEF CreateMatch
<1>0. match[Pair(tx[p])] = "none"
  <2>1. /\ tx[p].source \in Pets /\ tx[p].target \in Pets
        /\ tx[p].source # tx[p].target
        /\ swipe[<<tx[p].source, tx[p].target>>] = None
    BY <1>1 DEF CreateMatch, Local, Control, Unswiped, Swiping, Checked
  <2>2. ~Likes(tx[p].source, tx[p].target)
    BY <2>1 DEF Likes
  <2>3. QED
    BY <2>1, <2>2, PairFacts DEF Pair, MatchingInv, Database, MatchIffMutual
<1>3. r \in Transaction
  BY ZenonT(60), <1>1, MatchingNoneAssumption DEF CreateMatch, Transaction, PCs, Answers, Idle, Local, Control,
     Swiping, Blocking, Checked
<1>4. Local(r)
  <2>1. Control(r)
    BY <1>1, MatchingNoneAssumption DEF CreateMatch, Local, Control, Swiping,
       Blocking, Checked, Transaction, Stands
  <2>2. Locking(r)
    BY <1>1, MatchingNoneAssumption DEF CreateMatch, Local, Control, Locking,
       Checked, Swiping, Blocking, Transaction, Stands
  <2>3. Unswiped(r)
    BY <1>1 DEF CreateMatch, Unswiped, Local, Transaction
  <2>4. Deciding(r)
    BY <1>0, <1>1 DEF CreateMatch, Local, Deciding, Transaction, Swiping
  <2>5. Answering(r)
    BY <1>0, <1>1, MatchingNoneAssumption DEF CreateMatch, Local, Control,
       Deciding, Answering, Checked, Swiping, Blocking, Transaction, Stands
  <2>6. Severing(r)
    BY <1>1, MatchingNoneAssumption DEF CreateMatch, Local, Control, Severing,
       Swiping, Blocking, Transaction, Stands
  <2>7. QED
    BY <2>1, <2>2, <2>3, <2>4, <2>5, <2>6 DEF Local
<1>5. ASSUME NEW q \in Requests \ {p} PROVE Apart(r, tx[q])
  BY <1>1, <1>5 DEF CreateMatch, Apart, Idle
<1>6. QED
  BY <1>2, <1>3, <1>4, <1>5, LocalStep

-----------------------------------------------------------------------------
(* The steps of a block before it commits.                                 *)

LEMMA BeginBlockStep ==
  ASSUME MatchingInv, NEW p \in Requests, NEW u \in Owners, NEW v \in Owners, BeginBlock(p, u, v)
  PROVE  MatchingInv'
<1> DEFINE r == [Idle EXCEPT !.pc = "block", !.user = u, !.other = v]
<1>1. /\ tx[p] \in Transaction /\ Local(tx[p])
      /\ \A q \in Requests \ {p} : Apart(tx[p], tx[q])
      /\ OwnerOf \in [Pets -> Owners]
  BY OneRequest
<1>2. Step(p, r)
  BY DEF BeginBlock
<1>3. r \in Transaction
  BY ZenonT(60), <1>1, MatchingNoneAssumption DEF BeginBlock, Transaction, PCs, Answers, Idle, Local, Control,
     Swiping, Blocking, Checked
<1>4. Local(r)
  <2>1. Control(r)
    BY <1>1, MatchingNoneAssumption DEF BeginBlock, Local, Control, Swiping,
       Blocking, Checked, Transaction, Idle
  <2>2. Locking(r)
    BY <1>1, MatchingNoneAssumption DEF BeginBlock, Local, Control, Locking,
       Checked, Swiping, Blocking, Transaction, Idle
  <2>3. Unswiped(r)
    BY <1>1, MatchingNoneAssumption DEF BeginBlock, Local, Control, Unswiped,
       Deciding, Checked, Swiping, Blocking, Transaction, Idle
  <2>4. Deciding(r)
    BY <1>1, MatchingNoneAssumption DEF BeginBlock, Local, Control, Unswiped,
       Deciding, Checked, Swiping, Blocking, Transaction, Idle
  <2>5. Answering(r)
    BY <1>1, MatchingNoneAssumption DEF BeginBlock, Local, Control, Deciding,
       Answering, Checked, Swiping, Blocking, Transaction, Idle
  <2>6. Severing(r)
    BY <1>1, MatchingNoneAssumption DEF BeginBlock, Local, Control, Severing,
       Swiping, Blocking, Transaction, Idle
  <2>7. QED
    BY <2>1, <2>2, <2>3, <2>4, <2>5, <2>6 DEF Local
<1>5. ASSUME NEW q \in Requests \ {p} PROVE Apart(r, tx[q])
  BY <1>1, <1>5 DEF BeginBlock, Apart, Idle
<1>6. QED
  BY <1>2, <1>3, <1>4, <1>5, LocalStep

LEMMA InsertBlockStep ==
  ASSUME MatchingInv, NEW p \in Requests, InsertBlock(p)
  PROVE  MatchingInv'
<1> DEFINE r == [tx[p] EXCEPT !.pc = "sever"]
<1>1. /\ tx[p] \in Transaction /\ Local(tx[p])
      /\ \A q \in Requests \ {p} : Apart(tx[p], tx[q])
      /\ OwnerOf \in [Pets -> Owners]
  BY OneRequest
<1>2. Step(p, r)
  BY DEF InsertBlock
<1>3. r \in Transaction
  BY <1>1, MatchingNoneAssumption DEF InsertBlock, Transaction, PCs, Answers, Idle, Local, Control,
     Swiping, Blocking, Checked
<1>4. Local(r)
  <2>1. Control(r)
    BY <1>1, MatchingNoneAssumption DEF InsertBlock, Local, Control, Swiping,
       Blocking, Checked, Transaction
  <2>2. Locking(r)
    BY <1>1, MatchingNoneAssumption DEF InsertBlock, Local, Control, Locking,
       Checked, Swiping, Blocking, Transaction
  <2>3. Unswiped(r)
    BY <1>1, MatchingNoneAssumption DEF InsertBlock, Local, Control, Unswiped,
       Deciding, Checked, Swiping, Blocking, Transaction
  <2>4. Deciding(r)
    BY <1>1, MatchingNoneAssumption DEF InsertBlock, Local, Control, Unswiped,
       Deciding, Checked, Swiping, Blocking, Transaction
  <2>5. Answering(r)
    BY <1>1, MatchingNoneAssumption DEF InsertBlock, Local, Control, Deciding,
       Answering, Checked, Swiping, Blocking, Transaction
  <2>6. Severing(r)
    BY <1>1, MatchingNoneAssumption DEF InsertBlock, Local, Control, Severing,
       Swiping, Blocking, Transaction
  <2>7. QED
    BY <2>1, <2>2, <2>3, <2>4, <2>5, <2>6 DEF Local
<1>5. ASSUME NEW q \in Requests \ {p} PROVE Apart(r, tx[q])
  BY <1>1, <1>5 DEF InsertBlock, Apart, Idle
<1>6. QED
  BY <1>2, <1>3, <1>4, <1>5, LocalStep

LEMMA BeginSeverStep ==
  ASSUME MatchingInv, NEW p \in Requests, BeginSever(p)
  PROVE  MatchingInv'
<1> DEFINE r == [tx[p] EXCEPT !.pc = "severing",
                  !.found = {m \in Between(tx[p].user, tx[p].other) : match[m] = "active"},
                  !.todo = {m \in Between(tx[p].user, tx[p].other) : match[m] = "active"}]
<1>1. /\ tx[p] \in Transaction /\ Local(tx[p])
      /\ \A q \in Requests \ {p} : Apart(tx[p], tx[q])
      /\ OwnerOf \in [Pets -> Owners]
  BY OneRequest
<1>2. Step(p, r)
  BY DEF BeginSever
<1>3. r \in Transaction
  BY <1>1 DEF BeginSever, Between, Transaction, PCs, Answers, Idle, Local, Control,
     Swiping, Blocking, Checked
<1>4. Local(r)
  <2>1. Control(r)
    BY <1>1, MatchingNoneAssumption DEF BeginSever, Local, Control, Swiping,
       Blocking, Checked, Transaction, Idle, Between
  <2>2. Locking(r)
    BY <1>1, MatchingNoneAssumption DEF BeginSever, Local, Control, Locking,
       Checked, Swiping, Blocking, Transaction, Idle, Between
  <2>3. Unswiped(r)
    BY <1>1, MatchingNoneAssumption DEF BeginSever, Local, Control, Unswiped,
       Deciding, Checked, Swiping, Blocking, Transaction, Idle, Between
  <2>4. Deciding(r)
    BY <1>1, MatchingNoneAssumption DEF BeginSever, Local, Control, Unswiped,
       Deciding, Checked, Swiping, Blocking, Transaction, Idle, Between
  <2>5. Answering(r)
    BY <1>1, MatchingNoneAssumption DEF BeginSever, Local, Control, Deciding,
       Answering, Checked, Swiping, Blocking, Transaction, Idle, Between
  <2>6. Severing(r)
    BY <1>1, MatchingNoneAssumption DEF BeginSever, Local, Control, Severing,
       Swiping, Blocking, Transaction, Idle, Between
  <2>7. QED
    BY <2>1, <2>2, <2>3, <2>4, <2>5, <2>6 DEF Local
<1>5. ASSUME NEW q \in Requests \ {p} PROVE Apart(r, tx[q])
  BY <1>1, <1>5 DEF BeginSever, Apart, Idle
<1>6. QED
  BY <1>2, <1>3, <1>4, <1>5, LocalStep

LEMMA SeverMatchStep ==
  ASSUME MatchingInv, NEW p \in Requests, NEW m \in Pairs, SeverMatch(p, m)
  PROVE  MatchingInv'
<1> DEFINE r == [tx[p] EXCEPT !.todo = @ \ {m},
                !.cut = IF match[m] = "active" THEN @ \cup {m} ELSE @]
<1>1. /\ tx[p] \in Transaction /\ Local(tx[p])
      /\ \A q \in Requests \ {p} : Apart(tx[p], tx[q])
      /\ OwnerOf \in [Pets -> Owners]
  BY OneRequest
<1>2. Step(p, r)
  BY DEF SeverMatch
<1>3. r \in Transaction
  BY ZenonT(60), <1>1, MatchingNoneAssumption DEF SeverMatch, Transaction, PCs, Answers, Idle, Local, Control,
     Swiping, Blocking, Checked
<1>4. Local(r)
  <2>1. Control(r)
    BY <1>1, MatchingNoneAssumption DEF SeverMatch, Local, Control, Swiping,
       Blocking, Checked, Transaction, MatchingInv, TypeOK
  <2>2. Locking(r)
    BY <1>1, MatchingNoneAssumption DEF SeverMatch, Local, Control, Locking,
       Checked, Swiping, Blocking, Transaction, MatchingInv, TypeOK
  <2>3. Unswiped(r)
    BY <1>1, MatchingNoneAssumption DEF SeverMatch, Local, Control, Unswiped,
       Deciding, Checked, Swiping, Blocking, Transaction, MatchingInv, TypeOK
  <2>4. Deciding(r)
    BY <1>1, MatchingNoneAssumption DEF SeverMatch, Local, Control, Unswiped,
       Deciding, Checked, Swiping, Blocking, Transaction, MatchingInv, TypeOK
  <2>5. Answering(r)
    BY <1>1, MatchingNoneAssumption DEF SeverMatch, Local, Control, Deciding,
       Answering, Checked, Swiping, Blocking, Transaction, MatchingInv, TypeOK
  <2>6. Severing(r)
    BY <1>1, MatchingNoneAssumption DEF SeverMatch, Local, Control, Severing,
       Swiping, Blocking, Transaction, MatchingInv, TypeOK
  <2>7. QED
    BY <2>1, <2>2, <2>3, <2>4, <2>5, <2>6 DEF Local
<1>5. ASSUME NEW q \in Requests \ {p} PROVE Apart(r, tx[q])
  BY <1>1, <1>5 DEF SeverMatch, Apart, Idle, MatchFree, Transaction
<1>6. QED
  BY <1>2, <1>3, <1>4, <1>5, LocalStep

LEMMA EndSeverStep ==
  ASSUME MatchingInv, NEW p \in Requests, EndSever(p)
  PROVE  MatchingInv'
<1> DEFINE r == [tx[p] EXCEPT !.pc = "commit", !.answer = "blocked"]
<1>1. /\ tx[p] \in Transaction /\ Local(tx[p])
      /\ \A q \in Requests \ {p} : Apart(tx[p], tx[q])
      /\ OwnerOf \in [Pets -> Owners]
  BY OneRequest
<1>2. Step(p, r)
  BY DEF EndSever
<1>3. r \in Transaction
  BY <1>1, MatchingNoneAssumption DEF EndSever, Transaction, PCs, Answers, Idle, Local, Control,
     Swiping, Blocking, Checked
<1>4. Local(r)
  <2>1. Control(r)
    BY <1>1, MatchingNoneAssumption DEF EndSever, Local, Control, Swiping,
       Blocking, Checked, Transaction
  <2>2. Locking(r)
    BY <1>1, MatchingNoneAssumption DEF EndSever, Local, Control, Locking,
       Checked, Swiping, Blocking, Transaction
  <2>3. Unswiped(r)
    BY <1>1, MatchingNoneAssumption DEF EndSever, Local, Control, Unswiped,
       Deciding, Checked, Swiping, Blocking, Transaction
  <2>4. Deciding(r)
    BY <1>1, MatchingNoneAssumption DEF EndSever, Local, Control, Unswiped,
       Deciding, Checked, Swiping, Blocking, Transaction
  <2>5. Answering(r)
    BY <1>1, MatchingNoneAssumption DEF EndSever, Local, Control, Deciding,
       Answering, Checked, Swiping, Blocking, Transaction
  <2>6. Severing(r)
    BY <1>1, MatchingNoneAssumption DEF EndSever, Local, Control, Severing,
       Swiping, Blocking, Transaction
  <2>7. QED
    BY <2>1, <2>2, <2>3, <2>4, <2>5, <2>6 DEF Local
<1>5. ASSUME NEW q \in Requests \ {p} PROVE Apart(r, tx[q])
  BY <1>1, <1>5 DEF EndSever, Apart, Idle
<1>6. QED
  BY <1>2, <1>3, <1>4, <1>5, LocalStep

-----------------------------------------------------------------------------
(* Steps that write rows.                                                  *)

\* The end of a request that has answered with an error or not at all.
LEMMA EndStep ==
  ASSUME MatchingInv, NEW p \in Requests, NEW answer \in {"none", "refused", "conflict"},
         End(p, answer)
  PROVE  MatchingInv'
<1> DEFINE r == [Idle EXCEPT !.pc = "done", !.source = tx[p].source,
                   !.target = tx[p].target, !.req = tx[p].req,
                   !.decision = tx[p].decision, !.answer = answer]
<1>1. tx[p] \in Transaction /\ Local(tx[p])
  BY OneRequest
<1>2. Step(p, r)
  BY DEF End
<1>3. r \in Transaction
  <2>1. answer \in Answers
    BY DEF Answers
  <2>2. QED
    BY ZenonT(60), <1>1, <2>1 DEF Transaction, PCs, Idle
<1>4. Local(r)
  <2>1. /\ r.pc = "done" /\ r.other = None /\ r.locked = {}
        /\ ~r.swiped /\ ~r.created
        /\ r.found = {} /\ r.todo = {} /\ r.cut = {}
        /\ r.source = tx[p].source /\ r.target = tx[p].target
        /\ r.req = tx[p].req /\ r.decision = tx[p].decision /\ r.answer = answer
    BY DEF Idle
  <2> HIDE DEF r
  <2>2. Control(r)
    BY <1>1, <2>1, MatchingNoneAssumption DEF Local, Control, Swiping, Blocking, Checked
  <2>3. Locking(r) /\ Unswiped(r) /\ Deciding(r) /\ Answering(r) /\ Severing(r)
    BY <2>1 DEF Locking, Unswiped, Deciding, Answering, Severing, Checked
  <2>4. QED
    BY <2>2, <2>3 DEF Local
<1>5. ASSUME NEW q \in Requests \ {p} PROVE Apart(r, tx[q])
  BY DEF Apart, Idle
<1>6. QED
  BY <1>2, <1>3, <1>4, <1>5, LocalStep

\* What a request relies on is not disturbed by others that add swipes of pets
\* it has not locked, add matches, and sever matches it has not locked.
LEMMA Undisturbed ==
  ASSUME MatchingInv, NEW q \in Requests, tx'[q] = tx[q],
         \A a, b \in Pets : swipe[<<a, b>>] # None =>
                              swipe'[<<a, b>>] = swipe[<<a, b>>],
         \A a, b \in Pets : a \in tx[q].locked =>
                              swipe'[<<a, b>>] = swipe[<<a, b>>],
         \A m \in Pairs : /\ match[m] # "none" => match'[m] # "none"
                          /\ match[m] = "blocked" => match'[m] = "blocked",
         \A m \in tx[q].cut : match'[m] = match[m]
  PROVE  Local(tx[q])'
<1> DEFINE r == tx[q]
<1>1. r \in Transaction /\ Local(r)
  BY OneRequest
<1>2. Control(r) /\ Locking(r)
  BY <1>1 DEF Local
<1>3. /\ Swiping(r) => r.source \in Pets /\ r.target \in Pets /\ r.source # r.target
      /\ r.pc \in Checked \/ (r.pc = "commit" /\ Swiping(r)) =>
           r.source \in r.locked /\ r.target \in r.locked
      /\ r.pc \in Checked \cup {"publish"} => Swiping(r)
  BY <1>2 DEF Control, Locking
<1>4. Unswiped(tx[q])'
  <2>1. r.pc \in {"insert", "reciprocal", "match"} \/ r.swiped =>
          Swiping(r) /\ r.source \in r.locked
    BY <1>1, <1>3 DEF Local, Deciding, Checked
  <2>2. QED
    BY <1>1, <1>3, <2>1 DEF Local, Unswiped
<1>5. Deciding(tx[q])'
  <2>1. r.pc = "match" \/ (r.pc = "commit" /\ r.swiped) =>
          swipe'[<<r.target, r.source>>] = swipe[<<r.target, r.source>>]
    BY <1>1, <1>3 DEF Local, Deciding, Checked
  <2>2. QED
    BY <1>1, <2>1 DEF Local, Deciding, Likes, Swiping
<1>6. ASSUME Stands(r), Swiping(r) PROVE Stands(tx[q])'
  <2>1. Pair(r) \in Pairs
    BY <1>3, <1>6, PairFacts DEF Pair
  <2>2. QED
    BY <1>3, <1>6, <2>1 DEF Stands, Pair
<1>7. Answering(tx[q])'
  <2>1. Swiping(r) => Pair(r) \in Pairs
    BY <1>3, PairFacts DEF Pair
  <2>2. /\ r.pc = "load" => /\ swipe'[<<r.source, r.target>>] # None
                            /\ swipe'[<<r.source, r.target>>].decision = r.decision
        /\ r.pc = "publish" => match'[Pair(r)] # "none"
    BY <1>1, <1>3, <2>1 DEF Local, Answering, Checked
  <2>3. QED
    BY <1>1, <1>6, <2>2 DEF Local, Answering, Swiping, Pair
<1>8. Severing(tx[q])'
  BY <1>1 DEF Local, Severing, Transaction
<1>9. QED
  BY <1>2, <1>4, <1>5, <1>7, <1>8 DEF Local, Control, Locking, Swiping, Blocking

\* The request that is committed or published, with nothing more to write.
Ended(r, pc) ==
  [Idle EXCEPT !.pc = pc, !.source = r.source, !.target = r.target,
               !.req = r.req, !.decision = r.decision, !.answer = r.answer]

\* The types and the locks after p has ended.
LEMMA EndedLocks ==
  ASSUME MatchingInv, NEW p \in Requests, NEW pc \in {"publish", "done"},
         Set(p, Ended(tx[p], pc))
  PROVE  /\ tx' \in [Requests -> Transaction]
         /\ tx'[p] = Ended(tx[p], pc)
         /\ \A q \in Requests \ {p} : tx'[q] = tx[q]
         /\ \A q, v \in Requests : q # v => Apart(tx'[q], tx'[v])
<1>1. tx[p] \in Transaction /\ tx \in [Requests -> Transaction]
  BY OneRequest DEF MatchingInv, TypeOK
<1>2. Ended(tx[p], pc) \in Transaction
  BY ZenonT(60), <1>1 DEF Ended, Idle, Transaction, PCs
<1>3. /\ tx' \in [Requests -> Transaction]
      /\ tx'[p] = Ended(tx[p], pc)
      /\ \A q \in Requests \ {p} : tx'[q] = tx[q]
  BY <1>1, <1>2 DEF Set
<1>4. ASSUME NEW q \in Requests, NEW v \in Requests, q # v
      PROVE  Apart(tx'[q], tx'[v])
  BY ZenonT(60), <1>3, <1>4 DEF MatchingInv, Apart, Ended, Idle
<1>5. QED
  BY <1>3, <1>4

\* The record that is left fits in, if its answer stands.
LEMMA EndedLocal ==
  ASSUME MatchingInv, NEW p \in Requests, NEW pc \in {"publish", "done"},
         tx'[p] = Ended(tx[p], pc),
         tx[p].answer \in {"matched", "unmatched"} => Stands(tx[p])',
         pc = "publish" => Swiping(tx[p]) /\ match'[Pair(tx[p])] # "none"
  PROVE  Local(tx[p])'
<1> DEFINE r == tx'[p]
<1>1. tx[p] \in Transaction /\ Local(tx[p])
  BY OneRequest
<1>2. /\ r.pc = pc /\ r.other = None /\ r.locked = {}
      /\ ~r.swiped /\ ~r.created
      /\ r.found = {} /\ r.todo = {} /\ r.cut = {}
      /\ r.source = tx[p].source /\ r.target = tx[p].target
      /\ r.req = tx[p].req /\ r.decision = tx[p].decision /\ r.answer = tx[p].answer
  BY DEF Ended, Idle
<1>3. Control(tx[p])'
  BY <1>1, <1>2, MatchingNoneAssumption DEF Local, Control, Swiping, Blocking, Checked
<1>4. (Locking(tx[p]) /\ Unswiped(tx[p]) /\ Deciding(tx[p]) /\ Severing(tx[p]))'
  BY <1>2 DEF Locking, Unswiped, Deciding, Severing, Checked
<1>5. Answering(tx[p])'
  BY <1>1, <1>2 DEF Local, Answering, Swiping, Pair
<1>6. QED
  BY <1>3, <1>4, <1>5 DEF Local

\* COMMIT of a swipe that has inserted its row.
LEMMA CommitSwipeStep ==
  ASSUME MatchingInv, NEW p \in Requests, Commit(p), tx[p].swiped
  PROVE  MatchingInv'
<1> DEFINE r == tx[p]
           a == r.source
           b == r.target
           pair == Pair(r)
<1>1. /\ r \in Transaction /\ Local(r) /\ r.pc = "commit"
      /\ \A q \in Requests \ {p} :
           tx[q] \in Transaction /\ Local(tx[q]) /\ Apart(r, tx[q])
      /\ OwnerOf \in [Pets -> Owners]
  BY OneRequest DEF Commit
<1>2. /\ a \in Pets /\ b \in Pets /\ a # b
      /\ r.decision \in Decisions /\ r.req \in ReqIds /\ r.decision # None
      /\ r.other = None /\ r.found = {} /\ r.cut = {}
      /\ r.locked = {a, b}
      /\ Swiping(r)
  BY <1>1, MatchingNoneAssumption DEF Local, Deciding, Control, Locking
<1>3. /\ swipe[<<a, b>>] = None
      /\ r.created <=> Interested(r.decision) /\ Likes(b, a)
  BY <1>1 DEF Local, Unswiped, Deciding
<1>4. /\ pair \in Pairs /\ pair = PairOf(b, a)
      /\ pair \in {<<a, b>>, <<b, a>>} /\ {pair[1], pair[2]} = {a, b}
  BY <1>2, PairFacts DEF Pair
<1>5. match[pair] = "none"
  <2>1. ~Likes(a, b)
    BY <1>3 DEF Likes
  <2>2. QED
    BY <1>2, <1>4, <2>1 DEF MatchingInv, Database, MatchIffMutual
<1> DEFINE row == [decision |-> r.decision, req |-> r.req]
<1>6. /\ swipe'[<<a, b>>] = row /\ row # None
      /\ \A x, y \in Pets : <<x, y>> # <<a, b>> => swipe'[<<x, y>>] = swipe[<<x, y>>]
      /\ swipe' \in [Pets \X Pets -> [decision : Decisions, req : ReqIds] \cup {None}]
  <2>1. /\ swipe' = [ab \in Pets \X Pets |-> IF ab = <<a, b>> THEN row ELSE swipe[ab]]
        /\ row \in [decision : Decisions, req : ReqIds]
    BY <1>2 DEF Commit
  <2>2. row # None
    BY <2>1, MatchingNoneAssumption
  <2>3. \A x, y \in Pets : <<x, y>> # <<a, b>> => swipe'[<<x, y>>] = swipe[<<x, y>>]
    BY <2>1
  <2>4. swipe'[<<a, b>>] = row
    BY <1>2, <2>1
  <2>5. swipe' \in [Pets \X Pets -> [decision : Decisions, req : ReqIds] \cup {None}]
    BY <2>1 DEF MatchingInv, TypeOK
  <2>6. QED
    BY <2>2, <2>3, <2>4, <2>5
<1>7. /\ match' = [m \in Pairs |-> IF r.created /\ m = pair THEN "active" ELSE match[m]]
      /\ match' \in [Pairs -> {"none", "active", "blocked"}]
  BY <1>2 DEF Commit, MatchingInv, TypeOK
<1>8. /\ notices' = [m \in Pairs |-> [u \in Owners |->
                       IF r.created /\ m = pair /\ u \in {OwnerOf[a], OwnerOf[b]}
                         THEN notices[m][u] + 1 ELSE notices[m][u]]]
      /\ UNCHANGED <<petStatus, blocks, severed, published>>
  BY <1>2 DEF Commit
<1> DEFINE pc == IF r.created THEN "publish" ELSE "done"
<1>9. Set(p, Ended(r, pc)) /\ pc \in {"publish", "done"}
  BY ZenonT(60), <1>1 DEF Commit, Ended, Idle
<1>10. /\ tx' \in [Requests -> Transaction] /\ tx'[p] = Ended(r, pc)
       /\ \A q \in Requests \ {p} : tx'[q] = tx[q]
       /\ \A q, v \in Requests : q # v => Apart(tx'[q], tx'[v])
  BY <1>9, EndedLocks
<1>11. /\ \A x, y \in Pets : swipe[<<x, y>>] # None => swipe'[<<x, y>>] = swipe[<<x, y>>]
       /\ \A m \in Pairs : match[m] # "none" => match'[m] = match[m]
  BY <1>3, <1>5, <1>6, <1>7
<1>12. ASSUME NEW q \in Requests PROVE Local(tx[q])'
  <2>1. CASE q = p
    <3>1. Stands(tx[p])'
      <4>1. r.answer = "matched" => match'[pair] # "none"
        BY <1>1, <1>4, <1>7 DEF Local, Answering
      <4>2. QED
        BY <1>6, <1>10, <4>1 DEF Stands, Ended, Idle, Pair
    <3>2. pc = "publish" => match'[pair] # "none"
      BY <1>4, <1>7
    <3>3. QED
      BY <1>2, <1>9, <1>10, <2>1, <3>1, <3>2, EndedLocal
  <2>2. CASE q # p
    <3>1. a \notin tx[q].locked
      BY <1>1, <1>2, <2>2 DEF Apart
    <3>2. \A x, y \in Pets : x \in tx[q].locked => swipe'[<<x, y>>] = swipe[<<x, y>>]
      BY <1>6, <3>1
    <3>3. \A m \in tx[q].cut : match'[m] = match[m]
      BY <1>1, <1>11, <2>2 DEF Local, Severing, Transaction
    <3>4. QED
      BY <1>10, <1>11, <2>2, <3>2, <3>3, Undisturbed
  <2>3. QED
    BY <2>1, <2>2
<1>13. MatchIffMutual'
  <2> SUFFICES ASSUME NEW m \in Pairs
               PROVE  match'[m] # "none" <=> Likes(m[1], m[2])' /\ Likes(m[2], m[1])'
    BY DEF MatchIffMutual
  <2>0. m[1] \in Pets /\ m[2] \in Pets
    BY DEF Pairs
  <2>1. CASE m = pair
    <3>1. /\ swipe'[<<a, b>>] # None
          /\ swipe'[<<a, b>>].decision = r.decision
      BY <1>6
    <3>2. swipe'[<<b, a>>] = swipe[<<b, a>>]
      BY <1>2, <1>6
    <3>3. match'[m] # "none" <=> r.created
      BY <1>5, <1>7, <2>1
    <3>4. QED
      BY <1>3, <1>4, <2>1, <3>1, <3>2, <3>3 DEF Likes
  <2>2. CASE m # pair
    <3>1. <<m[1], m[2]>> # <<a, b>> /\ <<m[2], m[1]>> # <<a, b>>
      BY <1>2, <2>2, PairsDiffer DEF Pair
    <3>2. /\ Likes(m[1], m[2])' <=> Likes(m[1], m[2])
          /\ Likes(m[2], m[1])' <=> Likes(m[2], m[1])
      BY <1>6, <2>0, <3>1 DEF Likes
    <3>3. match'[m] = match[m]
      BY <1>7, <2>2
    <3>4. QED
      BY <3>2, <3>3 DEF MatchingInv, Database, MatchIffMutual
  <2>3. QED
    BY <2>1, <2>2
<1>14. ToldOnce'
  <2>1. ASSUME NEW m \in Pairs, NEW u \in Owners
        PROVE  notices'[m][u] =
                 IF match'[m] # "none" /\ u \in {OwnerOf[m[1]], OwnerOf[m[2]]}
                   THEN 1 ELSE 0
    <3>1. notices[m][u] = IF match[m] # "none" /\ u \in {OwnerOf[m[1]], OwnerOf[m[2]]}
                            THEN 1 ELSE 0
      BY DEF MatchingInv, Database, ToldOnce
    <3>2. CASE m = pair /\ r.created
      BY <1>4, <1>5, <1>7, <1>8, <3>1, <3>2
    <3>3. CASE ~(m = pair /\ r.created)
      BY <1>7, <1>8, <3>1, <3>3
    <3>4. QED
      BY <3>2, <3>3
  <2>2. \A m \in published' : match'[m] # "none"
    BY <1>8, <1>11 DEF MatchingInv, Database, ToldOnce, TypeOK
  <2>3. QED
    BY <2>1, <2>2 DEF ToldOnce
<1>15. SeveredForGood'
  BY <1>8, <1>11 DEF MatchingInv, Database, SeveredForGood, TypeOK
<1>16. TypeOK'
  <2>1. notices' \in [Pairs -> [Owners -> Nat]]
    BY <1>8 DEF MatchingInv, TypeOK
  <2>2. QED
    BY <1>6, <1>7, <1>8, <1>10, <2>1 DEF MatchingInv, TypeOK
<1>17. QED
  BY <1>10, <1>12, <1>13, <1>14, <1>15, <1>16 DEF MatchingInv, Database

\* COMMIT of everything else: a swipe that only repeats an earlier one severs
\* and changes nothing, a block severs the matches it has locked.
LEMMA CommitOtherStep ==
  ASSUME MatchingInv, NEW p \in Requests, Commit(p), ~tx[p].swiped
  PROVE  MatchingInv'
<1> DEFINE r == tx[p]
<1>1. /\ r \in Transaction /\ Local(r) /\ r.pc = "commit"
      /\ \A q \in Requests \ {p} :
           tx[q] \in Transaction /\ Local(tx[q]) /\ Apart(r, tx[q])
  BY OneRequest DEF Commit
<1>2. ~r.swiped /\ ~r.created
  BY <1>1 DEF Local, Deciding
<1>3. /\ swipe' = swipe /\ notices' = notices
      /\ match' = [m \in Pairs |-> IF m \in r.cut THEN "blocked" ELSE match[m]]
      /\ severed' = severed \cup r.found
      /\ UNCHANGED <<petStatus, published>>
  <2>1. swipe' = [ab \in Pets \X Pets |-> swipe[ab]]
    BY <1>2 DEF Commit
  <2>2. notices' = [m \in Pairs |-> [u \in Owners |-> notices[m][u]]]
    BY <1>2 DEF Commit
  <2>3. match' = [m \in Pairs |-> IF m \in r.cut THEN "blocked" ELSE match[m]]
    BY <1>2 DEF Commit
  <2>4. swipe' = swipe
    BY <2>1 DEF MatchingInv, TypeOK
  <2>5. notices' = notices
    BY <2>2 DEF MatchingInv, TypeOK
  <2>6. QED
    BY <2>3, <2>4, <2>5 DEF Commit
<1>4. /\ blocks' \subseteq Owners \X Owners
      /\ match' \in [Pairs -> {"none", "active", "blocked"}]
      /\ severed' \subseteq Pairs
  <2>1. blocks' \subseteq Owners \X Owners
    BY <1>1, MatchingNoneAssumption DEF Commit, Local, Control, Blocking, MatchingInv, TypeOK
  <2>2. match' \in [Pairs -> {"none", "active", "blocked"}]
    BY <1>3 DEF MatchingInv, TypeOK
  <2>3. severed' \subseteq Pairs
    BY <1>1, <1>3 DEF Transaction, MatchingInv, TypeOK
  <2>4. QED
    BY <2>1, <2>2, <2>3
<1>5. \A m \in Pairs : /\ match[m] # "none" <=> match'[m] # "none"
                       /\ match[m] = "blocked" => match'[m] = "blocked"
  BY <1>1, <1>3 DEF Local, Severing
<1>6. Set(p, Ended(r, "done"))
  BY <1>2 DEF Commit, Ended, Idle
<1>7. /\ tx' \in [Requests -> Transaction] /\ tx'[p] = Ended(r, "done")
      /\ \A q \in Requests \ {p} : tx'[q] = tx[q]
      /\ \A q, v \in Requests : q # v => Apart(tx'[q], tx'[v])
  BY <1>6, EndedLocks
<1>8. ASSUME NEW q \in Requests PROVE Local(tx[q])'
  <2>1. CASE q = p
    <3>1. ASSUME r.answer \in {"matched", "unmatched"} PROVE Stands(tx[p])'
      <4>1. Swiping(r) /\ Stands(r) /\ r.source \in Pets /\ r.target \in Pets
                       /\ r.source # r.target
        BY <1>1, <1>2, <3>1 DEF Local, Answering, Control
      <4>2. Pair(r) \in Pairs
        BY <4>1, PairFacts DEF Pair
      <4>3. QED
        BY <1>3, <1>5, <1>7, <4>1, <4>2 DEF Stands, Ended, Idle, Pair
    <3>2. QED
      BY <1>7, <2>1, <3>1, EndedLocal
  <2>2. CASE q # p
    <3>1. \A m \in tx[q].cut : match'[m] = match[m]
      BY <1>1, <1>3, <2>2 DEF Apart, Transaction
    <3>2. QED
      BY <1>3, <1>5, <1>7, <2>2, <3>1, Undisturbed
  <2>3. QED
    BY <2>1, <2>2
<1>9. MatchIffMutual'
  BY <1>3, <1>5 DEF MatchingInv, Database, MatchIffMutual, Likes
<1>10. ToldOnce'
  <2>1. \A m \in Pairs, u \in Owners :
          notices'[m][u] = IF match'[m] # "none" /\ u \in {OwnerOf[m[1]], OwnerOf[m[2]]}
                             THEN 1 ELSE 0
    BY <1>3, <1>5 DEF MatchingInv, Database, ToldOnce
  <2>2. \A m \in published' : match'[m] # "none"
    BY <1>3, <1>5 DEF MatchingInv, Database, ToldOnce, TypeOK
  <2>3. QED
    BY <2>1, <2>2 DEF ToldOnce
<1>11. SeveredForGood'
  <2>1. \A m \in r.found : m \in Pairs /\ (m \in r.cut \/ match[m] = "blocked")
    BY <1>1 DEF Local, Control, Severing, Transaction
  <2>2. \A m \in severed : m \in Pairs /\ match[m] = "blocked"
    BY DEF MatchingInv, Database, SeveredForGood, TypeOK
  <2>3. QED
    BY <1>3, <2>1, <2>2 DEF SeveredForGood
<1>12. TypeOK'
  BY <1>3, <1>4, <1>7 DEF MatchingInv, TypeOK
<1>13. QED
  BY <1>7, <1>8, <1>9, <1>10, <1>11, <1>12 DEF MatchingInv, Database

LEMMA PublishStep ==
  ASSUME MatchingInv, NEW p \in Requests, Publish(p) PROVE MatchingInv'
<1> DEFINE r == [tx[p] EXCEPT !.pc = "done"]
<1>1. /\ tx[p] \in Transaction /\ Local(tx[p]) /\ tx[p].pc = "publish"
      /\ \A q \in Requests \ {p} : Apart(tx[p], tx[q])
  BY OneRequest DEF Publish
<1>2. /\ published' = published \cup {Pair(tx[p])}
      /\ UNCHANGED <<petStatus, swipe, match, notices, blocks, severed>>
      /\ tx' = [tx EXCEPT ![p] = r] /\ tx \in [Requests -> Transaction]
  BY DEF Publish, Set, rows, MatchingInv, TypeOK
<1>3. Pair(tx[p]) \in Pairs /\ match[Pair(tx[p])] # "none"
  <2>1. /\ tx[p].source \in Pets /\ tx[p].target \in Pets /\ tx[p].source # tx[p].target
        /\ match[Pair(tx[p])] # "none"
    BY <1>1 DEF Local, Control, Answering
  <2>2. QED
    BY <2>1, PairFacts DEF Pair
<1>4. r \in Transaction
  BY <1>1 DEF Transaction, PCs
<1>5. tx'[p] = r /\ \A q \in Requests \ {p} : tx'[q] = tx[q]
  BY <1>2
<1>6. ASSUME NEW q \in Requests PROVE Local(tx[q])'
  <2>1. CASE q = p
    <3>1. /\ r.pc = "done" /\ r.other = None /\ r.locked = {}
          /\ ~r.swiped /\ ~r.created
          /\ r.found = {} /\ r.todo = {} /\ r.cut = {}
          /\ r.source = tx[p].source /\ r.target = tx[p].target
          /\ r.req = tx[p].req /\ r.decision = tx[p].decision /\ r.answer = tx[p].answer
      BY <1>1 DEF Local, Control, Locking, Deciding, Checked, Transaction, Swiping
    <3> HIDE DEF r
    <3>2. Control(r) /\ Answering(r)
      BY <1>1, <3>1, MatchingNoneAssumption DEF Local, Control, Answering, Swiping, Blocking,
         Checked, Stands, Pair
    <3>3. Locking(r) /\ Unswiped(r) /\ Deciding(r) /\ Severing(r)
      BY <3>1 DEF Locking, Unswiped, Deciding, Severing, Checked
    <3>4. Local(tx'[q])
      BY <1>5, <2>1, <3>2, <3>3 DEF Local
    <3>5. QED
      BY <1>2, <3>4 DEF Local, Control, Locking, Unswiped, Deciding, Answering, Severing,
         Stands, Likes
  <2>2. CASE q # p
    <3>1. Local(tx'[q])
      BY <1>5, <2>2 DEF MatchingInv
    <3>2. QED
      BY <1>2, <3>1 DEF Local, Control, Locking, Unswiped, Deciding, Answering, Severing,
         Stands, Likes
  <2>3. QED
    BY <2>1, <2>2
<1>7. ASSUME NEW q \in Requests, NEW v \in Requests, q # v
      PROVE  Apart(tx[q], tx[v])'
  <2>1. r.locked = tx[p].locked /\ r.cut = tx[p].cut
    BY <1>1 DEF Transaction
  <2> HIDE DEF r
  <2>2. Apart(tx'[q], tx'[v])
    BY <1>5, <1>7, <2>1 DEF MatchingInv, Apart
  <2>3. QED
    BY <2>2 DEF Apart
<1>8. Database'
  BY <1>2, <1>3 DEF MatchingInv, Database, MatchIffMutual, ToldOnce, SeveredForGood, Likes
<1>9. TypeOK'
  BY <1>2, <1>3, <1>4 DEF MatchingInv, TypeOK
<1>10. QED
  BY <1>6, <1>7, <1>8, <1>9 DEF MatchingInv

\* Neither an unblock nor a change of a pet touches anything of the invariant.
LEMMA OutsideStep ==
  ASSUME MatchingInv,
         \/ \E u, v \in Owners : DeleteBlock(u, v)
         \/ \E a \in Pets, st \in {"active", "paused", "deleted"} : ChangePet(a, st)
         \/ UNCHANGED vars
  PROVE  MatchingInv'
<1>1. /\ UNCHANGED <<swipe, match, notices, severed, published, tx>>
      /\ blocks' \subseteq blocks
      /\ petStatus' \in [Pets -> {"active", "paused", "deleted"}]
  BY DEF MatchingInv, TypeOK, DeleteBlock, ChangePet, vars, rows
<1>2. TypeOK'
  BY <1>1 DEF MatchingInv, TypeOK
<1>3. ASSUME NEW q \in Requests PROVE Local(tx[q])'
  BY <1>1 DEF MatchingInv, Local, Control, Locking, Unswiped, Deciding, Answering,
     Severing, Stands, Likes
<1>4. \A q, v \in Requests : q # v => Apart(tx[q], tx[v])'
  BY <1>1 DEF MatchingInv, Apart
<1>5. Database'
  BY <1>1 DEF MatchingInv, Database, MatchIffMutual, ToldOnce, SeveredForGood, Likes
<1>6. QED
  BY <1>2, <1>3, <1>4, <1>5 DEF MatchingInv

LEMMA SwipeStepInv ==
  ASSUME MatchingInv, NEW p \in Requests, SwipeStep(p) PROVE MatchingInv'
<1>1. CASE LockPet(p)
  BY <1>1, LockPetStep
<1>2. CASE Refuse(p)
  BY <1>2, EndStep DEF Refuse
<1>3. CASE Conflict(p)
  BY <1>3, EndStep DEF Conflict
<1>4. CASE Repeat(p)
  BY <1>4, RepeatStep
<1>5. CASE LoadMatch(p)
  BY <1>5, LoadMatchStep
<1>6. CASE FirstSwipe(p)
  BY <1>6, FirstSwipeStep
<1>7. CASE InsertSwipe(p)
  BY <1>7, InsertSwipeStep
<1>8. CASE Reciprocal(p)
  BY <1>8, ReciprocalStep
<1>9. CASE CreateMatch(p)
  BY <1>9, CreateMatchStep
<1>10. QED
  BY <1>1, <1>2, <1>3, <1>4, <1>5, <1>6, <1>7, <1>8, <1>9 DEF SwipeStep

LEMMA BlockStepInv ==
  ASSUME MatchingInv, NEW p \in Requests, BlockStep(p) PROVE MatchingInv'
<1>1. CASE InsertBlock(p)
  BY <1>1, InsertBlockStep
<1>2. CASE BeginSever(p)
  BY <1>2, BeginSeverStep
<1>3. ASSUME NEW m \in Pairs, SeverMatch(p, m) PROVE MatchingInv'
  BY <1>3, SeverMatchStep
<1>4. CASE EndSever(p)
  BY <1>4, EndSeverStep
<1>5. QED
  BY <1>1, <1>2, <1>3, <1>4 DEF BlockStep

LEMMA NextMatchingInv == MatchingInv /\ [Next]_vars => MatchingInv'
<1> SUFFICES ASSUME MatchingInv, [Next]_vars PROVE MatchingInv'
  OBVIOUS
<1>1. ASSUME NEW p \in Requests, NEW u \in Owners, NEW a \in Pets, NEW b \in Pets,
             NEW d \in Decisions, NEW i \in ReqIds, BeginSwipe(p, u, a, b, d, i)
      PROVE  MatchingInv'
  BY <1>1, BeginSwipeStep
<1>2. ASSUME NEW p \in Requests, NEW u \in Owners, NEW v \in Owners, BeginBlock(p, u, v)
      PROVE  MatchingInv'
  BY <1>2, BeginBlockStep
<1>3. ASSUME NEW p \in Requests, SwipeStep(p) \/ BlockStep(p) PROVE MatchingInv'
  BY <1>3, SwipeStepInv, BlockStepInv
<1>4. ASSUME NEW p \in Requests, Commit(p) PROVE MatchingInv'
  BY <1>4, CommitSwipeStep, CommitOtherStep
<1>5. ASSUME NEW p \in Requests, Publish(p) PROVE MatchingInv'
  BY <1>5, PublishStep
<1>6. ASSUME NEW p \in Requests, Fail(p) PROVE MatchingInv'
  BY <1>6, EndStep DEF Fail
<1>7. ASSUME \/ \E u, v \in Owners : DeleteBlock(u, v)
             \/ \E a \in Pets, st \in {"active", "paused", "deleted"} : ChangePet(a, st)
             \/ UNCHANGED vars
      PROVE  MatchingInv'
  BY <1>7, OutsideStep
<1>8. QED
  BY <1>1, <1>2, <1>3, <1>4, <1>5, <1>6, <1>7 DEF Next

-----------------------------------------------------------------------------
(* What follows.                                                           *)

LEMMA InvariantOfMatching == Spec => []MatchingInv
  BY InitMatchingInv, NextMatchingInv, PTL DEF Spec

\* Every variable of Matching has its type.
THEOREM MatchingTypes == Spec => []TypeOK
<1>1. MatchingInv => TypeOK
  BY DEF MatchingInv
<1>2. QED
  BY <1>1, InvariantOfMatching, PTL

\* Two pets have a match exactly when each has liked the other, however their
\* swipes cross, fail and are retried (matching/service.go).
THEOREM MatchesAreMutual == Spec => []MatchIffMutual
<1>1. MatchingInv => MatchIffMutual
  BY DEF MatchingInv, Database
<1>2. QED
  BY <1>1, InvariantOfMatching, PTL

\* Each owner is told of a match once, and only committed matches are
\* published (matching/service.go).
THEOREM OwnersAreToldOnce == Spec => []ToldOnce
<1>1. MatchingInv => ToldOnce
  BY DEF MatchingInv, Database
<1>2. QED
  BY <1>1, InvariantOfMatching, PTL

\* A match that a block has found is blocked for good (safety/safety.go).
THEOREM SeveredStaysSevered == Spec => []SeveredForGood
<1>1. MatchingInv => SeveredForGood
  BY DEF MatchingInv, Database
<1>2. QED
  BY <1>1, InvariantOfMatching, PTL

\* What a swipe is answered is what is stored, for retries and repeated
\* request ids as for the first (matching/service.go).
THEOREM SwipeAnswersStand == Spec => []AnswersStand
<1>1. MatchingInv => AnswersStand
  BY DEF MatchingInv, AnswersStand, Local, Answering, Stands
<1>2. QED
  BY <1>1, InvariantOfMatching, PTL

\* No INSERT of a swipe meets a unique key (matching/service.go).
THEOREM SwipeInsertsSucceed == Spec => []SwipeKeysAreFree
<1>1. MatchingInv => SwipeKeysAreFree
  BY DEF MatchingInv, SwipeKeysAreFree, Local, Unswiped
<1>2. QED
  BY <1>1, InvariantOfMatching, PTL

\* A pet that a waiting swipe holds is the first of its pair; the one it waits
\* for comes later.
LEMMA WaitsClimb ==
  ASSUME MatchingInv, NEW p \in Requests, NEW q \in Requests, WaitsFor(p, q),
         tx[p].locked # {}, tx[q].pc = "lock"
  PROVE  /\ Pair(tx[p])[1] \in Nat /\ Pair(tx[q])[1] \in Nat
         /\ Pair(tx[p])[1] < Pair(tx[q])[1]
<1> DEFINE m == Pair(tx[p])
           n == Pair(tx[q])
<1>1. /\ tx[p].source \in Pets /\ tx[p].target \in Pets /\ tx[p].source # tx[p].target
      /\ tx[q].source \in Pets /\ tx[q].target \in Pets /\ tx[q].source # tx[q].target
      /\ tx[p].locked \subseteq {m[1]} /\ tx[q].locked \subseteq {n[1]}
      /\ tx[p].locked \cap tx[q].locked = {}
  BY OneRequest DEF WaitsFor, Local, Control, Locking, Swiping, Apart
<1>2. /\ m \in Pairs /\ {m[1], m[2]} = {tx[p].source, tx[p].target}
      /\ n \in Pairs
  BY <1>1, PairFacts DEF Pair
<1>3. n[1] \in {m[1], m[2]} /\ m[1] # n[1]
  BY <1>1, <1>2 DEF WaitsFor
<1>4. m[1] \in Nat /\ m[2] \in Nat /\ m[1] < m[2] /\ n[1] \in Nat
  BY <1>2, PetsAssumption DEF Pairs
<1>5. QED
  BY <1>3, <1>4

\* Among finite sets one has no other that is a part of it.
LEMMA SmallestSet ==
  ASSUME NEW S, IsFiniteSet(S), NEW C \in SUBSET (SUBSET S), C # {}
  PROVE  \E T \in C : \A U \in C : U \subseteq T => U = T
<1>1. IsWellFoundedOn(StrictSubsetOrdering(S), FiniteSubsetsOf(S))
  BY FS_StrictSubsetOrderingWellFounded
<1>2. C \subseteq FiniteSubsetsOf(S)
  BY FS_FiniteSubsetsOfFinite
<1>3. PICK T \in C : \A U \in C : <<U, T>> \notin StrictSubsetOrdering(S)
  BY <1>1, <1>2, WFMin
<1>4. QED
  BY <1>3 DEF StrictSubsetOrdering

\* The requests of S whose first pet comes after p's.
Above(S, p) == {q \in S : Pair(tx[p])[1] < Pair(tx[q])[1]}

\* Of finitely many requests with natural first pets, one has the last of them.
LEMMA HighestSwipe ==
  ASSUME NEW S, IsFiniteSet(S), S # {}, \A p \in S : Pair(tx[p])[1] \in Nat
  PROVE  \E p \in S : Above(S, p) = {}
<1>1. PICK C : C = {Above(S, p) : p \in S}
  OBVIOUS
<1>2. C \in SUBSET (SUBSET S) /\ C # {}
  BY <1>1 DEF Above
<1>3. PICK T \in C : \A U \in C : U \subseteq T => U = T
  BY <1>2, SmallestSet
<1>4. PICK p \in S : T = Above(S, p)
  BY <1>1
<1>5. ASSUME NEW q \in Above(S, p) PROVE FALSE
  <2>1. q \in S /\ Pair(tx[p])[1] < Pair(tx[q])[1]
    BY <1>5 DEF Above
  <2>2. Above(S, q) \subseteq T /\ q \notin Above(S, q) /\ q \in T
    BY <1>4, <2>1 DEF Above
  <2>3. QED
    BY <1>1, <1>3, <2>1, <2>2
<1>6. QED
  BY <1>5

\* However many swipes wait, they do not wait in a circle: of those that others
\* wait for, the one that holds the last pet waits for none
\* (matching/service.go).
THEOREM SwipesAlwaysLock == Spec => []SwipesNeverDeadlock
<1>1. MatchingInv => SwipesNeverDeadlock
  <2> SUFFICES ASSUME MatchingInv, NEW S \in SUBSET Requests, IsFiniteSet(S), S # {},
                      \A p \in S : \E q \in S : WaitsFor(p, q)
               PROVE  FALSE
    BY DEF SwipesNeverDeadlock
  <2>1. PICK H : H = {q \in S : \E p \in S : WaitsFor(p, q)}
    OBVIOUS
  <2>2. H \in SUBSET S /\ IsFiniteSet(H) /\ H # {}
    BY <2>1, FS_Subset
  <2>3. ASSUME NEW p \in H
        PROVE  \E q \in H : WaitsFor(p, q) /\ tx[q].pc = "lock" /\ tx[p].locked # {}
    <3>1. PICK q \in S : WaitsFor(p, q)
      BY <2>2
    <3>2. \E v \in S : WaitsFor(q, v)
      OBVIOUS
    <3>3. q \in H
      BY <2>1, <2>2, <3>1
    <3>4. tx[p].locked # {}
      BY <2>1, <2>3 DEF WaitsFor
    <3>5. QED
      BY <3>1, <3>2, <3>3, <3>4 DEF WaitsFor
  <2>4. ASSUME NEW p \in H PROVE Pair(tx[p])[1] \in Nat /\ Above(H, p) # {}
    <3>1. PICK q \in H : WaitsFor(p, q) /\ tx[q].pc = "lock" /\ tx[p].locked # {}
      BY <2>3
    <3>2. p \in Requests /\ q \in Requests
      BY <2>2
    <3>3. Pair(tx[p])[1] \in Nat /\ Pair(tx[p])[1] < Pair(tx[q])[1]
      BY <3>1, <3>2, WaitsClimb
    <3>4. QED
      BY <3>3 DEF Above
  <2>5. QED
    BY <2>2, <2>4, HighestSwipe
<1>2. QED
  BY <1>1, InvariantOfMatching, PTL

-----------------------------------------------------------------------------
(* Matching implements MutualMatch.                                        *)

\* The refinement mapping of Mutual.
Decided == [ab \in Pets \X Pets |-> IF swipe[ab] = None THEN None ELSE swipe[ab].decision]
promise == <<Decided, match, notices>>

LEMMA MutualInit == Init => Mutual!Init
  BY DEF Init, InitWith, Mutual!Init, Mutual!Pairs, Pairs

LEMMA DecideIsNext ==
  ASSUME NEW a \in Pets, NEW b \in Pets, NEW d \in Decisions, Mutual!Decide(a, b, d)
  PROVE  Mutual!Next
  BY DEF Mutual!Next

\* A swipe that has inserted its row decides.
LEMMA CommitDecides ==
  ASSUME MatchingInv, NEW p \in Requests, Commit(p), tx[p].swiped
  PROVE  Mutual!Next
<1> DEFINE r == tx[p]
           m == Pair(r)
<1>0. PICK a, b, d : a = r.source /\ b = r.target /\ d = r.decision
  OBVIOUS
<1>1. Local(r) /\ r.pc = "commit"
  BY OneRequest DEF Commit
<1>2. /\ a \in Pets /\ b \in Pets /\ a # b
      /\ d \in Decisions /\ d # None /\ r.req \in ReqIds /\ r.cut = {}
      /\ swipe[<<a, b>>] = None /\ OwnerOf[a] # OwnerOf[b]
      /\ r.created <=> Interested(d) /\ Likes(b, a)
  BY <1>0, <1>1, MatchingNoneAssumption DEF Local, Deciding, Control, Unswiped
<1>3. m \in Pairs /\ m = PairOf(a, b)
  BY <1>0, <1>2, PairFacts DEF Pair
<1>4. match[m] = "none"
  <2>1. ~Likes(a, b)
    BY <1>2 DEF Likes
  <2>2. QED
    BY <1>2, <1>3, <2>1, PairFacts DEF MatchingInv, Database, MatchIffMutual
<1>5. /\ swipe \in [Pets \X Pets -> [decision : Decisions, req : ReqIds] \cup {None}]
      /\ match \in [Pairs -> {"none", "active", "blocked"}]
      /\ notices \in [Pairs -> [Owners -> Nat]]
      /\ OwnerOf[a] \in Owners /\ OwnerOf[b] \in Owners
  BY <1>2, OwnerOfAssumption DEF MatchingInv, TypeOK
<1>6. Decided[<<a, b>>] = None
  BY <1>2 DEF Decided
<1>7. Decided' = [Decided EXCEPT ![<<a, b>>] = d]
  <2> DEFINE row == [decision |-> d, req |-> r.req]
  <2>1. swipe' = [ab \in Pets \X Pets |-> IF ab = <<a, b>> THEN row ELSE swipe[ab]]
    BY <1>0, <1>2 DEF Commit
  <2>2. row # None /\ row.decision = d
    BY <1>2, MatchingNoneAssumption
  <2> HIDE DEF row
  <2>3. \A ab \in Pets \X Pets :
          (IF swipe'[ab] = None THEN None ELSE swipe'[ab].decision) =
            IF ab = <<a, b>> THEN d ELSE IF swipe[ab] = None THEN None ELSE swipe[ab].decision
    BY <2>1, <2>2
  <2>4. QED
    BY <1>2, <2>3 DEF Decided
<1>8. d \in Mutual!Interest /\ Decided[<<b, a>>] \in Mutual!Interest <=> r.created
  <2>1. Decided[<<b, a>>] =
          IF swipe[<<b, a>>] = None THEN None ELSE swipe[<<b, a>>].decision
    BY <1>2 DEF Decided
  <2>2. swipe[<<b, a>>] # None => swipe[<<b, a>>].decision \in Decisions
    BY <1>0, <1>2, <1>5
  <2>3. QED
    BY <1>2, <2>1, <2>2, MatchingNoneAssumption DEF Mutual!Interest, Interested, Likes
<1>9. CASE r.created
  <2>1. match' = [match EXCEPT ![m] = "active"]
    BY <1>0, <1>2, <1>5, <1>9 DEF Commit
  <2>2. notices' = [notices EXCEPT ![m][OwnerOf[a]] = @ + 1, ![m][OwnerOf[b]] = @ + 1]
    BY <1>0, <1>2, <1>3, <1>5, <1>9 DEF Commit
  <2>3. Mutual!Decide(a, b, d)
    BY <1>2, <1>3, <1>4, <1>6, <1>7, <1>8, <1>9, <2>1, <2>2
    DEF Mutual!Decide, Mutual!PairOf, PairOf, Decided
  <2>4. QED
    BY <1>2, <2>3, DecideIsNext
<1>10. CASE ~r.created
  <2>1. match' = match
    BY <1>0, <1>2, <1>5, <1>10 DEF Commit
  <2>2. notices' = notices
    BY <1>0, <1>5, <1>10 DEF Commit
  <2>3. Mutual!Decide(a, b, d)
    BY <1>2, <1>6, <1>7, <1>8, <1>10, <2>1, <2>2 DEF Mutual!Decide, Decided
  <2>4. QED
    BY <1>2, <2>3, DecideIsNext
<1>11. QED
  BY <1>9, <1>10

\* Any other commit severs what it has cut.
LEMMA CommitSevers ==
  ASSUME MatchingInv, NEW p \in Requests, Commit(p), ~tx[p].swiped
  PROVE  Mutual!Next
<1> DEFINE r == tx[p]
<1>1. /\ ~r.created /\ r.cut \subseteq Pairs
      /\ \A m \in r.cut : match[m] = "active"
  BY OneRequest DEF Commit, Local, Deciding, Severing, Transaction
<1>2. swipe' = swipe
  <2>1. swipe' = [ab \in Pets \X Pets |-> swipe[ab]]
    BY DEF Commit
  <2>2. QED
    BY <2>1 DEF MatchingInv, TypeOK
<1>3. notices' = notices
  <2>1. notices' = [m \in Pairs |-> [u \in Owners |-> notices[m][u]]]
    BY <1>1 DEF Commit
  <2>2. QED
    BY <2>1 DEF MatchingInv, TypeOK
<1>4. match' = [m \in Pairs |-> IF m \in r.cut THEN "blocked" ELSE match[m]]
  BY <1>1 DEF Commit
<1>5. Mutual!Sever(r.cut)
  BY <1>1, <1>2, <1>3, <1>4 DEF Mutual!Sever, Mutual!Pairs, Pairs
<1>6. QED
  BY <1>1, <1>5 DEF Mutual!Next, Mutual!Pairs, Pairs

LEMMA MutualNext == MatchingInv /\ [Next]_vars => [Mutual!Next]_promise
<1> SUFFICES ASSUME MatchingInv, [Next]_vars PROVE [Mutual!Next]_promise
  OBVIOUS
<1>1. ASSUME NEW p \in Requests, Commit(p) PROVE Mutual!Next
  BY <1>1, CommitDecides, CommitSevers
<1>2. ASSUME UNCHANGED <<swipe, match, notices>> PROVE UNCHANGED promise
  BY <1>2 DEF promise, Decided
<1>3. ASSUME NEW p \in Requests,
             \/ \E u \in Owners, a, b \in Pets, d \in Decisions, i \in ReqIds :
                  BeginSwipe(p, u, a, b, d, i)
             \/ \E u, v \in Owners : BeginBlock(p, u, v)
             \/ SwipeStep(p) \/ BlockStep(p) \/ Publish(p) \/ Fail(p)
      PROVE  UNCHANGED <<swipe, match, notices>>
  BY <1>3 DEF BeginSwipe, BeginBlock, SwipeStep, BlockStep, Publish, Fail, LockPet, Refuse,
     Conflict, Repeat, LoadMatch, FirstSwipe, InsertSwipe, Reciprocal, CreateMatch,
     InsertBlock, BeginSever, SeverMatch, EndSever, End, Step, rows
<1>4. ASSUME \/ \E u, v \in Owners : DeleteBlock(u, v)
             \/ \E a \in Pets, st \in {"active", "paused", "deleted"} : ChangePet(a, st)
             \/ UNCHANGED vars
      PROVE  UNCHANGED <<swipe, match, notices>>
  BY <1>4 DEF DeleteBlock, ChangePet, vars, rows
<1>5. QED
  BY <1>1, <1>2, <1>3, <1>4 DEF Next

\* To whoever reads the database, a swipe is one step: Matching implements
\* MutualMatch (matching/service.go, safety/safety.go).
THEOREM MatchingImplementsMutualMatch == Spec => ImplementsMutualMatch
<1>1. [Mutual!Next]_promise = [Mutual!Next]_<<Decided, match, notices>>
  BY DEF promise
<1>2. Spec => Mutual!Spec
  BY MutualInit, MutualNext, InvariantOfMatching, PTL
  DEF Spec, Mutual!Spec, promise, Decided
<1>3. QED
  BY <1>2 DEF ImplementsMutualMatch
=============================================================================
