# TLA+ models of PetConnect

PetConnect is a social network for pet owners: a Go API server (Fiber, PostgreSQL
through pgx, Redis) in `server/` and a Flutter client in `lib/`. This directory
holds TLA+ modules of the parts whose correctness rests on concurrency, on
retries and on failures in the wrong place, the TLC configurations that check
them, and proofs checked by TLAPS.

    tlc -workers 2 -config AuthSessions.cfg MCAuthSessions     # check a run
    tlapm AuthSessionsProofs.tla                               # check the proofs

`PROJECT.json` lists the components, the runs, the map from definitions to
source lines, the mutated definitions that show each property can fail, the
findings, the hazards and the theorems. Paths below are relative to
`server/internal/` unless they begin with `lib/` or `docs/`.

## 1. The system

| Component | State | Operations |
|---|---|---|
| Sign-in sessions (`modules/auth/auth.go`, `sessions.go`, `password_reset.go`, `modules/account/deletion.go`) | `refresh_tokens`, `sessions`, `users` | register, login, refresh (rotation with reuse detection), logout, revoke a session, logout-all, reset the password, delete the account |
| Access tokens (`platform/authjwt`, `platform/httpx`) | a JWT at the client, a cutoff per user in Redis | issue, authenticate, invalidate |
| One-time tokens (`auth/verification.go`, `password_reset.go`, `oauth.go`, `realtime/tickets.go`) | `email_verifications`, `password_resets`, keys in Redis | issue, consume once, cooldown |
| OAuth (`auth/oauth.go`, `apple_oauth.go`, `platform/oidc`) | `oauth_identities` | sign in: find, create or link an account |
| Pets (`modules/pets`) | `pets` | create, edit, pause, delete |
| Matching (`modules/matching`) | `pet_swipes`, `matches`, `chats`, `chat_members`, `notifications` | swipe, list candidates and matches |
| Safety (`modules/safety`) | `blocks`, `mutes`, `reports`, `matches.status` | block, unblock, mute, report |
| Chat (`modules/chat`) | `messages`, `chat_members.last_read_at` | send, mark as read, list, count unread |
| Realtime (`realtime/`) | connections and their queues in each process, a Redis channel, tickets | ticket, upgrade, publish, typing, close |
| Social (`modules/social`, `community`, `events`, `adoption`, `profile`, `platform/visibility`) | posts, likes, saves, comments, stories, follows, memberships, RSVPs | idempotent relations and block-aware reads |
| Notifications, discovery, media, account, export | rows and objects | reads and single statements |
| Rate limiter (`platform/ratelimit`) | a counter per window in Redis | INCR, EXPIRE, compare |
| Migrations (`migrations/embed.go`) | `schema_migrations`, an advisory lock | apply each file once |
| Client session (`lib/core/network/api_client.dart`, `auth_controller.dart`) | the token pair, a refresh in flight | request, refresh and retry, sign out |
| Client realtime and social state (`lib/core/realtime/realtime_client.dart`, `social_controller.dart`) | a socket, cached chats and matches, optimistic likes | connect, reconnect, apply events, load, send |

How they interact. HTTP handlers run concurrently, in one process or several.
They share no memory except the hub; they meet in PostgreSQL. Every transaction
is opened with `pgx.TxOptions{}`, which is READ COMMITTED, so a handler sees
each statement's own snapshot, and row locks and unique keys are all that orders
handlers. Matching and chat hand events to the hub **after** their commit; the
hub delivers to its own connections and through Redis to other processes', where
an event may be lost, or come twice when the Redis client repeats a command whose
connection broke. A block changes `matches.status`, which matching and chat read. The
client gets access tokens from a refresh that every 401 may start, opens a
socket with a one-time ticket, and merges what it loads with what it hears.

What is hard here:

* several statements under READ COMMITTED: an UPDATE that revokes or blocks a
  set of rows does not see rows another transaction is about to commit;
* lock orders: rotation locks token then session, revocation session then token;
* idempotency: a request is retried while its first attempt is still running;
* two requests that each complete what the other began (crossing likes);
* an event published for what was not committed, twice, or never;
* bounded queues, slow clients, a hub that closes while connections register;
* what the client applies late: an old refresh, an old page, an old failure.

What makes each part correct: *sessions*: one unexchanged token per family, and
a revoked family is dead; *one-time tokens*: used once; *access*: a revoked user
loses REST and WebSocket access within the stated latency; *matching*: a match
exactly when interest is mutual, one chat, one notification each, and a severed
match stays severed; *chat*: a message once, read stays read, paging complete;
*realtime*: once where the publisher is, elsewhere again only after a retry, in
the publisher's order, no publisher waits for a
client, no connection outlives its hub; *social*: a reader sees nothing a block
or a private account hides, a carousel is one request's, a follow is announced
once, an owner stays a member; *accounts*: a provider account opens only an
account it has earned; *migrations*: each once, in order; *client*: the app never has its own session
ended for reuse, its tokens are of the account it shows, and its caches converge
to the server's data.

## 2. Modules

| Module | Models | Checked by | Proofs |
|---|---|---|---|
| `TokenChain` | what signing in promises (abstract) | as a property of `AuthSessions` | `AuthSessionsProofs` (the refinement) |
| `AuthSessions` | sessions and refresh tokens | `MCAuthSessions`, 4 runs | `AuthSessionsProofs` |
| `MutualMatch` | what swiping promises (abstract) | as a property of `Matching` | `MatchingProofs` (the refinement) |
| `Matching` | swipes, matches, blocks, status changes of pets | `MCMatching`, 2 runs | `MatchingProofs` |
| `Mailbox` | what a chat promises (abstract) | as a property of `Chat` | `ChatProofs` (the refinement) |
| `Chat` | messages, read cursors, paging | `MCChat`, 1 run | `ChatProofs` |
| `Feed` | what the hub promises (abstract) | as a property of `Realtime` | `RealtimeProofs` (the refinement) |
| `Realtime` | hubs, Redis channel, connections | `MCRealtime`, 1 run | `RealtimeProofs` |
| `Social` | posts, stories, likes, follows, visibility, pets, safety, privacy | `MCSocial`, `MCSocialHidden` | `SocialProofs` |
| `Community` | communities, events, adoption | `MCSocial` | `SocialProofs` |
| `Accounts` | registration, provider sign-in, links, deletion | `MCAccounts`, `MCAccountsDeleted` | `AccountsProofs` |
| `Access` | access tokens, logout-all, tickets, sockets | `MCAccounts` | `PlatformProofs` |
| `Migrations` | migrations at start-up | `MCAccounts` | `PlatformProofs` |
| `ClientSession` | the app's tokens, refresh and sign-in state, against the server | `MCAccounts` | `ClientSessionProofs` |

`MCSocial` and `MCAccounts` extend several modules that share no variable and
start each behaviour in one of them; what one table means to another module is
said in that module (deletion, for instance, is in `AuthSessions` for tokens, in
`Accounts` for addresses and identities, in `Social` for pets and posts).

### The database

The database modules share one way of modelling. A request is a record
`tx[p]`: a program counter (`pc`), the handler's local variables, the row locks
it holds and its uncommitted writes. **One action is one SQL statement.** Three
cases need more:

* `SELECT ... FOR UPDATE` and an UPDATE of a known row are one step whose guard
  waits until no other transaction holds the row, and which then reads the row's
  last committed version;
* an UPDATE of a *set* of rows first fixes the rows its snapshot contains
  (`BeginTokens`, `BeginSessions`, `BeginSever`), then takes them one by one in
  any order, waiting for each and re-reading it, and then ends. This is what
  PostgreSQL does at READ COMMITTED, and all the races found here come from it;
* an INSERT against a unique key waits for an uncommitted row with that key.

Locks live until `Commit` makes the writes visible or `Fail` drops them. `Fail`
stands for a failed statement, a cancelled context, a process that dies, and a
commit whose answer is lost; all of them leave the deferred `Rollback`'s state.
In `Matching` a swipe that began is also ended that way by PostgreSQL's deadlock
detector; in `AuthSessions` the detector is an action of its own,
`DeadlockVictim`, because liveness rests on it.

### AuthSessions

`family`, `used`, `revoked`, `expired` are columns of `refresh_tokens`, `ended`
is `sessions.revoked_at`, `deleted` and `password` are columns of `users`.
`sealed` and `openedWith` are history: the sessions ended by a handler that
locks the session row before it looks at tokens, and the password version a
sign-in was verified against. `Next` is the arrival of a request (`Login`,
`RotateLookup`, `Logout`, `RevokeSession`, `LogoutAll`, `ResetPassword`,
`DeleteAccount`), its steps, its failure, and the passing of `expires_at`.
Rotation is `RotateLookup`, the lock on the current token, one of reuse
(`RotateReused`, then the two revoking UPDATEs of the family and a commit),
`RotateExpired` and `RotateValid`, then `RotateInsert`, `RotateTouch`, `Commit`.
Logout runs outside a transaction, so its first UPDATE commits by itself
(`Flush`). Tokens are model values; hashing, JWTs and devices are left out. A
row of `sessions` exists as soon as its family has a token: `createSession`
inserts both in one transaction. An INSERT's foreign-key lock on the user
conflicts with the FOR UPDATE of `deleteAccount` and with nothing else.

`TokenChain` states what a reader of the database may rely on: a sign-in issues
one token, the live token is exchanged for the next in one step and while its
account exists, and a session or an account that has been closed together with
its tokens never has a live one again. `AuthSessions` implements it under the
mapping that reads committed rows only: `live` is the set of tokens that could be
exchanged, `closed` is `sealed` (`ImplementsTokenChain`). It does not promise that
a logout or a reset leaves no token: the code does not keep that (section 6).

### Matching and MutualMatch

A `match` stands for the `matches` row with its chat and two members, which one
transaction inserts. `swipe[a, b]` is the row of `pet_swipes`, `notices` counts
`match` notifications per owner, `severed` is history. A swipe is `BeginSwipe`,
`LockPet` twice (the lower id first), then one of `Refuse`, `Conflict`,
`Repeat`/`LoadMatch`, or `FirstSwipe`, `InsertSwipe`, `Reciprocal`,
`CreateMatch`; then `Commit` and `Publish`. A block is `BeginBlock`,
`InsertBlock`, `BeginSever`, `SeverMatch` per match, `EndSever`, `Commit`.
`ChangePet` is a pause, resume or deletion, which waits for the swipes that hold
the pet. The status `unmatched` is in the schema but no code sets it.

`MutualMatch` states what a reader of the database may rely on: a decision is
final; the one that makes interest mutual creates the match and both
notifications in the same instant; a match is severed once and for all.
`Matching` implements it under the mapping that reads only committed rows
(`ImplementsMutualMatch`).

### Chat

One chat of two members; chats share nothing. A message carries `at`, the time
its transaction began, as `created_at DEFAULT now()` does, and an id whose order
is arbitrary. A send is `BeginSend`, `CheckActive`, `Insert` (or `Load` of the
earlier message), `Commit`, `Publish`; MarkRead is three separate statements,
`CheckMember`, `Mark`, `Announce`. `walk` is a client that follows `next_cursor`
to the end, one membership check and one query per page, while messages are
committed. The cursor's text carries `(created_at, id)` exactly, because
RFC3339Nano is finer than PostgreSQL's microseconds. `marked` and `published`
are history.

`Mailbox` is the chat as its members see it: a send is accepted when the chat is
found open, and ends by appearing together with the other member's notification,
by being answered with the message an earlier attempt posted, or without an
answer; a send accepted before a block may appear after it. `Chat` implements it:
`accepted` is the draft of a send from `CheckActive` to its commit (`DraftOf`),
`answer` what a committed send answers (`AnswerOf`), `told` is `published`
(`ImplementsMailbox`).

### Realtime

One hub per instance. `registered` is the map of connections; `delivery[d]` is a
`deliverLocal` under way, by a publisher or by an instance's consumer, with the
connections it has still to serve: while there is one the write lock is not
free. `stream[c]` is everything ever put into a connection's channel and
`written[c]` how much the writer has taken, so their difference is the queue,
with `Cap` places where the code has 128. Redis gives every subscriber the
publications in one order and may lose any of them (`LoseMail`). `main.go:72`
leaves the client's retries at their default, so a PUBLISH whose connection
breaks is sent again, whether Redis has executed it, never will, or does so later
(`PublishAgain`, with `tries` up to `Retries`): no consumer compares event ids,
and the other instances deliver such an event twice. A call that ends without an
answer leaves nothing or a copy on its way (`PublishTimesOut`, `Stray`,
`ArriveLate`); `strayed` is the history of the events with such a copy. The
connection's handler is `Register`, `Ready`, `ReaderEnds`, `Unregister`, its
writer `Write` and `WriterEnds`. Start is the initial state, since `main.go`
calls it before it serves; `DisconnectSession` has no caller.

`Feed` is the hub without the way events travel: a call to publish begins and
returns, a connection joins an instance, and a connection is sent an event or
misses it; twice only if the event was sent to other instances again (`Resend`),
a publisher's in their order save after a copy that strayed, and on the
publisher's own instance once, during its call, or never. The last is what lets a
handler answer its client after publishing. `Realtime` implements it: `told`
counts the calls begun (`Told`), `late` is `strayed`, `repeated` the events with
`tries`, `heard` counts an event in `stream` (`Times`, `ImplementsFeed`).

### Social and Community

`Social` has one variable per table or pair of tables, and the requests in `tx`.
A handler is a path through the program counter: a post is `BeginCreatePost`,
`InsertPost`, `InsertMedia` per item, `CommitPost`; an edit is `BeginPatchPost`,
`UpdatePost`, `DeleteMedia`, `InsertMedia`, `CommitPost`; a page of posts is
`PostRows` and, in a second statement with a snapshot of its own, `AttachMedia`;
a like is `CanView`, `CheckActor` for a pet that is not the user's own, `Touch`;
a follow is `CheckPet`, `InsertFollow`, `Notify`, `CommitFollow`. `ForPet`,
`ForUser`, `CanViewPost`, `InFeed`, `InStories` and `Discoverable` are the
copies of the visibility rule that the queries hold, each translated by itself.
A page is one of its rows: no property relates two rows of a page. `seen` and
`shown` are what an answer was about, `listed` is a user that a list of comments
or followers shows besides (`ListComments`, `ListFollowers`), and the history
`sight` is what the requester might have seen at some instant of the request.
`BlocksHold` compares `seen` with it; of `listed` it only says that the list
belongs to such a user, since the code asks for no more (section 6). `unfollowed`
counts what unfollowing removed.

`Community` has the three small modules of joins, RSVPs and saves. `leave` is
`LeaveCheck` and `LeaveRow`, with everything in between.

### Accounts and Access

`Accounts` keeps `users` (`account`), `oauth_identities` (`identity`), the links
of both kinds (`link`) and the Redis keys of OAuth (`key`). Every handler runs
once in a client: `register` is `InsertUser`, `Issue`, `CommitRegister`; a
callback is `RedeemState`, `Verify` (any of `Claims`), `FindIdentity`,
`FindEmail`, `InsertUser` or not, `LinkIdentity`, `CreateSession`,
`CommitSignIn`, `MintTicket`; opening a link is `FindLink`, which is the
statement's snapshot, `LockLink`, which is its row lock and the row as it is
then, `SetPassword`, `CommitUse`. Uncommitted rows of unique keys, FOR UPDATE and
foreign-key locks are guards (`EmailFree`, `IdentityFree`, `LinkFree`,
`UserFree`, `KeyShared`, `PasswordFree`). A deleted account keeps its address in
the model, for the properties; `Holders` does not see it, as the placeholder
address in the code makes sure. `spent` and `vouched` are history.

`Access` is one user's tokens against a clock of which `PerSecond` ticks make a
second: the `iat` and `exp` of a JWT are whole seconds, the marker of logout-all
is not, and `Authenticate` compares the two. `Mark` may be lost (`Drop`), and
Redis may not answer (`known`). `sealed` is the last cutoff of a logout-all or
deletion that no other overlapped. A ticket's life is computed from the clock in
`IssueTicket` and counted by SETNX from when that runs, in `StoreTicket`, so its
key may outlive the access token; `Consume` is GETDEL with the check of the
token's expiry that makes up for it, then come `Upgrade` (the session) and
`Connect` (the expiry again).

### Migrations

`TakeLock` waits for the advisory lock; `CheckFile`, `RunFile`, `CommitFile` per
file; `Restart` is a death at any point, which frees the lock with its
connection. `RunFile` fails if what it creates is already there. The type
invariant also says that only the holder of the lock is at work, which is the
reason for all that `MigrationsRunOnce` says.

### ClientSession

An action is what a task of the app does between two awaits. `memory`, `stored`,
`flight`, `screen` and `ready` are `_accessToken`, the stored refresh token,
`_refreshInFlight`, `AuthState.user` and `initialized`; a pair of tokens is one
value, its session and its generation there. `Refresh` joins or starts the one
refresh; `ServerRotates` is `AuthSessions` seen from outside (a generation up, or
the end of the session for reuse); `RefreshIsLost` is an answer that never comes;
`Receive` and `GiveUp` are the two ends of `_performRefresh` and resume all who
wait. `Relaunch` is a death of the app: only `stored` is left. `died` and
`adrift` are history, and name the exceptions of the two properties: a refresh
cut off by such a death, and a session that changed while a refresh or an update
of the profile was waiting for its answer.

## 3. Runs

| Run | Instance | States | Shows |
|---|---|---|---|
| `auth_sessions` | 3 requests, 2 sign-ins of one account, 4 tokens | 188 k | types; `OneUnusedToken`; `RotationHits`; `SealedSessionsAreDead`; `NoRotationAfterDeletion`; `ImplementsTokenChain` |
| `auth_liveness` | 2 requests, same data, no symmetry | 40 k | `EveryRequestEnds` |
| `auth_reuse_race` | 3 requests, 1 sign-in | violated | `RevokedSessionIsDead` |
| `auth_reset_race` | 2 requests | violated | `ResetEndsOldSessions` |
| `matching` | two cases: 2 pets, one of which changes, skip and like; or 3 pets, two of one owner, likes only; 3 requests, 2 request ids | 260 k | `MatchIffMutual`, `ToldOnce`, `SwipeKeysAreFree`, `SwipesNeverDeadlock`, `AnswersStand`, `ImplementsMutualMatch` |
| `matching_blocks` | 2 pets | violated | `BlockedUsersHaveNoMatch` |
| `chat` | 3 requests, 1 earlier message, a reused client id, 2 instants, pages of one | 703 k | `ToldOnce`, `AnswersStand`, `ReadStaysRead`, `WalkIsComplete`, `ImplementsMailbox` |
| `realtime` | 2 instances, 1 connection, queue of 1, 1 retry of the first event; 2 events, or 1 and a frame of the client | 537 k | `OnlyRetriesRepeat`, `PublishersAreHeardInOrder`, `ClosedHubIsEmpty`, `ImplementsFeed`, `EveryPublishEnds`, `ClosedHubLetsGo` |
| `social` | 2 users with a pet each, 2 posts, 2 media; any 2 requests, 3 that follow, unfollow, block and read, or 3 calls on a community, an event and a listing | 204 k | `CarouselIsOneRequest`, `EveryFollowIsTold`, `BlocksHold`, `OwnersBelong`, `DeletedPostsAreFrozen` |
| `social_hidden` | 1 pet, 1 post, 2 requests | violated | `HiddenPetsAreNotServed` |
| `accounts` | 3 clients, 1 address, 2 provider accounts, 2 ids, 2 links, 3 Redis keys; or 3 requests, 2 tokens, 2 seconds of 2 ticks; or 3 replicas, 3 files; or 3 tasks of the app, 2 accounts, 2 sessions of up to 3 generations | 650 k | `SecretsAreUsedOnce`, `IdentitiesAreEarned`, `SocketsAreEarned`, `LogoutAllHolds`, `MigrationsRunOnce`, `OnlyDeathMakesReuse`, `CredentialsFollowTheUser` |
| `accounts_deleted` | 4 clients, 1 provider account | violated | `DeletedAccountsLetGo` |

The runs of `AuthSessions`, `Matching`, `Chat` and `Realtime` also check the type
invariant of their module, and `accounts` checks `MigrationsTypeOK`, which says
more than types: only the holder of the lock migrates. The type invariants of
`Social`, `Community`, `Accounts`, `Access` and `ClientSession` are proved and not
checked again. Nor are `SeveredForGood` and `SentOnce`, which follow from the
refinements `ImplementsMutualMatch` and `ImplementsMailbox` of the same runs and
are theorems as well.

Why these bounds. *Sessions*: the races need two transactions that overlap and
often a third that made the state they meet (a token already exchanged, a
session already ended); three requests give every such triple of handlers. Two
families let an UPDATE of a whole account lock rows in both orders. Four tokens
are the two first ones and two successors. *Matching*: two crossing swipes and a
retry or a block are three requests; the third pet gives a request id that is
used again for another target and a block that severs two matches. *Chat*: an
earlier message, one sent at the same or at the next instant and a third make a
page boundary inside a group of equal times; two devices that mark two messages
in either order need the two remaining requests. *Realtime*: the connection
reaches either hub, so both the local path and the one through Redis are
explored; a queue of one place is full as soon as `realtime.ready` waits. A retry
of the first of two events gives a copy before, between or behind them; the proofs
take any number of retries. A frame of the client matters only for its place in
the queue, so it is sent when one event is (`MCCases`); no fairness is assumed for the
start of a publication or for a client, so no fair behaviour is cut short.
*Social*: two requests of any kind give every pair of handlers, statement
against statement; where a third matters, for follows and blocks (follow,
unfollow and a retry; a block while one reads and another follows), it is there
(`Few`). `Sent` drops inputs that are mirror images: a post is created for
followers and made public, one of the two pets is paused. *Accounts*: one
address is the only case in which sign-ins meet; a verified and an unverified
claim of it, and one with no address, are the three branches of the linking
rule; three clients are two first sign-ins and a third handler. Ids, links and
keys are numbers of which the lowest free one is taken, and requests arrive in
the order of their numbers, which loses nothing because they are
interchangeable; the last request does not fail. Two OAuth states are set before
the first request, one key is left for a ticket. *Access*: the second tick of a
second is a cutoff that is not a whole second, the third is a token of the next
second that it does not refuse. *ClientSession*: three tasks are a refresh, one
that joins it or signs out, and a later sign-in or restore; three generations are
two rotations, the second of them after a restart. The bounds that cut
off behaviours are `MaxTime`, `MaxReplies`, `Few` and the cases of `MCCases`, with
`MaxGen`, which stops the server's rotation; all other instances end by
themselves.

Deadlock is not checked where requests or events are finite: the instance ends
when all are done. `SwipesNeverDeadlock`, that among any swipes one waits for none
of the others, and `EveryRequestEnds` ask the question that matters.

Symmetry is used for interchangeable requests, families, tokens and ids, only in
runs without liveness, and never for pets and message ids, which are ordered.

## 4. Fairness

* `AuthSessions`: weak fairness of each request's own steps (`Progress`), as Go
  runs every goroutine that can run and PostgreSQL wakes the waiter of a
  released lock; weak fairness of `DeadlockVictim`, as PostgreSQL resolves a
  cycle of waits after `deadlock_timeout`. Nothing makes a request arrive, fail
  or expire. Without `DeadlockVictim` the property is false: rotation and
  revocation do take the same two locks in opposite orders.
* `Realtime`: weak fairness of the hub's loops, of a publication to Redis, which
  ends by its two-second timeout at the latest, of a writer that sees `done`, of
  a reader whose socket is closed, and of `Unregister`. There is none for
  `Write` and none for what a client does, so `EveryPublishEnds` holds with
  clients that never read.

## 5. Proofs

Every invariant, action property and refinement that a passing run checks is proved for every value of the
constants that the named assumptions admit: any number of users, rows, requests,
instances and replicas, any mix of handlers, any lifetimes and bounds. The runs
show the same formulas on small instances, and each inductive invariant below was
checked with TLC on the instance of its component before it was proved.

| Module | Theorem | States |
|---|---|---|
| `AuthSessionsProofs` | `TypeCorrect` | `Spec => []TypeOK` |
| | `RotationIsAChain` | `[]OneUnusedToken` |
| | `RotationAlwaysHits` | `[]RotationHits` |
| | `SealingIsComplete` | `[]SealedSessionsAreDead` |
| | `DeletedUsersDoNotRotate` | `[]NoRotationAfterDeletion` |
| | `ChainIsImplemented` | `Spec => ImplementsTokenChain`, the refinement |
| `MatchingProofs` | `MatchingTypes` | `[]TypeOK` |
| | `MatchesAreMutual` | `[]MatchIffMutual` |
| | `OwnersAreToldOnce` | `[]ToldOnce` |
| | `SeveredStaysSevered` | `[]SeveredForGood` |
| | `SwipeAnswersStand` | `[]AnswersStand` |
| | `SwipeInsertsSucceed` | `[]SwipeKeysAreFree` |
| | `SwipesAlwaysLock` | `[]SwipesNeverDeadlock` |
| | `MatchingImplementsMutualMatch` | `Spec => ImplementsMutualMatch`, the refinement |
| `ChatProofs` | `ChatTypesHold` | `[]TypeOK` |
| | `MessagesAreSentOnce` | `[]SentOnce` |
| | `MembersAreToldOnce` | `[]ToldOnce` |
| | `SendsAreAnsweredTruly` | `[]AnswersStand` |
| | `ReadMessagesStayRead` | `[]ReadStaysRead` |
| | `WalksAreComplete` | `[]WalkIsComplete` |
| | `ChatImplementsMailbox` | `Spec => ImplementsMailbox`, the refinement |
| `RealtimeProofs` | `RealtimeTypesHold` | `[]TypeOK`, which bounds the queues |
| | `RepeatsAreRetries` | `[]OnlyRetriesRepeat` |
| | `EventsComeInOrder` | `[]PublishersAreHeardInOrder` |
| | `ClosedHubsStayEmpty` | `[]ClosedHubIsEmpty` |
| | `RealtimeImplementsFeed` | `Spec => ImplementsFeed`, the refinement |
| `SocialProofs` | `SocialTypesHold`, `CommunityTypesHold` | `[]SocialTypeOK`, `[]CommunityTypeOK` |
| | `CarouselsStayWhole` | `[]CarouselIsOneRequest` |
| | `FollowsAreToldOnce` | `[]EveryFollowIsTold` |
| | `BlocksAreRespected` | `[]BlocksHold` |
| | `DeletedPostsStayDeleted` | `DeletedPostsAreFrozen`, an action property |
| | `EachCommunityHasItsOwner` | `[]OwnersBelong` |
| `AccountsProofs` | `AccountsTypes` | `[]AccountsTypeOK` |
| | `SecretsServeOnce` | `[]SecretsAreUsedOnce` |
| | `IdentitiesStayEarned` | `[]IdentitiesAreEarned` |
| `PlatformProofs` | `AccessTypes`, `MigrationsTypes` | `[]AccessTypeOK`, `[]MigrationsTypeOK` |
| | `LoggedOutIsOut` | `[]LogoutAllHolds` |
| | `OpenSocketsAreEarned` | `[]SocketsAreEarned` |
| | `EachMigrationRunsOnce` | `[]MigrationsRunOnce` |
| `ClientSessionProofs` | `ClientTypes` | `[]ClientTypeOK` |
| | `OnlyADeadAppReuses` | `[]OnlyDeathMakesReuse` |
| | `ScreensShowTheHolder` | `[]CredentialsFollowTheUser` |

### Assumptions

They are named beside the constants, and TLC evaluates them on every run. Most
say that a constant has its type (`Owner` maps families to users, lifetimes and
page sizes are positive, `Plan[p]` is a sequence of events) or that a model's
"absent" value (`None`, `Nil`, `Void`, `Nobody`, `Absent`) is none of the values
it stands beside, which SQL's NULL and Go's nil are not either. The others state
what the code provides:

* `PlanAssumption` (Realtime): an event is published by one call. Event ids are
  fresh UUIDs. `EventsAssumption`: `ready` and `reply`, the connection's own
  frames, are not published events.
* `EarlierAssumption` (Chat): the messages that are there at the start are
  finitely many and respect the primary key and the unique key of `messages`.
* `StartPostsAssumption` (Social): a post that is there at the start has a
  carousel some request sent, with its first item as the cover, or neither.
* `NilAssumption`, `SecretsAssumption` (Accounts): a link's token is not a Redis
  key.
* `MaxTime` in `Chat` and `Access` is a positive number: it is the bound of the
  clock and any value of it is covered.

No set need be finite but `Earlier`; pets and message ids are numbers, because
the code orders them.

### The arguments

None of the properties is inductive: what a step does rests on what its
request read, locked or inserted some statements before. Each invariant
therefore has a part about one request and the tables, a part about two requests,
and a part about the tables alone. A step that leaves the tables alone changes one
request; a lemma of each module reduces it to the new record (`LocalStep` in
`AuthSessions`, `StepKeeps` in `Social`), so only the commits are argued
against everything.

* **AuthSessions**, `Inv`. Pending writes are under held locks (`Writes`); a
  rotation past its checks holds its current token, which is live, and past
  `RotateTouch` its session (`Rotation`); what is being inserted does not exist
  (`Fresh`); and, the heart of it, a handler that holds a session it has ended
  still has every live token of that family on its list or among its pending
  writes (`Reach`). That is where the order of the two UPDATEs enters: the session
  lock is held before the token snapshot is taken, so a rotation of that family
  either committed before, and is in the snapshot, or cannot commit. Logout and
  reuse detection do it the other way round, which is exactly why
  `RevokedSessionIsDead` fails for them. `DeletionInv`, on top of it, is about
  deleted users: a sign-in that overlaps a deletion can leave the deleted user a
  live token, so it is not true that all of them are dead; but a deletion keeps
  every INSERT for its user out by the lock on the users row (`Excludes`), has
  each live token of the user on its list or among its pending writes (`Closing`),
  and so leaves a rotation that passed the check of `deleted_at` before it without
  its token (`Hopeless`). The refinement: `Commit` is `Open`, `Exchange` or `Take`
  according to the handler, `Flush` is a `Take`, every other step stutters
  (an expired token is never exchanged, which `TokenChain` does not say). That a commit is one step rests on the same invariants: a rotation's
  token is still live and its account still exists when it commits, and a
  transaction writes only rows it has locked.
* **Matching**, `MatchingInv`. A swipe past its locks holds both pets, so nobody
  else inserts a swipe of either and what it has read of them is still so; a
  block that is severing holds the rows of the matches it has cut. The pets are
  locked in the order of their ids: if every swipe of a finite set waited for
  another, the one that holds the last pet among those that are waited for would
  wait for a later one, which is `SwipesNeverDeadlock`. The
  refinement maps the committed `swipe` rows to `decided`: a swipe's commit is
  `MutualMatch`'s step, a block's commit is its severing, every other step stutters.
* **Chat**, `ChatInv`. A message that is inserted and not committed has a key and
  an id that no other message has, committed or not (`Held`, `Apart`), so the
  unique index does its work although the handlers look at different snapshots. Of
  the walk: what is not below its cursor has been read if it was there at the
  first page, and what is below has not (`WalkKeeps`). That a page is what it
  should be rests on the existence of the least and greatest elements of finite
  sets of (time, id) pairs, proved from the library's well-founded orders. The
  refinement: `CheckActive` is `Accept`; `Commit` is `Post`, or `Repeat` when the
  message was there; a failure or a refusal is `GiveUp`; `Mark` is `Read`,
  `Publish` and `Announce` are `TellMessage` and `TellRead`.
* **Realtime**, `RealtimeInv`. An event reaches a connection on one of two ways
  only: through its publisher's own hub, or through Redis and the mail of the
  connection's hub. What has been heard is on that way no longer (`Heard`), each
  way carries an event once (`Mailed`, `Served`), both but for the events in
  `Repeated`, which Redis was sent again, and mail, deliveries and
  streams are in the publishers' order but for late arrivals (`MailOrdered`,
  `ServedInOrder`, `HeardInOrder`). The refinement: `Publish` is `Begin`, the
  answer of Redis or its timeout is `Return`, a retry is `Resend`, `Register` is `Join`, and `Enqueue`
  into a queue with room is `Hear`; an event dropped for a full queue, the frames
  `ready` and `reply`, and all that Redis and the closing of a hub do are
  stutters. `Hear` counts occurrences in a stream, so the proof counts a set of
  positions that grows by one.
* **Social**, `SocialInv`. No two requests write the same post or insert the same
  follow (`WritersApart`) and the row a transaction works on is as it found it
  (`Holds`); a transaction that rewrites a carousel has put the first items of its
  list, in their order (`Filling`); whom a request is going to show was visible to
  it before (`Pledged`), and a list of users belongs to such a user (`Headed`).
  **Community**, `CommunityInv`: a name that an uncommitted
  community has taken is free in the table and nobody else's (`NamesHeld`), and
  whoever is about to leave is not the owner, nor ever will be (`Leaving`).
* **Accounts**, `AccountsInv`. What a request has inserted and not committed is
  reserved for it by the unique indexes (`Adding`, `Linking`), what it has locked
  stays as it read it (`Using`), and no two requests reserve or lock the same.
* **Access**, `AccessInv`. A marker may be overwritten by an older one, but only
  by that of a logout-all that overlapped, so the last cutoff no other overlapped
  is never above the marker, nor above a marker still to be written (`Raising`); a
  ticket is consumed by one request (`Pass`). **Migrations**, `MigrationsInv`: a
  replica past the advisory lock holds it, so what it has concluded from the
  ledger is still so when it commits.
* **ClientSession**, two invariants. All refreshes go through one flight, so a
  stored token that the server has rotated is the one whose answer the flight
  holds (`Kept`), and a token is current when it is presented (`Steady`); a
  session just granted has no token but the one in its answer (`Unheard`). On top
  of it, `ScreensInv` says which task may change what the screens show.

### What stays model-checked

* `EveryRequestEnds`, `EveryPublishEnds` and `ClosedHubLetsGo`: liveness under
  fairness is outside what the prover does.
* The five expected violations are counterexamples and have no theorem.

## 6. Findings

1. `auth_reuse_race`: reuse detection, and logout, revoke a family with an UPDATE
   that cannot see the successor a concurrent rotation is about to commit. The
   successor stays live although `docs/adr/0004-auth-sessions.md:9` says that
   "reuse revokes the token family" and migration 2 expects all rows of a revoked
   session revoked.
2. `auth_reset_race`: for the same reason a rotation, or a sign-in with the old
   password, that overlaps a password reset leaves a token that survives it.
3. `matching_blocks`: `Swipe` does not look for a block, so blocked owners can be
   matched, and a block misses a match that is being created.

4. `social_hidden`: the feed and the reels do not ask for `users.is_private`, so
   the public posts of a private account's pet are served to everybody, while its
   pages are hidden.
5. `accounts_deleted`: deletion leaves the `oauth_identities` row, which the
   lookup skips and the unique key does not: the provider account can never sign
   in again.

Seen while modelling and not claimed as findings:

* `SendMessage` reads the match's status without a lock, so a message may be
  committed just after a block; a message takes the time of its transaction's
  start, so one that commits late may already lie below the recipient's read
  cursor; events may reach a connection before `realtime.ready`.
* A token issued within the second of a logout-all, but after it, is refused:
  `iat` is a whole second. Two overlapping logout-alls leave the marker of the
  one that wrote last, which may be the earlier cutoff. `resetPassword` does not
  set the marker although ADR 0004 lists password changes.
* A deletion between `resetPassword`'s SELECT and its UPDATE leaves the deleted
  account with a password. Its access token can still create pets and posts, and
  a late PATCH can reactivate one of its pets.
* Provider accounts without an address share the empty one, so the second of
  them is refused as `email_in_use`.
* The cooldown of links is passed by concurrent requests.
* A refresh that is in flight when the user signs out installs its answer
  afterwards; if the logout did not reach the server, the next start of the app
  is signed in again. It also replaces the tokens of an account that has signed
  in meanwhile, or wipes them when it fails; a late answer of `updateProfile`
  shows the former user. A refresh that fails for want of a connection signs the
  user out, though `onSessionExpired` is documented for a rejected token.
* Lists of comments and of followers have no condition on blocks, although by
  migration 4 "a block should stop either party from seeing the other": under
  somebody else's post, and even under their own, users whom a block keeps
  apart see each other's names. `BlocksHold` names this exception, and the model keeps
  who is listed.
* A pet's posts are listed by a second query, which does not look at blocks
  again; the count of followers includes deleted users, the list does not;
  unlike and unfollow fail once the post or pet is no longer visible; a reel may
  be given a carousel; a feed page may show an old cover with new media; an
  event's creator may have left the community in the meantime.

## 7. Not modelled, and the plan

Left out for good: image processing, object storage, mail, configuration,
geographic distances, the cryptography of JWT and OIDC, screens, the seed
command. They are input and output or pure functions whose result no state
depends on. The rate limiter is two Redis commands and fails open; what can go
wrong (a counter without an expiry) contradicts nothing the code promises. The
data export, the lists and detail pages without a visibility rule, and marking
notifications as read are single statements. Of the Flutter
client, `realtime_client.dart` and `social_controller.dart` have races of their
own, listed as hazards without a property: they cache what the server says, and a
restart of the app repairs them.

With the safety properties and the four refinements proved, what is left is:

1. What the counterexamples leave true. `TokenChain` already gives that a family
   which a late successor has kept alive has one live token and no more; that a
   token which survives a reset was rotated or signed in while the reset ran needs
   a history of overlapping requests.
2. Shorter proofs where a lemma about one statement is used for several handlers
   (`Social`, `Realtime`).
