# Verification of zenth_dht

TLA+ models of the zenth_dht server, model-checked with TLC on small instances
and, for every safety property, proved with TLAPS for every instance.

## The system

zenth_dht is one axum/tokio server process (two replicas in production) in
front of PostgreSQL. A client posts a protobuf `DhtRequest`, or sends it over a
WebSocket; the dispatcher (`src/src/handlers/decompose.rs`) decodes it, calls
one handler and encodes its answer.

Four facts about the code shape every model:

- a handler is a sequence of SQL statements that **autocommit**; there is no
  transaction anywhere, so handlers interleave between statements;
- a handler **verifies** with the `users` row it read first and **writes** later
  by `user_hash_id` alone;
- clients sign requests and may **send them again**; only login challenges are
  consumed;
- sockets, file transfers and rate limits are **in memory**, per process.

| component | state | operations | how it meets the others |
|---|---|---|---|
| accounts | `users`, `auth_challenges`, `sessions`, `app_config` | REGISTER, LOGIN (challenge, proof), PUBLISH_RECOVERY_KEY, RECOVERY_CLAIM, DELETE | every handler reads `users`; foreign keys cascade; sessions open sockets |
| one-time prekeys | `one_time_prekeys` | UPLOAD, REPLENISH, CHECK_COUNT, FETCH_PREKEY_BUNDLE | cascade of DELETE; RECOVERY_CLAIM replaces the bundle they go with |
| messages | `messages` (no foreign key) | SEND, FETCH, ACK, hourly cleanup | size tiers of the rate limiters; push to sockets; DELETE |
| sockets | map user -> broadcast channel, one task per socket | authenticate, register, deliver, leave, unregister, check online | pushes from messages and friends; DELETE unregisters |
| file relay | map transfer -> sender with a TTL | announce, chunk request, chunk, removal at disconnect, cleanup | rides on the sockets |
| rate limiters | map key -> (instant, count), four of them | is_allowed, cleanup | push_relay, push_blob, send_message |
| friends | `friend_requests`, `friend_responses` | CONTACT, RESPOND, three fetches | push to sockets; DELETE; foreign keys cascade |
| relay mailboxes | `relay_messages`, ids from a sequence | push, fetch by `since_id`, ack by `up_to_id`, cleanup | rate limiter |
| sync blobs | `sync_blobs`, one row per device | push (upsert), fetch, delete, cleanup | rate limiter |
| database pool | ten connections, 5 s timeout, then a panic | establish_connection | every handler; a panic ends socket tasks |
| updates | none (manifest and binaries are in an object store) | manifest, chunk | HTTP to the store |

What is hard here: interleavings between the statements of two handlers
(prekey pick and mark, login and DELETE, count and insert of an answer),
duplicates and retries, ignored statement errors, the map entry of a user shared
by all its sockets, panics that skip cleanup code, ids drawn before their rows
are visible, worker threads blocked by the pool, the ends of fixed windows,
clocks read before a lock or an INSERT, and releases published under a running
download. `PROJECT.json` lists these hazards line by line with the property that
watches each.

What makes each component correct:

- prekeys: one requester per prekey, consumed means consumed, one row per id;
- accounts: nothing of an account outlives it, a challenge serves once;
- messages: accepted means stored until received or expired, eventually received;
- sockets: every entry has a task behind it, every cut-off task ends, DELETE
  ends the sockets, a client ends up connected;
- limiters: a bound for every span of time, no lockout, cleanup unnoticed;
- friends: answers belong to their requests, stored means kept, both clients end
  up with what the tables say;
- mailboxes: accepted means kept until received, pages without gaps;
- pool: connections conserved, every task ends;
- updates: what is assembled is what was announced, the last release is installed
  in the end.

## The modules

One action is one SQL statement (or one stretch between two awaits) with the
checks that lead to the next one. Each request in flight occupies a *slot*
`r \in Requests`; `req[r]` holds its position (`pc`) and its locals. `Finish(r)`
ends a request anywhere: every early return, failed statement and server stop.
A request with a bad signature changes nothing and is not an action; the models
keep *which key* a request is verified with where that matters.

- **Prekeys** — `users` (number of the identity key, which stands for key,
  signature and bundle, written together), `otpk` (table rows with the identity
  that made them), the serial sequence, and a history of what each slot handed
  out. Upload: `UploadVerify`, `UploadInsert` (ON CONFLICT DO NOTHING; ids are
  drawn for conflicting rows too). REPLENISH_PREKEYS (`ReplenishVerify`) checks the
  same and then runs the same INSERT, before it counts. Fetch: `FetchVerify`, `FetchTarget`, `FetchPick`,
  `FetchMark`, or `FetchMarkLost` when the UPDATE is applied and its answer is
  lost. `RecoveryClaim`, `Register` and `DeleteUser` are the one statement of
  those handlers that reaches these tables.
- **OneTimePool** — what the table promises: a prekey is deposited, given to one
  requester, or lost. `Prekeys!Pool` maps the table to it; a picked row counts as
  available until it is marked.
- **Accounts** — `users`, `auth_challenges`, `sessions`, the claims that may
  arrive again, a clock in ticks, and a count of statement errors the code
  ignores. The expiry of a challenge comes from the clock as it is read before the
  DELETE of the earlier ones, and an expired challenge is read and deleted in two
  steps (`ReadChallenge`, `DropExpired`). Claims may carry a time ahead of the
  server's or behind it. The version check of LOGIN only turns clients away, and the life of a
  session is only read by Sockets' `Authenticate`; both are left out.
- **Messaging** — `messages` with server timestamp and expiry; send, fetch with
  LIMIT and ORDER BY, acknowledge, cleanup, the message statement of DELETE.
  Messages that expire after the last tick count as never expiring.
- **Friends** — `friend_requests` and `friend_responses` with their foreign keys,
  what the clients of both sides know, and histories of what was reported stored.
  CONTACT: `ContactVerify`, `ContactTarget`, `ContactCount`, `ContactUpdate` or
  `ContactInsert`, `ContactNotify`; RESPOND: `RespondVerify`, `RespondFind`,
  `RespondCount`, `RespondChange` or `RespondStore`, `RespondNotify`. A COUNT that
  fails counts as zero, as in the code (`CountFails`). The three fetches are one
  read each, with `since_timestamp = 0`; the JOIN of FETCH_MY_ACCEPTED is in
  `FetchMyAccepted`. DELETE has its four statements on these tables, and
  registering again gives a client that knows nothing.
- **Mailbox** — `relay_messages` and `sync_blobs`. A push draws its id in one step
  and its row becomes visible in a later one. Fetches return pages of `Limit`
  rows by `since_id`; the device resumes from what it has and acknowledges up to
  an id it has. A push of a blob replaces the one before, and a DELETE removes the
  one that is there. A DELETE may come at any time: nothing in it refers to a fetch,
  it may arrive again after a lost answer, and it may be signed by another key
  (`requester_dilithium_pubkey`). The history `erased` has the blobs that were pushed
  before a DELETE of their device.
- **Sockets** — the connection map, one task per socket (`auth`, `loop`, `left`,
  `relay`), the number of undelivered broadcasts (saturating at the capacity),
  the client's end of each socket, the transfer registry, the two phases of
  DELETE that matter here, losses and panics. A channel outside the map is
  closed, since the map holds its only sender.
- **RateLimiter** — entries as ages, so that time needs no bound; requests that
  read the clock and wait up to `Skew` ticks for the mutex; two histories to
  compare with: `recent`, the ages of the last `2 * max_requests` admissions of a
  key (an age stops at the length of the window), and the entries of a
  limiter without cleanup.
- **DbPool** — tasks on worker threads, the connections, and the RwLock of the
  connection map with its queue. A task that blocks in `pool.get()` keeps its
  worker; one that awaits the lock gives the worker back and keeps its
  connection. The session check of a socket runs on a blocking thread.
- **Updates** — the store with its manifest and binaries (CI uploads them one
  after the other), which honours Range or, like the one of the repository's README
  for local tests, answers every range with the whole file; the server's two requests to the store for each chunk, the
  range arithmetic modulo `W` (2^64 in the code), and the client (`Idle` or a
  `Transfer`) that assembles, verifies and starts again. `get_update_chunk` reads no status: the
  body of an error is data (`ChunkError`, and `RangeGet` for a missing file), of a
  length from `ErrorSizes`. `Fail` is what the code does report: no connection, a
  connection lost under the body, a manifest that is not JSON. The store and the
  client are external: modelled from how the handlers use the one and from the
  repository's README for the other.

`MCx` modules hold the small instances and `xProof` modules the theorems;
`BackendsProof` is about DbPool and Updates and extends both, hence the prefix
`Db` of DbPool's specification and type invariant.
Operators marked *Mutant* are wrong variants of the definition that follows
them; no specification uses them. Every property is known to fail on one of
them.

## The runs

| run | bounds | shows |
|---|---|---|
| `prekeys` | 2 users, 2 slots, 3 rows, re-upload of an id | UnusedNeverHanded, OncePerSlot, PrekeyUnique, NoRearm |
| `prekeys_serial` | 1 slot | PoolSpec: the table implements OneTimePool |
| `accounts` | 1 user, 2 slots, 3 keys, 4 challenges, 2 sessions, 1 tick, 1 ignored error | NoRowWithoutAccount, ChallengeUsedOnce, ChallengesBounded |
| `messaging` | 2 messages, one expiring, 2 sends in all, 2 slots, pages of 1, 1 deletion | NoSilentLoss, EventuallySeen |
| `friends` | 1 pair, 2 slots, 2 requests, 3 answers and rows, 1 deletion, 1 failed COUNT | FriendGraph, Kept, AnswersBounded, RequestReaches, Converges |
| `mailbox` | 1 device, 2 slots, pages of 1, 2 ids, 2 blobs, 2 ticks | RelayNotLost, NoGapBelowSeen, BlobNotLost |
| `sockets` | 1 user with 2 devices and 3 sockets, 1 loss, 1 panic, 1 transfer | EntryIsServed, TransferIsServed, OrphanEnds, DeleteEndsOpenSockets, Settles |
| `rate_limiter` | a push limiter (3 per 3 ticks) and the file tiers (1 per 2, 1 per 3), waits of 1 tick | SpanBound, CleanupTransparent, NeverLockedOut |
| `db_pool` | 4 tasks of the kinds notify, delete, socket and auth, 2 workers, 1 connection | PoolConserved, EveryTaskEnds |
| `updates` | 3 releases, 2 platforms, chunk sizes 0 to 3 against a maximum of 2, offsets modulo 16, 2 failed requests, error bodies of 1 and 3 bytes, both stores | Intact, LatestInstalled |

Each run but `prekeys_serial` also checks the TypeOK of its module (DbTypeOK in
`db_pool`).

Why the bounds are enough: each hazard needs two requests in flight and one
retry; two slots that are reused any number of times give all of those. In
`accounts` one tick of time is enough because a challenge expires at the next
tick; claims stay fresh over it, on both sides, which allows the most. The blob limiter is the push limiter with other
numbers. In `friends` the second request id is the one of a request made anew
after the deletion, to which an answer under way must not attach. In `mailbox`
two ids suffice for one row to become visible behind the other, and pages of one
for a resumed fetch; its statements never relate two devices, and only the proofs
have more than one. In `db_pool` two workers and one connection give the stall
in which both workers wait for the connection of a task that waits for a worker;
four tasks also give a writer queued between readers. The kinds `query` and `push`
are left out of that run for its size: they do a part of what notify does, which
uses the database and then awaits the lock for reading. `W` in `updates` is larger
than every sum of an offset and a chunk, and wraps below zero, as 2^64 does; an
error body is shorter than a chunk or longer. Empty bodies, which the proofs allow,
are not in that run: a store that answers the header of `chunk_size` 0, which is no
range, with an error and no body leaves the offset at 0, and such a client asks the
same for ever. Row,
key, challenge, id and session counters are unbounded in the code and bounded in
guards here. Two slots also suffice for sequences of any length, because a slot
becomes free again; what they leave out, three or more at the same instant, is
what the proofs cover.

These runs refute a sentence of the documentation or of a comment
(`PROJECT.json`, findings); each counterexample needs two requests or two sockets
in an unlucky order:

| run | the code does | the text says |
|---|---|---|
| `prekeys_single_use` | pick and mark are two statements: two fetches share a prekey | "Prekeys à usage unique" |
| `sockets_push` | of two sockets of a user the one that closes removes the entry both share: what is sent before the other one notices reaches nobody | "Le serveur émet des `WsNotification`" |

Other disagreements seen in the code while modelling, without a run:

- the later of two copies of a DELETE removes an account registered again under
  another key in between (`delete.rs:146`), the README says "après vérification
  Dilithium";
- a send that a DELETE overtakes stores its message (`send_message.rs:168`), the
  README says "Suppression de compte (cascade)";
- a chunk may be a whole file, larger than the documented 512 Ko
  (`update_chunk.rs:5`): with `chunk_size` 0 at offset 0 the end of the range wraps
  around (line 52) and the header is no range, and the length of the answer is not
  checked;
- the body of an error of the store becomes bytes of the update
  (`update_chunk.rs:57`), and with a store that does not know Range, such as the one
  of the repository's README, each chunk is the whole file: only the first one's
  `is_last` and the client's sha256 keep that right;
- a session issued by RECOVERY_CLAIM lives 30 days (`recovery.rs:121`), the
  repository's README says 24 h (line 82);
- requests are fresh for 15 minutes (`timestamp.rs:8`), the comment below says 5;
- a client *newer* than the required version is told it is outdated
  (`login.rs:30`), the README says older ones are (line 209);
- around the end of a window a limiter admits nearly twice its limit
  (`SpanBound` is the bound that holds), `rate_limit.rs:5` says 60 per minute;
- a large file refused by the medium tier has used up the large tier
  (`send_message.rs:128`);
- after a panic in a socket task its user stays "online" (`EntryIsServed` is
  stated without panics);
- a socket authenticated before DELETE and registered after it stays open
  (`DeleteEndsOpenSockets` is stated for sockets that are registered);
- after a recovery, bundles of the new identity carry one-time prekeys of the
  old one;
- two answers to one friend request may be stored (`AnswersBounded` is the bound
  that holds), and FETCH_FRIEND_RESPONSES returns both;
- a relay message that becomes visible behind a higher id is removed, unread,
  with the acknowledgement of that id (`RelayNotLost` excepts exactly these);
- a blob pushed after the fetch and before the DELETE that follows it, or before
  that DELETE arrives a second time, is deleted unread (`sync_blob.rs:149`;
  `BlobNotLost` says that only a DELETE of the device does this).

Deadlock is checked except in the Prekeys and Accounts runs, where keys and
rows run out because of the bounds, and in Updates, where the last release
installed is the end.

### Fairness

- Sockets: the runtime polls every task that can advance and `select!` picks its
  branches at random, so each task's own steps are weakly fair; a DELETE that
  removed the rows reaches its unregister. A client without any socket
  reconnects (weakly fair); that is assumed of the client and only `Settles`
  needs it. Losses and panics are finitely many, not fair. Two devices that keep
  reconnecting can cut each other off for ever, so `Settles` is stated for users
  that hold at most one socket from some time on.
- Messaging: requests end. The client keeps fetching everything and
  acknowledging what it has, and not all of these requests fail (strong
  fairness, per user and per message). An envelope is sent finitely often.
- Friends: requests end, and the clients of both sides keep fetching. Pushes are
  not fair: each may be lost.
- DbPool: a running thread runs and a blocked one times out (weak fairness). Poll
  is strongly fair: a worker may be free and busy again any number of times
  before the scheduler takes a given task, and tokio's scheduler comes to every
  task that stays ready.
- Updates: the pipeline completes a publication it has begun, and the client,
  which asks every ten minutes, goes on. Failures are finitely many.
- RateLimiter: time passes and a waiting request gets the mutex.

## The proofs

Each theorem is `Spec => []P` for the property `P` a run checks, for **any** users,
slots and bounds (SerialPool and DeadlockFree are described below the table); the
assumptions are the named ASSUMEs of the module: bounds are naturals, slots are
finite where they are counted, batches, pairs and kinds have their shapes. Every proof has the same plan: an inductive invariant of named
parts, one lemma per part with one step per action that can disturb it, and a
temporal step at the end.

| module | theorems | what the invariant adds, and why |
|---|---|---|
| PrekeysProof | TypeCorrect, OneTimeUse (UnusedNeverHanded, OncePerSlot), UniquePrekeys, ConsumedStaysConsumed (`Spec => NoRearm`, an action property), SerialPool (PoolSpec, a refinement) | `PickedNotHanded`: a slot about to mark a row has not handed it out, which the pick gets from UnusedNeverHanded. `UndrawnNeverHanded`: ids beyond the sequence were never handed out, which an INSERT needs. |
| AccountsProof | TypeCorrect, DeletionComplete (NoRowWithoutAccount), ChallengeServesOnce, FewChallenges (ChallengesBounded) | `Drawn`: a challenge in use has been drawn, so that a new one is another. `Spent`: without ignored errors a challenge that served is gone. `Counted`: each challenge was inserted by a request that had deleted the others, so challenges and requests about to insert are bounded together. |
| MessagingProof | TypeCorrect, AcceptedIsKept (NoSilentLoss) | `Justified`: what the check of an acknowledgement or a deletion established still holds at the statement that removes rows. |
| FriendsProof | TypeCorrect, GraphSound (FriendGraph), StoredIsKept (Kept), FewAnswers (AnswersBounded) | `IdsDrawn`: ids are drawn once. `Informed`: what a request has read (the id of the request it answers, that there is a row to UPDATE, the ids a deletion loaded) stays true of the rows that are left, or a DELETE works on one of the accounts. `Counted`: every answer is paid for by a request that counted none or by a failed COUNT. |
| MailboxProof | TypeCorrect, QueueIsReliable (RelayNotLost, NoGapBelowSeen), BlobIsReliable (BlobNotLost) | `QueueRows`, `BlobRows`: rows are accepted ones with their own ids and lives. `DrawnIds`: a drawn id belongs to one request until its row is visible. `Checked`: cursors are ids the device has. A page is a prefix of the rows behind the cursor (`PageIsPrefix`). |
| SocketsProof | TypeCorrect, EntriesServed (EntryIsServed), TransfersServed (TransferIsServed) | Inductive as it stands; a pigeonhole argument (`FreshChannel`) shows that register always finds an unused channel name. |
| RateLimiterProof | TypeCorrect, CleanupUnnoticed (CleanupTransparent), SpanBounded (SpanBound) | `SameOrOver`: an entry equals the one of the limiter without cleanup, or was dropped when that one had been over for a whole window. `Windowed`: the admission that opened the current window is as old as the window, but for the wait for the mutex, and of those before the window all but `max_requests - 1` are a window ago. SpanBound speaks of the ages alone and is not inductive without the entry that counts them. |
| BackendsProof, DbPool | DbTypeCorrect (DbTypeOK), NoConnectionLost (PoolConserved), LockExclusive, DeadlockFree | Types and conservation need each other: `free` stays within the pool because the taken connections are counted. `Waiting`: the queue of the lock has each parked task once, so a task that is woken is not woken again. `Queued`: every parked task has a place in the queue, and while there is a queue some task has the lock. |
| BackendsProof, Updates | UpdatesTypeCorrect (TypeOK), DownloadsIntact (Intact) | `Agreed`: the platform of METHOD 20 is the one METHOD 19 announced, and the manifest read by a chunk has an entry for it. `Undisturbed`: until the next publication or error answer the buffer is the prefix of the announced file of its length, so the last chunk completes it; with `chunk_size` 0, or from a store without Range, the first answer is the whole file and the last one. |

SerialPool says that with one request at a time (`Requests = {one}`) Prekeys
implements OneTimePool: Init maps to Init, and each action to Deposit, Give or
Lose or to a stutter (`StepRefines`), with the invariant of OneTimeUse to show
that a row about to be given is still available. What remains possible with more
requests, and `prekeys_single_use` shows, needs two fetches in flight: OncePerSlot
is the strongest statement that holds for many slots.

DeadlockFree says that while any task lives some task can go on: one on a thread
(a blocked one has its timeout), or one that is ready or woken with a worker free.
CONTACT, RESPOND and DELETE keep a connection while they await the lock of the
ConnectionManager, and blocked threads keep their workers; the theorem excludes
that everyone waits for everyone, for any numbers of tasks, workers and
connections. It has no run of its own: the deadlock check of `db_pool` and
EveryTaskEnds show it on that instance. LockExclusive, a check of the model of the
lock, says that a writer has it alone.

Only model-checked: liveness (fairness and ENABLED are out of the prover's
reach), that is OrphanEnds, DeleteEndsOpenSockets, Settles, NeverLockedOut,
EventuallySeen, RequestReaches, Converges, EveryTaskEnds and LatestInstalled; and
the two runs that refute a text.

## Not modelled

A panic or a cancelled future while a task holds a connection is not in DbPool: the
connection returns to the pool when it is dropped, and PoolConserved speaks of the
ends a handler itself has and of the panic of `establish_connection`.

The dispatcher and `lookup_user` keep no state; DbPool has the arrival of a
request and the kinds of handlers it may reach. Signature verification is a pure
library call. Start-up, TLS and the 404 page are I/O. Replicas are modelled where
they share the database (slots may be in any process); that a push does not reach
a socket of the other replica is outside Sockets, which is one process.
`remaining_count`, `since_timestamp` cursors other than 0 in Friends, JSON, base64
and all message contents are left out.

## Plan

Every component that keeps state is modelled. What would add most next:

1. Deletion: all tables and the sockets of one account in one module, refined by
   the statements of Accounts, Messaging, Friends, Prekeys and Sockets, which now
   each have their own part.
2. `since_timestamp` cursors of the message and friend fetches, with the clocks of
   several clients.
3. Two replicas in Sockets, with the sockets of one user in both.
4. Theorems: what DELETE leaves of an account over all tables, once the module of
   item 1 is there. Every safety property of the runs is a theorem.
