# Webhook Inbox: specifications, model checking and proofs

Webhook Inbox receives webhooks on configured paths, stores them in MongoDB for
a while, shows and searches them, and can replay a stored event to another URL.
This directory holds TLA+ specifications of the parts that decide something over
time, the TLC instances that check them, and TLAPS proofs of the properties that
matter most. `PROJECT.json` lists runs, mutants, hazards, findings and theorems,
and maps every definition to the lines of `src/app` it stands for.

To check a run: `tlc -config MCReplayQueue_lease.cfg MCReplayQueue`. To check
the proofs: `tlapm ReplayQueueProofs.tla`.

## 1. Inventory

### Processes and shared state

The application is one asyncio process (FastAPI) and, in the same event loop or
as processes of their own (`python -m app.replay.worker`), one or more replay
workers. All of them share a MongoDB database; nothing else is shared except
the in-memory rate limiter of the application. MongoDB changes one document
atomically. There are no transactions: what a handler does in two statements is
two steps, and everything awaited in between lets other tasks run. MongoDB's TTL
monitor deletes events and sessions whose `expires_at` has passed, on its own
schedule. compose restarts a dead container (`restart: unless-stopped`).

### Components

| Component | State | Operations | What is hard | What makes it correct |
|---|---|---|---|---|
| Replay queue (`replay/store.py`, `api/replays.py`) | `db.replays`: state, attempt, max_attempts, next_attempt_at, leased_at, completed_at, last outcome | enqueue, claim (reclaim, then lease), finish, abandon | two workers; a write without a condition made from a copy; lease expiry | one worker per attempt; settled stays settled; attempts and deliveries are accounted for |
| Replay worker (`replay/worker.py`) | locals of `run_once` | poll, look up the event, execute, record; loop; stop | exceptions, crashes, late answers | every queued job is settled in the end |
| Delivery (`replay/runner.py`, `replay/ssrf.py`) | locals of `_send` and `_request` | validate, pin, request, read, follow redirects, classify | DNS changes between check and use; redirects; limits | requests go only where a check allowed; bounded hops and bodies; rejections are final |
| Accounts and sessions (`auth.py`, `api/auth.py`, `middleware.py`) | `db.users`, `db.sessions` | seed the administrator, login, resolve, logout, change password, create and delete users | an account update and the deletion of its sessions are two steps; stale copies | no session survives a change of its account; the last user stays |
| Endpoint administration (`api/endpoints.py`, forms of `web/routes.py`) | `db.endpoints` | create, PATCH, form save, delete | checks on a merged copy, `$set` on whatever is stored by then | an authenticated endpoint has a secret; paths are unique |
| Ingestion (`ingest/receiver.py`, `ingest/signature.py`) | `db.events`; the endpoint's copy in a request | dispatch, read body, verify, insert | the endpoint changes while the body arrives | verify fails closed |
| Retention (`retention.py`) | `expires_at` of events; configuration | compute, reapply, TTL deletion | overlapping reapplies, ingest in between, crash between update and reapply, zero days | stored expiry agrees with the endpoint |
| Payload parsing (`ingest/parser.py`) | locals of `nesting_depth`; `request.body` of events | measure, parse, escape and unescape keys | brackets in strings and escapes; keys that clash once escaped; values that cannot be stored | recursion is bounded; what was parsed comes back |
| Rate limiter (`ratelimit.py`) | `_buckets`, `_pruned_at` in memory | `allow`, `retry_after`, `_prune` | boundary of pruning; keys chosen by callers; rounding | never more than capacity + rate * t; `Retry-After` is honest; memory follows traffic |
| Search and pagination (`search/query.py`, `search/tokenize.py`) | `search` of events; the cursor in the link | collect terms, score, page by cursor | equal keys; changes between pages; an index wider than the score | nothing twice, nothing skipped, answers only; nothing secret is searchable |
| Search backfill (`search/backfill.py`) | `search` of events | batches of 500, `--rebuild` | crash, concurrent inserts and deletions | every event it found is indexed, and it ends |
| Export (`export.py`) | none | stream all that match | no cursor, but the same filters | agrees with the table |
| Dashboard (`web/routes.py`) | none of its own | forms for all of the above | as above | as above |
| Demo seeding (`seed.py`) | none of its own | reset, create, backdate | runs while workers run | - |
| Startup, configuration (`main.py`, `config.py`, `db.py`) | settings, indexes | lifespan, restart | another configuration over old data | as above |
| Logging (`log.py`), health | none | `is_sensitive` | - | - |

How they interact: the dashboard and the API write `endpoints`, `users`,
`sessions` and insert into `replays`; ingestion reads `endpoints` and inserts
into `events`; retention rewrites `events`; workers read `events` and rewrite
`replays`; the TTL monitor deletes `events` and `sessions` under all of them.
Search reads `events` while ingestion, the monitor, the backfill and `seed.py`
change them. The rate limiter sits in front of ingestion and is asked before the
database is. Every interaction is through the database; there are no messages or
callbacks.

`PROJECT.json` "hazards" lists where this bites, line by line.

## 2. Modules

| Module | What it is |
|---|---|
| `ReplayQueue` | queue, API and workers, with crashes, restarts, expiry and resets |
| `ReplayContract` | what the queue promises, without workers, leases or time |
| `ReplayQueueProofs` | its proofs, and the proof that it implements the contract |
| `MCReplayQueue` | instances for TLC |
| `ReplaySystem` | `ReplayQueue` and `Delivery` composed: several workers on the network, hop by hop |
| `ReplaySystemProofs`, `MCReplaySystem` | its proofs and instance |
| `Delivery` | one job over the network: attempts, hops, DNS, bodies, verdicts |
| `DeliveryProofs`, `MCDelivery` | its proofs and instance |
| `Accounts` | users, sessions and the requests about them |
| `AccountsProofs`, `MCAccounts` | its proofs and instances |
| `Inbox` | endpoints, ingestion, retention, administration |
| `InboxProofs`, `MCInbox` | its proofs and instances |
| `RateLimiter` | token buckets, pruning, the key of a request |
| `LimiterContract` | a limiter that fills every bucket at every moment and forgets none |
| `RateLimiterProofs`, `MCRateLimiter` | its proofs, with the refinement, and instance |
| `Search` | pages of a list or a search while events change; export; the backfill |
| `SearchProofs`, `MCSearch` | its proofs and instances |
| `Payload` | a body measured, parsed, stored, indexed, rebuilt, exported |
| `PayloadProofs`, `MCPayload` | its proofs and instances |

### ReplayQueue

One function per field of a job that the code decides on (`state`, `attempt`,
`nextAt`, `leasedAt`, `completed`, `report`), one per local of a worker (`pc`,
`now`, `job`, `tries`, `result`, `endedAt`). A worker's iteration is `Poll`
(reads the time), `Reclaim` (`update_many`), `Take` or `TakeNone`
(`find_one_and_update`), `Lookup` (the event), `Execute`, then `Finish` or
`Abandon` (`update_one` by id only). Each ends where the code awaits. The
decision in `Finish` uses the copy taken at the claim (`tries`), the write goes
to whatever is stored. `Post` and `Enqueue` are the two halves of a replay
request. `Raise` is an exception that `run_once` does not catch, `Crash` the
death of a process, `Shutdown` the stop event, `Restart` the container's
restart, `ExpireEvent` the TTL monitor, `ResetEvents`/`ResetReplays` the two
statements of `seed.reset`. `sent`, `acks`, `unread`, `lost`, `faults` are history: no
action of the code reads them. `acks` counts what a destination answered with
success, `unread` those answers of which the body could not be read: the worker
takes them for network failures and the job is retried.

Time is a clock that workers read. `MaxRun` says how long a worker may take from
its claim to its last write. The properties that need `MaxRun <= LeaseTimeout`
are stated separately from those that hold however slow a worker is: the code
does not enforce the bound. `lease_timeout` is checked against nothing, and
httpx's timeout is per network operation, so a slowly trickling body or a chain
of redirects can outlast any lease.

`ReplayContract` knows a job only as none / open / success / failed / deleted
with four counters. An attempt beyond `max_attempts` must be paid for by an
interrupted one. A delivery after the destination has said yes must be paid for
by an interrupted attempt or by an answer that did not arrive whole. The mapping
takes `pending` and `running` to `open`, `attempt` to `started`, `acks` to
`accepted`; `unread` and `lost` are themselves.

### Delivery

`validate` appears at its three places: in the API (`QueueCheck`), at the first
hop and after every redirect (`Validate`, `Reject`). A `Destination` carries the
address it was pinned to and, for the properties, the whole answer that was
checked. `ChangeDns` may come between any two steps. `Request`, `ReadChunk`,
`Answer`, `Redirect`, `NetworkError` are the outcomes of
`_request` and `_send`; `Settle` is the verdict. `Interrupted` is an exception nobody
catches or the death of the process, anywhere between the claim and the write of
`finish`: also after `execute` has returned, where a rejection that was not
written yet is lost and the job is tried again. `RejectionIsFinal` is about
rejections that no such interruption wipes out. Which address of a checked
answer is pinned is left open (`getaddrinfo` orders them). Header selection
(`Forwardable`, `MergeHeaders`) is a pure operator, about which a lemma says
what is sent, for any sets of headers.

### ReplaySystem

`ReplayQueue` takes `execute` for one step with an arbitrary outcome; `Delivery`
follows one job with one worker. `ReplaySystem` extends the first and instantiates the
second: each worker has the locals of `_send` (`net`), `QueueStep` is any step of the queue but
the end of an attempt, and that end (`Returns`, used by `Reject`, `NetworkError` and `Answer`) is
`Execute` of the queue with the outcome that `Delivery`'s classification gives (`Result`). So a worker
can die, lose its lease or have its job settled by another between two of its hops,
and names change meanwhile. `Admitted` is the validation in `create_replay`. A
response's body is read within `Answer`; its chunks stay in `Delivery`. A body that
cannot be read to its end is a `NetworkError`, of which the destination knows nothing: if
its code was below 400, or no header had arrived yet, it may have accepted the
request (`MayBeAccepted`).

Two mappings tie it to the modules it is made of: it extends the variables of
`ReplayQueue`, so it implements that by projection, and the instance `D` shows what
`Delivery` sees of any one worker (`Observed`) at any one job (`Followed`). The second holds
while the attempt is not interrupted; what an interruption does to the job is a matter
of the queue, whose lease decides when it is tried again.

`requests`, `answered` and `late` are history. `late` is set when a worker is at work
after its lease has run out; properties that need the lease are stated "until then"
rather than under a bound on how long a worker may take.

### Accounts

A client has at most one request under way. `FindSession` / `FindUser` are the two
reads of `resolve_session`; the handler then works on that copy of the user.
`ChangePassword` and `Remove` are the updates, `Revoke` the deletion of sessions
that follows in another step. `Authenticate` / `CreateSession` are the two halves
of a login. `SeedCheck` / `SeedInsert` are `seed_admin`, before the first request
is served. A session stands for its token. `made`, `raced`, `severed`,
`crossed` are history.

### Inbox

A webhook request is the event it may become: `Dispatch` reads the endpoint,
`Receive` verifies with that copy and computes `expires_at` from it, `Store` is
the insert. `Refuse` stands for every early return. An administrator's request
is `Open*` (read, validate, check the merged copy), `Update` or `UpdateNothing`,
and `Reapply` when `retention_days` was among the changes. A PATCH carries any
record of fields; a form always carries all it shows (`FormChanges`). `Restart`
may bring another `retention` configuration. `raced` and `crossed` are history:
they mark endpoints where steps of two requests, or a crash, came between two
halves; the properties say that nothing goes wrong without such a mark.

### RateLimiter

One process, one lock-free stretch of code per request: `Allow`, `Refuse` and
`AllowAny` are each the whole of `allow` with `_prune`, and of `retry_after` when it
refuses. The code counts in floating point; here a second is a step of the clock
and a token is `Minute` units, so that refilling is exact. `BucketKey` builds the key as
`receive` does, from the path and the last hop of `X-Forwarded-For`, which the proxy
appends to whatever the sender claimed. `Observe` starts to count one client's
grants at an arbitrary moment (`window`); `promise` is when a refused key was told
to come back. `LimiterContract` has a level for every key that grows every second;
the mapping computes it from the bucket, or takes a missing bucket as full.

### Search

A request for a first page (`ask`) is followed link by link: `FirstPage`,
`NextPage` (`events_page`), each one query. A page is any that "$sort" and
"$limit" allow (`Pages`): a plain list sorts by `received_at` alone, so which of
equal events comes first is open. `Dated` has the code's way of merging the cursor
into the date filter, `After` is `_cursor_clause`, `Candidate` and `Score` are the two stages
of the pipeline in units that make scores whole. `Literal` says whether the query means
itself: one that begins with `$` stands in the score expression as the path of
a field, and the tiers of equality and prefix are lost to it. Between pages events are stored, moved
(`seed.backdate`), deleted or indexed. `StartBackfill`, `Read`, `Flush`, `Finish` are
`backfill`; `Crash` may leave part of a batch written. `shown`, `steady`, `cuts`
and `todo` are history. An event that changes leaves `shown` and `steady`: nothing
is promised about it in the pages under way.

### Payload

A body has two faces. As bytes (`raw`) it is measured by `nesting_depth`
(`Measure`, one byte a step). `Load` is what `json.loads` does first: it detects the
encoding (`Detected`: byte order marks, or where the zero bytes are) and decodes. The parser
(`ReadString`, `ReadToken`) then reads characters (`Char`), each of one, two or four
bytes, a string item by item, and so knows nothing of the
scan's flags; `levels` keeps what the scan had at each byte, so that the two can
be compared. In UTF-8, where a byte below 0x80 is always a character of its own, they agree;
in UTF-16 and UTF-32 they need not. `Overlong` is a number of more digits than
Python converts. As a value (`body`) it is a function from paths to leaves, which is
what `escape_keys`, `unescape_keys` and `_collect` see. A key is its lead, its
name and its dots, enough to tell a dot from its lookalike. `Rewritten` is a dict
comprehension: of keys that become equal the last stays, with all under it
(which one is last is open). `Parsed` links the two: what is parsed lies no
deeper than the parser has been. `Store` is the rest of `receive`, `Fail` its insert
raising, `Rebuild` the backfill's view of the document, `Export` what is shown.

## 3. Runs

Twelve runs. "V" marks those that show a sentence of the docs or of a test to be false of the
code; each is a finding of `PROJECT.json`.

| Run | Instance | What it shows |
|---|---|---|
| `replay_lease` | 1 job, 2 workers, 2 attempts, lease 1, `MaxRun` 1, 2 faults | with kept leases: one worker per job (`LeaseExclusive`), `completed_at` marks exactly settled jobs, a delivery after an accepted one only for an interruption or an answer that did not arrive whole, `ReplayContract` implemented (in which settled is final and attempts are accounted for) |
| `replay_network` | 1 job, 2 workers, 2 attempts, 1 name, public / IPv4-mapped private address, 1 redirect, answers 302 and 404, lease 0, `MaxRun` 1, 2 faults | queue and network together, leases overrun: no hop of an attempt is requested twice; a success was answered by an allowed address; retries are used up; until a worker is late nothing is sent for a settled job; each attempt is a behaviour of `Delivery` |
| `replay_live` | as `replay_lease`, `MaxRun` 1, `MaxIdle` 1, 1 fault | under fairness every queued job is settled or deleted |
| `delivery_hops` | 2 names, public / private / IPv4-mapped address, 1 redirect, 2 attempts | nothing is sent where no check allowed it; what is kept of a body; recorded rejections final |
| `accounts_overlap` | 3 users (two share a name), 2 sessions, 2 clients, 2 passwords, 1 restart | which sessions can survive a change; when the last user can go |
| `inbox_updates` | 1 endpoint, 1 event, 2 administrators, 1 secret, retention of 1, 2 or the default days, a default of 0 or 1, 1 restart | expiry, authentication and completeness under overlapping updates |
| `inbox_prefix` V | 1 form save | the form drops the signature prefix |
| `limiter_window` | 2 clients behind a proxy, forged or absent header, 2 tokens a minute of 3 seconds, pruning every 3, 6 seconds, 1 restart | no stretch of time grants more than the limit; `Retry-After`; memory; `LimiterContract` implemented |
| `search_pages` | 4 events, 3 times, pages of 2, a ranked and two plain requests, 1 change, 2 backfills in batches of 2 | pages: nothing twice, nothing skipped but by ties, answers only; the backfill covers what it found and ends |
| `search_ties` V | as above | the plain list misses events the export holds |
| `payload_body` | all bodies up to 7 bytes of structure and text, numbers, texts in UTF-16 and UTF-32 of both byte orders; depth limit 2, digit limit 2; values with up to two leaves of two keys | scan and parser agree on UTF-8; keys and terms come back; secrets stay unsearchable |
| `payload_depth` V | as above | a body in UTF-16 is parsed deeper than the limit |

### Bounds, and why they are enough

- *Jobs.* Jobs do not influence each other, except that a worker holds one at a
  time and takes the earliest first. One job with two workers shows every
  race on a document; the theorems hold for any number of jobs and workers.
- *Workers, clients, administrators.* Two: every hazard found is between two
  actors, and a third one can only repeat the role of one of them. The
  inductive invariants of the proofs quantify over pairs at most.
- *Time.* `MaxTime` lets both attempts, the backoff, one expired lease and the
  attempts that replace interrupted ones happen. The units are the smallest
  ones: lease, run time and backoff of 1 keep all the orders of events that
  longer ones have. `MaxIdle` 9 is no bound within `MaxTime`; in `replay_live`
  it says how late a restarted or idle worker may be, and `MaxTime` 8 lies
  beyond the last moment a job can still be open, so that liveness is not cut off.
- *Faults.* Two in `replay_lease` and `replay_network`, so that a lost attempt's replacement
  can be lost too; one in `replay_live`.
- *Network.* In `replay_network` a lease of 0 with a `MaxRun` of 1 is the least by which a
  lease can be kept or overrun. One job, one name and one redirect: a
  redirect leads back to the name (or to a URL that cannot be used), whose records may have
  changed, which is what the second check is for. 302 without a Location is a success, 404 a
  refusal, and a transport error stands for all that is retried. The `VIEW` leaves out
  what no guard and no property of this run tells apart; `MCReplaySystem` says what that is.
- *Hops and bodies.* In `delivery_hops` `MaxRedirects` 1 and a limit of 2 with bodies up to 3 reach
  both sides of each boundary.
- *Inbox.* The endpoint starts either signed, or open with a secret at rest, so
  that two crossing changes (clear the secret, require a signature) can leave it
  without one and `verify` is asked about such a copy. One endpoint: requests about different endpoints meet only in the
  unique index on `path` (`Taken`), which this instance never finds in use. The
  conflict answers it causes change nothing (`UpdateNothing`). The default is zero or one day, and
  the restart may change it.
- *Limiter.* Two tokens and a minute of three seconds reach an empty, a partly
  filled and a full bucket; six seconds hold two prunings. Buckets do not
  influence each other except through the pruning they share.
- *Search.* Four events in pages of two make a full last page, a short one and an
  empty one; three times put events before, on and after each boundary of the
  date filters and the cursor. Three texts: a word that starts with the query,
  exactly the least ratio of trigrams (2 of 5), one below it (1 of 5). One change: more of
  them have no common state but the events. Two backfills, of which the second may find what
  one that died left half done. Queries that begin with `$` (`Literal` false) are covered by
  the proofs only.
- *Payload.* Seven bytes hold a string with an escaped quote and an escaped
  backslash inside brackets, and three levels against a limit of two. Texts of UTF-16 and
  UTF-32 have up to five characters, with U+2200 for one that has a quote among its bytes.
  A digit limit of two stands for 4300. Two leaves
  meet in every way two keys can clash; paths of two keys have a sensitive one
  above, below or beside.
- *Restarts.* One: a second one meets no state that the first does not leave.
- *Deadlock* is checked in `replay_lease`, `replay_live` and `limiter_window`, where there
  is always a next step. The other instances stop when the clock, the jobs, the requests, the
  ids or the restarts run out, and set `CHECK_DEADLOCK FALSE`.

### Fairness

`replay_live` and `search_pages` need it (`FairSpec`). In the first: weak fairness of each worker's next
step (an asyncio task that is ready runs; the drivers have timeouts), of each
worker's restart (compose restarts the container), and of time. Nothing is
assumed of requests, the TTL monitor, faults or resets. A worker with due work
does not need strong fairness: its own steps stay enabled until it takes them.
In the second: weak fairness of a backfill that runs (`Fill`), nothing of
requests or changes; it may also die.

### Mutants

Every property of a passing run is tied to a mutant: a definition of the model
replaced by one with a plausible bug (leases a second too short, the filter
without the state, an off-by-one in the retries, the redirect that keeps the
checked address, a reapply counting from now ...), which TLC must find to violate
that property. They stand next to the definitions they replace.

## 4. Proofs

`ReplayQueueProofs`, for any events, jobs, workers and configuration:

1. `TypeCorrect`: `TypeOK`, strengthened by the fact that a busy worker has a
   job (`TypeInv`).
2. `HeldOnce`, `SentOnce`, `UsedUp` need no assumption on time. `AttemptHeldOnce`
   is not inductive alone: the counter of a job must be known to have reached
   every attempt in `sent` or in a worker's `tries` (`OnceInv`), so that the
   next `$inc` gives a number nobody has.
3. `LeaseProtects`, `CompletedWhenOver`, `SettledIsFinal`, under `KeptLeases`
   (`MaxRun <= LeaseTimeout`). The invariant `LeaseInv` adds that a busy worker
   is within its time, that the stored `leased_at` is its own `now`, and that
   therefore no reclaim filter computed from any `now` can match the document
   it holds (`HeldIsFresh`). What a step preserves is shown from `LeasesKept`, a
   predicate of the two states the step is between, of which `KeptLeases` is one way to have it;
   `ReplaySystemProofs` uses another.
4. `AttemptsAccounted` and `DeliveredOnce` by the accounting `CountInv`: at rest
   a job has started at most `max_attempts - 1 + lost` attempts when pending,
   and the holder's current attempt is one of these.
5. `QueueImplementsContract`: initial states map to initial states
   (`ContractInit`), every step to a step of the contract or a stutter
   (`ContractStep`).
6. `JobsNotStranded` and `RecordsTrue`, again without an assumption on time, from `StoreInv`.
   The first is the safety half of `EveryReplaySettles`: an open job is pending and due after
   the longest backoff at most, or running with a lease that `claim` will find run out. The second
   says that a job's state and recorded outcome agree and are true, although they are written from
   copies by workers that may no longer hold the job.

`ReplaySystemProofs`, for any jobs, workers, names, addresses, limits and DNS behaviour:

1. `SystemImplementsQueue`: each step of the composed system is a step of `ReplayQueue` or a
   stutter. All theorems about the queue therefore hold of it, among them the
   contract (`SystemImplementsContract`).
2. `SystemTypeCorrect` and `RequestsChecked` from `NetInv`, which ties each worker's hop
   counter to its requests and its target to the check of its URL.
3. `TrafficBounded` from `SentInv`: the pairs of attempt and hop requested so far lie at or before
   the hop a worker is at, for its own attempt, and no other worker has that attempt (`OnceInv`).
4. `SuccessEarned` from `EarnedInv`: a success that is recorded, or that a worker is about
   to record, has an answer, and what answered had been checked.
5. `SettledIsSilent` and `ContractKeptUntilLate` from `LateInv`: until a worker is late,
   the lease invariants hold. This replaces the hypothesis `KeptLeases`, which is about all
   behaviours, by the moment at which one behaviour leaves it; a lemma, `NeverLate`, links the
   two: under `KeptLeases` there is no such moment.
6. `SystemImplementsDelivery`: every step of an uninterrupted attempt maps to a step of
   `Delivery` or a stutter, for an arbitrary worker and job.

`DeliveryProofs`, for any names, addresses, classification, DNS behaviour and limits:

1. `NeverConnectsInside`, `HopsAreChecked`, `HopsAreBounded` from `NetInv`: a target at
   `connect` is a checked destination of the current URL, a connection in use goes to
   one, and requests and hops are in step.
2. `TypeCorrect` and `BodiesFit` from `ReadInv`: what is kept of a body fits, and is
   marked truncated exactly when something is missing.
3. `RejectedForGood` from `BarredInv`: after a rejection that no interruption has
   wiped out the job is settling it or has failed, and has no step that sends.

A lemma, `HeadersFiltered`, unfolds `MergeHeaders` for any header sets: of the captured headers
only forwardable ones are sent, hop-by-hop headers never, and what was typed into the form
otherwise always, a credential included.

`AccountsProofs`, for any users, sessions and concurrent requests:
`TypeCorrect`; `SessionsRevoked`, from the fact that a login past `authenticate`
which no change has overtaken holds the present password of an existing user
(`LoginCurrent`); `LastUserKept`, from the fact that a deletion past its count
leaves somebody whoever it removes, as long as it is the only one (`UserInv`);
`UsernamesUnique`, which rests on the same invariant, because `seed_admin` checks
and inserts in two steps and is safe only because no request runs meanwhile; and `ActorsAreOwners`:
the copy of the user a handler works on is of the owner of its session.

`InboxProofs`, for any endpoints, requests, administrators and configurations:
`TypeCorrect`; `VerifyFailsClosed` (`FailsClosed` is inductive over the types);
`StrandedByOverlap`, because the check of the merged copy still holds for what
is stored unless the copy is out of date; and `ExpiryKept`. Its invariant `ExpiryInv` says of every present and
unmarked endpoint: events in flight have read the retention it has now, at most
one reapply is pending and carries that retention, and without one the stored
events agree. Marking an endpoint when something overlaps its update is what
makes the first two inductive; the last reapply of an undisturbed change
removes the mark. Zero days need no hypothesis: `Expected` holds both expiries the code gives
them (finding 8), and `BothExpected` shows that neither half gives a third.

`RateLimiterProofs`, for any clients, limits, intervals and clock:

1. `TypeCorrect`, with `UpdatedPast`: no bucket was refilled in the future.
2. `LimitHolds` from `WindowInv`: the tokens granted to the observed client since the
   observation began, and the level its bucket would have now, are together no more than the
   capacity and what the time since has refilled. A bucket dropped by `_prune`
   keeps this only because it had been idle for as long as it takes to fill.
3. `RetryAfterHonest` from `RetryInv`: by the promised moment the level reaches one token.
4. `MemoryBounded` from `PrunedInv`: since the last pruning less than an interval has
   gone by at the last request, and what that pruning left had been idle for less than
   the limit.
5. `LimiterImplements`: the limiter that refills lazily and forgets idle buckets
   implements `LimiterContract`, which does neither.
6. `ClientsIsolated`: a client's level falls only by its own granted requests. This needs
   `ClientsToldApart`: behind a proxy with `trust_forwarded_for` off all senders share one
   bucket per path, and TLC finds the theorem's property violated.

`SearchProofs`, for any events, texts, scores, page size and schedule of changes, with a query
that begins with `$` or not:

1. `ShownOnce`, `NothingElseSkipped`, `RowsAnswer` from `WalkInv`: no shown row lies
   beyond the cursor, and a steady event that was not shown does, or ties with the
   cursor in a plain list. `PageCuts` says what one page does: it takes rows such that
   all that is left of the query lies beyond the last of them, or ties with it.
2. `BackfillIsComplete` from `FillInv`: each event the backfill found is still unread,
   in the batch, or indexed.
3. `BackfillGetsOn`: each step of a backfill reads an event it has not read, empties a batch or ends
   it. This is the argument that it terminates; `BackfillEnds`, which adds the fairness, stays with TLC.

`PayloadProofs`, for any body, any depth limit and any value:

1. `RecursionBounded` and `DepthMeasured` from `ScanInv` and `ParseInv`, for bodies that are
   decoded as UTF-8: while
   parsing, the parser is where the scan was after as many bytes, inside a string
   exactly when the scan was, and no escape is pending between two items. The
   two machines read in different steps, a byte and an item, which is what makes this
   worth a proof. Of UTF-16 and UTF-32 both are false (finding 12).
2. `ExportedAsParsed`, `RebuildChangesNothing` and `SecretsKept` from `BodyInv`: what is
   stored, exported and indexed is made of the parsed body by the operators. They then
   follow from lemmas about the operators (`RoundTripped`, from `StoredApart` and `EscapedBack`;
   `Guarded`): escaping keeps different keys of a dict apart, unescaping undoes it, and no
   leaf below a sensitive key is collected, in the original or in the stored form.

What is submitted is typed by assumption (`DocsAssumption`,
`PatchesAssumption`): this is the validation of `EndpointCreate`,
`EndpointUpdate` and the form.

Assumptions are those on the constants (`ConstantsAssumption`,
`BackoffAssumption`, `SystemAssumption`, `DeliveryAssumption`, `AccountsAssumption`, `InboxAssumption`,
`DocsAssumption`, `PatchesAssumption`, `LimiterAssumption`, `SearchAssumption`,
`PayloadAssumption`), which TLC evaluates in every run, and the two hypotheses the
theorems name: `KeptLeases`, which the configuration does not guarantee,
and `ClientsToldApart`, which depends on the deployment.

Only model-checked: the two liveness properties, `EveryReplaySettles` and
`BackfillEnds`, which are out of the prover's reach. Every safety property of a
passing run is a theorem. The other way round, some theorems state what no run checks by name,
because a checked property contains it: `AttemptSentOnce`, `AttemptsBounded` and `HopsBounded` (in `RequestsBounded`),
`TerminalIsFinal` (in `ImplementsContract`), the queue's `TypeOK` (in `SystemTypeOK`), `EveryRequestChecked`
(in `AttemptIsDelivery` with `NoBlockedConnection`). `AttemptHeldOnce` is what `SentOnce` rests on;
`NeverStranded`, `RecordTruthful`, `ContractUntilLate`, `UsersDistinct`, `ActsForOwner`,
`OthersDoNotSpend` and `BackfillAdvances` are stated in the proof modules.

## 5. Findings

Three are shown by a run of their own. The others are differences between the
code and a sentence of the docs that the model has as the code has them; the
property in brackets, which holds, is stated so as to allow exactly this case.

1. Interrupted attempts are not counted against `max_retries`, and a job whose
   attempt always raises is attempted for ever (`RequestsBounded` adds what was lost).
2. `finish` writes unconditionally: a worker that outlives its lease overwrites a
   settled job (`ImplementsContract` needs `KeptLeases`; `SilentOnceSettled` and
   `ContractUntilLate` say that nothing goes wrong before a worker is late).
3. `RETRYABLE_STATUS` retries 429 and not 501, 505, 506, 510, 511; the docs say
   5xx is retried and 4xx never.
4. A login that overlaps a password change leaves a session behind
   (`StaleSessionExcused`).
5. Two users deleting each other at the same time empty the collection
   (`LastUserStays`).
6. Switching retention off does not keep events already stored (`ExpiryAgrees`
   excuses an endpoint whose configuration a restart has changed).
7. Saving the endpoint form drops `signature_prefix` and a custom header
   (run `inbox_prefix`).
8. `default_days: 0` keeps new events for ever but expires all stored events at
   the next form save (`Expected` allows both).
9. The plain list's cursor is a time: of events stored in the same millisecond those
   after the end of a page are never shown, but the export has them (run `search_ties`;
   `SkippedOnlyByTie` says that nothing else is skipped).
10. A body that Mongo cannot hold (an integer beyond 64 bits, more than 100 levels under the
    default depth limit) or whose number Python refuses to convert is answered with 500 and
    the request is lost (`Fail` and `Overlong` of `Payload`).
11. PATCH with a `null` for a field that may be left out stores the null, and the
    endpoint can then not be shown.
12. The depth of a body is measured over its bytes, and `json.loads` decodes UTF-16 and UTF-32
    before it parses: a character with a quote's byte in it hides the brackets that follow
    (run `payload_depth`; `NestingBounded` and `DepthExact` are about UTF-8).
13. A destination that has answered 2xx gets the request again when reading the answer's
    body fails (`AcceptedOnce` adds `unread`).
14. A rejection, or a 4xx, that a crash or a database error keeps `finish` from writing
    is forgotten, and the job tried again when the lease is over (`RejectionIsFinal` starts
    anew after `Interrupted`).
15. A search query that begins with `$` is read as a field's path by the score expression, and
    `$` alone makes the request fail (`Literal` of `Search`).

## 6. Not modelled, and why

- Workers' clocks are one clock; skew between hosts would add to `MaxRun`.
- `update_many` of the reclaim and of reapply are one step each; per document
  they are atomic and what they do to one does not depend on another. An event
  inserted while a reapply runs counts as overlapped either way.
- CSRF tokens, cookie attributes, password hashing, body limits and header
  syntax: pure checks that can only refuse, folded into the refusals.
- Of an endpoint: name, methods, size limit, the header's name, and `null` for
  those fields in a PATCH (finding 11 is read from the code).
- Early refusals of `receive` are one action of `Inbox`.
- The limiter's floating point (a rounding error of one part in 2^52) and the
  sign-in limiter's own rate: it is the same class with another key.
- Search terms as text: tokens and trigrams are counted, not spelled; what headers,
  query string, event type and endpoint name add, and the caps `TOKEN_LIMIT` and
  `TRIGRAM_LIMIT`. The filters by equality select among the events and nothing else.
- A query `$name` where `name` is a field of the events (its value would be compared), and
  queries that are no valid path, which make the request fail.
- Of parsing: form and XML bodies, `decode_raw`, `extract_event_type`. That a request which
  meets `Fail` or `Overlong` is lost has no property of its own: it is what these two actions say.
- The export's formats; which events it selects is in `Search`, what becomes of a body in
  `Payload`.
- `seed.ensure_endpoints` and `send`, and the expiry that `backdate` writes; that it moves
  an event is in `Search`.
- Health, rendering, the format of log lines: no decisions over time.

## 7. Plan

Done, in this order: the replay queue with its contract and proofs; delivery;
accounts; inbox; rate limiter with its contract; search, export and backfill;
payload; the composition of queue and delivery. Left:

1. `Inbox`: null fields in a PATCH, the expiry written by `seed.backdate`, and two endpoints
   that compete for a path (`Taken`), with unique paths as a theorem.
2. `Accounts`: two overlapping password changes by one user, of which the first verifies
   the password the second has already replaced.
3. `Inbox`: which step of an overlap marks an endpoint, as a theorem of its own (an
   endpoint nobody else touches is never marked).
