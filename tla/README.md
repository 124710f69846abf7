# TLA+ models of the subscription service

The repository is a subscription service that sits in front of a 3x-ui panel. It
keeps its own users in SQLite, pushes every change of a user to the panel through
an outbox, reads the panel's inbounds and clients back through a cache, and serves
each subscriber a configuration rendered from templates. An admin panel edits users,
templates, themes, applications and settings, and every one of these takes effect
without a restart. This directory models the parts of it that keep state or run
concurrently, model-checks them with TLC on small instances, and proves their main
properties with TLAPS for every value of the constants.

Paths below are relative to `src/internal/` unless they start with `src/` or `docs/`.

## 1. Inventory

| Component | State it keeps | Operations | Modelled in |
|---|---|---|---|
| Sync outbox and Worker (`sync/sync.go`, `sync/worker.go`) | table `sync_jobs`; the Worker's claimed batch in memory | `Enqueue`, `Retry`, `ReapStale`, `ClaimBatch`, dispatch, `MarkSuccess`, `MarkRetry`, `MarkFailedTerminal`, `Prune`, the rollup shown to the admin | `SyncJobs` |
| User management (`users/users.go`, `admin/handlers_users.go`) | tables `users`, `user_inbounds`; local variables of each handler under way | create, update, toggle, regenerate, reset traffic, set inbounds, delete, the bulk actions | `PanelSync` |
| Panel client (`xui/client.go`) and the panel | the attempt of the call under way; the panel's clients | the client-management requests; attempts, pauses, cancellation; "not found" counts as success for some | `PanelSync` (effects), `ClientRetry` (the loop), `PanelCall` (its promise) |
| Panel list cache (`xui/cache.go`) | last value, last error and their stamps; singleflight's call | `get`, `Invalidate` | `TtlCache` |
| Template assignments and routing strings (`assignment/`, `routing/`) | tables `template_assignments`, `user_routing`, keyed by subscription id | `Set`, `DeleteAll`, `Resolve`, `Get`, as the user handlers call them | `SubscriberRows` |
| Legacy migrations (`assignment/migrate.go`, `routing/migrate.go`) | old table `assignments`, old column `user_routing.config` | both run in every run of the binary: at the service's start, and in the commands `-import` and `-create-admin` beside it | `SubscriberRows` |
| Application catalog (`apps/apps.go`) | table `applications`; the rows in memory and the stamp they were loaded under | create, update, delete, import; list with reload | `Catalog` |
| Theme engine (`theme/`) | tables `themes`, `theme_files`; the parsed theme and its stamp | save, delete, import; render and serve with reload | `ThemeEngine` |
| Settings and `DynamicClient` (`config/config.go`, `xui/dynamic.go`) | table `settings`; the panel client and the stamp it was built under | save a section, load all, reload | `PanelSettings` |
| Compiled templates (`generator/tmplcache/`) | table `templates`; a compiled copy per profile | save, delete, import; get with fallback to the default profile | `TemplateCache` |
| Template store and importer (`templatestore/`, `importer/`) | tables `templates`, `import_manifest`; the shipped files | import, refresh, prune, edit, delete | `Templates` |
| Admin authentication (`adminauth/`, `admin/middleware.go`, `admin/handlers_auth.go`) | table `sessions`; the browser's cookie, the token in each page | log in, check, expire, log out | `AdminAuth` |
| Rate limiter (`ratelimit/`) | a token bucket per address | allow | `RateLimit` |
| Subscription HTTP server, resolver, matching, links (`httpserver/`, `resolver/`, `xui/parse.go`, `connlink/`) | none; the request under way | every route below `/sub/{subID}`; resolve, status, page, links followed from it | `Subscription` |
| Service process (`src/cmd/subscription-service/main.go`) | whether it runs | start, shutdown on a signal, crash, restart | in each module, as far as the component sees it |
| Text of generators and share links, configuration files, logging, QR codes, database opening | none that outlives a call | rendering, parsing, formatting | no |

How they interact. A handler writes `users` or `user_inbounds` and then calls
`Enqueue` once per inbound, in separate database calls; no transaction spans them.
The Worker is the only goroutine that reads the outbox for work: every tick it
reaps rows stuck in progress, claims a batch, sends each job's request to the panel
and marks the row, and at the end prunes old successes. After a success it
invalidates the list cache, which subscription requests and the admin's pages read.
The same handlers also write the rows of the user's subscription id in
`template_assignments` and `user_routing`, which the subscription request looks up.
A subscription request passes the limiter, takes the inbound list from the cache,
asks the panel for the id's share links, and then reads the routing profile, the
assignment, the templates, the catalog and the theme, each through its own
hot-reloaded copy. Templates, applications and themes are written by the admin's
pages and by the importer, a separate run of the program.

What is hard: handlers of several admins and the Worker interleave at every
database call; a payload is a snapshot taken at one moment and applied at another;
the process can end anywhere; the answer to a request that took effect can be lost;
failed jobs wait for their backoff while later ones pass; a fetch can be in flight
when the cache is invalidated; names and subscription ids are freed and taken by
other users, and a command beside the service migrates their rows; a stamp is read in one statement, the rows it stands for in another, and
written before its statement commits; an import overlaps edits and stops half way;
a page's links are followed after the panel has changed. `PROJECT.json` lists these
hazards at the lines where they bite.

What makes each part correct:

- outbox: nothing is reported done that was not done; one owner per claimed row;
  attempts are counted right through reaps and manual retries; order is kept unless
  something failed; every job ends;
- write path: at rest, with every job a success, the panel is what the database
  says;
- a call to the panel: one request, however often it is repeated;
- cache: answers have a bounded age, the panel is asked at most once per TTL,
  an invalidation is seen, nobody waits forever;
- subscriber rows: who owns a subscription id is served what was saved for it;
- hot-reloaded surfaces: an answer is what the table held at some moment of the call;
- settings: what the page saves always loads, or the service would not start again;
- importer: which rows are its own is known exactly, and no edit is ever lost to it;
- limiter: a bound over any stretch of time for each address, and no refusal for
  what came from another address;
- sessions: valid for their term and no longer, and ended by their own logout only;
- subscription requests: found as on the panel, a status that tells the truth, links
  that lead where the page says.

## 2. Modules

| Module | Role |
|---|---|
| `SyncJobs`, `SyncJobsProofs` | the outbox table and the Worker, with the process and the clock |
| `PanelSync` (extends `SyncJobs`), `PanelSyncProofs` | handlers, database and panel composed with the outbox; `PanelSpec => Spec` of `SyncJobs` |
| `PanelCall` | what every other module assumes of one request to the panel |
| `ClientRetry` | the retry loop; it implements `PanelCall` |
| `TtlCache`, `TtlCacheProofs` | the list cache |
| `PanelClient`, `PanelClientProofs` | the two together |
| `SubscriberRows`, `SubscriberRowsProofs` | rows keyed by subscription id, and the migrations |
| `FreshRead` | what a copy of a table promises: every part of an answer is what the table held during the call |
| `HotReload` | rows with stamps, writers and calls: the part that the copies share |
| `Catalog`, `ThemeEngine`, `PanelSettings` (extend `HotReload`) | three copies, each of which implements `FreshRead` |
| `Surfaces`, `SurfacesProofs` | the three together |
| `TemplateCache` (extends `HotReload`) | compiled templates, with a fallback; an action property instead, since an answer may come from another row |
| `Templates` | the importer and the admin's edits |
| `TemplateSurfaces`, `TemplatesProofs` | the two sides of the templates table together |
| `RateLimit` | the token buckets |
| `AdminAuth` | sessions, with the tabs of a browser |
| `Subscription` | the subscriber's requests against a changing panel |
| `Http`, `HttpProofs` | the three together |
| `MC*` | values of the constants for TLC |

Where a module puts together components that share no state, a behaviour is about
one of them, chosen at the start (`surface`).

### SyncJobs

One variable per column (`status`, `attempts`, `row` for user, inbound and payload),
`batch` for what `ClaimBatch` returned and the Worker has not marked yet, `wstep` for
where `Tick` is. One action per Store call; `Dispatch` is the panel request between
`Claim` and `Mark`. Every Store call of the Worker can fail, with what the code does
then: a failing `ReapStale` or `Prune` is logged, a failing `ClaimBatch` ends the
tick, a failing Mark call leaves the row in progress.

Time is one bit per row, `waited`: the moment this row waits for has come
(`next_attempt_at`, `updated_at` + 5 minutes, `updated_at` + 7 days, by status). So
any relative order of backoffs, reaps and prunes is possible. The reaper never meets
a row the Worker is working on, because the same goroutine does both;
`WorkerOwnsItsBatch` states it. `pushes`, `retries` and `faults` are history
variables.

### PanelSync

Each admin request is a session that takes one step per database call. A row is
its username, its enabled flag and a version that stands for everything else, new
with every write. `After` gives what the panel makes of a job, from how
`xui/client.go` and `worker.go` call it and from what their comments say about the
panel; `CanOrphan` allows for the client that survives its last detach (comment in
`handleUserDelete`). `JobsFor`, `Todo` and `Foremost` give which jobs a handler
enqueues, and in which order. `Push` is `SyncJobs`' `Dispatch` with that effect.

Abstractions: a call to the panel has one of the three outcomes (ok, err, lost) that
`PanelCall` leaves it; `SetInbounds` deletes by inbound, where the code deletes by
row id, so a row removed and added again between its read and its transaction is not
distinguished; foreign keys are taken to be enforced; that the panel may keep a
client's id over an update is not represented. `Exclusive` makes requests for one
user not overlap; section 5 says what happens without it. `renamed` collects the
names that a user with inbounds was renamed from or to; `RestsInSync` is about the
others (section 4).

### ClientRetry and PanelCall

One call: the head of the loop, a request under way, the reply that arrives (or is
cut short, or never comes), the judgement of it, the pause. `kind` is what the panel
makes of a repetition: done again, refused, or "record not found". `PanelCall` is
the promise: one change at most, before the answer, and success only if it was made.
A request given up at the timeout is taken to be carried out by then or never.

### TtlCache

A list is its version. A call of `get` is: the first look, joining singleflight, the
second look, the request reaching the panel, the panel reading its list, the answer
arriving (or the timeout), the store, the release of the waiters. So a list may be
up to one timeout old when it is stored. The Worker's write and its `Invalidate` are
separate, with the answer possibly lost between. A cancelled request context is a
fetch that ends in an error.

### SubscriberRows

`templates`, `routing`, `legacy` are the tables, `subOf` the `sub_id` column of
`users`. A save is: the look-up of the user, the write to `users`, if the id changed the two `DeleteAll` calls
on the old id, one upsert per client type, the upsert of the routing string. A delete
is the two `DeleteAll` calls and then `users.Delete`; the bulk delete is
`users.Delete` only. Requests overlap as they like, also on one user: a save may find
its user gone or its id taken, a clean-up may come when the id has been saved again.

`proc` and `todo` are the processes: the service, which serves after its migrations, and
commands, which run beside it and do their work on other tables. Each looks for the old
table, copies and drops it in one transaction, lists the rows to fill, and fills them
with one `UPDATE` per row, whatever has been written to them meanwhile. `saved` is what
the admin was told is saved for an id. `damaged` holds the ids of which that is no
longer so because of what `ServedAsSaved` names as its exceptions. The toggle `enabled` is left out: the
handlers write it with the string and the migration does not touch it.

### HotReload and the surfaces on it

A writer takes its stamp (`TakeStamp`) and commits later; a delete has no stamp. A
call queries a stamp, compares it with the one its copy was loaded under, and
reloads in further statements. A row is its stamp and whether it parses. `seen`
records, for each call and each part, what the table has held since the call began;
it is the abstract state of `FreshRead`.

- `Catalog`: the stamp is `MAX(updated_at)` and `COUNT(*)`; a reload is one query.
- `ThemeEngine`: the stamp covers two tables; a reload is two statements under a
  mutex. `Lingering` lets a part outlive the deletion of its row, which is what the
  count of static files was meant to exclude and does not (section 5).
- `PanelSettings`: the stamp of one row, but the reload loads every section; a value
  is whether its section decodes and validates it.
- `TemplateCache`: a copy per row, a lookup that falls back to the default profile in
  a second statement, and a compile under the mutex.

Writers overlap everywhere. A write that commits before one with an earlier stamp
overtakes it, and of the catalog and the theme nothing is promised from then on, since
a greatest stamp that stays where it is hides the late write (section 5): in
`Surfaces`, `order` records whether that has happened and both promises are made while
it has not (`InOrder`). Settings and templates are compared row by row, and promise
what they promise in every order.

### Templates

Who wrote a row last is known to the code only through stamps: a row is the import's
while its `updated_at` is the one in `import_manifest`. `owner` is the history
variable that knows. An import takes one stamp for all it writes, so its rows may be
older than an edit committed before them; each format is a transaction; a run may end
between two of them; two runs may overlap.

### RateLimit, AdminAuth, Subscription

`RateLimit`: `Allow` finds or makes the bucket under the mutex and takes the token
after it. Time is in units of what `Rate` tokens take to come. A window that
may open at any moment counts what an address earned and spent. `RemoteAddr` gives
the address of each client's connections, which behind a proxy is the proxy's: the
clients behind one are one to the limiter, and share its bucket. The token bucket of
`golang.org/x/time/rate` is external.

`AdminAuth`: a session is identified with its id and token; time is in parts of a
second, since the expiry is stored in whole seconds. Tabs share a cookie and get
their answers in any order. Look-ups are taken not to fail.

`Subscription`: one subscription id. The panel's list and its links change between
any two calls of a request and between a page and the links followed from it. The
list is cached: a fetch is begun, by this request or by somebody else, the panel
reads its list, and the fetch returns within `FetchTime`; only then is the list dated
and stored. An `Invalidate` may come in between and does not stop the fetch. (Which
goroutine leads the fetch is in `TtlCache`.) `Status`, `Used`, `Total`,
`Expiry`, `DetectFormat`, `Offers` are the code's pure functions.

## 3. Runs

| Run | Properties | Instance |
|---|---|---|
| `JobsSafety` | `TypeOK`, `WorkerOwnsItsBatch`, `NothingLostUnpushed`, `RetryBudget`, `RepeatsAccountedFor`, `NoOvertakingWithoutFailure` | 3 jobs, batch 2, 2 attempts, 1 manual retry each, 1 disturbance |
| `JobsLive` | `SyncedMeansQuietUnlessRetrying`, `EverySyncSettles` | 2 jobs on 2 inbounds, 1 disturbance, fairness |
| `PanelPair` | `RestsInSync` | 2 admins, 2 users, 2 names, 5 requests (all kinds but regenerate), 3 jobs |
| `PanelFaults` | `PanelTypeOK`, `RestsInSync` | every kind of request, 3 requests, failing pushes and lost answers, 1 manual retry, 1 crash or shutdown, 1 failing database call |
| `PanelLive` | `ComesInSync` | 4 requests, 1 crash or shutdown, fairness |
| `Cache` | `TypeOK`, `NeverStalerThanTTL`, `SeesCalmInvalidate`, `OneFetchPerTTL`, `EveryCallReturns`; `ClientTypeOK`, `ImplementsPanelCall`, `CallReturns` | the cache: 2 readers, TTL 1, timeout 1, clock 4, 2 versions, fairness; a call: 3 attempts, every kind of request |
| `Subscribers` | `TypeOK`, `ServedAsSaved`, `MigrationNeverConflicts` | 2 users, 2 subscription ids, 2 client types, 2 profiles, 2 forms, 2 requests that may overlap on one user, the service and a command that migrate, 1 crash or failing call |
| `HotReload` | `ReloadTypeOK`, `SettingsStayLoadable`, `CatalogFollowsTable`, `ThemeFollowsTables`, `ClientFollowsSettings` | 2 calls at once, 3 stamps; 2 overlapping editors of 2 applications or of a theme of a page and a static file, followed until one overtakes the other, 2 overlapping saves of 4 settings |
| `Templates` | `TypeOK`, `ProvenanceExact`, `ImportedIsCurrent`, `AdminEditsKept`; `TemplatesFollowTable` | 2 templates of 2 formats, 2 contents, 1 admin, 2 imports, 4 stamps, 1 release; compiled copies: 2 profiles, 2 calls, 2 writers, 3 stamps |
| `Http` | `HttpTypeOK`, `WithinRate`, `RefusedForItsAddress`; `LetInWhileItLasts`; `FoundAsOnPanel`, `StatusTellsUse`, `FollowedAsShown` | 3 clients, 2 of them behind a proxy, 2 overlapping requests, burst of 2 at 2 units each; 2 sessions, 2 tabs, term 2, second of 2 units, clock 4; 5 lists, 2 link lists, 2 agents and 4 routes by name, cache TTL 1, fetch time 1, clock 2 |
| `PanelRename`, `ThemeDeleted` | one refuted statement each | see section 5 |

Why the bounds are enough. The outbox: three jobs with a batch of two is the least
in which one is left for the next batch; two attempts is the least with a
difference between a retry and giving up; one disturbance reaches a crash between
any two steps. The write path: a rename into a name another user has freed takes two
users, two names and five requests (two creates, two assigns or an assign and a
delete, the rename). The cache: two readers is the least with a leader and a waiter;
a clock of four lets an entry be stored, expire, be renewed and expire again. A call:
three attempts is the least with one that is neither the first nor the last. The
subscriber rows: a subscription id that changes hands takes two users and two
requests; two requests are also the least that overlap on one user; one command is the
least that migrates while the service is up or migrates too, and can run again and
again; one fault reaches a crash at any call and so a second start of the service. Hot reload: the initial rows have a stamp of their
own, which leaves two writes: one in the middle of a reload and one after it, or the
two that overlap; two calls is the least in which one files what the other looked up.
The states after one write overtook another are cut (`CONSTRAINT InOrder`), since the
properties say nothing of them but `ReloadTypeOK`, which is proved for them too.
The importer: four stamps are two imports and an edit after the initial rows; two
formats is the least for a run that stops half way. The limiter: two clients that
share an address and one that does not, and two buckets, since a second bucket for an
address or one bucket for two would be the failures; the cost of two units lets a
bucket hold less than a request needs. Sessions: with a second of two
units an expiry is truncated or not; a clock of twice the term lets the second
session outlive the first. Requests: the five lists are an id that is missing, used
up, expiring, disabled, and a list that does not decode; a clock of two lets a list
that took a tick to fetch be served just before it expires, two ticks after the panel
read it, and be found expired one tick after it was stored; one of the link lists has a
link that does not parse before one that does.

Symmetry is used where no definition picks a member: users, subscription ids and
sessions in `Subscribers`, usernames and sessions in `PanelPair`, calls, editors and
ids of applications in `HotReload`, calls and writers of the compiled copies in `Templates`, tabs in `Http`; none of these
runs checks liveness. What the safety runs find at these bounds the theorems of
section 4 extend, for the properties proved, to all of them.

Some exceptions are written into properties because the code has them, each at its
narrowest: `RestsInSync` excludes jobs overtaken by a later one, requests cut
short and names that a user with inbounds was renamed from or to, and allows for the
reset that re-enables a client and for the orphan;
`ServedAsSaved` excludes saves cut short, a save that began while another was
still saving the same id, an id cleaned up after its save by a request that had read it
before, a string replaced by a migration that had listed its row before, and the blanked
string that a migration restores; `SeesCalmInvalidate` is
about an `Invalidate` that met no fetch; `CatalogFollowsTable` and
`ThemeFollowsTables` end where one write overtakes another, and the latter allows for
a deleted file; `LetInWhileItLasts` for the fraction of a second that truncation takes off;
`FollowedAsShown` for a panel that no longer renders the links it rendered for the
page. Without them TLC finds the behaviour (for `RestsInSync`: `PanelFaults` the
first two and the orphan, `PanelPair` the reset). A hazard in
`PROJECT.json` whose outcome the code does not prevent names no property of which it is
an exception: its note says what happens, and which exception it is.

Deadlock is checked in every run but `Http`, where the bounds on the clocks, on the
window and on the sessions that can be issued end every behaviour.

### Fairness

- the Worker's steps are taken while the process runs: a ticker, and `Run` calls
  `Tick` on every beat;
- a stopping process ends: `main` returns after the HTTP server's bounded shutdown;
- a stopped process is started again: `Restart=on-failure` in
  `src/deploy/subscription-service.service`, or the administrator;
- time passes;
- a request under way takes its next step; the panel's requests end, by an answer or
  by the HTTP client's timeout; a call's pauses end (`WF(Get(r))` in `TtlCache`,
  `WF(Client)` in `ClientRetry`);
- `ThemeEngine` states what Go's mutex gives (a waiter that has waited long enough is
  served); `ThemeDeleted` runs under it, so its counterexample is not one of a service
  that stops.

Nothing makes an admin send a request, press retry, or the panel answer well.

## 4. Proofs

All theorems hold for every value of the constants that satisfies the named
assumptions (`SyncJobsAssumption`, `PanelSyncAssumption`, `TtlCacheAssumption`,
`SubscriberRowsAssumption`, `HotReloadAssumption` and `SurfacesAssumption`,
`TemplatesAssumption` and `ServedAssumption`, `RateLimitAssumption`,
`PanelClientAssumption`, `HttpAssumption`), which TLC evaluates in the runs.
`SurfacesAssumption` is made of the definitions `SettingsAssumption`, which two
theorems of `SurfacesProofs` take as their only hypothesis, `CatalogAssumption` and
`ThemeAssumption`; `PanelComesToAgree` takes `Exclusive` as one.

`SyncJobsProofs`:

- `TypeCorrect`.
- `BatchOwned`, from `BatchInv`: `WorkerOwnsItsBatch` is not inductive, since `Reap`
  could take a row of the batch. It never does because the batch is empty when `Reap`
  and `Claim` run; and ids not handed out yet are untouched (`FreshIds`), so `Enqueue`
  meets no claimed row.
- `NothingLost`, from `LostInv`: an outcome "ok" in the Worker's memory means the
  panel has carried out the job being marked.
- `AttemptsBudgeted`, on top of `BatchInv`: the number the Worker adds one to is the
  one in the row.
- `RepeatsBounded`, from `PushInv`: one repetition may not be recorded yet; it belongs
  to the job being marked or to a finished one, and a shutdown is counted before the
  process ends by it.
- `OrderKept`, from `OrderInv`: while nothing has disturbed the service, rows in
  progress are in the batch, untried rows are due, and nothing has happened to a row
  after an untried one.
- `SyncedIsQuiet`: the rollup looks at the newest row of each inbound, which exists
  (`LatestExists`, a greatest element of a finite set); if that is a success, then by
  `OrderKept` and `NothingLost` the older ones were tried before it.

`PanelSyncProofs`:

- `OutboxImplemented`: `PanelSpec => Spec`. Every step of the composed system is a
  step of the outbox or leaves its variables alone, so all theorems above hold in it;
  the non-trivial part is that what a handler enqueues is a row the outbox accepts
  (`AdminInv`: a request under way has read its user and has a version of its own).
- `NothingLostInTheWhole` and `PanelTypeCorrect`, from it and from `PanelInv`.
- `PanelComesToAgree`: `RestsInSync`, for any number of users, requests, jobs,
  failures, repeated pushes and crashes. Its invariant `SyncInv` follows a change on
  its way. `DbInv` relates the database to the outbox: the jobs of a name, applied in
  the order of their ids, come to the inbounds the database assigns (`Agree`) and to
  the user's row as it is (`Fresh`), but for what a request under way has still to
  enqueue. `ClientsInv` relates the outbox to the panel: if nothing was overtaken and no
  job of a name up to `lastPush` was left out (`Gapless`), the client is on the inbounds
  these jobs come to, and its content is that of the last of them that brought one. At
  rest `lastPush` is the last job, and the two meet. Neither half is inductive without
  what the requests know (`ShapeInv`): the row a handler has read is the one stored,
  which needs `Exclusive`, and its jobs carry that row.
  Preparing this proof showed the property to be false at first: a user with inbounds
  renamed onto a name whose client survived its last detach makes the update succeed
  for a client nobody put there, and one renamed off a name leaves the client behind.
  `PanelRename` already shows that renames do not reach the panel; names that such a
  rename has touched are now left out (`renamed`). The behaviour takes more requests
  than a run can have.

`TtlCacheProofs`:

- `TypeCorrect`; and `CalmInvalidateSeen`, from `FloorInv`: `calmFloor` moves only
  while nobody executes a call, so what the cache holds and what a leader is about to
  store are never older.
- `AnswersNeverStale`, from `StaleInv`: the age of a list is bounded at each place it
  passes, from the panel's reading of it to the leader, the slot and the waiters.
- `FetchedOncePerTTL`, from `StoreInv`: a leader past its second look has found the
  slot stale or invalidated, and nobody else stores meanwhile.

`PanelClientProofs`:

- `OneRequestWhateverHappens`: `ClientSpec => ImplementsPanelCall`, from `ReplyInv`: a
  reply that counts as success is in the client's hands only if the panel is as asked.
- `ClientTyped`, with `CountInv`: no attempt is made beyond the last.

`SurfacesProofs`, each theorem a step-by-step refinement of `FreshRead` or what it
rests on:

- `SavesStayLoadable`, and `ClientFresh`: `Spec => ClientFollowsSettings`. The
  invariant says that stored values load (`Loadable`),
  that stamps still to be written are not in the table (`Pending`), that what a call
  has seen includes every row since its query (`Past`, `Watched`), and that a client
  filed under the stamp a call queried was built from a row the call has seen
  (`Filed`): the row may be newer than its stamp, never older.
- `CatalogFresh`: `CatalogFollowsTable`, from `ListInv`. A copy is kept while the
  greatest stamp and the number of rows are what they were when it was loaded, which
  says nothing of the rows unless stamps are used in order. While no write has
  overtaken another, the stamps to be written are later than all that were
  (`ListAhead`), with any number of editors, so a row that was loaded has been deleted, written later, or is the same (`ListKept`); then the same maximum and
  the same number mean the same rows (`SameStampSameRows`, by the cardinality of a
  subset). A call that has queried either holds a stamp that is out of date or finds
  its list among those it has seen (`ListWatched`).
- `ThemeFresh`: `ThemeFollowsTables`, from `PageInv`. A reload reads the metadata and
  the files in separate statements, and a third holds the stamp it files them under;
  `PageKept` and `PageWatched` follow what was read, by a reload under way as well as
  in the copy: each row was deleted since, written after that stamp, or is the same.
  Of the mutex the proof uses that the call that loads holds it (`PageCalls`). The
  number of files, which the engine compares too, is not needed: `ThemeFollowsTables`
  lets a part outlive its row, and `ThemeDeleted` shows the engine does.
- `SurfacesTyped`: `ReloadTypeOK`, for the three, in whatever order writes commit
  (`ListTypedNext`, `PageTypedNext`).

`SubscriberRowsProofs`:

- `TypeCorrect`, with `FormInv`: a request about to write rows has the form it writes.
- `MigrationSafe`, from `LegacyInv`: while the old table has rows no process has got
  past its own migration, so the service has never been up and nobody has written the
  new table; what one process finds dropped since its look ends it.
- `SavedIsServed`: `ServedAsSaved`, from `RowsInv`, for any number of requests and
  processes. The id a request has read is owned, or nobody expects anything of it
  (`FreedInv`), so a clean-up takes rows from nobody or is one of the exceptions; a save
  at work on the rows of an id is alone with it and has written what lies behind it, or
  the id is one of the exceptions (`SaveInv`); a row that a migration has listed has the
  config it was listed with (`TodoInv`), so what it writes is what the row was waiting
  for, or replaces a string saved since; and any other id is served what was saved, up to
  a string the migration still owes it or has brought back (`ServedInv`).

`TemplatesProofs`:

- `TypeCorrect`; `ManifestExact`, from `Ages`, `Apart` and `Nobody`: the stamps of
  admins and of imports, taken or written, are never equal, so a stamp in the manifest
  can be found in a row only if an import wrote it there.
- `EditsSafe` and `ImportsComplete`, from it.
- `CopiesFollow`: `TemplatesFollowTable`, from `CopiesInv`. Here writes overlap and an
  import's stamp may be older than what it writes over, so stamps have no order to
  rely on; but of the rows of a profile that are anywhere (`Around`: in the table, in
  the copy, or in the hands of a call) no two have the same stamp (`OneRow`), since a
  stamp still to be written is on none of them (`Ahead`). So the copy under the stamp
  a call read is the row it read, and that the call has seen (`Looks`).

`HttpProofs`:

- `RateKept`, from `Linked` (a request in hand has the bucket its key has in the map)
  and `Bounded` (what an address paid and what its bucket holds are together at most a
  full bucket and what was earned).
- `RefusalsFair`: `RefusedForItsAddress`, from the converse bound `Kept` and from
  `Distinct` (no two addresses have one bucket); it holds however many clients share an
  address.
- `SessionsLast`: `LetInWhileItLasts`, from `SessionInv`: a tab knows issued sessions
  only, a session without a row was ended or has expired, and a tab about to delete an
  expired session has compared its own (`Sound`).
- `FoundWithinTTL`: `FoundAsOnPanel`, with the bound of `CacheTTL` and one fetch. What
  a fetch has read has the id as the panel has it, or the panel changed after the fetch
  began (`FetchInv`); so the cached list does, or the panel changed no longer before the
  list was stored than a fetch takes (`CacheInv`); and so the list a request was given
  (`ListedInv`).
- `LinksLeadWhereShown`: `FollowedAsShown`, from `SubInv`. The page offers an entry for
  each link that parses under the link's own place in the panel's answer (`PageInv`);
  a request that follows one has, by the time it answers, the link at that place
  (`LinkInv`).
- `HttpTyped`: `HttpTypeOK`, for the three. Here the arms of four `CASE`s that
  overlapped (`Status`, `DetectFormat`, `FindLink`, `AfterResolve`) came to light: TLC
  takes the first, the language leaves it open; they are chains of `IF` now.

Only model-checked. Liveness, out of this prover's reach: `EverySyncSettles`,
`ComesInSync`, `EveryCallReturns`, `CallReturns`. Induction over data, out of its reach
too: `StatusTellsUse` depends on sums, maxima and minima over a sequence of clients.

## 5. Where the code and its documentation disagree

With a run that ends in a counterexample:

- `PanelRename`: after a change of username the update is keyed by the new name, which
  the panel does not know; it fails for good and the client keeps the old name.
- `ThemeDeleted`: the engine compares the number of all files in the table with the
  number of static files it loaded; when as many files were deleted as there are
  templates the two agree and the deleted files stay served. The comment at
  `theme/theme.go:105-108` says the count is there so that a deletion is noticed.

Without a run. The first four are stated as definitions next to the model, which
no run checks (`DeletedStaysDeleted`, `EveryChangeArrives`, `MissedEnqueueVisible` in
`PanelSync`; `InvalidateIsImmediate` in `TtlCache`):

- a failed assign is retried after the delete of its user has succeeded; it finds no
  client and adds one, though the package comment of `sync` says such a job "still
  completes correctly";
- `handleUserSetInbounds` and `handleUserToggle` send the row they read before their
  write; a request that came between is undone on the panel;
- if the process ends between the write and `Enqueue` there is no row to show or to
  retry; `docs/ARCHITECTURE.md` says a missed enqueue is always visible;
- a fetch in flight at `Invalidate` stores the list from before the push; the comment
  says readers see the change immediately;
- `docs/ARCHITECTURE.md:192-196` says the routing headers are sent "on every endpoint
  a Happ or Incy client actually hits"; an Incy client on `GET /sub/{id}` is answered
  by `writeRaw` without them (`httpserver/handlers.go:108-126`, `WithRouting` in
  `Subscription`);
- the limiter is "keyed by client IP" but keys by `RemoteAddr` (`ratelimit/`), while
  both servers accept connections from the local proxy only and the `X-Real-IP` it
  sets is never read: behind it all clients are one address and share one bucket, and
  a client is refused for what others have spent. `WithinRate` and
  `RefusedForItsAddress` say what they say of addresses, not of clients;
- of two overlapping writes to the catalog or the theme the one with the older stamp
  may commit last; it moves neither the maximum nor the count, and is not served
  until the next write (`InOrder` is the condition that it has not happened).

Met on the way, stated as an exception of a property: an update that failed is applied
again over a newer one; a traffic reset re-enables a disabled client; a client that
survived its last detach keeps its old content until an update; the rollup shows a
user "synced" while an older job of the inbound still waits for its retry, and after a
prune an older failure can become the newest row again; `routing.MigrateLegacy`,
described as "a no-op once the table has been migrated", fills in again a routing
string that the admin has blanked while the row keeps its old `config`, at every run of
the binary; run by a command beside the service it also replaces a string saved between
its `SELECT` and its `UPDATE`; a save that frees a subscription id removes the rows of a
user who took it in the meantime; two saves of one user mix their rows.

## 6. What is left

1. An abstract outbox (a set of jobs, each carried out at least once) that `SyncJobs`
   implements, so that users of the outbox need not see its columns.
2. `inject` of `generator/yamlgen` and the share-link parser as operators on
   structured links, against a reference definition.

## 7. Not modelled

Rendering of templates and configuration formats, the text of share links, QR codes,
logging, configuration files and the opening of the database are conversions or set-up
without state that outlives a call. Of the parsing of the panel's JSON, the matching
and the limits are in `Subscription`; stream settings and hosts are not, since no
property tells them apart. Of the HTTP servers, static assets, the catalog as JSON and
the health check only read. Forms and look-up pages of the admin panel are left out;
what they write is an action of the table's module. The routing generator's page keeps
one row nobody else reads. The creation of the one admin account and failing session
look-ups are not in `AdminAuth`, and the limiter's buckets are never removed, in the
model as in the code.

Assumptions about the environment that the modules share: stamps in nanoseconds go
forward and no two writes take the same one; a SQLite statement or transaction is
atomic; a request given up at its timeout is carried out by then or never; the panel
renders no links for a subscription id it does not have.
