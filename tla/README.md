# NodeScope in TLA+

NodeScope watches a small fleet of inference hosts. Agents collect metrics and
send them to two server replicas; the replicas store them in one shared
PostgreSQL (Supabase) schema; scheduled jobs summarise and prune them; backups
run from both replicas; consoles, an MCP server and an inference proxy use the
same database. This directory holds TLA+ models of the parts in which order,
concurrency and failure decide correctness, the TLC runs that check them and
TLAPS proofs for every size of the system.

`PROJECT.json` lists the components, the runs, a mutant for every checked
property, the source lines behind every definition, the findings, the hazards
and the theorems. Run a check with `tlc -config X.cfg M` and a proof with
`tlapm M.tla` in this directory.

## 1. Inventory

| Component | State | Operations | Interacts with | What is hard | What makes it correct |
|---|---|---|---|---|---|
| Sequence store (`internal/agent/state_linux.go`) | boot id and number in memory, `sequence.json`, its temporary | open, Next | runner; the server deduplicates on what it issues | crash between file steps, failed writes, reboot, power loss, two processes | a pair (boot, number) is handed out once; a kill never makes the file unreadable |
| Runner and sender (`runner.go`, `sender.go`, `retry.go`) | circuit per replica, ticker, attempt | collect, send, preflight, retry, stop | replicas over HTTP | replicas that fail and recover at any moment, retries, cancellation | justified failover, exact circuits, final denials, failback |
| Ingestion (`internal/app/server.go`, `internal/telemetry/postgres_store.go`) | batches, receipts, latest rows, transactions | authenticate, validate, persist | agents, capacity record, retention | two replicas, statement interleavings, lost commits, lock order | one ledger of keys; latest rows are the best evidence |
| Maintenance jobs (`0009`, `0010`) | rollups, high-water marks | rollup, refresh, prune | reads what ingestion stores | statements of one job see different data; sliding horizon | recent rows complete, tiers and windows consistent |
| Fenced backups (`internal/backup`, `0018`) | lease row, files in the shared directory | acquire, dump, archive, publish, prune | database clock, both replicas | expiring lease, paused process, crash, shared names | a displaced run never publishes; files have one owner; retention keeps one |
| Ingestion service (`internal/ingest`) | replay cache, quota windows | admit | – | expiry and limits | bounded admission, no double count |
| Inference proxy (`internal/proxy`) | routes, usage events | forward, fail over, record | backends, database | failover, broken streams | one event per request, no failover after a response began |
| Update (`internal/update`) | active, previous, staged binary | verify, activate, roll back | file system | crash between renames | a runnable binary is always recoverable |
| Enrollment (`internal/enrollment`) | credential file, agent row | enroll, rotate | database | ambiguous commit | file and row agree, or the retry repairs them |
| Control plane (`internal/controlapi`, `internal/mcpserver`, `0002`, `0017`) | sessions, operations, audit | tools, approvals | console, database | retries, audit with every change | roles, idempotence, audited changes |
| Governor, alerts, estimate, roles, metric rules | none (functions) | evaluate | – | thresholds | agreement with a reference definition |
| Console sessions (`server/_core/oauth.ts`, `sdk.ts`, `server/db.ts`, `client/src/main.tsx`, `useAuth.ts`) | cookies shared by tabs, user rows, cached user per tab | log in, authenticate, sign out | identity provider, database, pages | tabs that overtake each other; services away in the middle of a login | only own logins and mirrored sessions count, in the stored role; a live session is recognised; a sign-out reaches every polling tab in view |
| Console procedures and pages (`server/nodescope`, `client/src/pages`) | the server process's memory; what each tab has read and typed | queries by polling, mutations, audit | sessions | answers that cross, stale drafts, restarts | the audit trail explains the state; a confirmed change is shown; polling converges |
| Console frame (`App.tsx`, `DashboardLayout.tsx`, `sidebar.tsx`) | address, mounted page, chunks, filters, root class | move, load, filter, toggle | pages | pages that load late or not at all and stay mounted meanwhile | live and preview do not mix; nothing is hidden for good |
| Text entry (`useComposition.ts`, `dialog.tsx`, `input.tsx`, `AIChatBox.tsx`) | composition flags and timers | compose, key, send, answer | browser | two orders of events, timers that overlap | the key that ends a composition does nothing else, but for one race of timers; no message is lost |
| Debug collector (`debug-collector.js`, `vite.config.ts`) | buffers in the page, log files | record, report, write, trim | each other over HTTP | overlapping and failing reports | entries are written once, in order, or accounted for |
| Forge clients (`server/_core/llm.ts` and its neighbours, `server/storage.ts`) | calls under way, stored objects | complete, generate, transcribe, store, schedule, notify | remote services | rejected requests, lost answers, retries | bounded attempts and delays; honest outcomes |
| CLI, TUI, collectors, PKI, scripts, server start, component library | presentation, input | – | – | – | – |

## 2. Plan

1. `SequenceStore`, `TelemetryStore` with its abstract `IntakeLedger`,
   `AgentSender`, `FencedBackup`, `Maintenance`, and their proofs: done.
2. The web console, which is most of the repository's TypeScript:
   `ConsoleSession`, `Console`, `ConsoleShell`, `Composition`,
   `DebugCollector`, `ForgeClients`: done.
   Proofs for all of them: done.
3. Left: that an answer of the chat comes, as a liveness property of
   `Composition`. That the calls of `ForgeClients` end is not claimed: none of
   the helpers has a timeout.
4. Later modules for the Go side: `Ingestion` (agent, a network that loses
   and delays requests, and the ledger in place of the store), `IngestService`
   (replay cache and quota), `AgentUpdate` and `Enrollment` (file and row steps
   with crashes), `InferenceProxy` (routing, failover, usage events),
   `ControlPlane` (roles, sessions, idempotent operations, audit), and the
   algorithms (governor modes, alert evaluation, backoff bounds, storage
   estimate, validation of envelopes) against reference definitions.

## 3. Modules

**SequenceStore** (`state_linux.go`). `boot` is the kernel's boot id, `file` and
`temporary` the decoded contents of `sequence.json` and its temporary, `state`
and `stage` the memory and position of each agent process. `OpenSequenceStore`,
`TakeNumber`, `OpenTemporary`, `WriteTemporary`, `RenameTemporary`,
`ReturnNumber` are the steps of the code, `NextFails` its error returns;
`ProcessStops`, `Reboot` and `PowerLoss` come from outside. Nothing is synced, so
a power loss may truncate files.

**TelemetryStore** (`handleIngest`, `PersistEnvelope`). A request is one run of
the handler with its transaction. Each SQL statement is a step at READ
COMMITTED: the advisory lock on the key, the look for the key in both tables,
the capacity record, the receipt or raw batch, one upsert per row, the commit.
What is not committed is in a draft. Statements can fail, connections can die,
and a commit can take effect although the handler sees an error. The row locks
and the deadlock detector are modelled because envelopes update rows in the
order in which the agent listed them. `SetCapacity`, `PruneExpired` and `Tick`
move in between.

**IntakeLedger** is what ingestion promises: every request is decided at one
instant, and a key is entered at most once until it is forgotten.
`TelemetryStore!LedgerSpec` is the refinement mapping.

**AgentSender** (`Runner`, `Sender`, `RetryPolicy`, the agent's `main`). The
agent is at one place of the cycle: waiting for its ticker, collecting,
choosing a replica, in a request, or asleep between passes. `failures` and
`openFor` are the circuits, an open one kept as the time left. The replicas'
`health` changes at any moment, between the choice and the answer too. `streak`
and `quiet` record the real failures, independently of the circuits.

**FencedBackup** (`backup.Runner.Run`, `0018`). `lease` is the `daily_backup`
row on the database's clock. `pc`, `token` and `stamp` are the runs; `staged`,
`partial` and `published` the files, by name. Every step may fail (`Abort`),
which runs the deferred removals, or the process may die (`Crash`), which does
not. `lost` records the runs whose lease another replica took before they had
written and confirmed their archive. One clock, `now`, stands for those of the
database, the hosts and the files. The `returning maintenance_leases...` clause
of `0018:24` names the table although `0018:16` has given it the alias `lease`,
which hides the table's own name in PostgreSQL: as written, every call of
`acquire_maintenance_lease` raises "invalid reference to FROM-clause entry", and
no backup is made at all. No test of the repository runs the function. The
model takes the clause as intended, returning the row's token; everything said
here of backups is said of the code with that repaired.

**Maintenance** (`0009`, `0010`). One time series. A rollup or refresh fixes
`now()` at its start and runs one statement per tier or window, each on what is
committed then; `Store` may come between. A rollup row is the set of samples it
aggregates.

**ConsoleSession** (`oauth.ts`, `sdk.ts`, `context.ts`, `db.ts`, client
`const.ts`, `main.tsx`, `useAuth.ts`). The tabs of one browser share `session`
and `state`, the two cookies; `rows` is the users table and `up` says which of
database, identity provider and network answer. A login is the portal, the
callback (check of the nonce, exchange of the code, user row, token), and its
answer; every request carries the cookies of the moment it was sent.
`deployment` covers a server without database and one over plain http, where
the `__Host-` cookie cannot be set. A preview frame (`Framed`) may be given a
token through `sessionStorage` (`MirrorSession`), which is the one way in
without a login of this browser. A request that is admitted carries the role it
acts in; the provider can fail, name no account, or, for a scheduled task, no
task.

**Console** (`router.ts`, `fixtures.ts`, the pages). `interval`, `acked`,
`rule`, `approved` and `audits` are the server's memory. A tab is on a page with its cached
answer, its drafts and at most one request for reading and one for changing
under way. A handler is one step; sending, handling and the arrival of an answer
are three. A host's page may name a host that does not exist, which the server
answers with NOT_FOUND. What a form was filled in from has a date (`base`);
the interval field of the operations page starts at a constant, and has none.
Tabs are modelled in full; whoever else makes changes, of every kind, is
`OtherOperator`. `buildFleetSnapshot` keeps of its constant data what the
procedures look at: which hosts and alerts there are and the endpoints offered.

**ConsoleShell** (`App.tsx`, `DashboardLayout.tsx`, `sidebar.tsx`,
`ErrorBoundary.tsx`, filters of the pages). `path` is the address, `previous`
the neighbouring entry of the history, `loaded` the chunks that have arrived; the
mounted page brings its layout, its filters and, on narrow windows, its sheet.
While a chunk loads React keeps the old page mounted but hidden; whether that
page still takes a state update is left open. A first `me` query that failed
leaves the tab signed out, and loading again with the next page.

**Composition** (`useComposition.ts`, `dialog.tsx`, `input.tsx`,
`textarea.tsx`, `AIChatBox.tsx`, `ComponentShowcase.tsx`). A tick is 50 ms, and
timers of zero run before the next tick. `safari` selects the order in which
the browser reports the end of a composition and the key that ends it. The showcase is not
routed in `App.tsx`, but `Input` is used by the operations and rules pages.

**DebugCollector** (`debug-collector.js`, `vite.config.ts`). Buffers, reports
under way and files. An entry is its number; a huge one exceeds what trimming
keeps. The plugin writes file by file and can fail in between; the answer can
be lost; leaving the page sends a beacon.

**ForgeClients** (`llm.ts`, `imageGeneration.ts`, `voiceTranscription.ts`,
`heartbeat.ts`, `notification.ts`, `dataApi.ts`, `map.ts`, `storageProxy.ts`,
`systemRouter.ts`, `storage.ts`). A helper is a sequence of requests, each carried out or
rejected upstream, its answer arriving or lost; `fetchWithBackoff` is the only
one that tries again. An answer outside 2xx means that the service did not
act; one that acts and then answers 5xx is not told apart from one whose answer
is lost. What `llm.ts` does to messages, tools and formats is kept as far as it
decides whether a call throws before it sends. Of these helpers only the storage proxy and
`notifyOwner` have callers in the repository.

## 4. Runs

| Run | Bounds | Shows |
|---|---|---|
| `sequence_service` | one process, 3 boots, numbers to 3 | numbers strictly increase in a boot; only a power loss makes the file unreadable |
| `store_safety` | 2 requests, 2 envelopes, 4 rows in opposite order, clock to 3, retention of one tick | one ledger, one table per key, best and not future evidence, acknowledged means held; every request ends |
| `sender_cycles` | 2 replicas, threshold and attempts 2 | exact circuits, justified failover, final denial; settles on the first healthy replica, cycles end, stops when told |
| `backup_fencing` | 2 workers of one replica, 1 of another, leases that expire at the next tick, 1 crash, clock to 3 | fencing, also when the lease comes back, single owner of names, clean-up, the last archive survives |
| `backup_truncated` (violation) | clock to 2 | an incomplete archive is published |
| `maintenance_jobs` | 2 tiers, 2 windows, 2 samples, clock to 4, jobs of up to one tick | rows of their buckets, recent rows complete, tiers and marks nested |
| `console_session` | 2 tabs, one of them a preview frame; owner, a nameless person, a scheduled task | who gets in comes by this browser's logins or a mirrored session, has a name and acts in the stored role; the latest login stands, live sessions are recognised, a sign-out reaches every tab in view that polls |
| `console` | 1 tab and other operators, 1 edit per visit, 2 changes, 1 restart | the audit trail explains the state, viewers change nothing, a confirmed change is shown, nothing is undone unseen but by the field that starts at 5, a page in view that polls converges |
| `console_shell` | 2 hosts, 2 alerts, 1 search text, 2 tabs, 2 address changes from any page | links keep live and preview apart, the sidebar and the root class follow the mounted page, hidden rows can be brought back |
| `composition` | 3 messages, an answer after 1.5 s | a confirming Enter does nothing else, Escape keeps the dialog but for the overtaking timer, flags wear off, no message is lost |
| `debug_collector` | 3 entries, 2 reports at once, buffers of 2 | nothing vanishes unaccounted for, duplicates only after a lost answer, order but for overlaps, trimming keeps the newest, a quiet page falls silent |
| `forge_clients` | 2 calls of any helpers, 4 retries | all attempts are used, delays in range, honest outcomes, stored objects stay |

Five more configurations, which are not runs of `PROJECT.json`, reproduce what
Findings says beside `backup_truncated`; each checks one property, and TLC
reports it violated within seconds:

    tlc -config sequence_shared.cfg MCSequenceStore
    tlc -config sender_preferred.cfg MCAgentSender
    tlc -config backup_stale.cfg MCFencedBackup
    tlc -config maintenance_repeat.cfg MCMaintenance
    tlc -config composition_escape.cfg MCComposition

A property of a run may be the conjunction of named parts, which its module
defines and comments one by one: `RowsAreExact`, `SessionsAreEarned`,
`TrailIsComplete`, `EntriesAccountedFor`, `OldestGoFirst`,
`CallersAreToldTheTruth`, `RetriesInBounds`, `FrameFitsPage`, `MovesLeadThere`,
`EntryKeepsItsState`, `ComposingKeysAreInert`. The type invariants of
`Maintenance` and of the console's modules are parts of these; those of the
other four are left to their proofs.

Why the bounds are enough: two requests are the least that contend for a key or
a row, and a cycle of lock waits needs two; a replica sequence needs two
members to fail over and back, and the configuration has exactly two; as many
failures as attempts let a circuit open within a cycle and across cycles (the
code's defaults are three of each). Fencing needs two replicas, and a second
worker of one of them to bring the lease back and to collide with its sibling;
three ticks let archives age, and a lease that is over at the next tick (`Ttl = 0`)
go to the other replica and back. Two samples can lie on both
sides of a horizon, of a bucket edge, or of a statement. The proofs remove the
bounds where there are any.

For the console: two tabs are the least whose logins cross, and a tab's own
history of logins is not bounded. A change undone by another needs two changes, and a
restart matters once (what follows it is a fresh server). One edit fills a field in or begins a draft; several
are left to the proofs. Two address changes reach any page from any page by way of any
other, and Back after a move. Three entries with buffers of two fill a buffer
while a report is put back; two reports at once are the least that overlap. Two
calls of the Forge helpers are the least that share a key. Jitter is taken at the ends
of its range, and the random suffix of a key is assumed unique.

`CHECK_DEADLOCK FALSE` stands where a bounded clock or number ends the
behaviour, or where the system may rest (a page that was left, all calls
ended); the agent, the store, the console's frame and text entry are checked
for deadlock.

### Fairness

- `TelemetryStore!FairSpec`: a handler's steps run (weak fairness); a lock that
  is free again and again is granted (strong fairness: PostgreSQL queues
  waiters); the deadlock detector acts. No fairness on failures or on clients.
- `AgentSender!FairSpec`: the process runs, the HTTP client answers within its
  15 seconds, time and the ticker go on; collection does not fail for ever
  (without it no envelope need be sent at all); `select` picks among ready
  branches at random, so that `Stop` is not passed over for ever (strong).
- `ConsoleSession!FairSpec`, `Console!FairSpec`: requests end one way or the
  other. None on people, services or restarts. That a page polls is a premise of
  the two liveness properties (`WF_vars(Poll(t))`, on the left of the
  implication), because a tab in the background does not poll and the list of
  alert rules is never polled (`AlertRulesPage.tsx:25-26`).
- `DebugCollector!FairSpec`: the interval fires and a report is answered or fails.

`ForgeClients`, `ConsoleShell` and `Composition` are checked for safety only; that
a chunk comes or fails is the browser's affair, and nothing is claimed of it.

### Findings

Two code bugs and four statements of the documents that do not hold, each shown
violated by a configuration of its name:

- `backup_truncated` (`PublishedIsWhole`): the errors of the deferred `Close`
  calls of the archive are dropped, so that a truncated archive is published
  (`snapshot.go:142-146`).
- `composition_escape` (`ComposingEscapeNeverCloses`): the 100 ms timer of
  `input.tsx:45` is not cancelled, so that in Safari the reset due to one
  composition can hit the next, whose Escape closes the dialog, against
  `dialog.tsx:109`.
- `sequence_shared` (`NumberIsFresh`): two processes and one boot. An operator's
  `--once` run beside the service hands out a number the service hands out too
  (`state_linux.go:57`), against `release-1-proposal.md:126`.
- `sender_preferred` (`PreferredTestedEachCycle`): a cooldown longer than a
  cycle. An open circuit lets a cycle pass without a test of the preferred
  replica (`sender.go:118`), against `sender.go:108` and
  `manual-install-framework-asus-v2.md:306`, which also asks for the circuit.
- `backup_stale` (`OnlyHolderPublishes`): the workers of `backup_fencing`. A
  worker held up between its last look at the lease and the rename publishes
  after another replica took the lease (`snapshot.go:118`), against
  `critique-response.md:68`.
- `maintenance_repeat` (`RepeatKeepsRows`): the constants of
  `maintenance_jobs`. A rollup overwrites the row of a bucket that straddles its
  horizon with a part of it (`0010_...:52`), against
  `release-1-work-plan.md:167`.

A re-acquisition of the lease by its holder keeps the token, where
`critique-response.md:66` says "Each acquisition increments a fencing token".
It is harmless for fencing between replicas (`TokensAreFencing`), and the
exclusive staging directory keeps siblings apart (`RunsDoNotShareFiles`).

What the console's models show beside their properties, which are stated so as
to allow it:

- Sessions: a person without a name is signed in and refused at once, so that
  every page starts the login again; the state cookie is cleared when an answer
  arrives, which may be that of a newer login of another tab; `me` answered
  with null during an outage leaves the sign-in page up although the session works.
- Pages: drafts of rules and the interval field never follow the server, so
  that saving undoes what others changed; the interval field starts at 5
  whatever the server says (`OperationsPage.tsx:17`), so that applying it
  untouched overwrites even a value the page shows; every runtime endpoint the snapshot
  offers is refused by `validateRuntimeApprovalEndpoint`, and its `::1` never
  matches the `[::1]` a URL has; the rules are not polled; an
  unknown host loads for ever; after an acknowledgement the button stays until
  the next reading, so that the audit trail can hold it twice; the switch for the storage baseline
  serves all hosts and is not reset.
- Frame: the sidebar's cookie is written and never read
  (`sidebar.tsx:84`), and every page has its own provider, so that each move
  opens the sidebar again; in production the preview pages ask for a sign-in
  and then load for ever; a tap on the item of the current page leaves the
  mobile sheet open.
- Collector: the unload beacon is text, which the JSON parser of the server
  skips, so that it writes nothing; a 400 counts as delivered
  (`debug-collector.js:745`); a newest line larger than the target empties the
  file (`vite.config.ts:75`).
- Forge: client errors are retried like others; a `Retry-After` beyond 30 s is
  cut; a lost answer lets a completion be paid twice, an object stay without a
  name, a notification count as failed though sent; silent audio is reported
  as a service error; deleting a job is called idempotent
  (`heartbeat.ts:185`) and fails once the job is gone.

## 5. Proofs

All are for arbitrary constants that satisfy the modules' named assumptions,
and every invariant and action property of a passing run is the statement of a
theorem.

Three proof modules serve two components each, which they extend together. One
component of each pair therefore has names of its own for its specification:
`StoreSpec`, `ForgeSpec` and `ShellSpec` where others have `Spec`, likewise
for the initial states, the next-state relation and the variables.

- **AgentProofs**, the sequence store: `TypeCorrect`; `SequenceNeverReused` and
  `FileStaysReadable` for one process on the directory. The invariant relates
  the file, the temporary and the memory: whatever a restart may load is not
  below what was issued in this boot.
  The sender: `SenderTypeCorrect`, `BreakerIsExact`,
  `FailoverIsJustified`, `DenialStaysFinal`. `SenderInv` adds that the count of
  a circuit is the streak of real failures and that a pass has left only failed
  replicas behind.
- **TelemetryStoreProofs**: `StoreTypeCorrect`; `KeyInOneTable` from `LockInv`
  (the key lock is exclusive, and a request that writes a key has seen it in
  neither table); `ReplicasImplementLedger`, the refinement, from the same
  invariant; `LatestNotInFuture` from `TimeInv`; `LatestStateIsBest` from
  `BestInv`, which carries the row locks through the drafts: what a transaction
  has drafted for a row still covers the committed row when it commits;
  `AcknowledgedStaysHeld` from the same locks and what a request knows of its
  key at each place of the handler.
- **FencedBackupProofs**: the type invariant and all five properties of `backup_fencing`. `TokenInv`:
  no token exceeds the lease's, the lease's token is its holder's, and a
  displaced run is strictly below it, so it fails the comparison even when its
  own replica holds the lease again. `FileInv`: a run at work has its staging
  directory, partial archives only exist under staging directories that exist,
  and so names are exclusive. `AgeInv`: a run that prunes has published an
  archive no older than its own start, or a younger one has taken its place.
- **MaintenanceProofs**: `RowsStayExact`, `TiersStayNested`, `MarksStayNested`.
  The invariant says of a job under way what its finished statements have
  written and what the rest will find. Its core is a race of clocks: what a job
  looks at was received less than the raw retention before the job can end, so
  that no prune in between removes it (`InHorizonKept`, `InWindowKept`; the
  assumption that the raw retention exceeds horizon, windows, tolerated skew and
  the length of a job is named in `MaintenanceAssumption`).
  Tiers are nested because `date_bin` of a bin is the bin of its samples
  (`BinOfBin`, `BinNested`), marks because each is witnessed by a sample that
  the longer window sees too.
- **ConsoleServerProofs**, sessions: `SessionsStayEarned`, `LatestLoginIsHeard`,
  `LiveSessionsAreRecognised`, for any tabs, people and number of logins. The
  invariant has a part shared by the tabs (where the `Secure` cookie can be set,
  the state cookie is that of the latest login until something is answered; rows
  hold the roles they should) and one per tab: a request is one the tab can have
  sent, its token, if any, is of a login of this browser or mirrored into this
  frame, and the role it was admitted in is the stored one. That a new nonce
  is new is the pigeonhole principle on the ones in use.
  Forge clients: `TruthIsTold` and `RetriesStayInBounds` from `ForgeInv`. Each
  call fits its record on its own, so that a step of one caller leaves the others'
  parts alone: what was carried out and what the call saw differ only after
  a lost answer (`DoneFits`), the requests sent are the attempts made
  (`SentFits`), and nothing is sent without a configuration (`AllowedFits`). The only
  shared state is the store; keys carry the number of their call
  (`StoreFits`), so that no upload replaces another's object. The delays need
  no more of `2^attempt` than that it is the same number in the floor and in the
  cap of `computeBackoffDelay`; the floor therefore stops doubling where the cap does.
- **ConsoleProofs**: `ChangesToldAreShown`, `TrailStaysComplete`,
  `OnlyUnseenChangesAreUndone`, with its exception for the field that starts
  at 5. The three share the notion of a dated copy:
  what a page, a fetch, a draft or a mutation under way holds of a setting is
  the server's value, or the setting was written after the copy's date
  (`Current`). Changes and restarts only lead to a `Later` world, in which every
  such statement still holds (`TabLater`), so that each step of a tab can be
  considered alone. The trail is followed entry by entry (`EntriesAfter`); that
  a page has data before it sends what makes it read again is why `refetch()`
  always gives up the older poll.
- **ConsolePageProofs**, text entry: `EntryStateIsKept` and `EndingKeysAreInert`, an action
  property, which leaves out the Escape that an older timer has overtaken (`composition_escape.cfg`). While a composition is under way its field's flag is set and none of
  its timers runs; at most one answer is under way, made for the messages there
  are, so that questions and answers alternate.
  The frame: `FrameAlwaysFits` and the action property `MovesAlwaysLeadThere`
  from `FrameInv`. The page that is mounted may lag behind the address while a chunk
  loads; the invariant says when it may not: with the chunk there and no crash,
  what is mounted is the router's component and the sidebar is there exactly
  when the layout says so (`MountedFitsAddress`). A mounted layout has set the
  dark class, and the state a page keeps has the shape of the page that is
  mounted, not of the address.
- **DebugCollectorProofs**: `EntriesAlwaysAccountedFor` and
  `OldestAlwaysGoFirst` from `CollectorInv`. Where an entry is decides what may
  happen to it: the buffer and the reports under way share none, and one that is in a file
  and still to be sent was doubted (`Apart`), so that handling a report writes
  nothing twice without cause; a handled report is in the files as far as it
  was not given up (`HandledIsKept`), so that its answer may drop it. Without
  overlapping reports the file precedes the report and the report the buffer
  (`InLine`). Pruning and trimming keep an end of the sequence they are given
  (`PruneKeepsTheEnd`, `TrimKeepsTheEnd`), from which the rest follows: an end
  of an ordered sequence is ordered, and has the same last entry or is empty.
  How many lines trimming keeps is the greatest number that fits; that there
  is one follows from a least element in every set of naturals (`BoundedHasMax`).

Every inductive invariant was checked by TLC on the bounds of its run first.

Only model-checked: liveness (`EveryRequestEnds`, `SettlesOnFirstHealthy`,
`EveryCycleEnds`, `StopsWhenTold`, `SignOutReachesTabs`, `PollingConverges`,
`QuietPageFallsSilent`), which is beyond the prover, and the expected
violations.

## 6. Not modelled

The contents of telemetry, encodings, field validation (one refusal), the
length of the agent's backoffs, the Windows sequence store, SQL privileges,
`last_row_count`. Of the console: the contents of the snapshot, layout and
wording, the component library, the map, the charts and the portal's dialog
(which no page uses), the server's start. A preview page's data are constant.
The collector's own requests pass by its interception, as the code stands. Components not modelled at all
are listed with their reasons in `PROJECT.json`; those of section 2 are next.
