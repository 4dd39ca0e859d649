# Safe Browse: TLA+ models and proofs

Safe Browse filters a child's PC. A parent edits a policy in a web console; a Cloudflare
worker keeps it in D1 (SQLite) and R2; a Windows service on the PC fetches it every minute
and enforces it. This directory holds TLA+ modules of the parts in which several actors,
failures and retries meet, TLC configurations that check them on small instances, and
proofs of the main safety results for every value of the constants. Paths below are
relative to the repository.

`tlc -config X.cfg M` checks a run, `tlapm M.tla` the proofs of a module. `PROJECT.json`
lists the runs, the theorems, the mutants and, definition by definition, the source lines
each one models.

## 1. The system

### Components

| Component | State | Operations | Talks to | Hard because | Correct when |
|---|---|---|---|---|---|
| Policy store: `apps/worker/src/policy.ts`, `routes/parent.ts` | D1 `children`, `policy_categories`, `schedules`, `domain_rules` | PUT policy, reset preset, write schedules and rules, version bump | console writes, `GET /sync` reads | a handler is several statements, others run in between, an invocation may die | equal version numbers mean equal content |
| `GET /sync` and the sync loop: `routes/device.ts`, `SafeBrowse.Service/ProtectionWorker.cs`, `PolicyStore.cs`, `AgentState.cs` | `policy.json`, policy in memory | request, four reads, 304 or document, save, update, restart | policy store, list store | torn snapshots, lost answers, restarts | the agent never goes back, and ends up with the parent's policy |
| Enrollment, cloud: `routes/parent.ts`, `routes/device.ts` | `enrollment_codes`, `devices` | mint, look up, consume, register, revoke, retention | console, enrollment tool | concurrent attempts, dying handlers | a code makes one device, a child has one |
| Enrollment, PC: `SafeBrowse.Enroll/Program.cs`, `CredentialStore.cs` | `device.credential`, `policy.json` | post, rewrite two files, restart the service | the service reads the same files | torn files, failed restarts | the PC enforces its own child's policy and keeps syncing |
| List installation: `ListArtifactStore.cs` | a file per category, `.version` | manifest, download, move, stamp, load | R2, sync | a crash or timeout at each step | the stamp is true, lists never go back, lists never cost the policy |
| Access requests: `NativePipeWorker.cs`, `EventQueue.cs`, `ProtectionWorker.cs`, both route files | agent queue, `access_requests`, `domain_rules` | ask, upload, check, insert, resolve, retention | child, parent | late answers; two check-then-acts | nothing lost to a late answer, decided once, approval takes effect |
| Parent account: `session.ts`, `auth.ts`, `routes/auth.ts` | one `parents` row: PIN, recovery key, authenticator, session | signup, setup, login and rehash, two recoveries, session check with touch and cleanup, logout, TOTP confirmation | console | each is read-then-write on one row | limits hold; ended sessions stay ended; a cleanup ends no other session |
| Event delivery: `EventQueue.cs`, `ProtectionWorker.cs`, `routes/device.ts`, `scheduled.ts` | event queue in memory, `events` | enqueue and trim, peek, upload, remove | sync | remove by count after an await; new key per retry | below the limit nothing is lost but to a restart |
| Heartbeat, offline alert, retention: `scheduled.ts`, `routes/device.ts` | `devices.status`, `last_seen_at` | heartbeat, scan, update, alert | agent, mail | the scan acts on rows it read earlier, and its runs may overlap | each silence is shown; an alert that was set is not raised by a later scan |
| Rate limiting: `rate-limit.ts` | `rate_limits` | check, record failure, clear | auth routes | read-then-write of a counter | best effort, as its own comment says |
| Policy evaluation: `SafeBrowse.Core/PolicyEvaluator.cs`, `AgentState.cs` | none / bypass, recent list | evaluate, arm bypass | DNS proxy, pipe | precedence, midnight | agrees with the documented precedence |
| DNS proxy: `DnsProxy.cs` | sockets | receive loops, forward | evaluator | a loop that ends unnoticed | keeps answering |
| Native pipe, native host, tray | pipe | accept, read, answer | browser, agent | one client at a time | a silent client delays nobody for ever |
| Host hardening: `apps/windows/scripts/configure-protection.ps1`, installers | DNS settings, backup file, registry | install, remove | Windows | repeated installs | remove restores what was there first |
| Dashboard: `apps/dashboard/src/App.tsx`, `api.ts` | stored token, one page: status, panels, form, gate, drawer | check, refresh, sign in, link, lock, open and save a policy, reload | worker | answers come late, to a page that has moved on; nothing is cancelled | shows one session's data; a lock ends it; the form does not hang; settings reach their own child |
| Browser extension | none | one message per navigation | native host | – | – |
| Blocklist compiler: `tools/blocklists` | R2 objects | compile, promote | list store | – | a promoted version is complete |
| Contracts, crypto, TOTP, Turnstile, e-mail, alerts | none | pure or fire-and-forget | all | – | – |

### Interactions

The console and the agent never talk to each other. A parent's request is a worker
invocation that reads and writes D1 in statements of its own; D1 runs one statement, or one
`batch`, at a time, and nothing else is atomic. Any number of invocations run at once, and
one may end between two awaits. The agent polls: `GET /sync` with its version and list
version, then lists, then the upload of events and access requests, then a heartbeat, in one
loop (`RunSync`) whose failures are caught and whose next turn comes a minute later. The
enrollment tool runs beside the service and shares its files; the browser reaches the
service through the native host and one named pipe.

## 2. Modules

| Module | Models | Abstract data |
|---|---|---|
| `PolicySync` | writers of one child's four tables, statement by statement; `GET /sync` read by read; `Save`, `Update`, failures, restarts | settings columns = one `band`; a schedule or rule is a model value |
| `Enrollment` | codes and devices of a household; every statement of `POST /enroll` | an attempt names the device it would create |
| `Linking` | what enrollment promises: the whole of `POST /enroll` in one step | a link is a pair of child and device |
| `AgentEnrollment` | EXTENDS `Enrollment`: PCs with tool, files and service; `GET /sync` by device | a policy is its child and version |
| `Relay` | what bringing documents to a PC promises: publish, save, load; each copy not ahead of its source, none going back | a document is its version |
| `ListSync` | `SyncOnce` around `ListArtifactStore.SyncAsync` | a file is the list version in it |
| `AccessRequests` | agent queue, POST handlers, resolvers, rules | a request is its domain and status |
| `Inbox` | what asking for a site promises, without messages: ask, list, settle, decide | as in `AccessRequests` |
| `EventDelivery` | event queue with its threads, upload loop, handlers of `POST /events`, heartbeat, offline scan | an event is its number, a key the POST it was made for |
| `ParentAuth` | one `parents` row, attempts to establish a session, calls that present one | PIN, key and token are named by the attempt that made them |
| `Account` | what the row promises, with each call as one step: open, use within the limits, close | a session is the attempt that made it |
| `Dashboard` | one browser tab and the one session of its account | a session is its number; a panel is the session it was read with |
| `...Proofs` | theorems about each of these modules | |
| `MC...` | TLC instances: model values, presets, manifests, symmetry | |

How the state corresponds:

- **PolicySync.** `version, band, seeded, enabled, schedules, rules` are the D1 tables of one
  child; `lists` is R2 `lists/latest.json`; `job[h]` is what a console invocation has left to
  do between two of its statements: the `bump` (`incrementPolicy`), or the category rows of
  an age band it has read; one that dies is idle again and its bump lost. `disk` and `mem`
  are `policy.json` and `AgentState`; `sync` is one `SyncOnce` with the snapshot `buildPolicy`
  has read so far and the tables `missing` from it. `unbumped` is the set of tables
  written since the last bump: for these, and only these, an equal version number says
  nothing.
- **Enrollment.** `codes` and `devices` are the tables; `attempt[a].pc` walks the five
  statements of the handler; `EnrollDies` is an invocation that dies between two of
  them; a lost answer is one that is never read.
- **Linking.** `linked` are the active devices with their children, `spent` the codes that
  made a device, `past` all devices ever made. `Enrollment!Links` is the mapping:
  `EnrollRegister` is the `Link` (it revokes the former device and inserts the new one in one
  batch), `Revoke` the `Unlink`, and every other statement a stutter.
- **AgentEnrollment.** `cred[p]` and `file[p]` are the two files (`Torn` between truncation
  and write), `tool[p]` the program counter of `Enroller.EnrollAsync`, `sync[p]` that of the
  service, `loop[p]` whether `RunSync` is still in its `do-while`. `SyncSave` joins `Save`
  and `Update`, which `PolicySync` keeps apart, with the lists that may fail to load between
  them; both carry the policy of the same exchange, and no property here compares the
  two versions.
- **ListSync.** `file`, `stamp`, `disk` survive a restart, `loaded`, `mem`, `sync` do not.
- **Relay.** Two modules implement it. `PolicySync!Relayed` carries two items, policy version
  and list version: `source` is the database and R2, `stored` is `policy.json`, `loaded` is
  `AgentState`; `SavePolicy` is the `Save`, `UpdateState` and `Restart` are `Load`s, every
  write that moves a version is a `Publish`. `ListSync!Relayed` carries the list of each
  category: R2, the files, the lists in memory; `InstallFile` is the `Save`.
- **AccessRequests.** `waiting` is the POST the upload loop awaits; a POST that timed out at
  the agent stays in `post` and runs on in the worker.
- **Inbox.** `asked` is the agent's queue, `list` the table, `rule` and `revision` rules and
  version. `noted` is true while the answer of the POST awaited is under way
  (`Acknowledged`), so `PostInsert` is a `List` that may be noted, `PostCheck` of a duplicate
  a `Note`, `Answer` a `Settle`, `UploadTimesOut` a `Doubt`, a restart a `Lose`. `Copies` is the
  number of POSTs that may overlap.
- **EventDelivery.** The `ConcurrentQueue` holds the events `first..last`; `adder[a]` is a
  thread between the enqueue, the count and the dequeue of `Add`. `loop` is `UploadEvents`:
  what it sent and the POST it awaits, none after a timeout, while the handler in `post`
  runs on. `keys` and `stored` are `idempotency_keys` and `events`. `silence` is the age of
  `last_seen_at`; `scans` counts the runs of the cron that are between SELECT and UPDATE, of
  which nothing in `runScheduled` excludes a second. `taken`, `trimmed` (since the service
  started) and `alerts` (since the last heartbeat) are history.
- **ParentAuth.** `attempt` and `request` are invocations between two statements; `use` is a
  history variable, the last time a session was accepted.
- **Account.** `session` and `key` are those of the row (`None` without a row), `used` is
  `use`, `minted` the time an attempt took for its session. The row's own `lastUsedAt` and
  `expiresAt` are not in it: that they never admit a call which true times would not is what
  the refinement says.
- **Dashboard.** `token` is `localStorage`; `status`, `shown` and `panels` the state of
  `App`; `gate`, `form` and `drawer` that of the components below it, which lose it when
  they leave the screen (`Render`). A `call` is a `checkAuth`, a `refresh` or a change in
  flight, with the token it was sent with and the part of the page that awaits it (the drawer
  awaits the PUT of its policy); `farewell` are logout requests under way. The worker's side is the row of the account: `row` and `live`.
  `ParentAuth` looks at the same row statement by statement; here one call is one step of
  the worker, and what matters is when its answer meets the page.

Two decisions run through all modules. A statement or a `batch` of D1 is one step and nothing
larger is (but for `Dashboard`, see above). And a refusal that changes nothing (rate limit,
Turnstile, wrong PIN, malformed body) is no action at all: it is the request that was not made.

## 3. Runs

| Run | Question | Bounds |
|---|---|---|
| `policy_sync` | `SyncInv`, `CurrentVersionIsCurrentContent`, `ThreatsStayOn`: is what the agent holds ever ahead of the database, different at an equal version, or without threats? | two handlers, two age bands, two categories, one domain with expiring rules, versions to 2 |
| `policy_sync_live` | `EventuallyInSync`; `ImplementsRelay`: does a copy ever go back or get ahead of its source? | one handler, one schedule, one list publication |
| `enrollment` | `OneActiveDevice`, `CodeUsedOnce`, `ClaimInv`, `RevokedForGood`, `ImplementsLinking` of the cloud; `OnePCPerChild`, `LinkedOnceEnforcesOwnChild` of the whole | two PCs, two children, two codes, two attempts, expiry after 1 of 2 clock units |
| `agent_wrong_child` (violation) | `NotModifiedMeansUnchanged` | one PC moved between two children |
| `agent_sync_loop` (violation) | `SyncLoopSurvives` | the same |
| `list_sync` | `StampIsTrue`, `StampInv`, `ImplementsRelay`, `PolicyReachesAgent` | three list versions; the second adds a category, the third drops one |
| `list_sync_timeouts` (violation) | `PolicyReachesAgent` when every download may time out | one list version |
| `access_requests` | `PendingBounded`, `DecidedOnce`, `ApprovalTakesEffect`, `ImplementsInbox` | two domains, two overlapping POSTs, two resolvers |
| `access_requests_race` (violation) | `DenialLeavesRuleAlone` | one request, two resolvers |
| `parent_auth` | `SessionInv`, `AcceptedInTime`, `ClearedByItsHolder`, `ImplementsAccount` | two attempts, two calls, idle limit 2, absolute limit 3, touch after 1, clock to 4 |
| `event_delivery` | `OverflowCost`, `QueueBounded`, `AlertsBounded`, `SilenceShown` | two adding threads, two handlers, three events of which one is refused, a queue of two, batches of two, alert after one clock unit, two overlapping scans |
| `dashboard` | `ConsoleIsServed`, `LockEndsSession`, `BusyFormIsAwaited`, `SavesOwnPolicy` | two panels, two calls (checks, refreshes, changes) in flight, two sessions, two children |

Each passing run also checks the type invariant of its module. The largest are
`event_delivery` (2.3 million distinct states), `enrollment` (1.8), `policy_sync` (1.6) and
`dashboard` (1.4); each takes less than five minutes with two workers.

Why the bounds are enough: every hazard the properties are about needs two actors of one
kind (two handlers, attempts, POSTs, resolvers, threads, scans, calls, sessions) and at most two
changes of a version; each instance has them, plus a third where an order among three is
possible (list versions, events). A queue of two with batches of two and three events is the
smallest in which a trim can hit a batch under way, so that the `Remove` that follows reaches
past it. `ParentAuth`'s clock passes both limits, and the idle limit is shorter than
the absolute one, so a session can be refreshed past the first and meet the second. Two calls
in flight let one answer overtake another in `Dashboard`; two panels make a refresh that is
half served. For all safety properties the theorems of section 5 remove the bounds; a clock or
version bound is a guard of the model (`MaxTime`, `MaxVersion`, `MaxPolicy`, `MaxLists`,
`MaxAsks`, `MaxRequests`, `MaxEvents`, `MaxSessions`), a real counter is not bounded.

Deadlock is checked in all runs: the agent can always start a sync, the tool can always be
started again, a rule can always expire or a request be asked; `ParentAuth` always allows a
logout, the upload loop always turns, the page can always be reloaded.

Every property is also checked against a mutant: an operator that follows the marker
`Mutant of` in the module and changes one definition the way a plausible mistake would (a
dropped condition, a swapped order, an UPDATE that matches by id instead of by token). With
the mutant in place TLC finds the property violated. The list is in `PROJECT.json`.

## 4. Fairness

Four runs need it. Of the sync it is strong fairness of single steps:
`RunSync` waits for a timer and calls `SyncOnce` again whatever the last one did
(`ProtectionWorker.cs:25-29`), so a sync is attempted infinitely often; each step of it may
fail (`SyncFails`, `Restart`, `ListFault`), and strong fairness says only that it does not fail
every time. Nothing is assumed of parents, of the list publisher or of a clock. In `PolicySync`
changes are bounded by `MaxVersion`, and the property says that device and database agree for
good *after the last change*, except for changes whose handler died before its bump.

`ListSync` has two specifications. `FairSpec` assumes that downloads *end* infinitely often,
in a file, a fault or a timeout; `SpecInTime` that they end infinitely often in a file or a
fault. `PolicyReachesAgent` holds of the second and not of the first, which is
the finding of `list_sync_timeouts`.

`EventDelivery` assumes of the cron only that its scan runs again and again
(`wrangler.jsonc:41`: every five minutes; weak fairness of `ScanSelect`) and that not every
run of it dies between SELECT and UPDATE (strong fairness of `ScanUpdate`). Heartbeats,
uploads and the clock are under no assumption: a PC may be silent for ever, which is the case
`SilenceShown` is about.

## 5. Proofs

Every invariant, action property and refinement of the passing runs is a theorem. The theorems hold
for any number of handlers, attempts, codes, children, PCs, categories, list versions,
requests, threads, scans, events, sessions and calls, and any limits.

| Module | Theorems | Inductive invariant |
|---|---|---|
| `PolicySyncProofs` | `TypeCorrect`, `SyncInvariant`, `VersionDeterminesContent`, `DeviceNeverOlder`, `ThreatsCannotBeSwitchedOff`, `SyncRelays`, `OnlyDeathsHideChanges` | `SyncInv`: each copy (memory, disk, answer, partial snapshot) is not ahead of the database and agrees, at an equal version, on every table read so far that is not `unbumped`. `ThreatInv`: a category set, wherever it is on its way, has threats if it has anything. `RelayInv`: the list versions of answer, disk and memory are ordered as `SyncInv` orders the policy versions. `BumpInv`: a table that is `unbumped` has a handler about to bump |
| `EnrollmentProofs` | `TypeCorrect`, `AtMostOneActiveDevice`, `OneClaimPerCode`, `CodeMakesOneDevice`, `RevocationIsFinal`, `EnrollmentLinks` | `ClaimInv`: an attempt past the conditional UPDATE claims its code; a claimed code is closed and claimed once |
| `AgentEnrollmentProofs` | `CloudUnderPCs`, `AgentTypeCorrect`, `OnePCKeepsTheChild`, `OwnChildEnforced`, `CloudKeptUnderPCs`, `OnlyMovedPCsMisled` | `AgentInv`: the invariants of the cloud; `HoldInv`: a device id that a tool, file or sync of a PC holds is of an attempt this PC made; `OwnInv`: a policy anywhere on a PC is of a child this PC was linked to |
| `ListSyncProofs` | `TypeCorrect`, `StampInvariant`, `StampTellsTheTruth`, `ListsOnlyAdvance`, `ListsRelay`, `OnlyMissedInstallsLag` | `ListInv`: `StampInv`, and memory is not ahead of the files. `ProvidedInv`: a policy about to be saved, and the one on disk, have their lists among the files |
| `AccessRequestsProofs` | `TypeCorrect`, `AwaitedAnswersHead`, `PendingStaysBounded`, `DecisionsStand`, `ApprovalsCount`, `MessagesMakeInbox`, `OnlyRacesOverruleDenials` | `QueueInv`: the types, and the request awaited is the head of the queue. `PendingBounded` counts the rows and the handlers about to insert together, so an insert only moves one from the second to the first. `ReadInv`: what a resolver has read as pending is not decided |
| `EventDeliveryProofs` | `TypeCorrect`, `QueueStaysBounded`, `OnlyOverflowCosts`, `AlertsStayBounded`, `OnlyOverlapsRepeatAlerts`, `UnfilledQueueLosesNothing`, `ScanPassesOnlyShown` | `DeliveryInv`: an accepted post has its key recorded; of the batch awaited, where it began, and that events lost outside it together with those trimmed from it do not exceed `trimmed`. `AlertInv`: alerts raised and scans under way together do not exceed `Overlap`, and without `offline_alerted_at` there was no alert yet. `AloneInv`: a scan that has no other beside it has no alert of this silence behind it. `NoTrimInv`: nothing was trimmed and no thread is about to |
| `ParentAuthProofs` | `TypeCorrect`, `SessionInvariant`, `AcceptedWithinLimits`, `HolderEndsSession`, `EndedSessionsStayEnded`, `HandlersKeepAccount` | `SessionInv`: a stored session carries the absolute limit of its mint; a stored or pending idle time is not ahead of the last use |
| `DashboardProofs` | `TypeCorrect`, `LockIsFinal`, `ServedConsole`, `BusyFormHasCall`, `OwnPolicySaved` | `LoadsServed`: a refresh that was served anything and refused nothing was served with a minted session of a linked account. `ChangesOwn`: no sign-in waits for a change. `OneDrawer`: as long as no openings overlapped, a policy arrives only where no drawer is |

They rest on the named assumptions of the modules: presets contain the threats category,
bounds and limits are natural numbers, marker values (`NoPolicy`, `NoRow`, `Torn`, ...) are no
ordinary values, and where sets are counted they are finite: the invocations of the POST of
access requests (`Posts`) and the threads that add events (`Adders`).

The invariants are needed because the properties are not inductive:
`CurrentVersionIsCurrentContent` speaks of the agent's copy only, but the copy comes from
a snapshot read in four statements while writers go on, so the invariant follows the
snapshot table by table; `CodeUsedOnce` speaks of devices, but the decision falls two statements
earlier; a stamp that names the version asked for tells the truth only because no file is
ever ahead of what was published; a session's limit is met later than it is set, by
requests that read the row before a touch still on its way; the events `Remove` takes beyond
its batch are as many as `Add` took out of it before, which only an invariant about the batch
under way can say; a console is filled by the last of three answers, and what it then shows
was decided by the first.

**Refinements.** Six are proved, and all but `CloudUnderPCs` are checked by TLC as well.

- `EnrollmentLinks` proves `Spec => Links!LinkSpec`, from `ClaimInv` (the code of a device about
  to be registered is not spent) and `OneActiveDevice` (a revocation removes the one link of
  its child). `CloudUnderPCs` proves `AgentSpec => Spec`: tools and services act on the cloud
  only through the actions of `Enrollment`, so its theorems carry over to the composition
  (`CloudKeptUnderPCs`), and the proofs about PCs start from them.
- `SyncRelays` and `ListsRelay`: both halves of a sync implement `Relay`. A `Save` may not be
  ahead of what is published nor behind what is stored; the answer saved was built some
  statements ago, so both follow from invariants about the snapshot and the manifest under way.
- `MessagesMakeInbox`: the messages of the access requests implement `Inbox`. That a question
  settles only after it was noted needs `QueueInv`; that there is room on the list for an
  insert needs `PendingBounded`, with the inserting POST counted among those that may overlap.
- `HandlersKeepAccount`: the handlers of the worker implement `Account`. Its guards speak of the
  times a session was really minted and last used, the code's of columns written late or, within
  `SESSION_TOUCH_AFTER_MS`, not at all; `SessionInv` says which way the two differ.

`NeverOlder`, `ListsNeverOlder`, `EndedForGood` and `AwaitedIsHead` are proved on their own
(`DeviceNeverOlder`, `ListsOnlyAdvance`, `EndedSessionsStayEnded`, `AwaitedAnswersHead`); the
runs check the refinements in their place, whose steps leave no room for what these exclude.

**What exactly goes wrong.** Six theorems have a hypothesis about behaviours beyond the
specification. Each names the one thing that is needed for an outcome of section 6, and says that
without it the outcome cannot happen: the hypothesis holds of ordinary behaviours, and without it
TLC finds the conclusion violated, so it is needed.

| Theorem | As long as | Then |
|---|---|---|
| `OnlyDeathsHideChanges` | no handler dies between its write and its bump | an agent with the current version has the current policy in every table, once no bump is outstanding |
| `OnlyMissedInstallsLag` | no sync goes on to save a policy without having stamped its lists | the lists in memory are those the policy names, or newer |
| `OnlyMovedPCsMisled` | a PC's links are all to one child | 304 means that it holds this child's policy |
| `OnlyRacesOverruleDenials` | no two resolvers hold one request between read and batch | a denied request leaves the rule of its domain alone |
| `UnfilledQueueLosesNothing` | the event queue never exceeds its limit | every event that leaves it while the service runs is stored |
| `OnlyOverlapsRepeatAlerts` | no two scans of the cron are under way at once | one silence raises one alert |

The argument of each theorem is the same: the initial state satisfies the invariant, each
action preserves it (one step per action), it implies the property, and the temporal step
combines the three.

What only TLC checks: the liveness properties `EventuallyInSync`, `PolicyReachesAgent` and
`SilenceShown` (liveness under fairness is beyond the prover). The safety half of the last one is
proved: `ScanPassesOnlyShown` says that a device the scan passes over because it has alerted about
it is one the dashboard shows as offline, whatever heartbeat came between SELECT and UPDATE.

## 6. Disagreements found

1. **A PC moved to another child may keep the former policy** (`agent_wrong_child`).
   `GET /sync` compares version numbers only (`routes/device.ts:85`), they are per child and
   start at the same value. If the tool's restart of the service fails, the service asks with
   the former child's version and, when the counters coincide, hears 304.
   `docs/architecture.md:59` promises 304 only if the policy has not changed. A move is necessary
   for it (`OnlyMovedPCsMisled`).
2. **A half-written credential ends the sync loop** (`agent_sync_loop`). `credentials.Read()`
   (`ProtectionWorker.cs:33`) stands before the `try` that lines 71-72 call the backstop.
3. **A slow list host stops policy updates** (`list_sync_timeouts`). The filter of
   `ProtectionWorker.cs:50` lets the client's own timeout through as a cancellation, so the
   policy is not saved, though line 52 says blocklist problems must never cost the device.
4. **A denied request can leave its domain allowed** (`access_requests_race`). The approval's
   batch updates the request conditionally and writes the rule unconditionally
   (`routes/parent.ts:215`). It takes two decisions that overlap (`OnlyRacesOverruleDenials`).

Behaviours the models have that no document judges, and that therefore no run does:

- *Lists.* A fault in the middle of an installation leaves files of two list versions
  (`ListArtifactStore.cs:32`); after a failed installation the saved policy names a list version
  that is not there, and 304 answers keep it so (nothing else has this effect:
  `OnlyMissedInstallsLag`); a category dropped from the manifest keeps its
  file.
- *Requests.* A temporary approval replaces a permanent rule and takes it along when it expires.
- *Account.* A login's rehash can write back a PIN that a recovery has just replaced
  (`routes/auth.ts:609`); two signups on a row without a PIN (provisioned through Access)
  both succeed; two uses of one recovery key may both succeed and the key handed to the first
  is then dead.
- *Events.* After a trim of a batch under way, `Remove` takes events that were never sent, as
  many as the trim had dropped of those that were (`EventQueue.cs:14-16`): `OverflowCost` says
  it costs no more than that. A batch the schema refuses stays at the head and is posted
  again every minute until the overflow has dropped it.
- *Policy.* When a PUT that changes the age band falls between the two statements of a
  reset, the categories are those of the former band (`routes/parent.ts:103`); a child whose
  `POST /children` died before its categories were seeded has none, and a reset gives it none
  (`routes/parent.ts:53`). `ThreatsStayOn` speaks of seeded children, whatever their band.
- *Alerts.* The UPDATE of the scan guards the row, but the mail goes out whatever it changed
  (`scheduled.ts:29-31`): two scans that both selected a PC before the first UPDATE mail one
  silence twice, and no more of them than overlap (`AlertsBounded`). A heartbeat between SELECT
  and UPDATE leaves a PC that is back shown as offline, with an alert, until its next heartbeat
  (`scheduled.ts:28`).
- *Dashboard.* A refresh answered after "Lock console" shows the console again, with the data
  read before the lock (`App.tsx:61`); `checkAuth` drops whichever token is stored when it comes
  back (`App.tsx:44`); a console whose session has ended stays until a refresh is refused as
  unauthorized; a paper-key recovery of an account with an authenticator ends at a screen whose
  one button is refused (`App.tsx:348`); two policies opened at once can send the settings of
  one child to the other, and the answer to a save closes the drawer that is open by then, with
  the edits in it, whichever child's it is (`App.tsx:143`).

## 7. Not modelled

- Audit rows, e-mails and security alerts: written and never read back into a decision.
- Rate limits: they only refuse (see section 2), and call themselves best effort
  (`rate-limit.ts:3`: failures that overlap count once).
- Policy evaluation: a decision without state, whose early returns are its definition; names,
  suffixes and time zones are data. The emergency bypass is a deadline in memory.
- The DNS proxy, the accept loop of the pipe, host and tray, hardening scripts and
  installers: their behaviour is that of sockets, pipes and commands of Windows.
- The contents of lists, packets and pages; parsing and formatting. A rule "until the end of
  the day" expires, at whatever time.
- `GET /status` and read-only console routes but for what `Dashboard` makes of their answers.
- In `Dashboard`: fields of the forms, Turnstile, rules and enrollment codes in the drawer,
  the drawing of panels.
- In `EventDelivery`: a device revoked meanwhile, the statuses other than online and
  offline that a heartbeat may report, and a second parent of the household (the SELECT joins
  the parents, so each has a row and a mail of its own).
- In `PolicySync`: the enrollment tool, which writes `policy.json` too. `AgentEnrollment` has
  that write, and what becomes of a PC that is linked again.
- The overwritten value of a second authenticator secret (`ParentAuth` has one bit).
- Deployment scripts and the extension: no state shared with the above that another actor
  writes.

## 8. Extending it

The modules were written in the order of the table in section 2, each with its instance first
and its proofs last; what is left is outside of them rather than inside. A change to the code
should start at the definition `PROJECT.json` maps to its lines: change the definition,
run its configuration, then the proofs of its module (a definition that changes takes the steps
that expand it with it), then look at its mutant. The worthwhile additions would be a second
tab and a second browser in `Dashboard` (two pages over one `localStorage`), the retention
of events, and abstract specifications of what `EventDelivery` and `Dashboard` promise, as
`Linking`, `Relay`, `Inbox` and `Account` are for the other four.
