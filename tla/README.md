# A TLA+ model of nexu

nexu is a desktop application around the OpenClaw gateway. An Electron shell
(`apps/desktop/main`) starts a *controller* (`apps/controller`), an HTTP service
that keeps the user's configuration in JSON files, compiles it into
`openclaw.json`, and supervises the gateway process that reads that file. The
web UI (`apps/web`) calls the controller's routes.

The specifications are about the path a change takes through the controller:

    route or service ── edits ──> document store / skill ledger
          │                              ▲
          │                              └── install queue (skills)
          └── await syncAll() ──> debounce ──> doSync(): compile ──> openclaw.json
                                                   │
                                                   └── skills changed ──> restart
                                                        of the gateway process

and about what stands around it: the skill hub that edits the ledger, the cloud
session and the OAuth login that edit the configuration and the credentials, the
WebSocket link to the gateway, and, in the desktop shell, the supervisor of the
controller and the updater.

Every part is a small concurrent program on one event loop: nothing runs in
parallel, but every `await` lets other calls in, every timer is a later entry,
and the process or its child can die anywhere.

## Inventory

Paths are under `src/apps/controller/src` unless they begin with `desktop`.

| Component | State it keeps | Operations | What is hard | What makes it correct |
|---|---|---|---|---|
| JSON document store `store/lowdb-store.ts` | cached document, chain of writes, file, backup, temporary file | read, write, update | overlapping read-modify-write, death between the steps of a write, a failed job in the chain | never half-written, acknowledged means durable, no acknowledged edit lost |
| Config and cloud-session store `store/nexu-config-store.ts`, `services/desktop-local-service.ts`, `routes/desktop-compat-routes.ts` | config, cloud profiles, the session of each, one polling loop per login, default model | about 45 updates; connect, poll, disconnect, switch, import, create, rename and delete a profile, refresh the models | a poll answered after its login was aborted; what is read before a fetch and written after it | a key is stored for the profile it was obtained for, what was disconnected stays so, the default model is one that is offered |
| Skill install queue `services/skillhub/install-queue.ts` | pending, active and ended items, cancellation marks, pause, timers | enqueue, cancel, drain, execute, dispose | cancels and retries across two slots, rate limits | order, limit, nothing stranded, cancelled is not recorded |
| Skill hub, ledger, directory watcher `services/skillhub*`, `routes/skillhub-routes.ts` | ledger of skills, directories on disk, imports, debounce timer | bootstrap, start, install, cancel, uninstall, import, reconcile | a directory and its ledger row change at different times, in different places | ledger and disk agree at rest, what was removed stays removed, each change is followed by a sync |
| Config sync `services/openclaw-sync-service.ts` | debounce timer, sync in flight, settling flags, last skills | syncAll, syncAllImmediate, beginSettling/endSettling, doSync | sources read before awaits, deferral, failures half-way | file and gateway end current; callers read their own writes |
| Config writer, pushed hash, skills nudge `runtime/openclaw-config-writer.ts`, `services/openclaw-gateway-service.ts`, `runtime/openclaw-watch-trigger.ts` | last written content; last pushed hash; session snapshots | write, noteConfigWritten, nudgeSkillsWatcher | what is remembered as done when a step failed | a skip is a skip of something really done |
| Gateway process `runtime/openclaw-process.ts` | child, restart flag and counter, watch over a controlled restart | start, stop, restart, exit handler, timers | timers without handles, a successor that is nobody's child, a child that hangs | one gateway; it comes back |
| Gateway WebSocket client `runtime/openclaw-ws-client.ts` | socket, handshake, pending requests, reconnect timer, tick watch, device token | connect, request, stop, retryNow | timers that race replies, a refused token | nothing of an old link reaches the next, every request settles, the link comes back |
| Health loop `runtime/loops.ts`, `runtime/control-plane-health.ts` | consecutive failures | poll, restartForHealth | acting on an old observation | a dead gateway is restarted |
| OAuth flow and auth profiles `services/openclaw-auth-service.ts`, `runtime/openclaw-auth-profiles-*.ts`, `routes/provider-oauth-routes.ts` | one flow, callback server, a profiles file per agent and a shared one | start, callback, abort, status, disconnect; the sync's writer | the callback of an old flow; two writers of the same files | the port is freed, agents agree on the account, the page stops waiting |
| Channels `services/channel-service.ts`, `services/channel-fallback-service.ts` | channel list, pending QR logins | connect, disconnect, fallback replies | polling logins, duplicate events | one reply per failed message |
| Sessions, analytics `runtime/sessions-runtime.ts`, `services/analytics-service.ts` | transcripts read from disk | list, read, report | little state | |
| Model providers and quota fallback `services/model-provider-service.ts`, `services/quota-fallback-service.ts` | default model and what to go back to | ensureValidDefaultModel, fall back, restore | restoring over a user's newer choice | the user's choice wins |
| Compilers `lib/openclaw-config-compiler.ts`, `lib/channel-binding-compiler.ts` | none | pure functions | first match of bindings | |
| Bootstrap `app/bootstrap.ts`, `app/container.ts`, `index.ts` | order of the start | migrations, first sync, gateway start, settling | HTTP is served before it is over | |
| Daemon supervisor `desktop/main/runtime/daemon-supervisor.ts` | units, children, back-off, auto-restart timers | start, stop, stop with dependents, dispose | stop while a timer is pending, processes that ignore signals | no process is lost sight of, every request returns |
| launchd bootstrap and recovery `desktop/main/services/launchd-*.ts`, `desktop/main/lifecycle/` | session file, ports, services | recover, attach, tear down | sessions of a dead app, ports taken | |
| Updater `desktop/main/updater/`, `desktop/src/hooks/use-auto-update.ts` | mode, pending version, download, installer files, banner | check, download, install | timer and user check at once, a cut-short installer | what the banner offers is at hand and whole, it does not wait for ever, updates arrive |
| Shell, quit, sleep guard `desktop/main/*` | windows, power blockers | | I/O | |

`PROJECT.json` lists the same components with what is modelled of each, and the
hazards at the lines where they bite.

## Modules

| Module | What it is |
|---|---|
| `LowDbStore` | the document store: one variable per file and field, one action per step between two awaits |
| `DurableDocument` | what the store promises about its file; `LowDbStore` implements it |
| `LowDbStoreProofs` | the proofs about `LowDbStore`, and about `MCLowDbStore` with its history of overlaps |
| `InstallQueue` | the install queue |
| `SkillHub` | the hub around the queue (it extends `InstallQueue`): ledger, directories, imports, watcher, notices, start and restart |
| `SkillHubProofs` | the proofs about `InstallQueue` and about `SkillHub` |
| `ConfigSync` | from an edit to the file and the gateway: sync service, writer, pushed hash, nudge, bootstrap's part |
| `ConfigSyncProofs` | the proofs about `ConfigSync` |
| `OpenClawProcess` | the process manager and the health loop's restart |
| `OpenClawProcessProofs` | the proofs about `OpenClawProcess` |
| `GatewayLink` | the WebSocket client, with bootstrap and the health loop that drive it |
| `GatewayLinkProofs` | the proofs about `GatewayLink` |
| `CloudSession` | cloud profiles, sessions, logins and the default model |
| `OAuthLogin` | the OpenAI login, its profile files, routes and page |
| `LoginProofs` | the proofs about `CloudSession` and about `OAuthLogin` |
| `RuntimeUnits` | the desktop's supervisor of the processes it spawns |
| `RuntimeUnitsProofs` | the proofs about `RuntimeUnits` |
| `DesktopUpdate` | updates on Windows: manager, driver and banner |
| `DesktopUpdateProofs` | the proofs about `DesktopUpdate` |
| `MC*` | each module with the constants, symmetry set or history its configuration uses |

Apart from `SkillHub`, which has the whole queue among its variables, the
specifications do not share state. They meet at narrow interfaces, each
abstracted on the other side: `ConfigSync` reads a *source* where the code reads
a `LowDbStore`; its `Nudge` restarts the gateway in one step where
`OpenClawProcess` has the whole restart, and `GatewayLink` sees only that the
gateway falls and is up again; the notices of `SkillHub` are callers of
`syncAll()` in `ConfigSync`; the updates of `CloudSession` are atomic, which
`LowDbStore` says when they are.

### LowDbStore

Documents are sets of the `update()` calls whose edit they contain, so that "an
edit is lost" is visible and nothing else of the JSON is. `pc[u]` is where a
call is suspended: `openMain`/`parseMain` and `openBak`/`parseBak` are the two
`readFile` awaits with the parse after them, `restoringBak`/`restoringDefault`
the writes with which `read()` repairs what it found, `updating` the updater,
`writing` the wait for its own job. `queue` is the promise chain `writeQueue`
and `step` how far its head job is: `writeFile` truncates before it fills, so
each of the two files it writes has a torn state between. `rename` is one step,
and the assignment of `cache` the one after it. `WriteFails` rejects the head
job and leaves the chain *poisoned*: the code chains each job with `.then` on
the last one, so that all later writes of the session are rejected too.
`Restart` is death and start at any point; `BreakMain` is damage from outside while
the controller is down. `DurableDocument` counts such damage, and the refinement
maps the count to `breaks`: a store that truncates its document in place, or in any
other way spoils it for the time of one write, does not implement it.

The code does not keep `update()` calls, or calls that find no cache, apart. Both
matter: two overlapping updates start from the same cached document and the
later write drops the other's edit, and a slow first read caches the document it
opened before an update replaced it. `MCLowDbStore` therefore keeps a history,
`alone`, of whether any two updates or any two loads ever overlapped; three of
its properties are promises to callers who keep that discipline, the other three
hold whatever they do.

### InstallQueue

The fields are the code's. `running` and `cleaning` are the promises that have
not settled: an executor, and the `onCancelled` clean-up, which `execute()`
awaits with the slot still taken. `drain()` is an operator of the actions that
call it. Time is abstracted: a pause is *on*, then *over* (the clock has passed
`pausedUntil`, so a `drain()` ends it), then its own timer fires. History
variables record which items were reported installed, removed, and cancelled
while active. Left out: error texts, positions of rows, the wait times.

### ConfigSync

The two sources are the config store and the skill ledger; a compiled config is
the pair it was compiled from. OAuth state, which the compiler also reads, is
part of the config. Each caller edits and then calls `syncAll()`; the call is
debounced (`timer`), deferred while settling, or waits for `pendingSync`.
`doSync()` is a step per await: `LoadConfig`, `Compile` (which reads the ledger
and decides `push` from the hash and the connection), `Compare`/`Fill` (the
writer's skip of unchanged content and its in-place write), `Note` (the hash
remembered), `Finish` (the remaining writers, the comparison of skills) and
`Nudge` (the restart). `Fails` is a rejection at one of them. `BootSync` and
`EndSettling` start `doSync()` too, and are not seen in `pendingSync`.
Bootstrap's own sync never fails in the model: if it does the program ends.

The code decides from the connection, before the write, whether to push, and marks
the skills as dealt with either way, so some syncs do leave a running gateway on the
skills it had. The histories `misses` record when: `blind` the syncs that compiled
without a connection, `lapsed` whether a sync has failed since one last ended well,
and whether early enough for a retry to notice, `missed` that the last sync to end
well left a running gateway behind for one of these reasons or because its restart
failed. `QuietGatewayIsCurrent` exempts that gateway, until it is next started, and
no other.

### OpenClawProcess

Processes have numbers in the order they are spawned. `live`, `hung` and
`listening` belong to the operating system; the rest are the manager's fields.
`Start` is `start()`: nothing when there is a child, otherwise every gateway
found running is killed (`KillOrphans`) and one is spawned (`Spawns`).
`killOrphanedOpenClawProcesses()` reads `/proc`, else it runs `/usr/bin/pgrep`, and
when neither works, as on Windows, it returns in silence and has killed nothing.
`Scans` says which outcomes a scan may have; `process` takes both. `left` is a
history of the gateways that a start did not find, with their successors, and
`leaving` holds those that hand over and are to exit. A handover may be begun by
whichever gateway listens, the child or a successor that is nobody's child, since the
notice of it comes over the WebSocket or the stdout they share.
`ChildExits` is the whole `exit` handler, with the continuation of a `restart()`
that waited for it. `scheduled` counts restart timers: `scheduleRestart()` keeps
no handle and nothing cancels one. A `watch` is one call of
`awaitControlledRestart()`; its probe is split at its awaits, since `start()` can
come between. `HealthTick` is the health loop's `restartForHealth()`: written
out, it changes nothing in any reachable state, since the loop asks for it only
when there is no live child and it returns when there is none.
Left out: `SIGTERM` sent to the gateway by somebody else, the log lines
that are only forwarded, and back-off times.

### SkillHub

`SkillHub` is `InstallQueue` with the executor's world filled in. A skill is *on
disk* when its directory holds a SKILL.md; `ledger` has a row per skill and
source. `boot` follows `bootstrap()` (copies of bundled skills, a reconciliation),
`start()` (the watcher, the curated skills enqueued one by one in `curating`, the
read of the bots) and `dispose()`. `ExecutorWrites` is the moment the downloader
has put the skill there, any time before its promise settles; `InstallSucceeds`,
`InstallSucceedsCancelled` and `InstallFails` are the queue's actions with what
the hub's callbacks do in the same step. `SyncNow` is a reconciliation: it leaves
alone what the queue has in flight. `told` is what a sync last saw: the routes,
`onIdle` and the watcher's `onChange` are the notices. `Import` and its two ends
are the archive route, which does not pass through the queue. `Restart` is death
and start at any time, `Outside` a change made by an agent or the user. Three
histories carry premises: `removed` is what the user took away and has not asked
for since; `missed` what the two reconciliations of `start()` change without a
notice; `disturbed` what a failed or killed install or import left behind, or
lost under it. Left out: skills of single agents, the bundled skill that is
reinstalled at each start, ledgers of older versions, half-written directories.
`ImportSucceeds` assumes of npm that it fails in a directory that was taken away
while it ran: the code itself does not look.

### GatewayLink

`ws` is the client's socket with how far the handshake is; `conn` tells sockets
apart, so that what belongs to an earlier one is recognised, and `far` says
whether the process it was opened to still runs. `pending` maps each call to the
socket it was sent on. `Cleanup` is part of every action in which the code calls
it. A time-out needs no clock: it fires because no answer is coming, or, at most
`MaxStalls` times, in spite of one (`Late`). The device token may be good, absent
or one the gateway no longer knows; `Refuses` deletes it. `Boot`, `Probe` and
`ProbeFailed` are bootstrap's wait for a stable control plane and the health
loop. The three calls of a probe count as one. Left out: back-off lengths, the
contents of frames, the shutdown notice. The code has no time-out for a socket
that opens and is never challenged, and the model no gateway that does that.

### CloudSession

A key is the number of the login that obtained it, so that it is visible whose it
is. `profiles`, `active`, `cloud` and `sessions` are what is stored; `cloud` mirrors
the session of the active profile. `login[l]` is a polling loop: sleeping, asking,
fetching models, checking them; `aborted` is its signal, and `pollingState` which
loop is the current one. A request is a `call` with a step per await;
`connectDesktopCloud()` reads the session in one step and in a later one aborts the
earlier login and blanks what is stored by then (`AbortEarlier`). Two constants
exclude what the code does not survive and one what it does not handle: `Serial` (a
request waits for the others and for a refresh; `CloudRefresh.cfg` lifts it),
`Named` (a profile was selected once) and `DropsActive` (an import may leave out the
active profile). The history `torn` says that the controller stopped between the two
files a request writes, so that the active profile is not in the list. Left out:
models set per bot, user names and links, and the awaits within
`ensureValidDefaultModel`.

### OAuthLogin

A flow and the profile it brings are one number. `callbackServer` and
`timeoutHandle` are the service's fields, `port` and `timers` what really listens
and runs. `jobs` is the queue each profiles file has; `sync`, `entry` and `shared`
are the sync's writer between its reads and its writes. `page` has what the page
last *heard*: it polls the status, and asks again when it waits. `clashed` records
that writers of the files overlapped, or a disconnect a login, after which the
code promises no agreement. Left out: expiry, the MiniMax login, a callback
opened twice, a page left while it waits.

### RuntimeUnits

Processes have numbers; `live` and `listening` belong to the operating system,
`child` and the rest to the supervisor. A request is the list of its steps, with
the exits or the port it awaits. `timers` counts restart timers, which have no
handle, and `waits` the starts they made that still wait for a port. A port may
open after the deadline of its start, a restart may fall due while its unit is being
stopped, and the window may ask for a start at any time. Two of these let a process
run beside the one its unit holds, and the history `late` has the units concerned: a
process that misses its deadline runs on in a unit marked failed, and a start of a
unit that is stopping does not wait for the process still there. Left out: units that
launchd, another process or Electron itself runs, which are only looked at.

### DesktopUpdate

Versions are numbers and each installer a file, absent, in part or whole, that is
written under its final name. The events the manager sends change `page` in the
same step; what the page asks for is in `asked` until it is handled, which gives
every crossing of the two. `CheckNow` is `checkNow()` for the timer and for the
user, `DriverDownloads` the driver's `downloadUpdate()`, `AppliesUpdate` the end of
`quitAndInstall()`: the installer is run, or, when somebody has emptied the
temporary directory, the browser is opened. `Restart` is a crash, or the start
after an installer that ran or was declined. `moved` records that a check found
another version than the one at hand, or that installers were taken away. Left
out: the macOS driver, which hands all of this to electron-updater, rates and
percentages, the choice of the feed.

## Runs

| Run | What it asks | Bounds |
|---|---|---|
| `store` | whatever overlaps, dies or fails, is what was acknowledged durable, does the file implement `DurableDocument` and does every call return? with calls that do not overlap, do edits survive in document and backup, and do cache and file agree? | two updates and a read; two crashes, two failed writes, one damage |
| `queue` | order, limit, rows, cancellation; does every install end? | three skills, two slots, three items: a retry beside a running and a waiting install, the third waiting for one of the slots |
| `hub` | do ledger, disk and the last sync agree at rest, does what was removed stay removed? | a curated and a bundled skill, one slot, one retry; two installs that share the slot, or one beside an import, a restart or a change from outside |
| `sync` | is an answered caller's edit in the file, is no edit forgotten, is a gateway at rest current, does the last call of a window get its answer, and without failures do file and gateway converge? | two callers and bootstrap, both sources, one lost connection, one failure at any step after the write |
| `process` | can two gateways run, or restarts stay disabled? does a restart bring a new gateway, and does a dead one come back? | two `restart()` callers, two failures of which one a hang, two handovers, scans that work or not, a limit of one restart in a row |
| `process_stuck` | does a restart replace a child that hangs? **No.** | one hang |
| `link` | does anything of an old link reach the next, does every request end, does the link come back? | two requests beside the handshake's and the probe; two falls or hangs, two late answers |
| `cloud` | is a key stored only for its profile, does what was disconnected stay so, is the default model offered, does a login end and none log out? | two profiles of three names, two logins, one poll each, one restart |
| `cloud_refresh` | does what was disconnected stay so when requests overlap? **No.** | one profile, one login, one refresh |
| `oauth` | is the callback port freed, do agents agree on the account, does the page stop waiting? | two logins, an agent there and one created later |
| `units` | is every process held but those that outlived a deadline, is a running unit alive, does every request return? | two units, one stopped before the other; three requests, two at a time, two crashes, four processes |
| `update` | is what the banner offers at hand and whole, does it stop waiting, does a published version arrive? | two versions, two failures, one crash |

The bounds are small because the interactions are: each hazard is one call that
comes between two steps of another, or one failure between them. Two calls of a kind
plus one of another show every pair; the third item of `queue` shows what a retry
adds, the second login of `cloud` and `oauth` what a late answer to the first one
does, the third socket of `link` tells the one before the last from this one. The
bounds on processes and items are large enough not to stop a behaviour the other
bounds allow; a liveness property of `process` says in its premise (`Restartable`)
which behaviours it is about. In `hub` two installs, once it has started and while
nothing happens from outside (`SecondInstall`), or one beside one such event, give
every order of install, cancel, uninstall, retry and reconciliation, and a notice
owed by one completion while another item fails; both at once are left to the
proofs. `FirstInOrder` of `queue` looks at one naming of the three skills, which are
alike, out of six. `CHECK_DEADLOCK FALSE` is set where a behaviour may end: every
call made, nothing to do.

Three bounds of `ConfigSync` are assumptions, and the results hold only under
them. `Overlap = FALSE` means that each sync ends before another starts, which the
code ensures only between debounced ones; `LateCalls` lets routes act before
bootstrap's sync is over, as the HTTP server does; and `Faults` names the steps that
may fail.

The largest runs are `hub` (1.7 million states), `cloud` (1.2 million), `units`
(0.9 million), `queue` (0.9 million), `process` (0.7 million) and `sync` (0.6
million); each takes between half a minute and two minutes.

`TypeOK` of a module is checked with each change of it and proved where there are
proofs; it is not listed in the runs.

### Fairness

Weak fairness of a continuation means that the event loop runs what is ready:
promises whose I/O ended (`Call`, `RunJob`, `DoSync`, `Continue`, `Proceed`) and
timers (`TimerFires`, `PauseTimer`, `ScheduledStart`, `StopTimesOut`,
`ReconnectFires`, `TimerChecks`). I/O is assumed to end. Requests of the link have
time-outs of their own. The updater's requests have none, so `update` assumes that a
stalled connection breaks in the end; nor have the downloads and the npm runs of the
skill hub (`catalog-manager.ts:337`, `npm-runner.ts:55`), so `InstallsEnd` has as its
premise, rather than as fairness, that no executor or clean-up of the queue hangs.
In `process` a gateway that is to exit exits. `SF` on `ProbeGivesUp` says that the 45-second grace
period of a watch ends: a watch that looks again for ever without seeing a port
or a successor is one whose grace never ran out. A gateway that does not hang
comes to listen, and connects; a unit's process opens its port unless it exits. No
user action, edit, failure, crash or cancel is fair; a login in the browser and
its callback are not either.

## Proofs

`LowDbStoreProofs` is checked by TLAPS for every set of calls, every bound and
every degree of overlap:

* `TypeCorrect` — `Spec => []TypeOK`.
* `DocumentNeverTorn` — `Spec => []MainWhole`: whatever overlaps and whenever the
  process dies, the document is whole as long as nothing else damages it.
* `AcknowledgedIsDurable` — `Spec => AckIsDurable`: when `update()` returns, a
  restart would read its edit.
* `StoreIsDurable` — `Spec => DurableSpec`: the file only moves between whole
  documents, in the order they were asked for, and only `BreakMain`, while the store
  neither writes nor is asked to, spoils it.

They rest on the assumption `StoreConstants` (the two kinds of calls are
different, the three special values are not documents) and on the inductive
invariant `IInv`. `MainWhole` is not inductive: that a rename installs a whole
document needs `StepFiles` (from the step at which it was filled until the
rename, the temporary file holds exactly the head job's document), and that a
finished job is an acknowledged edit needs `JobsAwaited` (each queued job
belongs to one suspended call and carries the document that call has in hand)
and `HeldWhole` (a call in hand holds a whole document unless it is about to
parse it). `Invariance` proves `Spec => []IInv`, one step per action. The
refinement maps a job to *written* at its rename and `BreakMain` to `Damage`; all
else stutters or maps to `Ask` or `GiveUp`.

Of callers that do not overlap (`MCSpec`, with the history `alone`) it also proves
`AloneEditsSurvive`, `AloneEditsAreBackedUp` and `AloneCacheIsOfFile`. They need
`Disciplined`: what a load has seen is still so (`Seen`), nothing is queued behind the
write of an update (`WriterLast`), the cache is of the file unless the file is about to
become it (`CacheFollows`), a call loads only while nothing is cached (`LoadsCold`,
`Warm`), and, while nothing was damaged, no document an acknowledged edit can be read
from misses it (`Kept`).

`ConfigSyncProofs`, under `SyncConstants`, for any set of callers, any overlap and
any failures:

* `TypeCorrect` — `Spec => []TypeOK`.
* `DebouncedSyncsAlone` — `Spec => []DebouncedAlone`. The invariant is `Debounced`:
  `PendingIsInFlight` (a debounced sync in flight is the one `pendingSync` names)
  needs, when the timer fires, that no debounced sync is in flight, which is
  `TimerAlone` (no timer runs while `pendingSync` is set); that in turn is kept
  because whoever waited for a sync re-arms the timer only in the step that clears
  `pendingSync`. Bootstrap's sync and the one that ends settling never touch
  either, which is also why nothing keeps *them* apart.
* What holds however syncs overlap: `AtMostTwoSyncs` (a debounced sync beside
  bootstrap's own or the flush, and never a third); `OpenPromisesAreOwed`, with
  `Promised` (each caller that waits is held by the timer, the sync, the flush or
  `endSettling()` that will settle it, whatever fails); and `FileIsNeverLeftEmpty`,
  unless the in-place write fails half-way: between syncs there is a file, and it
  holds a config or a mix of two, for a sync that truncates is one that will fill
  (`Filled`).
* `FileFollows`, `RestingFileIsCurrent` (`QuietDiskIsCurrent`) and `AnswersAreRead`
  (`AnsweredIsOnDisk`) with `OneSync`: no two syncs overlap and the in-place write does
  not fail half-way. These are the setting of `sync`, and each is needed: TLC finds
  `QuietDiskIsCurrent` and `AnsweredIsOnDisk` violated without either (see *What the
  code does not promise*). The invariant `SInv` follows an edit: `Owed`
  (unless a call was rejected, what the file lacks a sync carries, or one is to come
  that reads it), `SinceTheCall` (what answers a caller reads no older sources than
  those of the call), `Files` (what each step of a sync has written) and `WhoSyncs`.
* `RestingGatewayIsCurrent` (`QuietGatewayIsCurrent`) with `Managing`: moreover the
  gateway is one the controller manages. Connections that drop, gateways that start
  beside a sync and failures after the write are all allowed. The invariant adds
  `Skills`: between syncs the service's marks are of the file (`MarksFollow`), a sync
  that sees the connection and will not ask for a restart changes no skills
  (`WillAsk`), and a running gateway that was not missed has the skills last marked
  (`GatewayFollows`).

`OpenClawProcessProofs`, under `ProcessConstants`, for any number of callers,
watches, crashes, hangs and handovers, successors that crash included:

* `TypeCorrect` — `Spec => []TypeOK`.
* `NeverTwoGateways` — `Spec => []OneGateway`, whatever a scan of the processes
  finds. Its invariant is `OneCurrent`: of the processes that neither hand over nor
  were left by a start there is at most one, one that hands over does not listen, and
  before the first handover nothing runs but the child. `StartKeeps` has the argument:
  `start()` without a child either kills everything or leaves everything behind,
  and what it may leave is there only after a handover.
* `RestartsEnabled` — `Spec => []RestartsStayEnabled`, with `WaitedFor`: a
  `restart()` that waits has sent its signal to a child that is still there.

`SkillHubProofs`, of `InstallQueue`, under `QueueConstants`, for any skills, items, slots and retries:
`TypeCorrect`, `RowsAreDistinct` (`OneRowPerSkill`), `ConcurrencyHolds`
(`ConcurrencyBound`), `CancelIsHeeded` (`CancelledIsNotRecorded`), `StartsAreInOrder`
(`NoOvertaking`). The invariant `Queue` is said of any lists, since `drain()` starts
from those its caller has reached; `DrainKeeps` then serves every action that ends in
it. Each property has the part it lacks: rows need `OneRow` (the entry of a slug is an
item of that slug, and no two entries are of the same one); the bound needs `Slots`
(executors and clean-ups are the entries of the map); the cancelled need `Marked`
(an item cancelled while active is marked, by slug, as long as it may end well) with
`RecordedIsOver`; the order needs `InOrder` (but for as many retries at the front as
there are free slots, the pending items are in order). `NothingIsStranded` and
`IdleNoticeIsOwed` say that the queue never falls asleep: `Awake` (what the map holds is
worked on; without a pause items are pending only when all slots are taken, and a notice
is owed only while something is under way) is kept since every method but the pause
itself ends in `drain()`.

`SkillHubProofs`, of `SkillHub`, under `HubConstants` and `QueueConstants`, for any skills,
items, slots, changes from outside and restarts: `HubTypeCorrect`, `LedgerMatchesDisk`
(`QuietLedgerMatchesDisk`), `RemovedIsNotBroughtBack` (`RemovedStaysRemoved`),
`SyncSawTheLedger` (`QuietSyncSawTheLedger`), and `QueueHoldsInHub`: the queue's own
promises, which a restart resets and the hub's callbacks leave alone. The three properties
speak of rest; `HInv` says what holds on the way there, on top of the queue's invariant
and `Awake`. `LedgerFollowsDisk` is the first one before rest: while no reconciliation
is due, disk and ledger agree even with work in flight. It needs `WrittenIsThere`, or
the completion would record what is no longer there, and the second half of its own, or
the clean-up of a cancelled install would remove the row of another source.
`RemovedIsCancelled` is what makes a removal last: while an executor still has the
directory of a removed skill in hand the skill is marked as cancelled, and so is
everything of it that is pending, so that only a clean-up follows. `LedgerIsTold` has
what a sync has not seen covered by the queue's owed notice, and `Awake` says that such
a notice is never owed at rest, outside a pause. `HubImplementsQueue` has the
composition as a refinement: each step of the hub, its routes, watcher and
executors is a step of `InstallQueue`, or leaves the queue alone, or is a restart
that gives it back its initial state. `HubStartsInOrder` adds `NoOvertaking`, a
property of steps, of the queue under the hub.

`GatewayLinkProofs`, under `LinkConstants`, for any requests and sockets and however
often the gateway falls, hangs or answers late: `TypeCorrect`, `LastLinkIsGone`
(`NothingOfTheLastLink`), `NoCallForgotten` (a caller waits exactly as long as its call
is in the map the clean-up empties), `StoppedForGood`. `NothingOfTheLastLink` holds
because each action that leaves a socket has the whole of `cleanup()`; that the next
connection finds no timer running needs `NothingBeforeBoot` and `StoppedIsQuiet`.

`RuntimeUnitsProofs`, under `UnitConstants`, for any units, processes, crashes and
requests, slow starts and late timers included: `TypeCorrect`, `ChildOfUnit`,
`OneProcessPerUnit` (`EveryProcessIsHeld`) and `RunningHasAProcess` (`RunningIsAlive`).
The invariant adds `LiveIsNotRestarted`: a unit whose process runs is in a phase in
which no start spawns another, unless the unit is in `late` or comes to be by that
start. Both ways into `late` are needed: TLC finds the two violated without either.

`DesktopUpdateProofs`, under `UpdateConstants`, for any versions, failures and restarts:
`TypeCorrect` and `OffersTheInstaller` (`ReadyIsTheInstaller`), through `Announced` (what
is fetched lies between the running version and the latest one), `Follows` (nothing is
fetched, offered or asked for before it is announced, and the application quits only
with an installer) and `AtHandIsAnnounced`. From the same invariant follow two
properties of steps: `OnlyForward` (the running version changes only by the installer
that was fetched, to a later one) and `InstallsTheWhole` (the installer the application
quits for is whole, unless `moved`: see below for why it needs that).

`LoginProofs`, of `CloudSession`, under `CloudConstants`, for any profiles, models, logins,
polls and restarts. However requests overlap: `TypeCorrect` and `NoModelsWithoutLogin` (a
session without credentials, active or stored, offers no models). With `Serial`, one
request at a time: `DefaultIsOffered` (`QuietModelIsOffered`), `LoopsKeepTheLogin`
(`LoopNeverLogsOut`) and `NoLoopPollsUnattended` (the loops that poll and are not aborted are
exactly the one the next disconnection, switch or login aborts). With `Serial` and
`Named` (a profile was selected before): `DisconnectedIsOut` (`LoggedOutStaysOut`). With
`Kept` besides (no import leaves out the active profile): `CredentialsAreAtHome`
(`KeyAtHome`). Each premise is needed: TLC finds the property violated without it
(`cloud_refresh`, and below). The invariant is `Sound`, in which what needs a premise is
said under it: `Accounts` of what is stored (without credentials nothing is offered,
`Keyless`; credentials have one holder and were obtained, and those signed out have
none, `Owned`; they are where they were obtained for, `AtHome`), `Polled` of what a loop
has in hand, `Requested` of what the one request has (what it read is still stored, so
that writing it back changes nothing), and `WillCheck` (when the default model is not
offered, somebody is about to check it). `Grounded` is for the window inside a connect, whose
blanking also takes models away without a check: unless the default model is one of
the user's own or somebody is about to check it, there is a login and no connect in
that window. The attempt to prove it refuted an earlier `KeyAtHome`, which said that the
config always mirrors the active profile's session. It does until the controller stops
between the two files that the renaming or deletion of the active profile writes
(`nexu-config-store.ts:2428`): another profile renamed to the free name then takes over
its session. It takes three profiles at a time to see it, one more than `cloud` has;
the property and the theorem now say it unless `torn`.

`LoginProofs`, of `OAuthLogin`, under `LoginConstants`, for any agents and any number of
logins: `OAuthTypeCorrect`; `CallbackPortIsFreed` (`PortIsOurs`), whatever late callbacks
and time-outs do, because no timer runs while a flow waits for its server
(`StartingIsClear`); `AgentsAgree` (`QuietProfilesAgree`), as long as writers of the files do
not overlap. The invariant of the latter, `Agreement`, follows what is written: each
file's queue holds nothing but the one update of whoever writes now (`OneUpdate`), so
that what has been done and what is queued together make the files agree
(`FilesAgree`); what the sync's writer has read is still so (`ReadIsCurrent`); an agent
without a file has a sync coming to it (`AgentsServed`).

Only model-checked: liveness under fairness (`EveryCallSettles`,
`LatestCallIsAnswered`, `Converges`, `RestartBringsFresh`, `GatewayComesBack`,
`LoginEnds`, `RequestsReturn`, `RequestsEnd`, `LinkComesBack`, `PageStopsWaiting`,
`InstallsEnd`, `WaitEnds`, `UpdateArrives`), which the provers do not do. Every
safety property a passing run checks has its theorem. Nothing here uses a RECURSIVE
operator, and no proof needs induction over data or ENABLED, which are out of
TLAPS's reach: a list is taken apart by its first, last or least position, never by
induction over its length.

## What the code does not promise

The two runs that end in a violation:

* `process_stuck`: `stop()` guards its `SIGKILL` with `!current.killed`, which its
  own `SIGTERM` has made true. A child that hangs stays, and no restart replaces it.
* `cloud_refresh`: a refresh of the models reads the session, awaits the list and
  writes back all it read, the key included: a disconnect in between is undone.

Configurations beside the runs, each of which ends in a counterexample too:

| Configuration (module) | Property | What happens |
|---|---|---|
| `QueueStaleMark` (`MCInstallQueue`) | `OnlyCancelledIsRemoved` | an active install is cancelled and then fails; the mark, kept by slug, stays, and the user's retry is removed when it succeeds |
| `SyncLost` (`MCConfigSync`) | `EveryCallIsAnswered` | a second `syncAll()` within 100 ms clears the first one's timer, and with it the only reference to its promise; `LatestCallIsAnswered` is what does hold |
| `UnitsStop` (`MCRuntimeUnits`) | `StopHolds` | a unit stopped between its crash and its armed restart has no child to mark, and is restarted |
| `LinkOrphan` (`GatewayLink`) | `FailedBootExits` | a bootstrap that failed sets the exit code, and the reconnect timer keeps the process alive |
| `OAuthLost` (`MCOAuthLogin`) | `LoginIsRecorded` | the page takes the status of an earlier login for that of the new one, stops polling, and nobody records the new one |
| `HubImport` (`SkillHub`) | `OneSharedRow` | an import is in no queue: the watcher records it as managed while its dependencies install, and it is then recorded as custom too |
| `HubPersonal` (`SkillHub`) | `CancelSparesPersonal` | the clean-up of a cancelled install uninstalls by slug alone, picks the user's own row and deletes the user's own directory |
| `UpdateUnasked` (`DesktopUpdate`) | `UnaskedIsSilent` | a check of the timer that fails, or that finds a background download running, shows an error or an offer nobody asked for |

Other limits found while modelling; most show up as a violation when the bound or
the premise named is lifted:

* Store: overlapping `update()` calls lose edits, and a slow first read an update's
  (`alone`). When the write-back of a whole backup fails, `read()` caches and
  answers the default document.
* Sync: one started by `endSettling()` can be overtaken by a debounced one and write
  its older config last (`Overlap`). A change of skills synced while the gateway has
  loaded its config and is not connected is written and not followed by a restart;
  one synced in a run that fails after `noteConfigWritten()` is not either (`missed`,
  `lapsed`). Nothing re-syncs later: `startSyncLoop` is not started and
  `wsClient.onConnected` has no user. After a failed in-place write, going back to
  the previous content is skipped as unchanged and the broken file stays
  (`Faults = {"fill"}`).
* Process: the successor of a controlled restart is nobody's child; when it crashes
  later nothing restarts it (`Restartable` asks that `strays` is 0). Where no scan
  of the processes works, a start after a handover leaves the successor running
  beside the new child (`left`), and whichever of them does not hold the port is no
  use to anybody. A restart timer left by an earlier crash can kill it while it is
  being watched. Two overlapping intentional restarts may count as a crash towards
  the limit of ten.
* Queue and hub: a row that is done blocks a new install of the skill for sixty
  seconds. A change between `bootstrap()` and `start()` is recorded and not synced
  (`missed`). What a failed install leaves behind is installed at the next
  reconciliation (`disturbed`). The user's own skills that are not in the shared
  directory are taken out of the ledger by one half of a reconciliation and put back
  by the other, so that each one reports a change. A curated skill whose install was
  cancelled before it was on disk comes back at the next start.
* Cloud: an import that drops the active profile leaves its session in use
  (`DropsActive`). A stop between the two writes of a rename or deletion of the active
  profile leaves it out of the list, and a profile renamed to its name then takes over
  its session (`torn`; it takes three profiles at a time). A disconnect of the default profile, before
  any was ever selected, blanks its session and not `cloud` (`Named`). The deletion of one profile aborts
  the pending login of another; that of the active one leaves its old session
  connected while `cloud` is blank. A login that succeeds between the reading of the
  session and the abort of the earlier login in `connectDesktopCloud()` is blanked.
  `setDesktopCloudModels` does not check the
  default model.
* OAuth: a late callback of an earlier login clears the newer one's timer and is
  reported as its result. A disconnect of an expired login, or of one nobody has
  recorded, leaves or brings back the provider. A writer that overlaps a disconnect
  puts the profile back (`clashed`).
* Units: a restart that falls due, or a start by hand, during a stop spawns a second
  process whose handle the exit of the first one deletes; a process whose port opens
  after the deadline runs on in a unit marked failed, beside the next start's; and the
  time-out of an earlier start marks a unit that was restarted as failed (`late`). A spawn that
  fails leaves an entry among the children, and a later stop the phase *stopping*. The
  count of restarts is cleared whenever the port opens.
* Update: a version published during a download in the foreground is announced as the
  one that was fetched (`moved`). Once an update is ready no later one is looked for.
  A check of the timer turns a download of the user's into one of the background,
  whose failure is not shown until a later check. When the temporary directory is
  emptied while an update is ready, and it is being fetched again, `quitAndInstall()`
  runs the part of the installer that is there: it asks only whether the file exists.
  An install that finds no installer leaves the services down and the checks stopped.
  Neither request has a time-out.

## Plan

Done: the controller's path from an edit to the gateway, what edits it (skill hub,
cloud session, OAuth login), the link to the gateway, and of the desktop the
supervisor and the updater; proofs of the safety of all of these, and of what is left of
it when syncs and requests overlap. Next, in this order:

1. The launchd recovery decision; the quota fallback and its restore, as part of
   `CloudSession`; channels' QR logins; the binding compiler as operators.
2. Proofs of what the setting of `oauth` leaves open: what holds of the agents' files when
   their writers do overlap.

## Not modelled

The web UI and most routes (presentation; a route is a call of a service), the
skill catalog's downloads and archives, transcripts and analytics, Electron
windows and power management, and calls to `launchctl`: I/O with little state of
their own. The macOS driver of the updater, the component updater and its
roll-back, the MiniMax login and the QR logins of channels are programs of the
same kind as what is modelled, and are left for later.
