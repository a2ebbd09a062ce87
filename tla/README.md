# TLA+ verification of NetPulse

NetPulse manages the network of an internet provider: a Go backend polls
routers, receives their BMP streams and syslog lines, raises and resolves
alerts, and runs under a licence that a central master server issues, renews
and suspends. A console in the browser, with a development server of its own,
shows all of it. This directory holds TLA+ models of the parts in which several
goroutines, processes, calls or people act at once, TLC configurations that
check them on small instances, and proofs, checked by TLAPS, of what holds for
every instance. Paths below are relative to the repository.

Contents: 1 inventory, 2 modules and how they correspond to the code, 3 runs,
4 fairness, 5 proofs, 6 disagreements found, 7 abstractions and what is not
modelled, 8 plan.

## 1. Inventory

| Part (source) | State | Operations | Interaction |
|---|---|---|---|
| Alert store (`backend/internal/telemetry/alerts_store.go`) | map of alerts, `alerts.json`, snapshot ring | AddAlert, FindActiveAlert, ResolveAlert, AcknowledgeAlert, load, save | called by the detector and by the API, one mutex |
| Detector (`telemetry/detector.go`) | none of its own | Evaluate* rules, HandleBMPPeerUp/Down, RecordSyslogAlert | called by collector, BMP server and syslog at the same time |
| Collector and engine (`telemetry/collector.go`, `engine.go`) | caches of sessions and neighbours, cycle in progress | loop, RunCycle, collectDevice, Stop, manual trigger | polls routers in five slots, calls the detector, reads the BMP table |
| BMP server (`telemetry/bmp/server.go`) | clients, peer table, event ring | connection goroutines, processMessage, hooks | one goroutine per router, hook into the detector after the lock is released |
| BMP parser, churn tracker (`telemetry/bmp/parser.go`, `churn_tracker.go`) | counters | decode a message; record and rank churn | called by the BMP server |
| Syslog receiver (`telemetry/syslog.go`) | none | handleMessage | raises alerts that no rule resolves |
| Broadcaster (`telemetry/broadcaster.go`) | subscriber channels | Subscribe, Unsubscribe, Broadcast | drops events of slow browsers |
| Licence manager, "edge" (`backend/internal/license/manager.go`) | current licence, `license.json` | load, Activate, GetStatus, CanAddDevice, syncWithMaster | heartbeat to the master every 30 minutes |
| Master licence server (`master-server/internal/`) | licences, by key and by ID, a file | create, update, toggle, renew, delete, heartbeat | answers the edges; several administrators |
| Device inventory (`backend/internal/storage/devices.go`, `api/device_handlers.go`) | devices, encrypted file | create (under the licence's limit), update, delete, status | read by the collector, counted by the licence manager |
| Traffic engineering and profiles (`traffic/`, `storage/profile_store.go`) | profiles, the active one | capture, diff, stage and activate | drives routers over SSH |
| RPKI validator (`rpki/validator.go`) | own ROAs, cache | validate | external API |
| Users, tenants, sign-in, audit (`storage/fallback_*.go`, `storage/postgres/`, `api/auth_*.go`, `api/tenant_*.go`) | tables | CRUD, sign-in, scoping | every API request |
| Metadata stores, drivers, SSH client, compliance, network tools | small maps; none | one-lock operations; text parsing; probes | called by the parts above |
| Views of the console (`frontend/src/components/`, `App.tsx`, `services/api.ts`) | the last answer, a spinner, a question | load, poll, ask, change, follow the company | calls answered late, in any order, or not at all; none is aborted |
| Shell (`App.tsx`, `Sidebar`, `TopNav`, `NetPulseDock`, `CommandPalette`) | section, sub-tab, windows, alert badge | navigate, search, poll the counts | two components write the badge |
| Sign-in (`context/AuthContext.tsx`, `LoginPage.tsx`) | token and company in localStorage, the user in the tab | sign in and out, change company, reload | every call reads localStorage, which all tabs share |
| Forms (six components) | what is typed, a lock, timers | open, type, save, delete, close | answers close or refill the form |
| Traffic pages and command windows (`TrafficManager.tsx`, `traffic/`) | profile bar, tables, comparison, clipboard | compare, activate, capture, delete, copy commands | server's profile store; commands pasted into routers later |
| Network tools (`TerminalView`, `PingTool`, `DNSLookup`, `PortScanner`) | screen, timers, history | run, clear, repeat, leave | answers written where the screen is by then |
| Panel of the master (`master-server/web/static/app.js`, `internal/auth/`) | table, filter, token | sign in, load, toggle, renew, delete | acts on the status it drew; tokens end with the server |
| Development server (`mock-server.cjs`) | JSON files | read, change and write back a file | requests whose bodies arrive in pieces |
| Deployment, build files | none | none | none |

Behaviours that are hard here, and the property that answers for each:

* **Find-then-act on alerts.** A rule looks for an open alert, lets go of the
  lock and then raises or resolves. Collector and BMP goroutine do so for the
  same session: `OpenBoundedByWriters`, `HitStaysValid`, `ResolvedIsFinal`,
  and the refuted `OneAlertPerCondition`.
* **Stale rows.** A cycle judges what it read before the session changed; the
  BMP table keeps rows of closed connections; a device is renamed during a
  cycle: `SessionAlertsResolve`, `PolledDownIsReported`, `OfflineIsReported`,
  `CacheMatchesAlerts`, and the refuted `EveryDownIsReported` and
  `OfflineAlertsResolve` with renames.
* **Crashes and failing writes.** `alerts.json` and `license.json` are
  rewritten in place and errors are dropped: `RestartKeepsNewest`,
  `LifecycleHolds`, `RestartKeepsLicence`.
* **Check-then-act on the quota.** Devices are counted, the licence is asked,
  the device is stored, in three lock sections: `OvershootBounded`.
* **Late and lost heartbeats.** An answer for one key reaches the licence of
  another; answers are lost; guesses of the edge differ from the master's data:
  `EntitlementConverges`, `SuspensionReachesLimited`.
* **Read-modify-write of the panel.** Renewal and suspension work from a
  licence read earlier: `RenewalOnlyExtends` is refuted, by one renewal's missing
  limit already; the race is named in section 6. Its buttons act on a status
  drawn earlier, its token may have ended: `ConfirmedIsDone`, for one operator
  whose calls do not overlap.
* **Answers that arrive late.** No view numbers its calls, so an answer that was
  overtaken is installed all the same, and most views, windows and forms have
  nothing against it. What is guaranteed is stated for calls that do not overlap
  (`QuietUseIsRight`, `QuietTrafficIsRight`), for windows and forms opened with
  nothing on its way (`DiffIsOfTheNamedProfile`, `IdleFormsKeepTheirText`): these
  premises leave the race itself out, which section 6 names. Over any order of
  answers hold `OutputFollowsItsCommand`, where the code does keep a late answer
  in its place, and, for the views with a timer in the long run,
  `PolledViewsCatchUp` and `SpinnerStops`.
* **Two owners of one thing.** Badge, section with sub-tab, token with company,
  the page number over a list that shrinks: `BadgeSettles`,
  `SectionShowsAView`, `CallsSpeakForTheUser`, `PagesShowTheList`.
* **One of several calls fails.** Pages of alerts are acknowledged in parallel:
  `AckReachesTheRest`.
* **Channels that close.** A viewer leaves while an event is on its way, or
  does not read: `NoSendOnClosedChannel`, `NobodyWaitsForSlowViewers`.
* **Files rewritten by overlapping requests**, each with everybody's records.
  `AnswersAreOnDisk`, `OthersSeeNoChange`.
* **Arithmetic at the ends.** A ROA covers a route by the route's first
  address, masks shift by 32 bits: `OwnRoutesFollowRfc6811`, and the assumption
  `NetmaskHasThePrefix`, which TLC evaluates.

`PROJECT.json` lists all components with their status, and under `hazards`
each such place with its line, those without a property included.

## 2. Modules

```
AlertStore <- Detector <- Telemetry <- MCTelemetry     LicenseTerms <- LicenseMaster \
                 ^  \                                        ^                        LicenseSystem <- MCLicense
          MCDetector  implements AlertLifecycle         LicenseEdge ----------------- /

ConsoleApi <- ConsoleViews, ConsoleSession            \
ConsoleShell, ConsoleForms, AlertLog, NetworkTools     \
TrafficConsole, TrafficScripts, MasterPanel             <- MCConsole
MockServer, EventStream, RpkiValidator                 /
```

**AlertStore** - `alerts` is the map, `lastId` how many alerts there have
been, `alertsFile`, `fileTorn` and `unsaved` the file and the fate of the last
write. An operation holds the mutex over its save, so it is one step. Alerts
are numbered in the order of `StartedAt`; the number stands for the random ID.
`FindActiveAlert` walks a Go map, so it is the *set* of alerts it may return.

**Detector** - one pair of steps per rule: `Look`, then `Raise` or `Close`.
`work[w]` is what the goroutine `w` has still to evaluate, in the order of the
code's loops, `act[w]` and `hit[w]` what the look-up decided and found.
`RecordSyslogAlert`, `Acknowledge`, `Restart` and `FailedBoot` (main ends in
`log.Fatalf` when `alerts.json` does not parse) complete it. `Evaluate` leaves
open what was observed, so whatever is true here is true of every caller.

**AlertLifecycle** - the abstract promise: each alert is raised once,
acknowledged while it is open, resolved at most once and never reopened; only a
restart takes it back, to an earlier phase of its own life. The detector
implements it (`LifecycleHolds`, mapping `phase` to the alerts' statuses).

**Telemetry** - the engine around the detector. The world: sessions,
adjacencies, reachability and names change. The collector: `BeginCycle` copies
the inventory, `Poll` takes a slot, `ReadBgp` and `ReadOspf` read, the loops of
`EvaluateSession` and `EvaluateNeighbour` hand over checks, `PollEnds` swaps
the cache, `EndCycle` is `wg.Wait`. The BMP server: `BmpConnect`,
`BmpDisconnect`, and `BmpProcess`, which updates the table and calls the hook.
Each of its steps is a step of the detector or leaves the detector alone
(`DetectorSpec` is checked as a property and proved).

**LicenseTerms** - keys, limits, days and the two status functions. They
differ: the edge truncates hours to days, the master compares instants, and the
edge allows the days of grace it has built in (`Grace`, 14 in the code), the
master those of the licence, which an administrator sets and no answer tells.

**LicenseMaster** - the master's store and the panel. `ToggleStatus` and
`RenewLicense` are two steps, `Begin` (GetByID) and the write, as the handlers
let go of the mutex in between; `NotFound` is their error path. `Graces` are the
days of grace that can be asked for; 0 days take the usual ones or leave those
that the licence has.

**LicenseEdge** - the manager and `CreateDevice`: `CountDevices`,
`CheckCapacity` and `StoreDevice` are three steps. `Save` may fail and leave
the old file, a torn one or a whole one.

**LicenseSystem** - both over a network that fails: `SendHeartbeat`,
`MasterAnswers`, `HeartbeatLost`, `HeartbeatEnds`, activations meanwhile, days
that pass, and restarts.

**ConsoleApi** - the families of calls of `services/api.ts`, which of them
swallow errors, and what every call carries.

**ConsoleViews** - the fifteen views that draw something the server keeps. They share
one life cycle, `Mount`, `Load`, answers in any order, `Install`, a failed
load, a timer, and differ in what loads them again, which failed calls they
forgive and which buttons wait: one row of a table each, read off their
`useEffect`s and handlers. `screen` is the last answer installed with the
question and company it was asked for; the server's data are how many changes
it has seen.

**ConsoleShell** - sections, sub-tabs, the strips, menus, palette commands and
windows that set them, and the badge written from `App`'s timer and from the
alert view.

**ConsoleForms** - six forms, a row each: does the button wait, what closes the
form (the answer, a 700 ms timer, nobody), does a new list refill it. `risky`
remembers that something was in flight when it was opened.

**ConsoleSession** - one tab, the store of all tabs, and its calls. `doubled`
is a development build, whose StrictMode runs the mount effect twice; `shared`
that another tab has written the store. Two history variables serve the
property: `chooser` is the user whose choice or sign-in left the company in the
store, `expired` the users whose session ended with a 401 since the last
sign-out, which removes the token and leaves the company.

**TrafficConsole** - profile bar, tables and the comparison window over the
server's store of profiles, of which one is active. **TrafficScripts** - the
command lines the windows write from the table last read, and what a router
makes of them when they are pasted later.

**NetworkTools** - terminal, ping with its interval, DNS and port scan.

**AlertLog** - filter, search and pages over the copy of the alerts, and the
button that acknowledges a page by parallel calls.

**MasterPanel** - the panel's table, filter and requests against the server's
licences and its tokens, which a restart forgets.

**MockServer** - the JSON files: a handler waits for its body, then reads,
changes and writes in one turn of the event loop; writes may fail and the
process may be killed in one (`hurt`). `told` is what the answers said.
`SeenBy(t)` is all that the lists, counts and device pages show a company t,
`Concerns(n)` the companies that request n names or whose record it changes.

**EventStream** - Subscribe, Unsubscribe and Broadcast as steps under Go's
readers-writer lock: a goroutine that waits for the write lock keeps new
readers out. A channel holds `Buffer` events; a full one loses the event.

**RpkiValidator** - `Validate`: look-up in the cache, own ROAs in their order,
then the public service, each under its own lock section, with entries that age.

**MCConsole** composes these parts for TLC; see the run `console`.

**MCDetector, MCTelemetry, MCLicense, MCConsole** - the instances. Definitions whose
comment says *Mutant* are wrong versions of a definition of the code; each
property is violated when the one that PROJECT.json pairs with it is put in.

## 3. Runs

| Run | Bounds | What it shows |
|---|---|---|
| `detector` | 1 device, 1 BGP session evaluated by two goroutines, its reachability by one; 3 alerts, file keeps 2, failing disk, 1 syslog line, 1 acknowledgement, 1 restart | open alerts per key are bounded by the goroutines that evaluate it; found alerts stay valid; what is resolved stays so; restarts restore the newest alerts; AlertLifecycle is implemented |
| `duplicate_alert` (refuted) | the same, without failures | two open alerts of one session |
| `telemetry_poll` | 1 device, 1 peer, 1 neighbour, by SSH; 3 changes or failed commands, failing disk, 1 acknowledgement, 1 restart, 5 alerts | cache and alerts agree between polls; lasting conditions end with the right alerts |
| `telemetry_bmp` | 1 device with BMP, 1 peer, 3 changes, 1 acknowledgement, 6 alerts | the engine uses the detector as specified; alerts of sessions that stay good are all resolved in the end, duplicates too |
| `telemetry_two` | 2 devices, 1 slot, 1 rename, 1 syslog line, 2 changes | a silent device has an open offline alert under its present name |
| `bmp_hides_down` (refuted) | 1 device with BMP, 4 changes | the row of a closed connection hides a fallen session |
| `rename_orphans_alert` (refuted) | 1 device, 2 names, 1 rename | the alert of the old name is never resolved |
| `license_quota` | 1 issued key and the trial, limits up to 2, 2 creations at once, 4 devices, 3 panel requests, 2 days, 1 activation | the overshoot is at most one device less than the creations |
| `license_sync` | 2 issued keys, one of them the environment's, and the trial, one guessed unlimited, days of grace 1 and 2, 2 panel requests, 1 activation, 1 outage, 1 restart, failing disk, 2 days | types; restarts keep the licence; edge and master agree in the end; suspensions reach limited licences |
| `suspension_undone` (refuted) | 1 issued key, 2 panel requests, 1 outage, 1 restart, 1 activation, 2 days | a suspension in the days of grace is forgotten |
| `renewal_drops_limit` (refuted) | the same | a renewal makes the licence unlimited |
| `console` | 12 scenes, each with its own bounds, below | what the views, forms, tools and panels show when answers are late, lost, refused or overtaken; what the development server keeps; how the event stream treats slow viewers; what the RPKI validator answers |

The parts of `console` run in pages and processes of their own that share
nothing but the server, whose answers each module leaves open. Their product
would only multiply states without adding a behaviour, so `scene` is chosen in
the initial state: the part it names starts in any of its initial states and
moves, the others wait in one of theirs. Every action of every part fires.
Within a scene: two companies and two questions with three calls in flight, two
user acts and one failed call (`views`: the third call can be overtaken by two);
one poll and one load against one active and one acknowledged alert (`shell`:
the two counts differ); two records and six acts (`forms`: open, type, save,
open another one while answer, list and timer are on their way); three accounts
of two companies, one of them super-admin, and five steps (`session`: sign in,
out, and in as someone else around a reload); two profiles, one of them a
factory one, four acts and one refusal (`traffic`); two upstreams, two levels,
two pastes and masks of eight bits (`scripts`; the assumption about masks is
evaluated for each prefix length); two hosts and five acts (`tools`); two
requests and one fault (`mock`: two requests are what a lost update takes); one
licence, two log-ins, three acts and two calls (`panel`); three alerts, pages of
one or two, one batch, one lost call (`log`: a list of two pages that shrinks to
one); two viewers, two writers, a channel of one event and three events
(`events`: the second event finds it full); addresses of three bits, three nested
ROAs and one apart with another maximal length, six routes and two askers
(`rpki`: a route shorter than the block, the block, inside it, too long, outside,
in the other block).

Why the bounds are enough. Two goroutines are the most that evaluate one key
(the collector's for the device and the BMP server's for its router). Three
alerts let one alert of a key be resolved and two others be open, and with a
file of two the oldest one falls out. Three network changes allow a fall, a
recovery and a fall, or two of them and a failed command; `MaxAlerts` of each
liveness run exceeds what those changes can raise, so that no alert is ever
refused by the bound. A failing CLI command, a BMP (dis)connection and a
statistics report spend the same budget as a network change, else they could go
on for ever. `MaxDay` 2 with one or two days of validity and two of grace lets a licence be
active, in grace and expire, and with one day of grace of its own the licence is
over on the master while the edge still counts it as in grace. Two panel requests
let a toggle and a renewal overlap, the third in `license_quota` deletes the
licence below them. One outage loses a request or an answer, one activation overtakes a heartbeat (with
the environment's key issued too, the heartbeat before it is for another key).
`CHECK_DEADLOCK` is off because bounded
behaviours end: the world's budget is spent, or `FailedBoot` has stopped the
process for good, which the code does too.

## 4. Fairness

Telemetry: weak fairness of `BeginCycle \/ EndCycle` (the ticker of
`Engine.loop`), of each device's goroutine `PollStep(d)`, of each pending
message `BmpProcess(d, p)` (the connection's read loop) and of each writer's
rules. Each is a goroutine that the Go scheduler keeps running, none waits for
another for ever: SSH commands have time limits, locks are held briefly. The
polling slots do not need strong fairness, because every goroutine that holds
one gives it back. Licences: weak fairness of `Sync`, the ticker and goroutine
of `Start` with its HTTP time limit of ten seconds. Nothing is assumed of the
network, the operators, the clock, the disk or restarts.

Console: weak fairness of `Tick` (an interval of the browser), of
`OldestAnswered` and `OldestDelivered` (a call that is in flight is answered or
fails, and its promise settles: the browser ends a call whose connection is
lost), of `AppAnswer` and `ViewAnswer` for the two counts. Only the oldest call
has to be answered, the others may overtake it. Event stream: weak fairness of
each `CastStep(w)` (a broadcast never blocks: each offer has a default case)
and of each `Subscribe(v)` and `Unsubscribe(v)` (a Go readers-writer lock does
not starve writers: a waiting one keeps new readers out). A viewer's reading is
not fair: it may never read.

Liveness properties have premises of the form "from some time on ...", because
nothing can be promised while the world keeps changing. The premises are
reachable: mutants violate each of the properties.

## 5. Proofs

All in `*_proofs.tla`, for every value of the constants that satisfies the
named assumptions of the modules (finite writers, disjoint names, natural
bounds). No step is left without a proof.

* **AlertStore_proofs** - one lemma per store operation. `StoreInv` adds to the
  types that unused numbers are empty, that the file is trimmed, current when
  the last save succeeded, and otherwise an earlier phase of each alert.
* **Detector_proofs** - the inductive invariant is `DetectorInv`: types,
  `StoreInv`, `WorkOK` (a goroutine has only checks of its own keys left, and one that has decided has work),
  `HitStaysValid` and `OpenAndRaisers`. The last is the heart: the open alerts
  of a key *together with the goroutines that have decided to raise it* are no
  more than the writers of the key. The plain bound is not inductive, as two
  goroutines may have decided already. From it follow `DetectorTypeCorrect`,
  `OpenIsBounded`, `HitsAreValid`, `ResolvedStays`, `RestartIsLossless` and
  `DetectorRefinesLifecycle` (a step of the detector is a step of the abstract
  life cycle or stutters; a restart is `RolledBack`).
* **Telemetry_proofs** - `TelemetryRefinesDetector`: every action of the engine
  maps to a detector step or a stutter, given that the evaluations it hands
  over are of the writer's keys and short. Hence `TelemetryOpenIsBounded`, and
  `PolledAlertsAreUnique`: a condition only the collector evaluates never has
  two open alerts. `TelemetryTypeCorrect` needs `CycleOK` beside the types: a
  device that waits in the queue has no goroutine, or its rows could be those of
  a poll before. `CacheAgreesWithAlerts` rests on three facts. `DecisionsStand`:
  what a goroutine has decided is still right when it acts, where it alone
  evaluates the key. `Settles(w, k, b)`: once `w` has run the checks it was
  given, `k` has an open alert exactly if `b`; no step of anybody else undoes it
  (`SettledStays`). `Match(d)`: outside the evaluation of its rows a device's
  cache is settled; during it, the rows already evaluated are, and the end of
  the poll makes them the cache.
* **License_proofs** - `LicenseTypeCorrect`; `RestartsKeepTheLicence`, from
  `FileAgrees`: after a good write the file has the key, limit and expiry of
  the licence in memory, but its status only as long as it matters, since
  recalculations are not saved; that days only go by makes it inductive;
  `OvershootIsBounded`, from `PlacesReserved`: devices plus the creations that
  were allowed, or counted fewer than the limit, never exceed the limit plus
  the creations less one, and from `LimitKnown`: no answer takes the limit
  away. What the two servers agree on has no run of its own beside the liveness
  property, which says that agreement is reached; these say that it lasts.
  `UpToDate`: the edge has the master's terms, and the heartbeat on its way, if
  any, can only bring them again. The answer with those terms establishes it and
  every step keeps it as long as nobody changes the licence or the key and no
  restart reads a file that a failed write left behind (`TermsOnceKnownStand`).
  The same theorem says when the statuses shown are equal (`StatusesAgree`): for
  a licence with a limit, on every day but that of the expiry, where the edge
  truncates, and but those on which one side's days of grace are over and the
  other's are not (`GracesDiffer`), as the master never tells its own. On the
  other days they may differ, and do. `BlockedHere` is the same for a suspension
  (`SuspensionsStand`): recalculating the status lifts none, and a restart reads
  it back. Their premises are reached on the constants of
  `license_sync`, where `EntitlementConverges` shows the agreement come about.
* **EventStream_proofs** - `ClosedChannelsAreLeftAlone`: the invariant says
  that whoever a broadcast has still to visit is registered (`TodoIsRegistered`:
  under the read lock nobody leaves) and that only those who are not registered
  have a closed channel (`ClientsHoldTheirChannel`). `ViewersAreToldOnce` says
  what a broadcast delivers while others run beside it: an event comes to a
  channel once at most, only if the viewer was registered as it was broadcast,
  and misses the channel only if that is full. It rests on `DeliveryInv`: no two
  broadcasts under way have one event, events are numbered as they come, and no
  channel holds an event that is still to be offered to it
  (`ChannelsHoldEachEventOnce`). TLC found no counterexample with two viewers, two
  writers, three events and channels of two.
* **RpkiValidator_proofs** - `OwnRoutesAreJudgedByRfc6811`: the first match
  decides as RFC 6811 does for every route that lies inside an own block, and
  the invariant carries it through cache and answers. The theorem is about lists
  in which ROAs that share an address name one holder and one maximal length
  (`RpkiAssumption`), as those of `ownROAs` do: one holder, /24 for the nested
  IPv4 blocks, /48 for the IPv6 block that overlaps none of them. Without it the
  first match is not RFC 6811, which looks for a fitting ROA among all that cover
  the route.
* **MockServer_proofs** - `NoAnswerIsUndone`, from `OneRunning` (one handler is
  between two awaits) and `CopyIsCurrent` (what it read is what the file holds).
  `RequestsStayWithTheirCompanies` uses the same invariant: as the copy is
  current, the list written back differs from the file in one entry
  (`OneEntryChanges`), and an entry that is not of a company, neither before nor
  after, changes none of its lists, counts and pages (`SameRows`, `SameLists`).
  Had an older copy been written back, the entry of another company would be gone.
* **Console_proofs** - `TabsSpeakForTheirUser`, from `OneCallAtATime` (a tab
  has a profile call while it shows the spinner, or a sign-in while the form
  waits, never two), `UserOfToken` and `StoreMatchesTab`; `OneTimer`, from the
  types of the switch and the tool. The company in the store is the common
  user's own, or was left by `chooser`, who is the tab's user or one whose
  session expired. `AcksReachTheRest`: every alert of an
  acknowledged page waits for its call or is accounted for (`Accounted`), and an
  alert only moves forward on the server (`ServerMovesForward`).
  `ConfirmedChangesAreDone`: a load that is still "alone" shares the way with
  reads only (`AloneReads`), so the table it brings is the server's; until
  something overlaps, the panel is `UpToDate` or has `OneChange` on its way,
  which means the opposite of what the server has. `IdleFormsKeepTyping`: all
  that is in flight belongs to the opening on the screen (`AllItsOwn`).
  `DiffsAreNamed`: the calls of a window opened without a comparison under way
  compare its own profile only (`OwnDiff`). `QuietPageIsRight`: `Phase(c)` says,
  for the one call c on its way, how far the loads that follow a change have
  come, and what bar and tables show meanwhile. `QuietUseShowsTheAnswer`: in each
  of the fifteen views, as long as no two calls overlapped and none failed,
  `OneLoadAtATime` - nothing is on its way and the screen is right, or one call
  is and `WillBeRight(c)` says what it will make of the screen (a load brings
  what the controls ask, a change is followed by such a load or brings itself).
  `PagesAreNeverEmpty`: an alert's place is one of 1..n and every place is taken
  (`PlacesInTheList`, `EveryPlaceIsTaken`: the places of a finite set are a
  bijection), and the page drawn is cut down to one that exists
  (`DrawnPageExists`), so its first place has an alert. `PagesSplitTheList` adds
  that the pages leave no alert out and show none twice, and that the buttons
  reach the pages beside the one drawn. `OutputsStayWithTheirCommand`:
  `TerminalInv` adds to the types and to the property that one command waits at
  most, and that the line it left is the last of the screen unless the screen
  was cleared. `AViewIsAlwaysDrawn`: `ShellInv` adds to the types that the alert
  view's loads are in flight only while it is shown; one lemma each says that
  defaults, strips and shortcuts (`SubTabsAreDrawn`) and the commands of the palette
  (`CommandsAreGood`), however they are filtered, lead to a sub-tab its section
  draws. `OneLevelIsTold`: `ScriptsInv` says that the router, the table
  the page has read and the line the operator has copied all mention an upstream
  once at most, unless a line was made before any table was read; a line made
  from such a table replaces what it says of an upstream and adds nothing.

Only model-checked are the twelve properties under fairness (liveness is out of
the prover's reach) and the value of the netmask function at its bounds, which
an assumption evaluates. Every invariant and action property of a passing run
has a theorem. The refuted properties have none.

Two parts of the model were put another way to be reasoned about, with the same
meaning: the pages of the list of alerts are given by the place of each alert
(`Place`) in place of a sorted sequence cut by `SubSeq`, and the rows of the
palette that match a query, and the lines of a script of one upstream, are sets
of indices in place of `SelectSeq`. TLC finds the same behaviours. Two `CASE`s of
which several arms can hold (an `if` chain in the code) became `IF`s, as the
first arm that holds is the one the code takes. The proofs assume what the code
gives: a list of alerts is finite, and there are finitely many upstreams and at
least one.

## 6. Disagreements between code and documents

1. `duplicate_alert`: `detector_test.go` expects one active alert per BGP drop;
   two goroutines raise two (`detector.go:73`).
2. `bmp_hides_down`: `README.md:108` promises that falls of BGP sessions are
   detected; a fall while the router's BMP connection is down is not
   (`bmp/server.go:157`).
3. `rename_orphans_alert`: `README.md:112` promises that alerts are resolved as
   soon as the link is normal; not under a new name (`detector.go:27`).
4. `suspension_undone`: `master-server/README.md:19` promises remote blocking of
   defaulting clients; a licence in its days of grace is unblocked by the next
   recalculation (`license/manager.go:172`). Unlimited licences are never
   blocked either (`manager.go:157`, `:322`), which is why
   `SuspensionReachesLimited` is said of the others.
5. `renewal_drops_limit`: `admin.go:169` says a renewal extends the expiry; it
   sets the limit to 0, unlimited (`store.go:232`).

Met while modelling and kept out of the properties by their premises, for the
properties say exactly where the code keeps its word:

* RPKI: a route shorter than one of the own blocks that starts at the same
  address, as `2804:5594::/30`, is judged valid, where RFC 6811, which the
  comment at `rpki/validator.go:97` names, would not call it covered
  (`OwnRoutesFollowRfc6811` is about routes inside the blocks). A late failure
  of the public service overwrites a fresh answer for six hours.
* Views without a timer keep the late answer of the router asked first under
  the name of the second one, until the next action (`QuietUseIsRight` is about
  one call at a time, `PolledViewsCatchUp` about the views with a timer).
* A comparison window opened while an earlier comparison is under way shows the
  earlier profile's under the new name, and its button applies the new one
  (`DiffIsOfTheNamedProfile` is about windows opened with none under way).
* A form opened within 700 ms of a save, or while a list is on its way, is closed
  by the timer of the form before (`BGPManager.tsx:167`) or filled again
  (`UserManager.tsx:88`): `IdleFormsKeepTheirText` is about the others.
* The panel of the master asks for the opposite of the status it drew, the server
  flips the one it has: what another operator changed since the last load is
  flipped back. A 401 for a call of the old session signs the new one out
  (`app.js:86`). `ConfirmedIsDone` is about one operator alone.
* A renewal works its expiry out from a licence read before (`admin.go:185`): of
  two that overlap, or of a renewal and a new expiry set meanwhile, one is lost.
* A session that expires leaves its company in the browser
  (`AuthContext.tsx:79-83` removes the token only): a super-admin who signs in
  next works on that company until he chooses another
  (`AuthContext.tsx:105-110`). `CallsSpeakForTheUser` says that this is the only
  way to a company which somebody else chose.
* The days of grace set for a licence (`store.go:241`) are not in the answer of a
  heartbeat (`models/license.go:84-92`); the edge always allows 14
  (`manager.go:398`). Between the two ends the master shows "expired" and the
  edge "grace", or the other way round.
* The development server's page of prepends gives any device but the first router
  the second one's groups (`mock-server.cjs:930`), another company's devices too:
  the page is in `SeenBy`, and it is the same whatever is stored.
* The command line written before any table was read starts from fixed
  communities (`trafficHelpers.tsx:403`) and can then tell a router two levels
  for one upstream.
* The page number of the alert log is clamped when drawn, not when set: after
  the list shrank, "previous" does nothing visible at first.
* The device form does not wait for the answer: two presses create two devices.
  The deletion of a company compares it with the company that was active when
  the button was pressed (`TenantManager.tsx:140`): one chosen meanwhile is
  reset, or the deleted one stays active.
* StrictMode's second profile call can fail after the first one succeeded and
  signs the tab out; a tab keeps showing its user after another tab has signed
  in as someone else, while its calls carry that one's token.

## 7. Abstractions, and what is not modelled

* Targets are names, peers or neighbours; the code's strings are built from
  them. Every modelled device has BGP enabled. Severities, messages and
  timestamps other than their order are left out. A broadcast changes nothing
  of the engine's state and is modelled in EventStream.
* A router has at most one BMP connection and its messages are read in order.
  Prefix counts are in units of all the prefixes of a peer. HasActiveSession
  and GetDeviceBGPSessions, two lock sections with nothing between them, are
  one read.
* Deletion of devices, snapshots, device status, the manual trigger of a cycle
  and Stop are not in Telemetry.
* Licence time passes in days; expiries are at the start of a day and statuses
  are worked out at noon. One heartbeat is under way at a time (ten seconds
  against thirty minutes). Standalone mode, tiers, features and client names are
  left out. The master's file is written under its mutex and its disk is taken
  to work; so is the inventory's.
* `syncWithMaster` reads the key before it takes the mutex. An activation at
  that moment may tear what it reads: the model's heartbeat then carries
  `TornKey`, which the master does not know.
* Console: a list is the set of changes it contains, a record is a name and the
  field lists are cut by, a form's text is typed or not. Drawing, sorting, local
  text filters, pictures, wording and layout are left out. React's batching of
  state changes within one handler is one step; between an `await` and what
  follows it other steps happen. A component that was left ignores its answers.
* Development server: a record has a name and one more field; the canned answers
  (health, telemetry, profiles, audit) keep no state. Node writes a file in one
  go as seen by other handlers; a crash or a failed write may leave any prefix,
  which no longer parses (`Corrupt`).
* Event stream: keep-alive comments and the HTTP writer's own buffer are left
  out. RPKI: one address family, short addresses.

Not modelled, with reasons:

* `EvaluateRoute` and the list of invalid routes of the validator are called by
  its tests only.
* The BMP message parser and the drivers' parsers turn bytes and CLI text into
  rows: a model would repeat them character by character. In Telemetry they
  yield the rows or fail.
* The churn tracker ranks by floating-point scores; its totals only grow, and
  nothing in the repository says what they should be.
* PostgreSQL stores and migrations are SQL text. The fallback stores, the
  metadata stores and the audit log are tables under one lock per operation:
  no step of another goroutine fits in between, and what a test of one call
  checks is all there is. The browser's side of their operations is in
  ConsoleForms and ConsoleSession.
* Compliance checks and probes are stateless; their pages are in NetworkTools.
* `UpdateDevice` reads the device again after the update and uses it without
  looking at the error (`device_handlers.go:149`): the panic ends one request,
  no state is left behind that a property could relate.

The components of PROJECT.json say for each part what is left out. Its map has
one place per definition; four definitions stand for the same pattern in several
places and name one of them: `SaveFails` and `AfterFailure` of ConsoleForms
(the catch and finally of all six forms; the map names `LicenseView.tsx`, its
fellows are the save handlers the rows of the forms name), `StartsBusy` of
ConsoleViews (the spinner's initial state in every view) and `Merge` of
MockServer (the record a PUT stores, for users, companies and devices alike).

## 8. Plan

1. **DeviceInventory** (`storage/devices.go`, `api/device_handlers.go`): update
   as read-then-write, status changes from the collector, deletion during a
   cycle and during an update; composed with Telemetry's cycle.
2. **Staged activation** (`traffic/profile_service.go`) on several routers with
   one of them failing, under TrafficConsole's server; an abstract "at most one
   active profile" and its refinement.
3. **Engine life cycle** (`engine.go`, `collector.go`): manual trigger against
   the ticker, Stop, overlapping cycles, snapshot ring.
4. **Console and server together**: ConsoleViews over Telemetry's alerts instead
   of an open answer, EventStream fed by Detector.

Next theorems: the type invariants of the forms, the panel, the traffic page and
the views, of which the invariants of section 5 hold the part they rest on; that
a subscribed viewer's channel has the events of each writer in the order in
which that writer broadcast them (it takes a history of the authors); and the
refinements that items 2 and 4 bring.
