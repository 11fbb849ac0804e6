# TLA+ verification of the CPA provider plugins

`src/plugins/` holds five plugins of one proxy host, CLIProxyAPI: `zcode`, `trae`,
`workbuddy`, `qoder` and `mimo`. Each is a Go shared library that signs in to one
provider, keeps the credentials of many accounts, and executes the host's chat calls on
them. This directory holds TLA+ models of the parts whose state is shared by concurrent
goroutines, the TLC runs that check them on small instances, and proofs that the TLA+
proof system checks for every instance. `src/…` paths below are of the repository;
`file.go:12` without a directory is in the plugin under discussion.

Contents: 1 the system, 2 the modules, 3 what each run shows, 4 bounds and fairness,
5 what is proved, 6 only model-checked or not modelled, 7 where code and text disagree,
8 the plan.

## 1. The system

The host loads the plugins and calls them over a C bridge: *pick a credential*, *execute
a call*, *execute a streamed call*, *parse*, *refresh* and *log in* a credential, and
*management* requests from the panel. A plugin calls back: list, read and save auth
documents, send an HTTP request, emit or close a stream. Host calls are concurrent, so a
plugin's package variables are shared by one goroutine per call in flight, plus its own
background goroutines (schedulers, keepalive, reconcile after an error, stream pumps).

What makes this hard to test is the same in every plugin:

* every registry has a mutex, and the code around it reads a clock, an answer or a
  document *before* it takes it;
* upstream calls take seconds, and what they answer is written into a pool, a table or
  a document that others have meanwhile changed;
* a streamed call is told to the host as a success before it is over, so its failures
  must be found before the first byte or reported in the stream, never both;
* auth documents live in the host: a change is a read and a save with no lock between.

### 1.1 zcode

| part | state | operations | interacts with | must hold |
|---|---|---|---|---|
| model cooldown (`cooldown.go`) | table (auth, model) → until, at most 4096 | mark, query (lazy expiry), clear, list | executor, catalog filter, pick, panel | bounded; no live entry lost but to the panel or to a full table |
| off-peak lane (`offpeak.go`, `main.go:587-908`) | per round: ticket, deadline, attempts | acquire, poll, re-take, queue-ack wait, send, settle | ticket server, executor | every granted ticket settled; budget kept; every round returns |
| claim scheduler, captcha pool (`claim_scheduler.go`, `captcha_pool.go`) | per-account hold, last error; FIFO of 8 captcha parameters | tick, claim, fold; put, take | panel, executor's captcha retry | a parameter is spent once, for a claim that needs it; holds respected |
| start-plan memo (`plane.go`, `stream.go`) | model → last seen, 6 h | harvest, note | executor | memoised only what was served |
| account cache (`cache.go`, `lifecycle.go`) | auth → credits, plan, fetched | singleflight fetch, invalidate | reconcile, panel | an invalidated entry is not served again |
| pick, login, signing, translation | pinned name; login states | pick, start/poll login | host | — |

### 1.2 trae

| part | state | operations | interacts with | must hold |
|---|---|---|---|---|
| account pool (`pool/pool.go`) | uid → until, reason, errors, disabled | cooldown, disable, release, re-enable, note error/success, quota freeze | executor, scan, refresh, panel | an exhausted account stays out until the coming local midnight, not longer |
| quota gate (`main.go:2392-2420`) | — | probe a frozen account before the call | upstream, pool | — |
| streamed executor (`main.go:2201-2345`, `sse_convert.go`) | channel of 32, fault tracker, head frames | convert, gate, pump | host stream, pool | nothing lost; an error before any answer is a failure, a faulted call no success |
| check-in scheduler (`scheduler/scheduler.go`), claim gate (`upstream/claim_once.go`) | day registry, retry timers | run, retry, manual check-in | pool, panel | one accepted claim per account and day (kept only between check-ins that do not overlap) |
| login completion (`pending_persist.go`) | pending logins, one pending file, outcomes | start, poll, self-complete, restore | host, restart | one completion per login |
| models, international lane, upstream client | catalogs | — | — | — |

### 1.3 workbuddy

| part | state | operations | interacts with | must hold |
|---|---|---|---|---|
| 6004 registry (`model_ratelimit.go`), quarantine (`account_restriction.go`), holds (`cooldown.go`) | three tables with windows | note, query, clear | executor, pick, panel | no window ends early |
| in-flight slots (`admission.go`) | auth → count, cap | acquire, release, reconfigure | executor | the count is exact |
| session renewal (`billing_401_renew.go`, `chat_401_heal.go`, `keepalive.go`, `oauth.go`) | in-flight map, last start, refusal memo; the auth document | renew, join, throttle, persist, flag | chat, billing, keepalive, host refresh | one renewal at a time; the stored pair is the session's; a dead verdict is true |
| lifecycle (`lifecycle.go`, `policy.go`, `cache.go`) | 30 s memo, document flag and note | reconcile, disable, re-enable, note, delete | billing, executor's failures, panel | the flag follows the credits; other fields survive |
| check-in (`checkin.go`), guardrails, identity switch, usage note, task center | per-account locks, budgets, ledgers | scheduled and manual runs | document, cache | one claim per day; overrides survive; budget kept |
| stream head gate, catalog, payload, dialer | — | — | — | — |

### 1.4 qoder

| part | state | operations | interacts with | must hold |
|---|---|---|---|---|
| streamed executor (`stream.go`, `main.go:882-984`) | head gate: one-slot verdict, handed-off flag | pump, hand-off | host stream | a failure is told once; a refused call delivered nothing |
| queue retry (`queue_retry.go`) | attempts, waited; table of ladder windows, at most 64 of 12 s | wait and re-issue on a queue ticket | pump, collector | bounded, invisible; one ladder per window |
| campaign rounds (`campaign.go`, `round_state.go`) | memo, debounced file | sync, check in, launch | restart | a round is not re-entered |
| cooldown, lifecycle, cache, check-in, keepalive, identity, catalog, login | as workbuddy's | | | |

### 1.5 mimo, the shared ledger and the rest

| part | state | operations | interacts with | must hold |
|---|---|---|---|---|
| cookie session (`session.go`, `exchange.go`, `executor.go`, `usage.go`, `adopt.go`, `cookie_paste.go`) | one document per account: ticket, region, login rows, note, flag | chat, sweep, adoption, paste; a mint over the regions | passport, the regions' servers, operator | a ticket goes to its region; the account serves again once it can |
| login (`oauth.go`, `management.go`) | flows with a key pair, a loopback server and a channel each | start, callback, paste, poll, sweep, janitor | browser, host's dialog | a dialog ends with its own user's credential; no server outlives its flow |
| usage ledger and note (workbuddy, qoder, trae `usage_note.go`) | totals, hours, quota window, file; the note's segment | count, prune, flush, stamp, write the note | lifecycle, billing, restart | windows summed exactly; the file forgets nothing that could be read; the note's two writers agree |

`tools/registry`, `scripts`, `docs`, `dist` and `registry.json` build and describe releases
and have no run-time state.

## 2. The modules

Every component is a module of its own; a run's `MC…` module composes those that share a
plugin's concern. A composing module has a variable `lane` (or `part`), chosen once: a behaviour
is one component's, the others rest in one initial state each, and a property of a component is
stated for its lane. `MCZcodeAccounts` takes the lanes that its constant `Lanes` names: the
off-peak lane is the run `zcode_offpeak`, the others are `zcode_accounts`. Each module's type
invariant is checked as a conjunct of one invariant of its composite (`LanesTypeOK`) or proved
(section 5).

| composed by | module | code |
|---|---|---|
| `MCCooldowns` | `WorkbuddyGate` | workbuddy `cooldown.go`, `model_ratelimit.go`, `account_restriction.go`, `admission.go` |
| | `ZcodeCooldown` | zcode `cooldown.go` |
| | `CooldownTable`, which both use | the table operations of the three `cooldown.go`, with their lemmas |
| `MCZcodeAccounts` | `ZcodeOffPeak` | zcode `offpeak.go`, `main.go` |
| | `ZcodeClaim` | `claim_scheduler.go`, `claim.go`, `captcha_pool.go`, `touch.go`, `preview.go` |
| | `ZcodePlane` | `plane.go`, `signing.go`, `executor.go`, `main.go`, `stream.go` |
| | `ZcodeAccount` | `cache.go`, `lifecycle.go`, `policy.go`, `active_auth.go`, `scheduler.go`, `panel.go`, `quota.go` |
| | `ZcodeLogin` | `oauth.go`, `auth_keyres.go` |
| `MCTraeAccounts` | `TraePool` | trae `pool/pool.go` and every caller that writes it |
| | `TraeLogin` | `pending_persist.go`, `oauth_callback.go`, `main.go`, `intl_main.go` |
| | `TraeCheckin` | `scheduler/scheduler.go`, `upstream/claim_once.go`, `management.go` |
| | `TraeCredential` | `upstream/client.go`, `bound_exchange.go`, `management.go`, `models_persist.go`, `usage_note.go` |
| `MCWorkbuddySession` | `WorkbuddySession` | `billing_401_renew.go`, `chat_401_heal.go`, `keepalive.go`, `oauth.go`, document writers of `lifecycle.go` |
| `MCWorkbuddyAccounts` | `WorkbuddyAccount` | `lifecycle.go`, `policy.go`, `checkin.go`, `cache.go`, `credits_handler.go` |
| | `WorkbuddyGuard` | `scheduler.go`, `active_auth.go`, `guardrails.go` |
| | `WorkbuddyTasks` | `taskcenter.go`, `task_auto.go`, `task_chat.go`, `growth.go`, `school.go` |
| `MCQoderAccounts` | `QoderCampaign` | qoder `campaign.go`, `round_state.go`, `checkin.go` |
| | `QoderDevice` | `machine_identity.go`, `umid_provision.go`, `billing_cookie.go` |
| | `QoderAccount` | `lifecycle.go`, `policy.go`, `cache.go`, `auth_reject.go`, `checkin.go`, `credits_handler.go` |
| `MCUpstream` | `QoderStream`, `TraeStream`, `WorkbuddyStream` | one streamed call past the plugin's gates |
| | `PlainStream` | the pumps without a gate: zcode, mimo, trae's international lane |
| | `StreamedCall` | the contract with the host that all four implement |
| | `ModelCatalog` | workbuddy `models.go`, `models_persist.go`, `models_groups.go` |
| `MCMimoAndLedger` | `MimoSession`, `MimoLogin` | the two mimo parts of 1.5 |
| | `UsageLedger` | workbuddy `usage_note.go`, `usage.go`, `lifecycle.go` |

The theorems are in eight modules, each beside the composite it is about:

| proofs | of |
|---|---|
| `CooldownsProofs` | `WorkbuddyGate` and `ZcodeCooldown` through `MCCooldowns` |
| `ZcodeProofs` | the five lanes of `MCZcodeAccounts` |
| `TraeAccountsProofs` | the four parts of `MCTraeAccounts` |
| `UpstreamProofs` | the five lanes of `MCUpstream`, and `StreamedCall` |
| `WorkbuddySessionProofs` | `WorkbuddySession` |
| `WorkbuddyAccountsProofs` | the three lanes of `MCWorkbuddyAccounts` |
| `QoderAccountsProofs` | the three lanes of `MCQoderAccounts` |
| `MimoAndLedgerProofs` | the three lanes of `MCMimoAndLedger` |

`CooldownTable` holds the lemmas about its own operators.

Common conventions. One action is one critical section or one stretch of code between
two points where another goroutine can act. A failure that is stamped before its lock is
taken is two actions. A deferred call runs in the action that ends the function.
Some operators that no action uses (`MadeRoomLate`, `FoldedAccess`, `HandClaimsBlindly`, …)
stand just before the definition they vary: they are the plausible bugs each property is
tested against. A property whose comment says that the code does not keep it is checked by
no passing run; section 7 tells what happens.

**ZcodeCooldown.** `table` is `cooldownTable`; `call[c]` is the API call goroutine `c` is
inside with the clock value it took before the lock. `RecordUpstreamFailure` and
`QueryStart` stamp, `MarkModelCooldown` and `ModelCoolingUntil` are the critical
sections, `ClearModelCooldown` reads no clock and is one step.

**ZcodeOffPeak.** A round of either executor handler goes through `pc[r]`: `start`,
`take`, `queued`, `polling`, `body`, `send`, `backoff`, `failed`, `done`. `cur` is
`currentTicketID`, `resume` the re-take after a 3102, `deadline` and `wake` the budget
and the end of a sleep. The server admits, activates and expires tickets on its own.
`settled` is the set of tickets a settle call was made for; settling is best effort, so
the promise is the call, not its success.

**TraePool.** `pool[u]` (in the composite `entries`, with the clock `now`) is an entry; each
pool method is an operator on an entry (`Cooldown`, `NoteError`, …), used by the actions of the
executor (`Arrive`, `Probe`, `Refused`, `StreamFaults`, …), the scan, the token refresh and the
panel. The upstream's pack (`remain`), the session behind the token (`cred`) and the panel's
cached snapshot (`cached`) are variables of their own, because the hazards are answers that
stopped being true. Days are on the calendar (`today`, `tomorrow`), with `DaySpans` for days
that are not 24 h.

**TraeStream.** The converter goroutine (`Reads`, `Emits`, `ReadEnds`), the channel `ch`,
the head gate (`HeadHolds`, `HeadFails`, `HeadDrained`) and the pump. `made` records every
chunk the converter made, so that "nothing lost" is an equation between it and what was
delivered, held, buffered and in hand.

**WorkbuddyGate.** A call passes `Gates` in the code's order (6004, quarantine, hold, cap,
admission), each one step, waits upstream, `Sees` an answer (the stamp) and `Records` it,
each registry in its own step, then `Return`s its slot. The panel clears, the operator
changes the cap, the pick consults the same tables and expires lapsed entries. `strikes`
is a history variable: restrictions since the account's last normal answer.

**WorkbuddySession.** A token pair is two generations; the upstream accepts one refresh
generation, `live` (0 when the session is gone). A goroutine in one of four roles (chat or
billing call, the lifecycle's credits fetch, keepalive, host refresh) walks through
`proc[p].at`: bounced → asking → owner, joiner or throttled; owner → renewing → saving →
writing or flagging → marking → released. Document changes are a read and a save.
The credits fetch then decides: `Reenables`, `Disables`, `NoteReads`/`NoteWrites`, which
build the document from its own snapshot. `alone` is a history variable: since the last
login nothing but the renewal plane touched the pair, nothing was lost, and every renewal
ended inside its window (see 5). `MaxPairs` bounds logins and renewals.

**QoderStream.** The pump (`before`, `send`, `read`, `queue`, `done`), the hand-off
(`wait`, its timer, `claim`, `open`, `refused`), the gate's one-slot channel `slot`, and the
client. Frames are counted: `got` from the upstream, `head` held back, `out` taken by the
host. `inband`, `recorded` and `result` are what the call reported and to whom.

**StreamedCall.** What the host may rely on: a call is opened or refused once, a refused one
has shown nothing (the host retries it elsewhere), a failure is told in the stream at most
once and never of a call that counts as a success. `MCUpstream!Call` maps each lane's
variables to it; `CallsKeepContract` is its specification, proved of all four.

**WorkbuddyStream.** The gate is two one-slot channels, the pump's `outcome` and the hand-off's
`token`: a pump that files a failure asks the hand-off (`AskAnswered`) whether it still
listens. The same pump runs ungated, and its frames are collected or folded in the two
synchronous modes.

**PlainStream.** `plugin` and `wire` choose what is resent (`Resends`: zcode's signing ladder,
mimo's cookie; `FallsBack`: zcode's JWT plane) and who reads (`Pumps` or the collector).

**ModelCatalog.** A query walks cache → discovery over two probes → last list → a file's
snapshot; `Discovers`, `Saves` and `Rebuilds` are the three writers of the cache and the
files. A list is the set of what each probe brought, from which catalog of the gateway;
`Home` is the realm the files are of at first, and a file may move to another.

**ZcodeClaim.** A `tick` reads two lists (`Read`), takes the targets (`Targets`), claims each with a
parameter of `pool` (`Claim`) and folds the answers into `hold` (`Fold`, `Worst`). The chat's
captcha retry and the panel draw on and fill the same pool.

**ZcodePlane.** A call climbs `rung`s of the signing ladder on its `route`, may fall back to the
JWT plane once and retry there with a parameter; `memo`, `gate` and `bypass` are what it
leaves to the next one.

**ZcodeAccount.** `cache`, `flight`, `memo` and `doc` per account; the panel and the reconcile
fetch, decide and write; `Chat` routes on the cached credits and may start the reconcile.

**ZcodeLogin.** A poll loads the login, the grant arrives, the key's chain runs (`Step`), and
`Success` deletes the state; the provider is the login's, not the setting's.

**TraeLogin.** `login` is both flows' maps, `file` the one record on disk, `task` the completions
that took a code up. `Restart` empties everything but `file`; `SweepRecord` restores.

**TraeCheckin.** `run` holds `runMu`; `waiting` are the daily loop and the retry timer behind it;
`hand` the panel's, any number at once and each with a claim of its own under way. The gate is
asked when a claim sets out and the acceptance is noted when it is answered, in two steps
without a lock. `Skew` is the distance of the host's day and the claim's; `early` and
`accepted` are history: who set out before the day's first acceptance, and whose claims were
accepted.

**TraeCredential.** A `lane` is an operation that read the document, renews upstream (`Renews`
rotates the pair) and saves what its `Docs` keeps. `alone`, as in `WorkbuddySession`, says that
only renewals that are saved came by.

**WorkbuddyAccount, QoderAccount.** A handler's `task` walks through `at`: status, claim, fetch,
store, decide, write. `memo` is the 30 s memo of the last write. Workbuddy deletes an
exhausted Global account (`Confirm`, `Delete`); qoder disables only and has the grace window.

**WorkbuddyGuard.** `known` and `dayStart` are what the guardrails judge by, `arming` the fetch
that gives an account credits. `age` says whether a cache entry is younger than its TTL: the
arming fetch reads upstream (`Arms`) only past an entry that is not (`LooksUp`), and a chat
leaves a fresh one without credits (`Chats`); `Pick` and `Dashboard` both move `active`, to the
first account of `Order` (`FirstOf`) in the set of those that may be picked.

**WorkbuddyTasks.** A run of one of three callers takes its steps in `Then`'s order; a step calls the
growth center `up` and may fail or find the session dead, and only some look.

**QoderCampaign.** `up` shows the daily row in the dialects of `shown`; a `pass` reads, claims row by
row, probes a hidden round by its remembered id, sums its answers. A claim that landed was answered
with an amount (`credits`), a coupon's `code`, a coupon whose code is `pending`, or without an
amount to read (`unread`); the sums treat the four as the code does. `memo` and `disk` are
the rounds' memo and its file, `latch` the cooling verdicts. `Hydrated` lays the file over
the memo once, as the code does; a debounced save writes the memo of any moment since the
last one, so what reaches the file is either of the two.

**QoderDevice.** `call` asks for the identity, looks for the bridge, takes `umidProvisionRunMu`,
looks again, downloads, selects and installs. `disk` is the size of the file there: one that is
not above `umidBlobSizeMin` is not `Accepted` for a bridge, though a component of any size is
installed. `jar` is the cookie handshake.

**MimoSession.** A `job` works on its copy `sa`: send, mint over `cands`, save, send again. The sweep
also saves its note, from a document it read before. A mint takes the first ticket nobody
holds (`Fresh`).

**MimoLogin.** `flow` is the map with its servers and channels; `Callback`, `Paste`, `Poll`, the
sweep in `StartLogin` and the `Janitor` end it.

**UsageLedger.** A request is counted under the hour it began in; `Pruned` drops old hours;
`disk` is the file, `dir` the directory that is asked for once. The first use loads, once, and a
read that fails leaves an empty ledger that counts as loaded (`Loaded`); `unread` remembers it.
`note` has a base (the lifecycle's) and segments (the writer's).

## 3. What each run shows

| run | properties | what they say | states |
|---|---|---|---|
| `cooldowns` | `SlotsCounted`, `WindowsKept`, `HoldsKept`, `BoundedTable`, `LiveEntriesKept` | workbuddy: slots are exact while the cap is switched; no 6004 window or quarantine ends early; a hold loses time only to the panel or a full table. zcode: with stamps older than the lock, the table stays within its bound and a live entry is lost only to the panel or to a table full of live ones | 1.6 M |
| `zcode_offpeak` | `ExecuteSettlesAll`, `SettledNeverSent`, `RoundsEndInTime` | the settle discipline through 3102 swaps and failed re-takes; termination against a server that only queues, only answers 3105 or expires everything, without a sleep past the deadline | 0.2 M |
| `zcode_accounts` | `DayMeansDone`, `CreditsFound`, `RecoveredNotCooled`, `CredentialFits`, `LoginCompletes` | an account is left alone for a day only when its plans are its; an open plan is claimed in the end, a package is found on whichever plane it is, chats end up on accounts with credits; a call that succeeded cools nothing; two polls of one login end with one usable credential | 0.2 M |
| `trae_pool` | `FreezeEndsAtMidnight` | whoever stamps exhaustion and how often, the window ends at the coming midnight | 2.5 M |
| `trae_accounts` | `SingleSlot`, `AcceptedSettles`, `RepeatsOverlap`, `CredentialKept` | a flow holds its last login only, also after a restart; an accepted callback ends in an outcome; two claims of an account accepted on one day were under way at once, and neither the runs nor one check-in after another have two; renewals that are saved never lose the live pair, and the plugin's saves keep the model catalog | 0.6 M |
| `workbuddy_session` | `OneRenewal`, `PairKept`, `DeadOnlyIfGone` | a fan-out of 401s beside keepalive, host refresh, re-login and a dying session | 3.2 M |
| `workbuddy_accounts` | `PaidOnce`, `DeletesOnlyEmpty`, `RunSettles`, `NeverFlipFlops`, `AccountsSettle` | one claim a day from the panel and no paid chat past the target; no account is deleted that had credits since its reconcile began; an undisturbed daily loop leaves nothing to enrol, claim or draw; two exhausted accounts do not take the selection from each other; a guardrail gets credits to judge unless chats of its account go on, and the flag comes to agree with the credits | 0.5 M |
| `qoder_accounts` | `GrantsTold`, `LatchIsVerdict`, `NoStampede`, `AccountsSettle` | an amount or a code that was granted is told whatever else was refused; a latch is a verdict on that very round; one download at a time, none where the plugin accepts what is there; the round is claimed in the end and the flag follows the credits | 0.6 M |
| `upstream` | `FailureToldOnce`, `FaultsDecide`, `NothingLost`, `CallsKeepContract`, `CallsEnd`, `RealmKept`, `CatalogSettles` | the four kinds of streamed call implement `StreamedCall` and end; lists of models stay in their realm, and cache and files come to hold what the gateways serve | 0.2 M |
| `mimo_and_ledger` | `CredentialsFit`, `LedgerExact`, `LanesSettle` | a ticket goes to its own region, no stream stays open, a dialog ends with its own user's credential; windows are summed exactly and a restart whose read of the file succeeds does not shrink it; the account serves again, servers end, no result is lost, the note's base settles | 0.5 M |

Two runs find the code at odds with its own text. `trae_claims` (`OneClaimPerDay`): a check-in
looks the registry up before it sends its claim and notes the acceptance after the answer
(`management.go:743`, `:762`; `scheduler/scheduler.go:171`, `:198`), and neither two check-ins
by hand nor one beside a scheduled run share a lock, so both are let through and both accepted,
although the registry is to keep "the claim plane to one accepted send per account per metering
day" (`upstream/claim_once.go:27-28`). `RepeatsOverlap` is what it does keep.
`usage_ledger_segment` (`SegmentKept`): every save of the lifecycle drops the 【用量】 segment of
the note: since the credits part is cut at the usage marker, `displayNoteWithPrev` has no
segment left to re-attach (`lifecycle.go:275`), although the note's comment promises it
(`usage_note.go:35-36`).

## 4. Bounds and fairness

Each bound is a constant named in its module; those marked "for TLC only" appear in
guards and in no property. What is bounded inside an initial state carries the comment
"bound".

* Cooldown: two auths, two models, two goroutines, a table of two, TTLs 3 and 1, clock to
  4. A full table with a third pair, an expired and a live victim, and a stamp that ages
  over a whole TTL all occur. Gate: one account (the registries share nothing across
  accounts but their size), two models, two calls; windows of one and two units so that a
  later answer can declare a shorter or a longer one; sweeps from one entry.
* Off-peak: one round of each handler over two tickets, so a swap and a re-take happen and
  tickets run out; budget 2 with polls up to 2, so a sleep can reach the deadline.
* Pool: one account, two calls, clock over one midnight; threshold two, so a mix of calls
  can cool by errors. Two accounts share only the scan's loop.
* Streams: three chunks, so an opener, an answer and a tail fit; trae's channel of two under
  six frames, so the converter can be blocked before the gate decides; qoder's four
  attempts as in the code (`queueMaxAttempts`), waits and budget scaled (700 ms → 1, a depth
  ticket → 2, budget → 4). Catalog: two files, either realm's snapshot or none in each, one
  disturbance (a catalog changes, an outage, a rebuild, a restart).
* Session: one goroutine of each kind and three pairs: the first, one renewal or re-login
  racing it, and one more to see what the race left.
* Accounts: two goroutines of each kind and up to two outside events (faults, edits,
  purchases, revocations), so that something can happen between any two steps of a handler
  and once more after it; two plans and two captcha parameters against a pool of one; two
  rounds of a campaign, so that a verdict on the first can meet the second; two logins, a
  restart, two token pairs; two check-ins by hand beside the scheduled run, so that two of a kind
  can overlap; guardrails over two accounts, full or empty at first, reserve 0 or 1, and one
  disturbance (`MaxChanges`) beside any number of chats, reads and arming fetches: a failed
  fetch or a deleted entry already needs the next window.
* Mimo: an account that one region serves and that may start in the other, one chat,
  adoption or paste beside the sweep, two outages, expiries or acts of the operator; two
  logins, so that one can sweep or be pasted into the other. `Serials` bounds the tickets that are
  held at a time: one for the document, each copy and the sweep's note.
* Ledger: two requests over hours 0 to 2 with a retention of one hour, so that a request
  may end in a later hour than it began in and after that hour was pruned.

`CHECK_DEADLOCK FALSE` is set where a bounded clock, a bounded supply of frames or events
or a finished call really ends the behaviour; the session run leaves it on.

Fairness is stated where liveness is checked and nowhere else, beside the composite's
specification with its reason: a goroutine that can run does (Go schedules it, the host's HTTP
call returns or times out), loops and timers of the plugin go on, windows and memos that are a
time's length have their end. A step of a goroutine that competes for a lock or a single flight
is strongly fair, as a Go mutex is. Nothing is assumed of upstreams beyond an answer or an error
to each call, of operators, of clients or of the ticket server; an outage (`ModelCatalog`) is
assumed to end. The TTL of a cache entry passes unless something keeps renewing it (weak
fairness of `Ages`): chats that do so for ever are excepted by name. A converter blocked on a
full channel is not runnable, so its leak stays visible in `CallsEnd`, which excepts exactly it.

## 5. What is proved

All theorems hold for every value of the constants under the modules' named assumptions:
positive durations and table sizes, sentinels that are no real thing, finitely many calls
where they are counted, bounds that are numbers. Each proof's inductive invariant contains
its module's types and was checked by TLC on the run's instance before it was proved.
In a composite each lane has an invariant of its own, a step of one lane leaves the others'
variables alone, and the theorem is of the composite's specification, the one the run
checks.

**Cooldowns** (`CooldownsProofs`).

* `CooldownBounded`, `CoolingPairsKept`: types and the bound of zcode's table are inductive
  together, as a mark makes room for one entry (`MadeRoomHasRoom`) and puts one (`PutFits`);
  a stamp in hand is never ahead of the clock, so what lazy expiry and eviction by an old
  stamp take had lapsed.
* `SlotsExact`, `LimitsKept`, `QuarantinesKept`, `WindowsNeverShorten`,
  `HoldsKeptUnlessFull`: a slot is held only between admission and return (`IInv`); a
  recorded stamp is never ahead of the clock (`StampsPast`), so lazy expiry and sweeps with
  old stamps drop only lapsed windows. Holds also need that the table fits (`Fits`): the
  only live loss is then the soonest entry of a full table.

**Zcode** (`ZcodeProofs`, under `ZcodeAssumption`).

* `OffPeakSettles`: `ExecuteSettlesAll` is not inductive; what survives each step is that at
  most the *current* ticket is unsettled and that a round inside its first acquire has none
  (`SettleInv`).
* `SentTicketsAlive`: with `TicketsSound`, every ticket of a round was granted to that round
  and a settled ticket is over on the server, so a ticket that may be sent is not a settled
  one.
* `SleepsBounded`: under a budget no wake-up is later than the deadline, whatever interval
  the server quotes.
* `DaysAreEarned`: while a tick claims, each target is still to be asked for, is the
  account's, or has left an answer behind that is no success (`Accounted`); the worst answer
  exists and, if it is a success, all are (`WorstIsWorst`, from the well-foundedness of the
  naturals). A plan that was taken stays taken, whatever the campaign, the panel and the
  session do meanwhile.
* `RecoveredForgiven`: a call has no failure on record before its end (`Unspoiled`), so
  neither the ladder, the fallback nor the captcha retry has left one to forgive; a call that
  goes on takes at most three sends per route.
* `StoredIsUsable`: a poll at work belongs to a login that was started and carries its pinned
  provider, before a copy there is a key, and keys are only added (`Polled`, `Usable`). The
  types it states need `Flights` for the account cache: whoever asks for an account's credits
  holds its flight, alone.

**Trae** (`TraeAccountsProofs`, under `TraeAccountsAssumption`).

* `FreezesEndAtMidnight`: with `TypeOK` and the calendar fact `tomorrow = today + DayLen`,
  for days of 24 h. The assumption is needed: with `DaySpans = {DayLen + 1}` TLC refutes the
  property (section 7).
* `NewestLoginOnly`: what a flow's map holds live and what the record on disk names is the
  newest login of its flow, and a login never changes its flow (`LoginInv`), so what a
  restart reads back still is.
* `ClaimsAcceptedOnce`: an account that has an acceptance today is registered for today, so the
  gate lets nobody through after it; whoever has a claim under way therefore set out before
  the first one (`CheckinInv`), and was not accepted himself. It is stated of any number of
  check-ins at once; that these may all be accepted is the run `trae_claims`.
* `LivePairKept`: nothing stored and nothing about to be saved is newer than the pair the
  upstream renews (`NoneNewer`), so a save that is not older than what it replaces loses
  nothing.

**Streams and the catalog** (`UpstreamProofs`, under `QoderStreamAssumption` and
`UpstreamAssumption`).

* `HeadGateExact`, `QueueRetriesInvisible`, `QueueRetriesBounded`: a running qoder pump has
  reported nothing, the verdict is open while the gate is held, and before a round has seen
  a payload nothing was taken (`IInv`); retries by sum of waits (`Fits`).
* `FaultsAlwaysDecide`: for qoder from `IInv`; for trae the tracker's flag is "an error
  frame was made", and `CameFirst` of the frames made agrees with the head gate's verdict
  (`TraeFirst`, `TraeGate`); for workbuddy the pump and the hand-off agree on who tells
  (`WbHandshake`, `WbTold`).
* `ChunksNeverLost`: what trae's converter made equals what was delivered, is held, is
  buffered and is in hand, in this order; qoder's `NothingSkipped` counts.
* `ListsStayInRealm`: every list in the cache, in a file, in a query or in a save's hand
  carries the realm it was discovered in (`CatalogLabels`).
* `EveryCallKeepsContract`: the four kinds of streamed call refine `StreamedCall` step by
  step: an initial state maps to one, and under its lane's invariant every step is a step of
  the contract or a stutter. The refinement needs what the invariants say of the moment of
  the verdict: nothing was taken while it was open, and nothing moves after a refusal.
  `TraeKeepsContract` and `QoderKeepsContract` say it of those two alone.

**Workbuddy** (`WorkbuddySessionProofs`, `WorkbuddyAccountsProofs`).

* `RenewalsExclusive`, `PairsKept`, `VerdictsTrue`: `IInv == Excl /\ (alone => Fits)`. `Excl`
  (the in-flight entry names exactly the owner) holds always. The other two hold only
  while the plane is `alone`, and that is a fact about the code, not a convenience: the
  keepalive and the host's refresh send the same refresh token without consulting the
  in-flight map, a lost answer or failed save loses the only copy of a rotated token, and
  a renewal of more than 30 s lets the next one start from a pair read before its end.
  Without `alone` TLC refutes both at once. `Fits` says where the accepted generation is
  at every point of a renewal, and that whoever is asking holds the stored pair.
* `NothingPaidTwice`, `DeletedOnlyWhenEmpty`: per handler, `Sound` says what it may hold: a
  check-in of the panel holds the lock, one that read "not checked in" has seen a day without
  claim, and credits that are gone at a reconcile's decision were gone at some moment since
  it began. Chats are paid for by `LoopLocks` and `LoopChats`: who may run beside whom, and
  that a chat in progress is worth its energy.
* `UndisturbedRunSettles`: `Reached` says what a clean run has settled when it is at a given
  step, and that its remaining counts agree with the growth center's (`TasksInv`); `LoopDraws`
  bounds the draws that the callers share.
* `SelectionNeverFlips`: the first of `Order` in an unchanged set is unchanged, and both
  movers of `active` go there only for an account that is not exhausted.

**Qoder** (`QoderAccountsProofs`).

* `ProbesNotSilenced`, `GrantsReported`: a latched round was answered with a verdict; a pass that
  was given an amount or a code says so, a probe whatever landed, and none says "claimed" when
  nothing landed (`Honest`, `Tells`). A landed claim without an amount and a pending coupon are
  outside the statement, as the code does not tell of them (section 7); nothing that opens,
  is taken or is forgotten meanwhile takes a verdict back.
* `OneDownload`: a call that provisions holds the run lock, and one that downloads has found
  no bridge it accepts on disk and no attempt of the last six hours (`Alone`). Where the
  installed component is not above 400 KB, only the six hours hold the next download back. Which component is
  installed is a scan over the bundle's components, a recursive function. Induction over a
  bundle's length is out of the prover's reach, so `ScanFindsBest` unrolls it for the bundles
  of the module: up to two components, of sizes on either side of both ends of the range.

**Mimo and the ledger** (`MimoAndLedgerProofs`, under `MimoAndLedgerAssumption`).

* `CredentialsAlwaysFit`: the document and every copy a job holds name the region of the
  ticket beside it (`Homed`), since a mint moves both together and every save writes both,
  however old the copy; `MayHold` says which streams a job has where it is. A flow's channel
  holds only a result that flow was granted (`OwnResult`), whether the callback or a
  paste put it there.
* `LedgerAlwaysExact`: only requests that have begun are counted, under the hour they began
  in, and the counted hours are never ahead of the clock (`CountedExact`), so `Pruned` takes
  nothing that a covered window still sums. A plugin that knows the file and could
  read it has loaded it (`Books`), so a flush of its writes no less than is there; one whose
  read failed (`unread`) writes less, and the theorem says that no other does.

## 6. Only model-checked, and not modelled

Only by TLC:

* every liveness property (`RoundsEndInTime`, `AcceptedSettles`, `CallsEnd`, `CatalogSettles`,
  `AccountsSettle`, `CreditsFound`, `LoginCompletes`, `LanesSettle`): fairness and `ENABLED` are
  not reached by the proof system;
* that the best component is chosen of a bundle of more than two (section 5).

Left out of modelled parts: listing views; the trae pool's state file (no caller gives it
a path) and credit score (routing is the host's); the family switch a workbuddy 429 may
start; the identity switch as a further writer of the auth document; the loops over all
accounts, which repeat what is modelled for one; qoder's table of ladder windows, which
answers either way in `QoderStream`, its limited launch number and its legacy streak
numbers; pinned models, aliases and learned names; the order in which two identities'
rosters arrive; mimo's key lane, which never renews; the device number a 9074 rotates.

Not modelled: the parts listed as such in `PROJECT.json`, each with its reason: payload
translation, signatures, the parsing of cookies, settings, HTML and the dialer are data
and I/O; the qoder cooldown table is the one `CooldownTable` models; qoder's keepalive is
the workbuddy one without a renewal plane.

## 7. Where code and text disagree

With a run: the usage segment and trae's second claim of a day, section 3. The statements named
below are in their modules, with the line they quote, and TLC refutes each in a few steps under
its module's run; they have no run of their own.

* **zcode, no budget** (`ZeroBudgetNeverPolls`). Budget 0 sets no deadline and every deadline
  test is skipped without one, so a queued ticket is polled for ever (`offpeak.go:551`),
  against "only an immediately-ready ticket passes" (`:548-549`).
* **zcode, refused stream body** (`EveryRoundSettlesAll`). A streamed round whose body cannot be
  built returns with its ready ticket unsettled (`main.go:836`).
* **zcode, signing off for good** (`BypassEarned`). A rejection of an unsigned send counts against
  signing (`signing.go:442`), although it "reacts … after a signed send" (`:440`).
* **zcode, empty anthropic stream** (`EmptyNeverSucceeds`). The collector adds its own finish chunk
  before it asks whether anything came (`anthropic_sse.go:406`, `stream.go:402`), against
  `stream.go:272-273`; the asynchronous pump never sends that chunk.
* **zcode, claims.** Every target takes a captcha parameter whether it needs one or not, so a
  gated plan can starve (`claim_scheduler.go:285-293` against `:12-14`); a challenged send of
  the fallback is not retried (`captcha_pool.go:8-9`); a parameter submitted twice can be
  pooled again after its use; a change of plans leaves a day's hold in force.
* **zcode, credits and files.** `invalidateAccountCredits` stamps an empty entry as just fetched
  (`lifecycle.go:300-301`); `adoptLegacyAuths` never finds `zcode.json` (`adopt.go:1-9`,
  `host_auth.go:48-55`); a plan switch does not reach the 30 s memo, and a late write of the
  lifecycle undoes it or a re-login; a model that the memo sends to a spent JWT plane stays
  there up to 6 h; two polls can both create a key of the same name.
* **trae, late answers** (`FreezeOutlivesLateAnswers`). A 429 of a call already in flight turns a
  freeze until midnight into a minute (`pool/pool.go:234` against `main.go:2493-2495`).
* **trae, two completions** (`ExchangedOnce`). The host's poll and the plugin's own completion may
  both post a code (`pending_persist.go:54-56`); the end of any login also removes the record
  of the other flow's, so that a restart then loses it.
* **trae, device keys** (`LoginKeyKept`). A manual check-in that renews saves a document built from
  a view without device keys, with a new pair in their place (`management.go:706` against
  `:1336-1337`).
* **trae, renewals nobody saves.** `SaveAtomic` of the pool's copy fails for want of a path
  (`scheduler.go:350`) and the panel's refresh is not saved (`management.go:1251`): the stored
  refresh token is then spent. The international lane's saves drop device keys and, on a
  host refresh, the model catalog.
* **workbuddy, repeats** (`RepeatsBackOff`). Lazy expiry deletes a lapsed restriction with its
  strikes (`account_restriction.go:185`), so one that returns is the first again, against
  `:30-31`.
* **workbuddy, the note's pair** (`NoteMerges`). A credits fetch heals a 401, and the note it then
  writes puts back the pair it started from (`lifecycle.go:296` against `usage_note.go:42-43`).
* **workbuddy, guardrails under steady chats.** A pick without credits is to start a fetch that
  arms the guardrail "from the next pick on" (`guardrails.go:149-158`). Each successful chat
  stores an entry without credits as just fetched (`lifecycle.go:513-515`), and the fetch takes
  an entry younger than 45 s for its answer (`cache.go:53`), although the credits are dropped so
  that "the next panel/reconcile fetch hits upstream" (`lifecycle.go:505-507`; those two force
  their fetch). While chats of the account are less than
  45 s apart, its guardrail stays open. `AccountsSettle` excepts exactly such accounts.
* **workbuddy, guardrails.** The snapshot of a day's start may be yesterday's balance, so a cap can
  fire early (`guardrails.go:111` against `:37-42`); `pickActiveAuth` reads and sets the
  selection in two steps; `mergeCheckinCache` drops the overrides its scheduled twin was
  mended to keep (`checkin.go:405-419`, `:191-194`).
* **workbuddy, daily loop.** A dead session does not abort adoption, gifts, lighting and travel
  (`taskcenter.go:138-141`); the scheduled loop runs without the check-in lock.
* **workbuddy, stream.** A failure told in the stream drops the frames still held
  (`stream.go:404-413`), against `:459-461`.
* **workbuddy, catalog.** Two identities' rosters are merged as they arrive though the IDE's is
  meant to win (`models.go:691-693`, `:806-811`, `:537`), so lists differ between discoveries and
  files are saved again, against `models_persist.go:21-25`; a save reads and writes without a
  lock (`:251`), so one of two writers can drop the other's snapshot; a file's own snapshot is
  preferred to a fresher one of a peer; `pickRefreshCredential` promises enabled credentials
  first and does not look (`models_groups.go`).
* **qoder, grace** (`GraceHolds`). The tick's store and its reconcile's fetch drop the check-in
  time, so an account that has just checked in is disabled on the credits of before
  (`checkin.go:240`, `cache.go:155` against `checkin.go:602-606`).
* **qoder, untold grants.** A pass over the list counts a claim only by its amount or code
  (`campaign.go:1307`, `:1311`). One that landed without an amount (`:1116-1123`) comes out as
  nothing to claim, blocked or already claimed, and a coupon whose code is not minted yet, a
  "success, with an explicit lag note" (`:1142-1143`), as not eligible or blocked
  (`:1313-1314`, `:1367-1386`); as does an amount that neither claim nor reward names in the
  detail rows. `GrantsTold` speaks of amounts and codes.
* **qoder, bridge at the edge.** A component of 400 KB or less is installed and served to this
  process, but the file is not accepted from disk (`umid_provision.go:198`, `:208`), so every
  restart downloads it again, against "cached on disk forever" (`:184`).
* **qoder, accounts.** A dead session is never flagged (`keepalive.go:97-110` against `:18-19`);
  `disableAuth`, `reenableAuth` and `syncAuthNote` save the token of their snapshot; an Intl
  account is never re-enabled; the probe looks at its latch before the claim and sets it
  after (`campaign.go:446`), so two passes may both hit a round; the launch sync stamps
  before it succeeded.
* **mimo, note and flag** (`CardNotBlank`). A renewal saves the document with an empty note and the
  flag off (`session.go:149`), which blanks a card against `usage.go:348-351` and re-enables
  an account the operator disabled; a subscription that ended is never written
  (`usage.go:17-19`).
* **mimo, regions and races.** `regionCandidates` leaves out the current region, so a login
  accepted only there bounces (`exchange.go:76-99`); the executor does not check the retry's
  answer for a session fault (`executor.go:156-158`); of two simultaneous starts both flows
  can stay (`management.go:136-139`); every save is a read and a write that an older copy
  can win.
* **usage ledger, failed read.** A file that is there but cannot be read or parsed at the first use
  gives an empty ledger that counts as loaded (`usage_note.go:203-217`, the same in qoder and
  trae), and the next flush writes it over the file. `LedgerExact` excepts that process.
* **usage ledger.** An answer of "no directory" sticks (`usage_note.go:140`, against `:125-128`);
  window sums cover what was not pruned; a credential whose host omits `auth_index` is split
  in two; the last refresh of a minute is dropped by the throttle.
* **trae, 25-hour day.** `UntilNextMidnight` adds 24 h to today's midnight
  (`pool/pool.go:171`); in the last hour of a 25-hour day that is past and a 1005 freezes
  nothing, although the comment (`:163`) says the next local midnight.
* **trae, manual check-in.** It thaws on the cached credits whatever the claim did
  (`management.go:816`), although "if checkin restored credits" (`:812`).
* **trae, re-login.** `Pool.Add` keeps a known entry with its `disabled` flag
  (`pool/pool.go:99`), although only a re-login is said to fix it (`:217-218`).
* **trae, panel reason.** The panel's exhaustion reason is none `IsQuotaFreezeReason`
  knows, so it replaces a freeze by a cooldown that the gate does not probe
  (`management.go:1175-1178`).
* **trae, empty streams.** A stream with neither text nor error is noted as a success
  (`main.go:2335-2337`); the international lane is silent about an empty body.
* **workbuddy, holds.** A full table evicts before it looks for the pair's own longer hold
  (`cooldown.go:141`), so a hold can be shortened against `:155`.
* **workbuddy, 6004 bound.** `modelRateLimitMaxEntries` starts a sweep and bounds nothing
  (`model_ratelimit.go:71`, `:195`).
* **workbuddy, renewal races.** A keepalive, a host refresh or a renewal of more than 30 s
  that loses to another sends a spent token, gets 12153 and flags a live account
  (`keepalive.go:114`); `markSessionDead` does not ask which token was refused, so it also
  flags a login made meanwhile.
* **workbuddy, refusal memo.** A re-login does not clear `billing401Refused`, so a joiner
  of a later renewal that fails for another reason is told the old verdict
  (`billing_401_renew.go:179` against `:168-177`).
* **workbuddy, late asker.** A caller that read the old token just before the owner saved
  and asks just after its release is throttled to the raw 401, against "every caller
  resends with the token that one renewal produced" (`:145-146`).
* **workbuddy, dead and re-enabled.** A dead account with cached credits is re-enabled by
  the next reconcile (`cache.go:124-130`, `lifecycle.go:351`), against "re-enters rotation
  after re-login" (`chat_401_heal.go:124`).
* **workbuddy, family switch.** After a heal the executor keeps the *old* snapshot with the
  resolved `authIndex` (`chat_401_heal.go:67`); a 429 of the resend may then persist its
  tokens (`cooldown.go:331`, `identity_switch.go:184-185`).
* **qoder, waiting without a client.** Only the pump's own exit cancels the wait for a
  ticket (`stream.go:583`, `main.go:935`), against `queue_retry.go:24-25`.
* **qoder, mixed tickets.** Only a call's first ticket claims a ladder window
  (`queue_retry.go:347`), against `:348-349`.

## 8. Plan

What is left, in order:

1. `QoderQueue`: the table of ladder windows over several calls, replacing the free answer in
   `QoderStream`.
2. The workbuddy identity switch as one more writer of the document of `WorkbuddySession`.
3. Qoder's catalog and keepalive as instances of the workbuddy modules, once those are
   parameterised over their differences.
