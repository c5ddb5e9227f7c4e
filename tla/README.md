# A TLA+ model of the ZeroSOC MCP servers and tool clients

This directory specifies what the tool clients of this repository keep in memory and on disk, what they
send to Microsoft's and AbuseIPDB's services, and what can come in between: repeats, timeouts, crashes,
cancellations, outages, late records and other people's writes. The modules are checked with TLC on small
instances; the safety properties of all nine are proved with TLAPS at any size.

Paths below are short for
`src/clients/microsoft-security/src/zerosoc_microsoft_security/` (`transport.py`, `auth.py`,
`capability_probe.py`, `probe.py`, `incidents.py`, `audit_search.py`, ...),
`src/clients/abuseipdb/src/zerosoc_abuseipdb/` (`blacklist.py`, and `client.py` where AbuseIPDB is named)
and `src/servers/microsoft-security/src/zerosoc_mcp_microsoft_security/` (`server.py`).

## The system

An MCP server (`server.py`) registers the operations of a tool client as tools, or a host program calls
the client directly. All operations run as coroutines on one event loop, so two of them interleave exactly
at their `await`s. One worker thread exists: the one that writes AbuseIPDB's blacklist. Nothing is
read back after a restart except that blacklist file.

| Component | State it keeps | Operations | Interacts with | What is hard |
|---|---|---|---|---|
| HTTP transport, credential (`transport.py`, `auth.py`) | `_tokens`: one token per API with the expiry it is believed to have | `request`, `collect`, `collected`, `claims`, `token`, `pause` | every operation of the client; Entra ID; Graph and Defender APIs | concurrent calls share the token; 429 and 503 are repeated; a gateway's 503 may come after the service acted; an answer may never arrive |
| Blacklist store and sync (`blacklist.py`, AbuseIPDB `client.py`) | the JSON file; `_entries`, `generated_at`, `synced_at` | `sync_blacklist`, `match`, loading at start | AbuseIPDB, the disk, a worker thread | kill between any two steps; cancellation does not stop the thread; readers look while the thread assigns |
| Capability probe (`capability_probe.py`, `probe.py`) | `_binding`, the lock `_probing`, a semaphore per probe | `get_capabilities(refresh)` | the transport, one request per check | callers queue behind a probe; an outage in the middle; `gather` leaves the other checks running when one raises |
| Incident writes (`incidents.py`) | nothing between requests; a walk's state during one | `update_incident`, `add_incident_comment`, `merge_incidents` | the tenant's incidents, which Defender and analysts merge meanwhile | the master read may be merged before the write; histories may be circular |
| Purview audit search (`audit_search.py`) | nothing between searches; a search's status and age during one | `alert_policy_alerts`, `activity_records`, `sign_ins`, `activity_behind` | a search job in the tenant; an audit log that becomes searchable minutes late and out of order | the deadline; a cut answer; the same activity named in two ways |
| Incident listing and evidence pages (`incidents.py`, `transport.py`) | an offset or next link across pages | `list_incidents`, `get_incident` | Graph, whose list moves between pages | items skipped or doubled; ceilings |
| Evidence inventory (`evidence.py`) | none | reading an incident's alerts, folding their evidence into entities | incidents | two ceilings on the alerts; identity of entities across alerts |
| Capability binding (`probe.py`, `capabilities.py`) | none | `build_binding`, entitlements | the probe | what a check's status means |
| AbuseIPDB check and quota (AbuseIPDB `client.py`) | `_cache`, `_quotas` | `check` | AbuseIPDB | two checks of one address; the older answer may be written last |
| Operation surface, action gate, MCP server (`operations.py`, `surface.py`, `server.py`) | which operations are registered | registration, warm-up, explained errors | MCP hosts | an action not enabled must not be reachable |
| Machine actions, indicators, identity, mailbox, vulnerabilities, alerts, hunting, entities | none | one or two requests each | the transport | what happens to a request is the transport's |
| Decoding, scoring, helpers, errors, manifest; command line | none | pure conversions; printing | | text |

What makes each component correct:

- **Transport**: a write takes effect at most once; what the caller is told of it is true; a throttle is
  reported only after all repeats; no request carries a token that is over; every call ends.
- **Blacklist**: the last good copy survives failure, cancellation and kill; memory and file agree; the
  store never claims to be fresher than it is; nothing is littered.
- **Probe**: one probe at a time; an outage is never remembered as the tenant's capabilities; a probe
  serves all who wait for it; a refresh is not answered with something older; everyone gets out.
- **Incident writes**: the write lands on the master unless overtaken; what is reported of the walk and of
  the merge is what happened; a real history is not called a loop; every walk ends.
- **Capability binding**: a class is bound, and a source provided, where the tenant can answer and only there;
  silence is not mistaken for a licence, nor a missing licence for silence; what a class is bound to can be called.
- **AbuseIPDB check**: no answer is older than the cache allows; a quota is its endpoint's and true.
- **Server and gate**: a deployment that did not enable response actions does none, embedded or served.
- **Audit search**: an answer that does not say it was cut has every alert it should; an activity is
  called a repeat when it is one, whatever became searchable first; every search ends.
- **Listing**: a caller that reads on from `nextSkip` is given each incident once and none is missed.
- **Evidence**: an answer cut at a ceiling says so; one entity is of one host; no row and no alert's verdict is
  lost in the merge.

## Modules

| Module | Models | Kind |
|---|---|---|
| `ServiceCall` | what one call of the transport promises its caller | abstract specification |
| `Transport` | `Transport._send` and `token`, `ClientSecretCredential.get_token`, concurrent on one loop | implements `ServiceCall` |
| `TransportProofs` | inductive invariant, safety theorems, refinement | proofs |
| `BlacklistStore` | `sync_blacklist`, `BlacklistStore.replace`, `_load` | component, with its inductive invariants |
| `CapabilityProbe` | `get_capabilities`, `run_probe` | component, with its inductive invariant |
| `CapabilityProbeProofs` | inductive invariant, three theorems | proofs |
| `IncidentMerge` | `_master`, `update_incident`, `add_incident_comment`, `merge_incidents` | component, with its inductive invariant |
| `IncidentMergeProofs` | inductive invariant, four theorems | proofs |
| `AlertIntake` | `_searched`, `alert_policy_alerts`, `fold_alert_records` | component, with its inductive invariant |
| `AlertIntakeProofs` | inductive invariant, three theorems | proofs |
| `IncidentListing` | a sweep over `list_incidents`, `Transport.collected` | component, with its inductive invariant |
| `IncidentListingProofs` | inductive invariant, three theorems | proofs |
| `IncidentAlerts` | `incident_record`, `_all_alerts` and their two ceilings | component |
| `EvidenceInventory` | `get_incident_evidence`: `IncidentAlerts`, then `_device_names`, `_joined`, `_merge`, `_by_alert` | composes, one row a step |
| `EvidenceInventoryProofs` | inductive invariant, five theorems | proofs |
| `AbuseCheck` | `check`, `_request`, `_read_quota`, `public_address` | component, with its inductive invariant |
| `AbuseIPDBProofs` | of `BlacklistStore` and `AbuseCheck`: their inductive invariants and theorems | proofs |
| `CapabilityBinding` | `ProbeResult.check`, `_entitled`, `build_binding`, entitlements | pure operators |
| `ResponseActions` | the operations that write or act: declarations, refusals, effects | pure operators |
| `Deployment` | `server.py`, its `__main__`, the gate of `operations.py`, over both | composes, with its inductive invariant |
| `DeploymentProofs` | inductive invariant, four theorems, on the binding, what it is bound to and the gate | proofs |
| `MC...` | values of the constants for TLC | instances |

### Transport

One record of variables per call. `pc` follows the awaits of `_send`: `token` (about to look at the
cache), `fetching`/`granted` (the token request is out, then answered but not yet taken in), `requesting`,
`answered`, `pausing`, `done`. `CacheHit`/`CacheMiss` are the test of `token`, `KeepToken` stores the
answer and goes on, `Settle` reads the response, `Repeat` is the 429/503 branch with the delay
`RetryDelay` computes from `Retry-After`, `Wake` starts the next attempt.

Time is relative: `Tick` ages tokens and waits by one. A token has two ages: `believed` (from `expires_on`,
which `auth.py:89` counts from the moment the answer arrives) and `real`. The service (`Issue`, `Serve`) is
external. `Serve` may act on a write and then answer success or lose the answer; it may answer an error
having acted or not according to `Effects`: a 429 and a 4xx come before the write, a 503 or an unreadable
answer may come after. `Interrupt` is a timeout, a network error or a cancellation at any await.

### BlacklistStore

`phase` follows one sync: downloading, answered, in the thread (`threaded`, `writing`, `written`,
`replaced`, and then the attribute assigned last), over. A document is who wrote it and its two stamps; that is all the properties tell
apart. `temp` is the file of `mkstemp`. `Crash` kills the process at any point and loses memory, `Load` is
the next start: it reads the file, or leaves the store empty, as it also does when reading fails for a
moment; the history `unread` says so. `Fail` is any exception; `Cancel` releases the caller and, once the thread runs, leaves
the thread running. `replace` assigns `_entries`, `generated_at`, `synced_at` and `confidence_minimum` in that
order, in a thread while the loop may read them, so each is a step of its own (`Publish`, in the order
`Following` gives) and `memory` says of which list each attribute is. `Overlap` says whether a host starts a sync
while the thread of a cancelled one still runs; the code does not prevent it, and the
schedule its docs recommend, a daily sync, does not do it.

### CapabilityProbe

Callers queue in arrival order for the `asyncio.Lock`. The holder's checks wait for a semaphore of
`Concurrency` and end, fail with the status `error` during an `Outage`, or raise. `RaiseCheck` ends the
probe for its caller while the remaining checks run on with nobody to gather them, as `asyncio.gather`
does; `Cancel` cancels them. `Bind` keeps the binding only when `Complete`.

### IncidentMerge

`redirect` is the tenant's merge history as `_master` sees it: it goes on from an incident when its status is
`redirected` and it names another one, and nothing else reads the two, so `Live` stands for every incident of
which that does not hold. The initial state is any history, circular ones included.
`Follow` and `Arrive` are the loop of `_master`; every GET is a step and `Correlate` or another `Merge`
may come between any two steps. `Refuse` is an update or a merge refused for its arguments before a request is
made. The answer to a merge names the incident kept, or none, and `merge_incidents` then lists every master
as merged into no named one. `Fail` is any error of a request; what the operation had gathered is
dropped with the exception.

### AlertIntake

A record is its operation, its alert and the activity it points to. An alert an audited activity raised
points to that activity's record. One a user report raised points first to a submission entry, which is no
record; its entity record says which submission the entry stands for. `Names` and `IsRepeat` are the loop
of `_activities` as set definitions: the activity whose naming record is the earliest raised the alert, the
others are repeats. `Create`, `Pause`, `Look`, `GiveUp`, `Refuse`, `Read` are the steps of `_searched`;
`Create` searches a window from `low` to `high`, and its answer may already say that the search is over;
`Read` takes any `Limit` of the records when there are more, because the service promises no order. `Index`
makes records searchable in any order and `Complete` ends the job or fails it.

### IncidentListing

The service lists `count` incidents, the newest first, and may pass over some (`hidden`) without showing
them, as `test_incidents.py:158` has it do. It sends next links that name a position, or a token, or, as
was measured on a live tenant, none. Without links a page is short only at the end. `Create` puts a new
incident in front at any time. `Ask` and `Follow` are the pages of `collected`, `Answer` the code's
choice of the next position, `Probe` and `Probed` the request for the next incident alone. `seen` and
`twice` record what a caller that reads on from `nextSkip` was given; an incident that a listing holds twice
is in `twice` as well.

Incidents are numbered as they are created, so an incident's position is `count` less its number, and a page
is a set of incidents, kept with the position its link named (`from`) and how many items came before it
(`before`), which is what `_skip_of` and `_position` work with. `Ends` are the positions at which the service may end a
page, `Answers` what it then sends: a page may hold nothing and its link lead to where the page began, be it by
a token or by the position it names, and a listing of such pages is what becomes `truncated`.

### EvidenceInventory

`IncidentAlerts` is the reading: `Expand` the incident with its first alerts, `Follow` one page of the expansion,
until there is no link or a ceiling is met (`MaxAlerts` alerts, `MaxAlertPages` pages); `Cut` is what becomes
`alertsTruncated`. A page may hold any number of alerts, none included, and a link that leads to nothing.
`Begin` ends it and cuts what was read at `MaxAlerts`; rows come from the alerts kept. `cited` holds each kept
alert's device evidence in the order it was sent: an id may be given two names, in one alert or in two, and
`DeviceName` is the first.

Rows are joined and merged one a step, each of any evidence, alerts in the order they are sent. A row is
its identity, the device it was joined to and the alert's verdict, which stands for the six fields of
`_PER_ALERT`. `Scoped` identities are those of processes, files and registry items; device rows are among
the unscoped ones. `HostOf` says which spellings are one host. `owner` records where each row went, so that
the guarantees can be stated over rows.

### AbuseCheck

`pc` follows one caller: idle, `asking` (the request is out), `arriving` (the service answered, the client has
not read it). `Ask` reads the clock before the request, as `check` does, so an answer that takes its time is
already old when it is cached; `asked` is that reading. `Serve` is the service: it spends the endpoint's
allowance, or fails with or without spending, and states what is left. `Receive` reads quota, status and body;
answers of overlapping calls are received in any order. An answer is told from another by the moment its reports
were read; `answered` is what the step just taken returned. `Downloaders` are the callers of the other endpoint.
What has a name `BlacklistStore` uses too is called otherwise here (`CheckInit`, `CheckNext`, `AskForList`, ...),
so that one module of proofs can be about both; nothing is said of the two together.

### CapabilityBinding, ResponseActions, Deployment

`CapabilityBinding` holds the tables (`ReadingClasses`, `ContainmentClasses`, `DataSources`) and functions of
`capabilities.py` and `probe.py` as operators over a probe's result: `StatusOf` is `ProbeResult.check` with
`_entitled` inside, `BuildBinding` the binding. Of the framework's data sources it has one of every distinct rule.
`ResponseActions` has every operation that writes or acts, with its kind and permissions, the arguments it refuses
and what its request does to one machine, account, mailbox, set of indicators and script library. Of those that
only read it has the ones a class is bound to or a rollback needs, the audit searches and the local ones, which
send no request. What is written to incidents and alerts is no part of this estate: `IncidentMerge` has it. An
indicator that is created or imported for a value that has one already updates that one in place.

`Deployment` runs both over a tenant: `Start` (or `Embed`, a program with the client and no server) reads the
settings and refuses an unknown entitlement, lists the tools that the gate leaves, `WarmUp` probes,
`AskCapabilities` answers the kept binding or a new one, `Call` goes through `Gate`, the refusals of the
operation, the credential it needs unless it is local, and the service's permissions. A check that an API refuses
is refused for want of a permission or of a licence, or because auditing is off. What the tenant really has is a constant of the behaviour;
the properties compare what the deployment says with it. `Asking` deployments vary the tenant and the declaration and
only ask for the binding; `Calling` ones vary the settings and call the operations of one module.

## What the runs check

| Run | Configuration | Shows |
|---|---|---|
| `transport` | a read and a write on one API; `Retries` 3 as in the code; skew 2, latencies 1, lifetimes 3 and 4; `Retry-After` of -1, 1, 9 or none | `WriteAtMostOnce`, `DefiniteAnswers`, `GivesUpOnlyWhenExhausted`, `NoExpiredBearer`, `EveryCallEnds`, `KeepsPromise` (refinement of `ServiceCall` with its fairness) |
| `blacklist` | three syncs one after another, symmetric; the clock to 2; two kills | `GoodCopyKept`, `FailureLeavesNothing` (what failed is nowhere, and no temporary file outlives its sync but by a kill), `MemoryFollowsFile` (each attribute in memory is the file's, or the store could not read it and is empty; none claims to be fresher than it is) |
| `blacklist_overlap` | the same, syncs may overlap | violates `AnswersFromItsFile` (finding 1) |
| `probe` | three callers, two checks, a semaphore of one, one outage | `OutagesAreNotKept`, `OneProbe` (one at a time, it serves all who wait, a refresh is new), `EveryCallerLeaves` |
| `merge` | four incidents in every history, a writer, a merge of up to two, `MaxRedirects` 2 | `WalksAreTrue`, `AstrayOnlyWhenOvertaken`, `MergesAreTrue`, `EveryOperationEnds` |
| `intake` | one audited alert and one user report, two activities each, windows that end with the first activity or the last, limit 4, poll 1, timeout 2, latency 1 | `RepeatsAreRepeats`, `AnswerIsWhole`, `EverySearchEnds` |
| `intake_repeat` | as `intake` | violates `RepeatIsStable` (finding 2) |
| `listing` | five incidents, any of them hidden; `top` 1 and 2 with pages of 2; two pages a listing | `SweepIsExact` (nothing missed, nothing twice), `TruncatedIsTrue`, `SweepEnds` |
| `evidence` | up to three alerts of which two are kept, one page beyond the first; three rows, two hosts, one of them under two spellings and with an id | `CutIsTold`, `CountIsOrderFree`, `OneHostEach`, `EverythingSaid` |
| `evidence_case` | the same | violates `SeveralAreSeveral` (finding 3) |
| `check` | two callers of `check` and one of `sync_blacklist`, one public address and one that is not, two days of two moments, `CacheSeconds` 2 | `RecentAnswers`, `QuotaAsStated` |
| `deployment` | 864 tenants under seven declarations and settings, asked for their binding; every setting with the operations of each module called | `BindingIsTrue`, `BoundIsCallable` (listed, permitted if it writes or acts, taken back by its rollback unless it overwrote an indicator), `ActionsAreGated` |

`CountIsOrderFree` says it of each identity: a scoped one that was cited has as many entities as there are hosts
it was found on, and one when there are none; an unscoped one has one. Each passing run also checks its module's
`TypeOK` (`CheckTypeOK` in `check`), and every property is known to fail for at least one plausible bug of the
code (the operators commented "Mutant").

### Bounds, and why they are enough

- *Two calls* of the transport meet in the token cache in every order; a third adds no other pair. Retries
  are the code's own. Lifetimes one and two over the least that survives the skew make tokens expire between
  attempts. The proofs remove these bounds.
- *Three syncs and two kills*: one to leave a copy, one to fail or be killed, one to come after. The clock
  reaches two so that two lists differ in both stamps. The proofs remove these bounds.
- *Three callers*: one probes, two wait, so one that waited can probe while another still waits. Two checks
  under a semaphore of one queue for it. The proofs remove these bounds.
- *Four incidents with `MaxRedirects` 2*: chains of length 0 to 3, that is up to and past the limit, and
  circles of every length up to four. The proofs remove these bounds.
- *Two activities and a limit of 4*: the seven records of the two alerts exceed the limit, so every way of
  cutting them occurs; a window may start after any of the first records and end between the activities. A record past
  its end is to a search like one not searchable yet, which occurs of every record. The proofs remove these bounds.
- *Five incidents in pages of two*: a sweep takes three listings and more; `top` 1 leaves room for the one
  incident more that is asked for, `top` 2 does not and probes, as 50 does in the code. Two pages a listing
  reach the ceiling. The proofs remove these bounds.
- *Three rows of one identity*: one with no device, and one on each of two hosts, in every order. *Two
  pieces of device evidence an alert, three in all*: one alert names a host twice or two hosts, so that a row of it
  can be without one, and the other names one of them. *Three alerts, two kept, one more page* reach each ceiling
  without the other. The proofs remove these bounds.
- *Two callers of `check`* on one address miss the cache together and answer in both orders; the third caller
  spends the other endpoint's allowance. A cache term equal to a day and a clock of two days let an entry
  expire and a quota be of yesterday. The proofs remove these bounds.
- *Tenants*: every tier of both licence families, every way hunting can be closed, four sets of roles and refusals. A table
  has rows or not with its family, as the properties tell no more apart. Declarations hold nothing, one family,
  both, a lower tier, and an id that is unknown. The proofs are for any set of deployments, over any mailbox.

### Fairness

The event loop runs what is ready and every HTTP request has a timeout (`transport.py` and `auth.py` give
httpx 30 s), so weak fairness of what a call does next, its answer or its interruption included, is what the
code's scheduling gives. In `Transport` time is fair as well. In `CapabilityProbe` each caller's own steps and
each probe's checks are weakly fair; calls, cancellations, outages and recoveries are not. In
`IncidentMerge` a requested operation's steps are; the merges of others are not. In `AlertIntake` only
the poller's steps are: the search job need never end. In `IncidentListing`
the sweep's steps are, and incidents are created finitely often. `BlacklistStore` states no liveness: `to_thread`
and the disk promise no bound. `AbuseCheck`, `EvidenceInventory` and `Deployment` state none either: each of their
operations is a bounded number of requests, whose end is `Transport`'s `EveryCallEnds`.

Deadlock is not checked in `blacklist`, `probe`, `merge`, `listing`, `evidence` and `deployment`, whose behaviours all
end; it is in `transport`, where time goes on, in `intake`, where the poller does, and in `check`, where callers call
again.

## What is proved

TLAPS proves the following for every value of the constants; nothing is assumed besides the assumptions on
constants named here.

**Transport** (`CallsAssumption`, `NumbersAssumption`; for the bearer also `SkewAssumption`). The invariant
properties are not inductive: `WriteAtMostOnce` says nothing of a call whose request is under way.
`Inductive` adds `EffectKnown`, how often the service has acted at each stage of a call given the answer it
holds (zero up to and during a request, `Effects` of the answer once it is there), and `LifeKnown`, how long
the bearer a call holds must still last at each stage. Each action has a lemma that it keeps `Inductive`; `StepInductive`
puts them together. From it follow `TypeCorrect`, `WritesHappenAtMostOnce`, `AnswersAreTrue`,
`NoEarlyGivingUp`, `BearersOutlastTheirWay`. `SkewAssumption` is what
`TOKEN_SKEW` must cover: the way of the token answer (its age is counted too late) plus the way of the
request. The code's 60 s cover two ways of 30 s with nothing to spare. The 30 s it gives httpx bound each
phase of a request (connect, write, read), not the whole, so for a request slow in several phases the
assumption is one about the network. `ImplementsPromise` is the refinement:
`effect` is `acted`, `outcome` is `Told`, and every step is a `ServiceCall` step or a stutter (safety part).

**BlacklistStore** (`BoundsAssumption`, `NobodyAssumption`). `Inductive` relates what a sync's caller was told, its phase and
its temporary file, and says whose lists may be in the store; it holds however syncs overlap and gives
`TypeCorrect` and `FailuresLeaveNothingBehind`. `Serial` holds when `Overlap = FALSE`: at most one
sync is active, what it brings is no older than the file, what it has yet to assign is of one list
(`Left`), and memory is the file whenever no sync is publishing. It gives `MemoryFollows` and, as an action property, `GoodCopySurvives`. That these two
need `Overlap = FALSE` is finding 1.

**AbuseCheck** (`SetsAssumption`, `NumbersAssumption`; proved in `AbuseIPDBProofs`, as `BlacklistStore` is).
`RecentAnswers` speaks of one step only, so it needs to
know the cache: `EntriesExpire`, an entry never stands longer than `CACHE_SECONDS` after its reports were
read, which holds because the clock is read before the request (`AskedBefore`, `ReadSince`). `QuotaAsStated` needs
that a quota on its way is as true as one that was kept (`QuotaTrue`), which is kept when the day's allowance only shrinks
(`SpendingKeepsQuotas`) and when a new day makes every quota yesterday's (`TimeKeepsQuotas`, with `DaysPass` for the
division). Theorems: `CheckTypeCorrect`, `AnswersAreRecent`, `QuotaNeverUnderstates`.

**EvidenceInventory** (`ReadingAssumption`, `ConstantsAssumption`; any number of alerts, hosts, spellings and
rows). `Inductive` says what the reading knows (`ReadingKnown`: without a link, everything was sent), that each
row is found in its entity and, where the entity is scoped, on the host of the entity's first device
(`RowKept`), and that the entity has for each alert the first verdict of its rows. The last needs that a later row
does not change the first (`FirstIsHeard`, from `LeastStays`). That the count does not depend on the order of rows needs two facts
more: no two entities of an identity are of the same place (`Apart`), and each is of a row (`OfRows`). Then an entity's
host names it among those of its identity, and every host a row was found on is some entity's: a bijection
(`EntitiesAreExpected`), whatever entity a row went to. Theorems: `TypeCorrect`, `NothingIsCutInSilence`,
`EntitiesHaveOneHost`, `NothingIsLost`, `CountDoesNotDependOnOrder`.

**IncidentListing** (`NumbersAssumption`; any number of incidents, any of them hidden, any `top`, page size and
ceiling, all three kinds of links). Both properties speak of sweeps that ended. What makes them true is where the next
listing starts: `UnseenIsAhead` says that what is due and was not given lies past the position of the next listing
and, during one, on its pages, where the link leads, or behind a full page. A new incident only pushes positions on, so
it keeps this. `PagesFollow` says that a page, counted as the code counts it, starts no later than what it
shows: the place of an item in the page, added to that start, is then never past the item (`PlaceInPage`), and a
position computed from it passes over nothing (`PositionIs`, `ListedAre`). `LinkLeadsOn` says that no link leads back
before the end of its page, so that an answer with more to come can say where, unless it brought nothing. `QuietPages` holds while nothing is created and nothing is
hidden: pages are intervals one after the other, so that nothing is given twice. `ConcludeStep` is the end of a listing,
for whatever position it answers. Theorems: `TypeCorrect`, `SweepsAreExact`, `TruncationIsTrue`.

**CapabilityProbe** (`ConstantsAssumption`; any number of callers, checks and outages). That a probe serves all who
wait for it (`WaitersShare`) speaks of callers that are answered, and is kept only if something is known of those
still in the queue: `MetProbes` says that the probe a caller met stays under way until the caller has the lock, and
that, once answered, its binding is kept unless another probe met an outage. Its base are the lock
(`HolderProbes`, `QueueWaits`), the probes a binding can be of (`BindingsAreBuilt`) and, for the part without any outage,
`NothingFailed` and `FirstIsKept`: what the first probe built is what everybody is given. `OneProbeServesAll`, a
statement about a cardinality, follows from the last by the theorems on finite sets. Theorems: `TypeCorrect`,
`NoOutageIsRemembered`, `OneProbeForAll`.

**IncidentMerge** (`ConstantsAssumption`; any number of incidents, every history, any limit on redirects). Others
merge at any time, so each property must be one that merges keep. Redirects are only ever added, at masters: a
walk that was the history stays so (`MergesStay`), and a history that went in circles or was too long still does
(`LoopsStay`). A walk that meets one of its incidents again has gone in a circle: the incidents it walked
since are the set `GoesInCircles` asks for (`LoopsAreReal`). That a merge is of several incidents rests on
`MastersDiffer`: the masters it found are different. Theorems: `TypeCorrect`,
`WalksAreHistories`, `WritesLandOnMasters`, `MergesAreAsReported`.

**AlertIntake** (`ConstantsAssumption`; any number of alerts and activities, any limit and times). The audit log is
append only: what was due when the search was asked for is in the window ever after, and in what a finished search
holds (`DueIsHeld`, from `StatusIsTrue`). `RepeatsAreRepeats` needs that among the records of one answer the
activity that raised the alert is named first, provided the answer says which one it is (`RaisingIsFirst`).
Theorems: `TypeCorrect`, `RepeatsAreToldTruly`, `WholeUnlessTruncated`.

**Deployment** (`ValuesAssumption`, `DeploymentsAssumption`; every tenant, declaration, setting and mailbox they allow).
`Inductive` is `TypeOK` and three facts: the binding is what a probe built, with or without an outage
(`BindingIsBuilt`); a server lists what its setting lets it (`ToolsAreListed`); a mailbox stays within its bound
(`RulesFit`). The first makes `BindingIsTrue` a statement about `BuildBinding`. It is proved check by check: one that
holds is answered by the tenant (`HoldsIsTrue`), one the tenant answers holds unless the probe met an outage
(`AnswersHold`); then class by class and source by source over the tables (`ClassesAre`, `SourcesAre`). In
`BoundIsCallable`, the permission of what is bound is among the checks that bind it (`MetIsPermitted`); and for each
class with a rollback it is proved of the operation's effects that a call of the rollback undoes them
(`IsolationIsUndone`, `DisablingIsUndone`, `DeletionIsUndone`, `BlockingIsUndone`; the last of a value that had no
indicator, which is what `Undoes` asks). A deleted rule is created again under
a new id, so that one needs a free id, hence `RulesFit`. `NoActionUnlessAllowed` is an action property that needs
no invariant: an operation that is not declared an action has one of 22 names (`ActionsAreDeclared`), under none
of which more than tags change (`OnlyTagsChange`), and every other call passes `Gate`. Theorems: `TypeCorrect`,
`BindingsAreTrue`, `BoundIsAlwaysCallable`, `NoActionUnlessAllowed`.

**Model-checked only**: all liveness (`EveryCallEnds`, `EveryCallerLeaves`, `EveryOperationEnds`,
`EverySearchEnds`, `SweepEnds`) and the fairness part of `KeepsPromise`, which this prover does not reach. Every
safety property of a passing run is a theorem. The three properties of the runs that expect a violation are
false, by the findings below.

## Findings

1. **A cancelled sync can win over a later one** (`blacklist_overlap`, `blacklist.py:125`). Cancelling
   `sync_blacklist` leaves its thread running. If the host syncs again at once, the two threads may replace
   the file in one order and assign `_entries` in the other. The store then answers from the older list
   while its file holds the newer, until the next sync or start.
2. **A repeat that is not one** (`intake_repeat`, `audit_search.py:629`). Until a user report's
   `AlertEntityGenerated` record is in the answer, its submission entry counts as the raising activity and the
   submission's own record as a repeat; a later search takes that back. `AlertActivity.repeat` is
   documented as stable from one search to the next.
3. **One host under two spellings counts as two** (`evidence_case`, `evidence.py:469`). Rows are merged by
   device names without regard to case and their devices collected with it, so an entity cited on `HOST-1`
   and on `host-1` loses its device, as if it had been cited on several, and is counted in `withoutDevice`.

Smaller observations, met while modelling and not made runs:

- Callers that waited for a probe that met an outage probe again, one after another
  (`capability_probe.py:47`, `:56`): a probe with a failed check keeps nothing to share.
- `malware.repository` is bound on the machines API alone, though `get_file_info` needs `File.Read.All`;
  and an entry notes unread roles of its `requires_all` only. `BoundIsCallable` therefore asks for the permission
  of operations that write or act.
- `audit_start_search` is declared a read, which `operations.py:30` explains as "no side effect"; it leaves a
  search in the tenant that cannot be deleted (`audit_search.py:259`).
- The note of a truncated incident names the ceiling of alerts even when the ceiling of pages stopped the
  reading (`incidents.py:272`).

## What is not modelled, and limits

- The transport's response bodies, headers other than `Retry-After`, and logging; a token revoked before its
  time (the code promises nothing about it: a 401 leaves the cache as it is).
- A blacklist file that something else than the store wrote, and other processes on the same file.
- In `IncidentMerge`, a service that merges only some of the incidents it was sent, or names one it did not keep:
  that it merges as asked is taken from its documentation.
- In `AlertIntake`, records have distinct and fixed times, so ties and their order in a page do not
  occur; a user report's first update points to the report's own record and later ones to further
  activities; `same_request`, `same_connection` and the operations `activity_records`, `sign_ins` and
  `activity_behind` over the same search are left out.
- In `IncidentListing`, links that lead back before the end of their page, the caller's own `orderby` (the listing is
  by creation time, the default) and filters on what may change during a sweep, for which the docstring promises nothing.
- In `EvidenceInventory`, how the fields of a row are built from an item, tags, and `_link_processes`; the agent plane's
  slices of a record that was read again between them.
- In `AbuseCheck`, what the service says of an address, and a service whose clock is not the client's: moments
  are told apart, never compared across clocks.
- In `CapabilityBinding`, the wording of notes and the framework's remaining data sources, each with the same rule as
  one that is there; in `Deployment`, the lock of `get_capabilities`, which is `CapabilityProbe`'s.
- In `ResponseActions`, services that do later what they accepted, and the restoration of an indicator that was
  overwritten: the code reads none before it writes, so `delete_indicator` only takes back one that was created.
- Operations that only read (vulnerabilities, hunting, entities, identity logs and the reads of machines and
  alerts): one or two requests with no state between them.
- The components with status `not_modelled` in `PROJECT.json`, each with its reason.

## Plan

What is left: *connection groups* and *same request* of the audit search, and `_link_processes`, as operators
against reference definitions over bounded inputs.
