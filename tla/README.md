# PivotFlow: specifications, model checking and proofs

PivotFlow is an AI API gateway written in Go. Clients call it with OpenAI,
Anthropic or Gemini style requests and an API token. It picks an upstream
*channel* (an account or relay with API keys or an OAuth credential, URLs and
models), forwards the request, retries on other keys, URLs and channels, cools
down what failed, accounts for tokens and money, and keeps a set of relay *sites*
(balances, check-ins, announcements) up to date in the background.

This directory holds TLA+ modules for the parts whose correctness depends on
ordering, concurrency, time or failure, TLC configurations that check them on
small instances, and TLAPS proofs. `PROJECT.json` maps every definition to the
lines it models and lists runs, mutants and hazards.

## Inventory

Paths are below `src/internal/`; a name without a directory is in `app/`.

| component | state | operations | what is hard | correct when |
|---|---|---|---|---|
| upstream limits (`channel_concurrency_limiter.go`, `channel_rpm_limiter.go`) | slots in use, a "changed" channel to wait on, time stamps of the last minute | acquire, wait, release, reserve, snapshot, remove | lost wake-ups, double release, a clock read before the lock | each slot is returned once; limits hold; waiters wake |
| cooldown rows (`cooldown/manager.go`, `storage/sql/cooldown.go`) | end and length of the cooldown of a channel, its keys and models | bump, set, promote, clear on success, reset by hand | failures and successes of the same row at once, store errors | no failure lost from the back-off; exhaustion is noticed |
| cooldown decision (`cooldown/manager*.go`, `util/classifier.go`) | none | classify a failure, decide scope and retry | precedence of status, body, headers, rules | what is ordered lands on an existing row in the right scope |
| channel cache (`storage/cache.go`) | channel lists, API keys, cooldown maps with TTLs | read through, load, invalidate | a load that overlaps a write and its invalidation | staleness is bounded |
| billing (`proxy_error.go`, `auth_service.go`, `server.go`) | the token's limit and spend in memory and on disk, slot, statistics queue | admit, charge, reload, edit, drain, shut down | queued charges, reloads, shutdown racing late handlers | usage is never charged twice, and never lost silently but in one race with the shutdown (Observations) |
| failover (`proxy_handler.go`, `proxy_forward.go`, `proxy_error.go`, `key_selector.go`) | position in the candidates, keys and URLs; capabilities; sticky entry | next channel, key, URL, protocol; cool; answer | state read before an attempt and used after it, the commit point of a stream | no attempt repeated, blame cooled once, the client answered |
| selection (`selector*.go`, `smooth_weighted_rr.go`) | round-robin weights per tier, sticky entries | filter, rescue, order, rotate, prefer | weights kept while membership changes | priorities decide, nobody starves |
| API tokens and logins (`auth_service.go`, `admin_auth_tokens.go`, `api_token_session_limiter.go`, `util/rate_limiter.go`) | token maps, web sessions, failed logins | reload, validate, expire lazily, log in, revoke | a reload racing a deletion | a deleted token stops working |
| log pipeline (`log_service.go`, `storage/hybrid_store.go`) | queue, batch, drop counter, copies | enqueue, batch, flush, copy, stop, restore | full queue, stop with entries queued, a restart before the copy | nothing lost uncounted, nothing inserted twice |
| hybrid store (`storage/hybrid_store.go`, `storage/sync_manager.go`) | MySQL primary, SQLite mirror, log queue | write both, restore, drain | one of two writes fails; restart | mirror converges to the primary |
| site control (`site_control.go`, `site_scheduler.go`, `storage/sql/site*.go`) | sites, accounts, tasks, leases, gates | refresh, check in, retry, renew a lease | a task outliving its lease, retries, restarts | one check-in a day, never two at a time |
| OAuth credentials (`codex_credentials.go`, `antigravity_credentials.go`, `admin_codex_auth.go`) | cached and stored credential, logins under way | single-flight refresh, invalidate; start, callback, exchange, commit, cancel | a refresh racing a new login, a cancel racing the commit | the newest login wins, no rotated token is used |
| Responses sessions (`responses_execution_session.go`, `responses_websocket_session.go`) | sessions, turns, transcripts, sockets | acquire, turn, detach, expire, evict | take-over while a turn runs, budgets | one turn at a time, no shared transcript |
| channel tests, fingerprint job (`channel_check_scheduler.go`, `fingerprint_job.go`) | current run, progress | start, cancel, finish | overlap of manual and scheduled runs | one run at a time |
| updater (`auto_update.go`, `version/updater.go`) | candidate, prepared release | check, download, verify, replace, restart | a check during an install | the binary is replaced only by a verified one |
| upstream transport and stream reading (`proxy_forward.go`, `proxy_stream.go`, `proxy_sse_parser.go`, `request_context.go`) | buffered or committed answer, parser flags, timers, the client's context | send, read, feed, commit, write, abort, diagnose, resend | timers and the client's leaving race the last bytes; the commit point | success is earned, a shown answer is not retried, the right side is blamed |
| protocol translation (`protocol/builtin`, `protocol/cliproxy`) | per answer: blocks open, calls begun, events put off | translate request, answer, event | the events of an upstream stream come in orders the client's protocol does not allow | the client gets a well-formed stream that holds the whole answer |
| prices, administration handlers, relational mapping, console | – | conversions, I/O, parsing | – | – |

How the parts meet: a handler asks **API tokens** for the token's limits and a
slot (*Billing*), **selection** for candidates built from the **channel cache**,
and walks them in **failover**; each attempt passes the **upstream limits** and a
failure goes through the **decision** to the **cooldown rows**, whose writes
invalidate the **cache** that selection reads. A finished request goes to the
**statistics queue** and the **log pipeline**; `Server.Shutdown` stops both and
closes the **store**. Sites, updater and tests run on their own timers.

## Modules

| module | models | state and steps |
|---|---|---|
| `UpstreamLimits` | the two limiters and `doReservedUpstreamRequest` | one process per request; a step is a critical section of a limiter. Time stamps are ages; a reservation carries the age of its clock reading when the lock is taken, goes by the name of its request (which is admitted once) and is ordered by lock time |
| `UpstreamProofs` | – | theorems about both limiters and about the translators of three routes |
| `Cooldown` | rows of one channel, `ApplyEffect`, `promoteExhaustedResources`, `handleProxySuccess`, manual set and reset | one step per store call; read-modify-write transactions lock the row, then write. `expected` and `noticed` are history |
| `CooldownProofs` | – | theorems about back-off and promotion, about attempts and the decisions on their failures, and about the rescue of a cooled channel |
| `CooldownDecision` | classifier, detection rules, `classifyDecision`, key fallback, legacy entry points | operators only: a pure function of the failure; body text is the set of features the recognisers look for |
| `Attempt` | one upstream attempt: `forwardOnceAsync*`, the success handlers, `streamCopy*`, `deferredResponseWriter`, `sseUsageParser`, `requestContext`, Codex resends, the end of `forwardAttempt` and the decision on its failure | seven ways to relay an answer; a step is a read, the hook before a write, a write, a timer, the client's leaving, or the settlement. An event is one of the kinds the parser tells apart. `blame`, `cut`, `whole` and `unwritten` are history |
| `UpstreamStreams` | the event streams of OpenAI, Gemini, Anthropic and Responses upstreams (external) | which event may follow which; an event names the number of the piece it carries |
| `ClaudeStream`, `ResponsesStream`, `ChatStream`, `GeminiStream` | the stream translators to one client protocol each (Anthropic, Responses, OpenAI chat completions, Gemini) and the client, an automaton that notes a fault | operators on the translator's state and the client; emitting an event is a step of the client |
| `Translation` | the fourteen stream routes of `cliproxy_adapter.go` | one answer; a step is one upstream event translated |
| `ChannelCache` | `storage.ChannelCache` beside its tables: channel lists, cooldown maps, API keys | a read is lookup, refresh lock, recheck, load, store; contents are table versions. The caches share nothing, so a behaviour exercises one of them |
| `OAuthCredentials` | `codexCredentialManager`, `antigravityCredentialManager` for one channel, the OAuth attempts of the proxy and the forced refresh of the administrator | a credential is the login it came from and the number of its refreshes; a step is a critical section, a store call or an answer of the provider. `orphans`, `latest`, `dropped` and `excused` are history |
| `OAuthLogin` | `codexOAuthManager`: `start`, callbacks, `complete`, `cancelSession`, `close` | one process per login; the listener's port is taken or free |
| `OAuthProofs` | – | theorems about the cache, the credentials and the logins |
| `Billing` | cost limit, slot, `updateTokenStatsAsync`, `tokenStatsWorker`, `ReloadAuthTokens`, `Server.Shutdown` | handlers, the worker, the administrator and callers of `Shutdown` interleave |
| `Failover` | channel, key, URL and protocol loops, OAuth retries, `handleProxyErrorResponse`, `handleNetworkError`, protocol capabilities, sticky outcome | one request; every answer of an upstream is one of a few classes, one for each reaction of the code; other requests cool and clear keys |
| `FailoverProofs` | – | theorems about attempts and what they leave behind |
| `Selection` | cooldown filters and rescue, tiers, smooth weighted round robin, sticky preference | one selection is one step (it runs under the balancer's lock); cooldowns and health are chosen afresh for each |
| `StoreOps` | the writes of `storage.Store` as functions on one database | – |
| `Store` | the promise: one atomic database | every write is one step |
| `HybridStore` | `HybridStore`, `SyncManager`: primary, mirror, restore on start | a write is two steps, one per database; the process may die between any two. `suspect` and `fresh` are history |
| `LogPipeline` | `LogService`, the log half of `HybridStore`, `Server.Shutdown`, `restoreLogsSnapshot` | callers, workers, the copier and the shutdown interleave; a batch is a set |
| `LogPipelineProofs` | – | theorems about the entries and their copies |
| `AuthTokens` | token administration, `ReloadAuthTokens`, `RequireAPIAuth`, `webSession`, login, logout, restart | a step is one store call or one critical section of a map. `excused` and `ended` are history |
| `TokenProofs` | – | theorems about `AuthTokens` and `Billing`: the token map, ended sessions, usage, costs and reloads |
| `SiteTasks` | scheduler and manual tasks of one account: gate, lease, renewal, daily check-in row, announcements | one process per goroutine that runs tasks, over several instances sharing the database; time is how much of a lease is left and how old the last attempt is |
| `DatabaseProofs` | – | theorems about the two databases, and about leases, returning tasks and the day's work |
| `Sessions` | execution sessions, turns of websocket and HTTP clients, transcripts, the upstream socket and the goroutine that reads it | a turn is a number and a transcript the sequence of its turns; a response stands for the conversation the upstream made it from, so losing context is visible |
| `SessionsProofs` | – | theorems about session objects and the upstream socket |

`MC*` modules only give constants and symmetry sets; `MCDatabase` explores
`HybridStore` and `SiteTasks` side by side, a behaviour choosing one of them (the
tables of the site tasks are written in the primary only, so the two share no row).
Definitions named in a
`Mutant` or `Plausible bug` comment are altered copies used to show that a
property can fail; the specifications never use them. Each module with state
except `Attempt` and `Translation` has a type invariant, `TypeOK`, which documents
its state and is part of the inductive invariants where there are proofs; it holds
in every run below (`OAuthTypeOK` in `cache`, `SiteTypeOK` in `database`, `AuthTypeOK` in `auth`,
`SelectionTypeOK` in `selection`).

Composition. `HybridStore` is shown to implement `Store`; both take their
operations from `StoreOps`. `LogPipeline` composes the log service, the store's
log queue and the shutdown, `Sessions` the session store, the handlers and the
socket, `Billing` the requests, the statistics worker and the shutdown, `Attempt`
the relay of an answer and, through `CooldownDecision`, what its failure costs,
`OAuthLogin` the logins, over `OAuthCredentials`, the requests and refreshes, over
`ChannelCache`, the list and the row they read and write. Beyond
that the modules share state through small interfaces rather than one product:
an answer of an upstream in `Failover` is the end of an `Attempt`, and the mark it
leaves is stored by `Cooldown`; `Selection` takes as input any snapshot
the cooldown maps of `ChannelCache` may return; a slot acquired by an attempt of
`Failover` is a request of `UpstreamLimits`; the map `Billing` reloads is the one
of `AuthTokens`; an attempt of `Sessions` is one of `Failover` too.

## Runs

| run | shows |
|---|---|
| `limits` | three requests on one channel (one slot, two reservations per window of three ticks, one tick of delay): slot accounting, the concurrency bound, no lost wake-up, the rate cap up to the delay, and that every request settles |
| `cooldown` | two requests failing, succeeding and meeting store errors, with an administrator: no failure is lost from a back-off, and whoever cools the last key or model sees the exhaustion it has to promote |
| `attempt` | one attempt in each relay mode, with the client leaving and both timers firing at any point, breaking connections, resends: a stream read to its end is a success and no broken or failed one is, no retry after the client saw something, cooldowns only for a failure of the upstream or of the write; then every failure it can end in: ordered cooldowns land in their scope, the new entry points write what the legacy ones wrote; and an attempt whose context has ended comes to its end |
| `translation` | every streamed answer on each of the fourteen routes: complete, cut short by `response.incomplete` or failed: the client's stream is well-formed, concluded once with the right stop reason, and holds every piece once and in order, in deltas and wherever the protocol says a thing again |
| `cache` | two readers, a writer, failing loads: staleness at most TTL plus load time, for API keys none after an invalidation unless the load was overtaken by it; an older channel list never replaces a newer one. Then two requests with configurations old or new, a refresh, a login, failing writes: the login is not undone, a rotated refresh token is not presented again. Then three logins cancelled, replaced, timed out or closed: a cancelled one writes nothing, and none stays active when it is over |
| `billing` | two requests, a queue of one, failing writes, an edit, two callers of `Shutdown`: every finished request's usage is booked once or given up with a trace, what is queued before the signal is drained, what is stranded in the queue was queued by a handler the shutdown overtook, neither the row nor the cached cost counts a request twice, no charge is taken back by a reload, `Shutdown` returns |
| `failover` | two candidates in four configurations: no repeated attempt, failures cooled and nothing else, the sticky entry follows the outcome, an answer in the end |
| `selection` | four channels in two priorities, with keys, models, hours and health changing at will: nobody starves, the rescued channel recovers first |
| `logs` | two entries, two workers, queues of one place, a failing store, shutdown with a deadline, a restart: an accepted entry is in exactly one place and inserted once, the two log tables differ only by what was counted or died with the process, what is queued before the signal is settled |
| `auth` | two administrators, a request, a token, a session, a failing call and a restart: while no reload is due the map accepts exactly the usable tokens, unless a write overlapped the reload; a session that was ended stays ended over login, revocation and restart |
| `database` | the store: two writers, a channel with a URL state and two tokens, failing mirror writes, crashes, lost SQLite files, failing restores: the primary is an atomic store (`RefinesStore`), the mirror differs only for a recorded cause (a failed mirror write, overlapping writes, a crash, a projection, a cascade), a start that ends well repairs the restored tables. The site tasks: two instances, an administrator, three tasks, one fault: no two run a task together, check-ins are counted and capped, announcements refreshed once a day unless a renewal shortened the lease, every task frees its site and closes its row, up to a lost final write |
| `sessions` | a websocket client that reconnects with or without a Session-Id, an HTTP client of the same id, three turns of two attempts, failing upstreams, and two faults among departing clients, abandoned answers and lost sockets: one session per id, transcripts that are what the upstream answered from, kept sockets that owe nothing, turns that can always go on |

`EventuallySettled`, `ShutdownEnds`, `Answered`, `EarlyLogsSettle` and `CancelEnds`
are liveness properties; `ChannelListMonotone` and `ReloadKeepsCharges` are action
properties and `RefinesStore` is a refinement;
the others are invariants.

### Bounds

* `limits`: three requests are a holder, a waiter and one that overtakes it; the
  window of three ticks with one of delay lets a reservation be stale at the edge
  (`MaxSkew` is the time a goroutine may be kept between clock and lock).
* `cooldown`: two requests make every lost-update and check-then-act race; two
  keys and one model separate "last" from "one of". Lengths 1 and 2 reach the cap
  `MaxDur`. Disabled entries are left out (see the observations).
* `attempt`: four reads (`MaxReads`) are a ping, content, an end or an error, and
  something after it; two ways to resend tell "used" from "left". Two features per
  body (`MaxFeatures`) cover every pair that competes for precedence; the failures
  are otherwise complete over their classes.
* `translation`: two pieces a lane (`MaxPieces`; a lane is text, thinking, signatures,
  searches or the arguments of one call), two calls (`MaxCalls`) and three
  items (`MaxItems`): enough for two calls side by side with text or thinking
  before, between and after them, and for arguments that come in part and then
  whole; a third call where calls come one by one, since the index of a Gemini
  chunk's second call goes wrong only after another one.
* `cache`: one write during one load is the race; TTL and load time of one tick
  separate "fresh", "expired" and "overlapping". A behaviour exercises one cache, or
  the channel list under OAuth requests with one login, or three logins
  (`MaxLogins`) without requests. There a read of the list is one step that may
  return the version before the last write, each login is refreshed once
  (`MaxTurns`), and the provider rotates the refresh token every time: one that
  does not spends none.
* `billing`: a queue of one reaches "full" with two requests; one edit makes one
  reload race; two callers make `Shutdown` re-entrant.
* `failover`: two candidates, two keys, two URLs and one key retry (`MaxRetries`)
  reach every limit of the loops; one change by other requests (`MaxOthers`)
  makes a chosen key stale.
* `selection`: three equal channels are the least for which smooth round robin
  differs from alternation; `MaxSkips` = 4 is the claim checked, not a limit on the
  state.
* `database`, the store: two writers make the mirror order differ from the primary's; four
  writes (`MaxOps`) suffice to create, change twice and delete a row around a
  crash; of the two ends (`MaxCrashes`) the second may be a failed restore. The proofs need neither bound.
* `logs`: with two entries, batches of two and queues of one place, a batch is
  full, partial or refused; one error (`MaxErrors`) and one end of the process.
* `auth`: two administrators make reloads overlap; four writes create, change,
  delete around each other; one failing call, one restart, one expiry.
* `database`, the site tasks: two instances make a lease change hands; a cap of two attempts, three
  tasks (`MaxTasks`) and one fault (`MaxFaults`) reach the retry after a lost
  result. One account, one local day.
* `sessions`: three turns are needed for a context to be lost and noticed; two
  attempts are a failover; a capacity of one and a budget of one turn reach the
  refusals; two objects allow a private session beside a shared one. Two faults
  (`MaxFaults`: a client goes, an answer is given up, a read or ping fails, a
  socket grows old) put a second fault into the recovery from the first; upstream
  failures, refused dials and failed HTTP attempts are not counted.

`attempt`, `translation`, `cache`, `billing`, `failover`, `database`, `logs`, `auth`
and `sessions` allow the system to stop (`CHECK_DEADLOCK FALSE`): after `Shutdown`,
after the answer, and where a bound on writes, logins, tasks or turns is used up.

### Fairness

* `limits`: the clock moves and a runnable goroutine runs (`WF` of `Tick` and of a
  request's own steps). Calls end because client and stream carry timeouts, and
  every caller closes the body. Nobody has to cancel or start. Weak fairness
  suffices although waiters compete: each request sends once, so a waiter is
  overtaken finitely often.
* `attempt`: only the steps the proxy takes by itself (`Proxy`); upstream, client
  and timers owe nothing.
* `billing`: the worker and the callers of `Shutdown` run; nothing makes the wait
  group finish, as the context may end first.
* `failover`: the handler's own steps (attempts have timeouts); neither the client
  nor other requests are fair.
* `logs`: each log worker runs and its ticker ticks. Shutdown, the copier and the
  end of the process owe nothing.
* `sessions` states no fairness: `TurnNeverStuck` says that the holder of a turn
  always has a step or waits for an upstream whose silence a read deadline ends.

## Proofs

`UpstreamProofs` proves for every finite set of requests, every set of
channels and all limits (`LimitsAssumption`, also evaluated in the `limits` run):

* `SlotsAccounted` – the count of a channel is the number of unspent release funcs;
* `ConcurrencyBounded` – `max_concurrency` bounds the requests between acquire and
  the close of the body;
* `NoWakeupLost` – nobody is parked on a channel that has room;
* `WindowCapped` – `rpm_limit` caps the admissions of a minute less the delay between
  reading the clock and locking the limiter.

The inductive invariant of the slots is `SlotInv`: types of the slot variables, the accounting,
the count within the limit, and no parked request beside a free slot. None is
inductive alone. The bound needs the accounting to relate the count to requests;
the accounting needs to know which steps owe a release, else a double close could
lower the count; the wake-up needs the count never to exceed the limit, else a
release might leave the channel full while it wakes the others. `MoveKeeps`
covers every step that leaves the slots alone, `AcquireKeeps` and `ReleaseKeeps`
the two that do not; `SlotNext` combines them action by action. `RateInv` adds, for the
window, that the time stamp of a remembered request is at most `MaxSkew` older than
its admission (`StampsClose`), so that whatever a refusal, a snapshot or a cleanup
drops was admitted too long ago to count, and that the slice holds at most
`rpm_limit` reservations, those of recent admissions among them (`RecentKept`).

Of `Translation` it proves for any sequence of calls and any number of pieces and items
(`StreamAssumption`, evaluated in the `translation` run: calls have different names, none
of them a word that names something else), for the routes in `ProvedRoutes` (Gemini to
Anthropic, Responses to Gemini, and Responses events on an OpenAI channel to Gemini):

* `TranslatedStreamWellFormed` – the client's stream has no fault and is concluded when
  the answer is;
* `TranslatedAnswerWhole` – what is concluded is the whole answer.

Neither says anything of the translator's own state, which decides what the next event
becomes, so `TranslationInv` has an invariant for each route. `GeminiClaude` covers the
three stages of an answer: silence; an answer under way (`GeminiClaudeFollows`), where the
block the translator believes open is the one the client has open, numbers without a
gap follow from it, and the client has got what was sent (`OneBlock`); and its
end (`GeminiClaudeOver`). `CodexGemini` relates a Responses upstream to a Gemini client:
the calls announced are those done (`GeminiShape`), the client has heard on each lane what
was sent unless the lane is one of the oddities, and has heard nothing of a call that is
not done (`GeminiHeard`); the end of a reasoning item repeats a text from
where the item began (`Since`). `OverChunks` carries this to the OpenAI channel, whose
two translators keep a state each. The grammar's sets of events become one predicate for
each kind of event first (`CodexOffersKinds`), then one lemma for each kind shows
what it does to the upstream, to the client and to the translator, and `CodexGeminiEvent`
and `GeminiClaudeEvent` combine them.

`DatabaseProofs` proves for all rows, writers and bounds (`StoreAssumption`,
`HybridAssumption`, evaluated in the `database` run):

* `DriftIsExplained` – a mirror row that differs from the primary's is being
  written or has a recorded cause: its mirror write failed or was the mirror half of a
  cascade, two writes of it overlapped, a projection changed it, or the process died or
  lost its SQLite file in between;
* `RestartsHeal` – a start that ends well leaves the restored tables equal to the
  primary's, unless the primary's is empty;
* `ImplementsStore` – the hybrid store implements `Store`: every step is one
  atomic write or leaves the primary alone.

The inductive invariant is `HybridInv`: types, no write under way while the
process is down (`NothingPendingDown`), a row two writers have under way is
suspect (`OverlapSuspect`), and a write under way on a row that is not suspect
takes the mirror's contents to the primary's (`PendingApplies`). That last part is
what makes the drift inductive: without it nothing relates what the second
database will do to what the first has done; and it holds only for a single
writer, hence `OverlapSuspect`. One lemma per kind of step (`PrimaryKeeps`,
`EnsureKeeps`, `SyncKeeps`, `ProcessKeeps`) preserves it. For the restart,
`HealInv` adds that the channels are already healed while the tokens are restored,
and that a write under way in a freshly started store can only be an
`EnsureAuthToken` of a row as the primary has it.

Of `SiteTasks`, `DatabaseProofs` proves for any instances, administrators, task kinds, retry limit,
tasks and faults (`SiteAssumption`, evaluated in the `database` run: some kind of
task exists and the retry limit is positive, as `site_scheduler.go` makes it):

* `SiteLeaseExclusive` – two tasks of one kind that may still write never run
  together. `LeaseExclusive` says nothing of the rows; `LeaseInv` adds that the
  owner of a row is at work on a task of that kind that takes leases, that who
  would renew owns the row, and that a free row has no owner, so nobody else's
  release or expiry can have taken a lease away;
* `SiteTasksReturn` – a task that returned has freed its site and closed its row, unless
  the last write of the row was lost (`unwritten`, which only a failed final write sets);
  needs that the scheduler records a task only once it has the lease;
* `SiteDailyWorkBounded` – `RoundsInv` relates the row of the day to the check-ins
  sent and under way, and to the instances that have decided on a round and may
  still overshoot the limit by one each; `AnnounceInv` that an announcement lease
  no renewal shortened outlasts the day.

Of `AuthTokens`, `TokenProofs` proves (`AuthAssumption`: the absent row is no token,
expiry or row):

* `AuthSessionsStayEnded` – an ended session is not accepted again; `EndInv` adds
  that only a login that is over can have ended;
* `AuthMapMatchesRows` – with no reload due, the map accepts exactly the usable
  tokens but for `excused`. `MapInv` carries the same across the two halves of a
  reload: a list not yet installed agrees with the rows except for what was written
  since (`ListsFresh`), and an eviction no reload overtook is of a token that is
  not accepted (`EvictionsHarmless`).

`CooldownProofs` (`CooldownAssumption`: finitely many initial and manual lengths):

* `CooldownNoLostFailure` – the back-off counts every failure since the last reset;
  the strengthening is the lock discipline `RowsLocked`: who is about to write holds
  the row's lock, and what it read is still there;
* `CooldownExhaustionSeen` – without disabled models (see the observations), a
  channel whose last key or model cools has been seen to be exhausted or somebody is
  still to look; proved for the keys alone without that hypothesis.

Of `Attempt` and `CooldownDecision` it proves for any number of reads, of ways to resend
a request and of features in an answer:

* `RetriedOnlyUnseen` and `EndsAsEarned` – neither property says anything before the
  attempt has ended. `AttemptInv` carries them back to its start: the relay of an answer
  suits the request (`ModeFits`), a timer that fired is held against the upstream
  (`TimersBlamed`), a stream is committed exactly when it has content and no error
  (`CommitsContent`, in `RelayedSoFar`), and once the relay has ended, `Settled` says what
  its flags and its error imply. `EndRelaySettled` shows that every way to end a relay
  establishes `Settled`, `EndEarned` that what `Settle` makes of it is earned; a lemma per
  step preserves `AttemptInv` with these two. `Settled` is where the exceptions of
  `NoRetryAfterBytes` come from: an error without a diagnosis after the commit is only
  possible in the two modes it names, or when the cause is a timer;
* `EveryPunishmentLands` – `DecisionSound` says what all decisions of `classifyDecision`
  have in common, whatever the classifier found (a key action only for a channel with
  keys, a model action only for a named model, the fallback to a key forbidden only for the latter); from
  that alone `DecisionLands` compares `Decide` and `ApplyEffect` with the legacy entry
  points.

Of `Selection` it proves for any channels, priorities, keys, models and cooldowns
(`SelectionAssumption`):

* `RescuedIsEarliest` – `ReadyIs` shows that `getReadyAt` is exactly the moment from which
  the filter lets the channel pass, `BetterIs` and `SoonerOrders` that the comparison of
  two candidates is a strict total order, `BestExists` that a finite set of candidates
  has a best one; `Rescued` keeps what the choice established while the list is out.
* `NoChannelStarves` – a channel is first in its tier again after at most
  `2 * Load * (n - 1)` rounds it took part in, where `n` counts the channels and `Load`
  is what their keys weigh together at most, whichever channels are live in each round.
  The invariant is `BalanceInv`: the weights of a tier add up to zero, any `k` of the
  channels have no more than `Load * k * (n - k)` together, and a channel's skips are
  paid for in weight (`SkipsPaid`). The bound on single weights is not inductive; the
  one on sets is, as it is concave in `k`: a set that gains in a round contains a live
  channel and not the one selected, which weighs at least as much, so the set has no more
  than the mean of the sets with that channel removed and with the selected one added
  (`RoundBalanced`). The run's bound, 4 skips, is what TLC finds for its channels, where
  the formula gives 30; the theorem shows that there is a bound at all.

Sums over sets of channels are the folds of the model: `SumExists` builds them from a
smallest counterexample (`Smallest`), `SumUnique` makes them independent of the order, and
`TotalIs` identifies what `selectByWeight` charges with one.

Of `Billing`, `TokenProofs` proves (`BillingAssumption`: finitely many requests, a queue
of at least one):

* `BillingUsageBookedOnce` – `UsageInv`: the usage of a finished request is queued, in
  the worker's hands, given up or booked, of an unfinished one nowhere; nothing is
  queued twice; the worker drains and leaves only after the signal. `RaceInv` says
  who may still queue after that: the flag is set before the signal and a handler that is
  about to queue under a set flag is in `raced`, so all that is put into the queue of a
  worker that left (`Stranded`) is, while the early updates are drained. `CostInv` adds the
  costs (`CostsEarned`) and that a reload under way brings no more than the row has;
* `BillingReloadKeepsCharges` – the action property.

`SessionsProofs` proves for any finite sets of clients, and any targets, objects,
capacity, budget, turns and faults (`SessionsAssumption`):

* `SessionsKeptSocketIsQuiet` – a socket kept for the next turn has no request in
  progress and no frame of an earlier one. `SocketInv` adds who holds turnMu (one
  dialling handler at most, none while the goroutine reads: `OneOnSocket`), that a
  goroutine with an open pipe is read by the handler it was started for
  (`PipeRead`), that the frames of a socket are in order (`InOrder`: nothing but the
  reader's failure follows the end of an answer, and no end is waiting while the
  request is in progress) and that a goroutine that reconnects has no socket;
* `SessionsOneSession` – `AttachInv`: an object counts the clients attached to it,
  has their key and is stored while there are any, and one stored object at most has
  the shared key. Only with the count is `removeExpiredLocked` known to spare what is
  in use.
* `SessionsContextIntact` – the last response of a session was built from the end of its
  transcript. The property speaks of stored responses only; `ContextInv` follows the
  conversation to where a response comes from: the request of a handler at work, if it
  were answered from the response it names, would answer what the handler replays
  (`TurnWhole`), so would what the upstream makes of it on the socket and every answer
  in the queue what the goroutine replays (`StreamWhole`), and the goroutine replays what
  the handler at its pipe asked for (`SameRequest`). `Whole` is the one relation between
  a transcript and a response, a suffix of it that begins at its start or at a nameless
  turn; `WholeContinues` shows that a turn added to both keeps it, `WholeAlone` that a
  request without a previous response has it, and nothing else is said about sequences.
* `SessionsTurnMayGoOn` – whoever holds a session's turn finds the guard of some step
  open. This is `TurnNeverStuck` with the guards of the handler, the goroutine and the
  upstream written out, because ENABLED is beyond the prover; that they are the guards
  is what the run checks. `TurnInv` says that a turn is held by exactly the handler that
  works on it (`TurnHeld`; this needs that the mark of a free turn is no client), that a
  handler which waits is the one the goroutine reads for (`PipeServed`), and that on an
  open socket without a request in progress the goroutine finds the end of the answer or
  the reader's failure queued (`AnswerOwed`). `KeptSocketIsQuiet` and `OneOnSocket` do the rest.
* `SessionsTranscriptGrows` – an action property, proved and not in a run: a step adds one
  turn to a transcript, starts it over with one, leaves it, or forgets it with the last
  handler that releases the session. `ReplayCurrent`, a theorem too, is what it rests on:
  what a handler will commit extends what its session holds now, since by `TurnHeld` no
  other handler can have committed since its turn began.

`SocketStep` and `SocketCalm` cover the steps about one socket and those that at most
close sockets, `AttachFrame` and `SweepAttached` the steps that attach nobody and the
three that do; `SessionsNext` puts them together.

`LogPipelineProofs` proves for any finite sets of entries and workers, any queue
capacities, batch size, retries, failures and restarts (`LogAssumption`: the sizes are
positive):

* `LogPipelineLogsAccounted` – `EntriesPlaced` and `BatchesPlaced` say where an entry
  is: nowhere before it is sent, then queued once, in one worker's batch, inserted,
  given up or gone, and inserted already once its batch is on offer to the copier.
  `CopiesPlaced` relates the tables: what SQLite has is in the primary or on its way
  there (`Reached`) or has a trace, and the snapshot a restart takes from the primary
  loses nothing without one because nothing is on its way in a dead process;
  `StagesOrdered` is the order of a shutdown that the last step rests on: a copier
  that left after all workers has counted what it left behind.

`FailoverProofs` proves for any number of candidates, any finite set of keys, any retry
limit and any configurations of a candidate (`FailoverAssumption`: there is one):

* `EachAttemptOnce` – no attempt is repeated. `NeverTriedTwice` says nothing of what is
  yet to come; `Fresh` adds, stage by stage, that what is ahead of the request was not
  tried: a key not among those tried, a credential refreshed since, the URLs left, and
  the protocols left of the present URL;
* `OutcomesRecorded` – `Outcome` drops from `FailureCooled` that the request has left the
  channel (a failure is punished in the step that decides on it, or never:
  `FailureCools`) and adds that the remembered channel is forgotten from the first
  failure until a success. It needs the types and `Staged`, which says what holds at each
  stage: only a keyed channel is at its keys, no result so far forbade a retry.

One `Effect` lemma per action says field by field what it makes of the request; both
invariants are preserved from these alone.

`OAuthProofs` proves for any readers and writers, TTL, load time, writes, logins and
refreshes (`CacheAssumption`, `CredentialAssumption`, evaluated in the `cache` run: the
mark of a free lock is no reader), in the three layers of the specification:

* `CacheStaleness` – no cache returns anything too old. `CacheInv` carries that to what
  is loaded and not yet stored: it is no more outdated than the load has lasted
  (`LoadsRecent`), and without a TTL not older than the last invalidation unless marked
  (`LoadsValid`);
* `ListMonotone` – the action property; needs that the holder of refreshMutex is the only
  one who loads the list (`OneRefresh`);
* `OAuthLoginsClean` – `LoginSteps` ties the status of a login to the step of its
  goroutine, so that one that may be cancelled has not yet written;
* `LoginStaysKept` – a completed login is not undone. `OldGone` says what a completed
  login leaves: no entry, row or refresh of an older one, once nothing is excused;
  `FlightIsRow` that a refresh on its way to the entry holds the row's credential or one
  of an older login; `EntryIsRow` generalises the second half of the property from quiet
  moments to all in which no flight or login is between writing and entering; `FailedKept`
  covers the login that failed after its first write;
* `TokenOnce` – a rotated token is not presented again. `OneSuccessor` says that a rotated
  credential can be the entry or the row only while the flight that rotated it holds its
  successor, which with `OneFlight` (singleflight) leaves nobody to present it;
  `FreshNext` needs that every credential's predecessor was rotated away (`AllKnown`), so
  that a successor is never one already spent; `NothingYet` covers the first entry.

`Requests` and `Completes` break the handlers into steps by their effect on the variables;
`Separate` says which steps a behaviour's cache allows. The lemmas about each part go step
by step over these.

Each of these modules also states the type invariant of its component as a theorem
(`HybridInv` contains the types of the store, `AttemptInv` those of the attempt,
`BalanceInv` those of the weights and skips of `Selection`).

Only model-checked: liveness (fairness and ENABLED are beyond the prover, so the ENABLED
form of `TurnNeverStuck` and `CancelEnds` of `Attempt` too); the translators of
the other eleven routes (`StreamWellFormed`, `AnswerWhole`: their translators fold over
queues of events put off, which is an induction over data, or keep maps from a call to its
index and arguments, for which no proof is written yet).

## Observations

Where the code does something its own text, or a reader, would not expect. Each
was met as a counterexample or while translating; the properties are stated so
that they hold of the code and name the exception.

Against a comment of the repository:

* Announcements (`site_control.go:210`): renewal gives every lease ninety seconds,
  so the twenty-six hours that `site_scheduler.go:155` relies on to decide
  "whether today's refresh already ran" end early when a refresh takes longer than
  one renewal interval (`DailyWorkBounded`, `shortened`).
* Context of a session (`responses_websocket_session.go:124`): an interrupted turn
  commits without a response id. If the next turn completes on a new socket but the
  client breaks off at the terminal event, its commit is lost and the socket kept;
  the third turn then sends only its own input with no `previous_response_id`
  (`ContextIntact`, `nameless`), although the comment at line 97 says the
  incremental request continues the conversation.
* Disabled models (`cooldown/manager.go:398`): `ApplyEffect` does not pass
  `ChannelModels`, so disabled entries count as models still free and a channel
  whose sendable models all cool is not promoted (`ExhaustionSeen` is checked
  without disabled entries).
* API-key cache (`storage/cache.go:222`): a list loaded before an invalidation is
  stored after it and then served with no time limit (`overtaken`).
* Cost limit (`proxy_error.go:479`): the slot is returned when the charge is
  queued, not booked, so more than `max_concurrency` requests can pass a spent
  limit, against `proxy_handler.go:534`.
* A 5xx deferred until the next URL (`proxy_forward.go:2807`) is dropped when
  `EffectCoolModel` leaves the URL loop (excepted in `OutcomeRecorded`).
* `ErrAllKeysUnavailable` (`proxy_forward.go:2939`) discards the last real failure
  that `proxy_handler.go:672` promises; `balanceScored` swaps two channels where
  its comment says the others keep their order; a `Decision` can carry two
  explicit ends, which `Decision.Validate` would refuse (`manager.go:145`).

* The commit (`handleNetworkError` in `proxy_error.go`) is not looked at for errors
  without a diagnosis: a first-byte timer that fires between a read and its stop,
  or a body not streamed that breaks off after its head, is retried into a response
  already begun, against `proxy_error.go:572` (`NoRetryAfterBytes` names both).
* Usage at shutdown (`proxy_error.go:463`): the synchronous write is there to avoid the
  window in which a graceful shutdown silently drops a bill
  (“优雅关闭=静默丢账单”), and a window is left. A handler that looks at
  `isShuttingDown` just before `Shutdown` sets it may queue its update after the
  worker has drained the queue and left, and nobody reads it again: no row, no
  counter, no error. `UsageBookedOnce` allows it to these handlers only: an update
  in the queue after the worker has left belongs to `Overtaken`, the requests whose
  handler was past its look when the flag was set (`raced`) and had not queued when the
  channel of the signal was closed (`early`).
* The cascade of a site's switch (`hybrid_store.go:270`) "applies the cascade on the
  primary, then mirrors it". The mirror half selects the channels through
  `site_channel_bindings` and `site_accounts` (`sql/site_cascade.go:47`), which are
  neither mirrored nor restored in SQLite, so it succeeds on no rows, and reads, which
  go to SQLite, serve the channel with its old state until the next start
  (`MirrorFinds`, `suspect` in `DriftExplained`).
* A stream of which only `[DONE]` was read and whose connection then breaks is a
  success with nothing shown; ended cleanly it is an empty answer and retried, as
  `util/classifier.go:1245` has it (`OutcomeEarned`).
* The usage of a stream that broke after the commit, and of a client that left, is
  not booked, although a comment of `proxy_error.go` says it is kept for the latter.

Races and gaps without such a text:

* OAuth (`codex_credentials.go:151`, and likewise for Antigravity): a request that
  read its configuration before a login, or between the drop of the map entry and
  that of the channel list, parses the old credential into the map, where it has no
  time limit; its next refresh writes the old login back over the new one. A refresh
  that straddles a login does so directly. Both are exceptions of `LoginKept`
  (`revived`, `overlap`).
* OAuth, failed writes (`lost`, `orphans`): a refresh whose `UpdateOAuthCredential`
  or `UpdateConfig` fails leaves the spent refresh token in use; a login whose
  `UpdateConfig` fails has replaced the row and never drops the entry. The
  `UpdateConfig` of a refresh writes back a whole configuration read long before.
  An Antigravity flight rewrites the row even when no refresh is needed any more.
* OAuth logins: `cancelSession` gives up `active` before the listener is closed, so
  a start right after it can fail on the port.

* Attempts: a failed write to a departed client is diagnosed as an incomplete
  stream and cools the model, even when the context is already cancelled
  (`OutcomeEarned`, `unwritten`); a stream that closes cleanly without its terminal
  event is a success; a broken pipe to the upstream is taken for the client's
  leaving (`util/classifier.go:1320`), with no retry and no cooldown.
* Streams translated for Anthropic clients (`StreamWellFormed`, `AnswerWhole`): a
  Gemini answer without content gets a `message_start` and no end; a Gemini text
  part that carries a signature is shown as thinking; a Codex message that comes
  whole is lost when any text came before it; `response.failed` ends the upstream
  and not the client's message; an OpenAI stream of nothing but `[DONE]` gives
  `message_delta` without `message_start` (left out of the grammar, as are argument
  deltas before their call's `added`, which would come after events put off); an
  `error` event of an OpenAI channel before any Responses event is dropped.
* For Responses clients: text of an OpenAI answer that follows a call goes to a
  message already done; all reasoning items of an OpenAI answer share one id; the
  stop reason `max_tokens` and an error of an Anthropic upstream are not passed on.
* For chat clients: of several texts in one Gemini chunk only the last is kept, and
  several calls in one chunk are numbered from the second on by their place in it,
  so they collide with earlier ones; an Anthropic block's number is the index of
  the call; `max_tokens` hides that there were calls, and so does
  `response.incomplete` of a Codex upstream, whose `length` or `content_filter` a test
  expects (`codex_openai_response_test.go:70`); of a Codex answer, messages
  and thoughts that come whole and calls that are only in the final list are lost.
* For Gemini clients: a thought of a Responses upstream is repeated when its item
  ends, a signature that comes only at the item's start is lost, and so is a call
  not done before `response.completed`; every call is followed by `STOP`; the input
  of an Anthropic search becomes a call without a name; `MAX_TOKENS` of an Anthropic
  upstream is overwritten by `STOP` (`claude_gemini_response.go:296`); a keep-alive's
  zero-width space is passed on as text.
* Restore (`sync_manager.go:179`): a table the primary has emptied is skipped, so
  deleted rows SQLite still holds come back into service; `channel_url_states` is
  read from SQLite and not restored. Projections reach the mirror only at a start.
* Tokens: a reload that listed before a deletion installs after it; a failed reload
  keeps a deleted token; a late eviction removes a token that was extended; two
  updates of a row lose one; the row of a login may be inserted after its token's
  revocation, and `webSession` revokes it at its next use.
* Cooldowns: a promotion overwrites a longer cooldown set meanwhile
  (`manager.go:676`); setting one by hand does not invalidate the cache; a failed
  credential plan cools nobody (`proxy_forward.go:3030`); a last bad key goes on to
  the channel's other URLs (`proxy_forward.go:2801`).
* Sessions: eviction under pressure never has a victim, so at the limit every new
  client is refused until a TTL ends; the abort closure reads a variable the
  goroutine assigns (`codex_upstream_websocket.go:943`); an over-age socket may
  stay open until its next use.
* Site tasks (`site_control.go:190`): `updateTask` takes another context when the task's
  is cancelled, but looks before it writes, and discards the error. A final status lost
  there leaves the row queued or running for a task that has returned (`unwritten` in
  `RowsSettled`).
* Sites: check-in and refresh write back an account row read minutes before; the
  rows of tasks that died stay running; a prune may delete a channel that was made
  manual after its snapshot (`storage/sql/site.go:1489`).
* Logs: the tombstones of deleted channels are read before the transaction that
  inserts a batch (`storage/sql/log.go:217`).

## Plan

1. Proofs: the translators of the remaining routes.
2. `SiteProjection`: projections, ownership and cascades.
3. `FingerprintJob`, channel checks, `Updater`.

## Not modelled

Translation of requests and of whole answers (mostly a snapshot of a third-party
translator and by far the largest part of the tree), the parsing around store calls in the
administration handlers, row mapping and migrations, price tables and token
counting (floating point), HTTP adapters of relay products, aggregate queries of
the dashboards, static files and the console. They hold no state that several
steps or actors share, so a model would repeat them line by line; for this reason
the modules cover a small share of the lines although they cover most of the
concurrent state.

Inside the modelled components: the import of credential files, usage queries and
the deletion of an OAuth channel; connection pooling and ageing, rewriting rules,
decompression and debug capture of an attempt, whose clients speak HTTP/1.1 (a
write fails only when the connection is lost), and a failing `BuildTransformPlan`
(`proxy_forward.go:2042`), which cannot be reached: `protocolCandidatesForURL` keeps only
protocols that pass the same test on the same path (`protocol_capability.go:91`,
`protocol/types.go:196`); the scheduler's semaphore over sites, retention,
webhooks and prices of site control; the login rate limiter, system access tokens
and the per-token session limiter; debug logs and the statistics cache; the
websocket connection limiter, channel affinity, pending tool calls and over-long
messages of the sessions; the SQLite snapshot download.
