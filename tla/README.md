# Heimdall-Core in TLA+

A verification development of Heimdall-Core, a local gateway that routes
OpenAI-style requests to LLM providers with the operator's own accounts. The
modules model the parts of `src/internal` that keep state and run concurrently,
TLC checks them on small instances, and TLAPS proves the most important
invariants for every value of the constants.

## 1. The system

One daemon process, commands that are processes of their own beside it, an SQLite
file they share, and HTTP on both sides. A request goes through

    middleware -> gateway -> gates (pre-request) -> router -> dispatcher
               -> executor -> upstream provider
               -> gates (chunks, post-response) -> client

| component | state | operations | interacts with |
|---|---|---|---|
| breaker (`breaker/`) | a circuit per provider, model, credential | Allow, Record, State, RetryAfter, Clear | called by the dispatcher and by the router's preflight, from every request's goroutine |
| dispatcher (`dispatcher/`) | none of its own; the attempt loop of each request, the parts of a fusion or a pipeline | Do, DoStream, doFusion, doPipeline | breaker, quota filter and recorder, credential store, executors |
| router (`router/`) | rotation cursors | Resolve, the ordering strategies | combos, preflight, catalogue |
| quota (`quota/`, `store/quota_store.go`) | windows per credential, applied attempt keys, durable rows | Record, Filter, ApplyHeader, ApplyRetryHint, SetTerminal, Snapshot | dispatcher, router |
| credential store (`store/credential_store.go`) | rows, the registry of refresh locks | List, Get, Upsert, Delete, RefreshLock | login, renewal, dispatcher, management API |
| OAuth (`app/login.go`, `auth/oauth/`) | the callback server of a login, the poll of a device grant, the grants at the provider | BeginLogin, Complete, Poll, Refresh | browser, token endpoint, credential store |
| memory gates (`gates/memory/`, `store/memory_store.go`) | a bounded queue and its worker, the memories table | PreRequest (search), PostResponse (Submit), Insert, Close | pipeline, store, shutdown |
| gates and pipeline (`gates/`, `pipeline/`) | the registry's order; per-request gate data; the limiter's buckets | PreRequest, OnResponseChunk, PostResponse, Close; the observer | gateway, mux |
| calls (`executors/executor.go`, `executors/cloudcode/`) | none; a provider's configuration, the credential of the call | Do, DoStream, Probe, CountTokens | egress policy, credential store, upstream, dispatcher |
| stream decoders (`executors/stream.go`, `executors/cloudcode/stream.go`) | per stream: outcome, body, idle watcher | Recv, Close | upstream, accounting stream, gateway |
| combos (`combos/`, `store/combo_store.go`) | a graph of named routes | Create, Update, Save, Delete, Get, List | router, management API |
| gateway (`gateway/`) | per-request; the response's writer | chat, stream | everything above |
| configuration (`config/`) | the value and the source of each key | Load, Validate, SecurityExposure | lifecycle |
| store and custody (`store/`, `secret/`) | the schema's version, the token's hash and file, the salt, the master key | Open, migrate, EnsureToken, RotateToken, LoadMasterKey, ensureSalt | every process, on one disk |
| access (`api/`, `app/app.go`) | client keys, the throttle's entry, the time of the last rotation | the guards of the routes, the management API | client, store |
| lifecycle (`app/`, `cli/`) | the components, the server | Build, Run, Close; the commands | everything above |
| translators, egress, passthrough, providers, importers, i18n, observability, web UI | none that lives across requests, or not wired | | |

What is hard: probe slots taken by one request and resolved by another's
outcome, also by another part of the same plan; Allow walking three circuits lock by
lock; failover whose every skip, failure and cancellation must end in the right reply;
a window reloaded after a restart and counted by late, repeated and corrected usages; a
refresh token that the first exchange spends; a lock that is made and dropped under its
waiters; a stream whose reader, idle watcher, client and upstream may each end it; a
first boot by two processes at once, each of which may die at any statement; a token
rotated and a key revoked under requests that have shown the old one; a login whose
browser, timer and strays race for one port; what is remembered long after its request
and searched before it was inserted. PROJECT.json lists these hazards line by line with
the properties that cover them.

## 2. Modules

Each component has a module; `MC*` modules and `.cfg` files instantiate them;
`*Proofs` modules hold theorems. The comment of each definition says what it
stands for, and PROJECT.json maps it to lines of `src/`.

### Traffic

* **Circuit** - one circuit and the pure steps that the breaker's methods apply
  to it under the key's mutex. Time is relative (`wait` is `openUntil - now`),
  jitter is a choice within its interval, and the failure counter saturates at
  `FailureBound`, beyond which neither the threshold nor the backoff changes.
* **Candidates** - candidates, the circuits each of them touches, and which
  circuits an outcome is recorded on.
* **Calls** - what one call comes to, in both dialects: whether an executor can be
  built for the stored credential, and the typed error that `Do` or `DoStream` makes of
  what the upstream and the network did. Operators only; the attempts of Dispatcher are
  made of them. A body is whole, cut off, too large or garbled; a hint is a number.
* **Breaker** - Allow, release and Record of concurrent callers, one action per
  lock taken; reads, Clear and the clock in between. `probing` and `stranded`
  are history: who took which probe slot, and which slots outlived their attempt.
* **Dispatcher** - requests in flight: preflight, attempt loop, credential
  resolution, upstream call, cooldown, reply; a whole Allow or Record is one step
  here (Breaker splits them). `world` is fixed at the start: the providers as they are
  configured, the credentials as they are stored; from some moment on every upstream in
  it answers. What happens to a call, the quota verdict and the load from the vault are
  choices. `blame` is history, read off what happened and not off the error: of a
  provider or a model its own faults since its last success; of a credential the limits
  and refusals, and `Banned` from the refusal on that makes them as many as the
  threshold. The loop is `Attempt`, which serves a request as well as a part of a
  structural plan.
* **Structural** - fusions and pipelines: the Router makes one part of each step after
  one preflight over all of them, the panels of a fusion run their loops at once, the
  steps of a pipeline one after another; the lead goroutine joins them and replies.
* **Quota** - recorder, filter and durable rows for one credential and one
  window. Record is two steps, because the attempt's row is written after the
  lock is released. `spent` and `most` are history: what the plan really paid,
  and what was reported. `world` says what may happen around the recorder: faults
  of the store, headers and hints, restarts.
* **EventStream** - one decoder of an upstream event stream (both executor
  families): the reader in Recv, which holds no lock while it scans, and the idle
  watcher, which lives for one event read and closes the body under it. The upstream
  ends the body, breaks off or times out at any moment, and sends a line over the
  scanner's bound (`huge`).
* **Exchange** - one HTTP exchange around EventStream: the observer or the gateway's
  handler, the gate chain gate by gate, the call, the relay loop with the chunk
  gates, the accounting of the stream and the deferred Close and PostResponse. What
  the Router and the Dispatcher answer is a choice (Dispatcher models it); a call may
  fail, or never end. `frames` is what the handler has written: a `[DONE]` relayed as a
  chunk is "sentinel", the gateway's own is "done".
* **Combos** - operators: what a combo is, the validation on saving (allowlist,
  references, depth, fan-out) and the Router's expansion of a combo into entries.
* **Strategies** - operators: what every strategy makes of the entries and the shared
  cursor, the demotion behind it and the stages of fusion and pipeline, as app.go wires
  the Router: without randomness (a weighted combo is in the order of its weights),
  prices, signals, credentials or a judge.
* **Routing** - the table of combos and the Router's cursor under concurrent editors
  (the management API and the command line, which is another process) and concurrent
  requests; one action per SQL statement. `raced`, `sound` and `round` are history:
  whether a save was written over a save it had not seen, the combo saved last, and
  who has been first in each rotation.

### Credentials

* **CredentialLock** - the contract of RefreshLock as an abstract specification.
* **LockRegistry** - the registry behind it, one action per critical section or
  channel operation. The heap is a set of entries; an entry is free when neither
  the map nor a goroutine points to it. It implements CredentialLock.
* **Refresh** - renewal of OAuth tokens by concurrent requests over
  CredentialLock, against a provider that may or may not rotate refresh tokens,
  with logins, deletions, lost answers and restarts. A token is the number of
  the grant that minted it.
* **OAuth** - operators: how a call of an endpoint ends, which error it becomes, what of
  an answer is kept, and which flow a provider gets.
* **Login** - `heimdall login` with a browser or a pasted code, for two processes at
  once: the port, the one-shot callback with its timer and its strays, the exchange,
  the profile, the project and its onboarding, the row in the vault. `consents` and
  `codes` are the provider's and the users' memory. A pasted code is what the command
  was called with; it was issued for an earlier URL.
* **DeviceGrant** - the polling of a device grant in poll increments. The end of the
  grant is compared with the clock twice a round, by Poll (`Round`) and by its sleep
  (`Rest`), and time may pass between: then the poll is at once.
* **Grants** - the two as they are driven, by a command or by a caller of the contract.

### Memory and shutdown

* **MemorySink** - the bounded queue of the memory writer and the shutdown of the
  daemon. Submit is two steps, since it lets go of its lock before it sends.
* **Memory** - the two gates and the table over it: a search before the request, a
  record made after it from the request as the client sent it, an insert on the
  worker. A text is the set of its words, a search finds the rows that have all words
  of the query (`matchQuery` joins quoted tokens), a hash is what it is made from.

### Processes, disk and access

* **Settings** - operators: the four layers of the configuration with the source of
  each key, provider entries, and the validation. An address or a URL is its kind.
* **GateGraph** - operators: which gates a configuration enables, what they declare,
  and the order the registry derives (Kahn's algorithm with the name as tie-break).
* **Startup** - processes that load, open, migrate, ensure the token, order the gates,
  derive the master key, do what their command does, and end or die; one step is one
  statement on the shared disk. A secret is known by where it came from. `torn` is
  history: whether a hash was committed whose file was never written.
* **Access** - requests to the daemon of Startup: the guards in the order of the
  handler, the throttle of wrong tokens, rotation, client keys, the rate limiter. All
  guards read constant settings but for the throttle and the stored hash, which are
  steps of their own. `failed` and `admitted` are history.
  One rotation runs at a time and its request is answered when it begins; the GUI's and
  the health routes are one route; all management views are one reply.

## 3. Runs

| run | module, cfg | shows |
|---|---|---|
| breaker | MCBreaker | circuits stay consistent, Allow gives back every slot, bans are absorbing, cooldowns are not extended |
| dispatcher | MCStructural, Structural | replies tell the truth about the calls made and failover follows the plan (`FailoverHonest`); a fusion answers with the first success in the plan's order, a step of a pipeline calls only when those before it were answered, and nothing is under way behind a reply (`ShapeHonest`); no circuit opens for somebody else's fault, and no account is banned but by a refusal of its own that makes its limits and refusals, without a success between them, as many as the threshold: never by a limit (`OpenForCause`) |
| dispatcher_answers | MCStructural, DispatcherAnswers | with everything on by which probes are lost, every request and every plan with a shape is answered or waits for ever in one upstream call (`ServesOn`); that circuits close again is not claimed |
| preflight_strands_probe | MCDispatcher, DispatcherNotProbeResolvesPreflight | (violation) with the preflight a probe is lost for ever |
| quota | MCQuota | an attempt is counted once, with a reported quantity, whatever fails, and over a working store the row is the window (`WindowTruthful`); restarts never let the plan be overspent |
| exchange | Exchange | every stream is accounted once, and the gateway ends it once and truthfully for the client, a relayed sentinel apart (`EndToldTruly`); its outcome is blamed on its cause, its body and watcher released; the chain runs once, PostResponse just if the call or the observed handler was reached, failed calls included; its edits go upstream; an exchange ends unless a call or a read that nothing bounds stalls |
| lock_registry | LockRegistry | reclamation, refinement (mutual exclusion follows from it), service |
| refresh | MCRefresh | one exchange per token; a live refresh token in the vault and no lock leaked (`RenewalsLeaveUsable`) |
| routing | MCRouting | references close a cycle only by a race of two saves, and what was saved alone can be routed (`TableSound`); expansion refuses exactly the bad graphs, plans lose no candidate, and strategies that follow the steps do so (`PlansFaithful`); rotation is fair to all |
| sink | MCMemory | accepted turns are inserted before the store closes, nobody waits for storage, only an abandoned handler can panic; a request is shown what its own client said within the retention, once, without its secrets, and all of it (`RecallsTruly`) |
| grants | MCGrants | a login that succeeds is stored in the row of its account with its own user's tokens, and a granted one is lost only with the vault or the process (`LoginHonest`); a poll that has slept is not hurried (`PollsUnhurried`); every login and grant ends that is not for ever in a call of the provider (`EveryGrantEnds`) |
| startup | MCStartup | schema, token file and seals survive concurrent boots and deaths; settings, sources and the exposure warning agree; gates come after what they read; only the entitled are served; the limiter and the throttle hold |

`Consistent`, `ShapeHonest` and the like are conjunctions of named parts; the comment of
each part names the code it is about.

### Bounds

* breaker: two callers (every hazard is between two), one provider, model and
  credential with a pinned and an unpinned candidate, threshold 2, cooldowns up to
  2 ticks and a hint of 3, so that bans, reopenings and expiries all happen.
* dispatcher: one client at a time, with a plan of no shape (a pinned step, an
  automatic route, an unregistered provider or a foreign account), or with a fusion or a pipeline of two
  parts, whose loops interleave. `OneTwice` names a model and then again all models:
  the parts collapse unless the preflight has dropped one. `Bounds`, an action
  constraint, lets a plan with a shape begin only before a credential is blamed and
  after at most one outage, of the first model, and a plan of no shape with at most
  three circuits to blame (a provider, a model and an account; its own failures come on
  top). Four worlds: two accounts; the first
  with a lost secret; CloudCode, with an account of an unsupported mode; a destination
  that is denied. What happens is one of each class.
* dispatcher_answers: a client of no shape or of a fusion or pipeline of two parts, one
  at a time (`Alone`), over one account whose secret opens or is lost. What happens is a
  success, a limit with a hint, a refusal or an outage of the upstream, with streams,
  quota denials, failing loads and clients that leave: every path on which a probe is
  taken and not resolved. `Alone` loses no way to wait: requests share nothing but
  circuits, whose Allow never waits.
* preflight_strands_probe: two clients with the same one candidate, outages only.
* quota: a limit of 2 units, attempts of 1 or 2 units, two deliverers: one attempt
  can overrun the limit and two can be in flight. Three attempts, in three worlds:
  `Disturbed` (reads and writes fail, headers and hints come), `Informed` and
  `Restarted` (restarts over a working store with and without them).
* exchange: two events of any kind, one of them over the scanner's bound: every pair of an event and what follows it, in
  particular an error, a timeout or an end after a chunk, a usage block that
  another replaces, and a sentinel in a chunk before the real end. Two gates: one
  that edits before or after one that edits, answers or refuses.
* routing: three names, so that a chain can be one reference too long (`MaxDepth` 1),
  a cycle closed and an end left dangling; two providers that share a model; two
  editors, since a race is between two, and two requests. `Edited` has the worlds in
  which combos are saved, `Routed` one world for each kind of ordering; round-robin is
  also routed while its combo is edited.
* lock_registry: three goroutines (a holder, a waiter, and one who arrives
  between), two credentials, as many heap entries as goroutines.
* refresh: two accounts, two requests, five grants: a login, two expiries, two
  renewals of the same token, and one more.
* sink: three requests over a queue of one (one runs, one waits, one is dropped), with
  a client that says the same three times, one whose words contain a secret, and two
  clients with one stranger; a retention of 2 in a time of 2, a limit of 2 hits.
* grants: two sessions, ports and accounts, one login always the ordinary one and the
  other of every kind; two attempts at onboarding, one stray request; a device grant of
  up to 8 increments whose interval may be raised to the cap (4).
* startup: a daemon and a command, two migrations, two starts each and three in all
  (`FewStarts`: one restart is what a crash needs to meet what it left; the worlds of
  `OneLife`, whose traffic leaves nothing behind, have no restart), three tokens; two
  requests, which are alike (SYMMETRY), two keys. Worlds: `Contended` (both processes, a
  key, none, or one each), `Unready` (a source of the key or a vault that is refused),
  `Layered` (one for each way the layers, a path or the switches can disagree),
  `Guessing` (wrong tokens: limit 2 in a window of 2), `Managed` (rotation and keys),
  `Beside` (keys by a command under traffic), `Throttled` (rate 2 in an interval of 2),
  `Strangers` (every form of request most guards are for).

### Fairness

Specifications without fairness check safety. No deadline bounds the body of an
answer, for `egress/policy.go:114-117` sets no Client.Timeout and only headers have a
timer; so no specification that a passing run checks has a call of an upstream or a
provider end of itself.

* `FairStructuralSpec`: the goroutines run, of the lead, of each loop and of requests
  without a shape, except in a call whose upstream may keep its answer back and whose
  client stays (`Waits`; executors/executor.go:291, cloudcode/executor.go:138 read such
  bodies). Nothing makes time pass or a client ask.
* `Dispatcher!BusySpec`, of the violation run only, assumes more than the code gives:
  calls end, time passes, clients keep asking. A probe that is lost under it is lost in
  the code.
* `Exchange!FairSpec`: the handler's and the watcher's goroutines run and the idle timer
  expires. A handler is not fair in a call while its client stays (`Stalled`), and one
  that reads a stream waits for what the upstream does, of which nothing is assumed; so
  `Ended` claims the end of a stream with an idle timeout, of one whose upstream ends,
  and of every exchange whose client leaves. A client that stays is assumed to read (the
  server has no WriteTimeout, `app/app.go:313`).
* `Grants!FairSpec`: a command goes on while it has something to do other than a call
  (the wait for the callback has a timer), a sleeper wakes, time passes. Calls may stall
  in their body (oauth.go:178, antigravity.go:185, 351) and the command's context has no
  deadline (cli.go:425), so `EveryGrantEnds` has as its premises that the session is not
  for ever in a call and the poll not for ever on its way. Nothing is assumed of the
  user, the browser or the onboarding, which only end a wait sooner.
* `LockRegistry!FairSpec` has strong fairness for the channel send, since the runtime
  queues senders, and weak fairness for holders and leavers.
* `FairMemorySpec` assumes only that a handler which has begun to submit goes on: the
  worker may hang, and `AcceptedRuns` names the fairness of the worker as its premise.

Quota, Refresh, Routing, Startup and Access state no liveness and no fairness.

CHECK_DEADLOCK is FALSE where the system may stop: a spent window whose attempts are
all made, the provider's grants used up (`MaxGrants`), an exchange or a login that is
over, processes that have ended or used up their starts, the daemon after its shutdown.

## 4. Proofs

All theorems are of the form `Spec => []Inv`, an action property or a refinement, for
any number of callers, credentials, goroutines, requests and processes and any setting
of the thresholds.

* **BreakerProofs**: type correctness, `Consistent`, `AllowStrandsNothing`,
  `TerminalAbsorbs`, `CooldownNeverExtended`. The invariant adds to TypeOK that the
  probe slot of a circuit is either held by a caller still at work or in
  `stranded`; the action properties follow from it and from lemmas about the
  operators of Circuit.
* **CredentialProofs**: of the refresh locks and of the quota. `IInv` of LockRegistry
  says that whoever has an entry has the one the map has, that an entry serves one
  credential, that `refs` is the number of users (`Cardinality`), and that the channel is
  full while one user is past its send. Mutual exclusion is not inductive without them:
  an entry dropped too early would be made again for the next goroutine. The refinement
  theorem maps the holder to the goroutine past its send. `QuotaIInv` gives
  `WindowTruthful` and `NeverOverspends`: a usage on its way to the recorder is of an
  attempt of this life that is not counted yet or is a replay (`Applied`); window and row
  each count no more than the set `Reported` of what was reported in this period
  (`StoredCounts`, `NeverOvercounts`); and over a working store, when no header or hint
  replaces the count, the row says what the plan has paid in this period and until when
  (`Tracked`), which is what a restart reads.
* **RefreshProofs**: `RenewalsLeaveUsable` and `SingleFlight`. The invariant adds that a
  token belongs to one account (`Apart`), that the lock is held from Lock to Unlock and
  by its request alone (`Holding`), that no row holds a token which somebody has
  replaced (`Unrenewed`), that the token a provider honours is in the vault unless its
  account is lost or a renewal is about to store it (`Honoured`), and that each request
  still to make an exchange has a grant left for it (`Budget`, without which the bound
  `MaxGrants` would stop a renewal half way).
* **GatewayProofs**: of the exchange first, `AccountedOnce`, `EndToldTruly`,
  `BlamesTheCause`, `NothingLeaks`, `ChainOnce` and `EditsReachUpstream`, for any number
  of gates and events. None is inductive: the invariant adds what Recv has in hand at
  each of its steps (`InHand`), that each outcome's cause is already a fact before it is
  recorded (`Causes`), that a body closed during the relay was closed by the watcher
  (`Watching`), that what was read and what was counted differ only by the chunk in hand
  (`Counted`), how often the chain has run at each step of the handler (`ChainRuns`),
  and what the client has been told at each of them (`Telling`). The
  theorem covers streams in which a sentinel was relayed. One lemma per part.
  Of Routing, `RotationIsFair`. Its invariant says that the entries of a rotation that
  have been first since all were are the positions just behind the cursor (`Behind`), and
  not all of them (`Turning`). That a step has a countable number of entries rests on the
  expansion of combos into combos: the recursion over chains of references is defined
  since long chains are refused unseen (`FollowsFurther`, an induction from the cap
  down), and yields entries (`ExpandEntries`) for any table of valid combos, cyclic ones
  too. The table has only such since a save validates what it writes
  (`Tabled`, `Edited`), whoever else has written meanwhile.
  Also of Routing, `TableSound`, under `TableIInv`. A table is `Acyclic` if any combos
  taken of it have one among them that refers to none of them, which no path of
  references that returns can satisfy. Of a save between its validation and its write the
  invariant keeps what survives the deletes it may have missed (`Vet`): a set of names,
  all that the validation met, closed under references in the table and without the
  name to be written (`Sure`). A write over such a table adds no cycle
  (`SureAddsNoCycle`); a missed save voids the set, and then `raced` is set. That
  validation finds this set, and that its depth is the longest chain from the combo
  (`DepthIsLongest`), rests on the recursion of depthOf over paths: it is defined since
  a path met without a repetition leaves fewer names (`RankFalls`), and a depth that is
  given exceeds that of each combo referred to, so chains are no longer than it
  (`ChainSinksSlowly`). A combo within the cap is expanded without a refusal
  (`ExpandGoes`) as the guards of expand meet only what depthOf has met.
  Last of Routing, `PlansFaithful`. Of expand (`ExpandsEveryChain`): what holds of a chain
  of references by itself or by one that goes on from it holds just if some longer chain
  has it by itself (`ChainsReach`, an induction on how much longer a chain may get), once
  for refusals (`RefusedReach`) and once for targets (`TargetsReach`). Of orderings: a
  stable sort puts each element at the place that counts those no later than it, and each
  place is taken by one (`EachPlaceTaken`), so a sorted sequence is a bijection in order
  (`SortedIs`) and so is a selection (`SelectedIs`); what FlattenSeq joins keeps the order
  within and among its pieces (`FlattenSpreads`), and pieces that share out the positions
  are joined to a permutation of them (`Joins`). Each strategy then arranges its entries
  as it promises (`Arranged`: `SortedArranges`, `RoundRobinArranges`,
  `FillFirstArranges`), demotion disturbs nothing where no candidate has a credential of
  its own (`Demotes`), and stages share out the attempts (`StagesSplit`). The invariant
  carries this for plans that were served (GatewayProofs' `Served`), and that the
  cursor's positions are numbers.
* **DispatcherProofs**: `FailoverHonest` and `OpenForCause` under Dispatcher's `Spec`, and
  the two with `ShapeHonest` under `StructuralSpec`. The invariant `IInv` says that a
  circuit asserts no more than its key is to blame for, a ban no less than `Banned`
  (`Grounded`), and of every request
  (`Sound`) what it has at hand, that all its calls have failed so far and are counted
  (`Tale`), that the candidates kept and the calls made are in the plan's order, by two
  increasing functions as witnesses (`Path`: `Kept`, `Made`), and what a reply may say
  (`Answer`). `JobInv` adds what the lead knows of its loops: those outside the job rest,
  every panel has begun, of a pipeline the parts before the turn have succeeded and those
  after it wait (`InTurn`), and what an answer rests on (`FusionTold`, `PipelineTold`).
  Each loop step is a step of Dispatcher that moves one request, so `IInv` is carried over
  by the same lemmas. That what a step has left is a sequence of candidates
  (`GroupTyped`) needs an induction over the length of what FlattenSeq concatenates; it is
  made with `Least` (a set of numbers has a least one) in place of the library's theorem.
* **GrantsProofs**: `LoginHonest` and `PollsUnhurried`. A login holds at each step what it
  says it got (`HoldsGrant`), an answered URL has one code (`OneCode`), a row is under
  the identity of its account (`Rowed`), so nobody's row is overwritten with another's
  tokens; a sleeper is not due before the interval or the end of its grant, a round
  begins only before that end, and a poll that has not slept comes after it.
* **MemoryProofs**: of the queue first. The buffer holds exactly the turns marked queued,
  each once; the worker has finished only after the channel was closed and empty; a
  handler still at work after the server's drain was left behind. From these follow
  `Drained` and `OrderlyShutdown`. Every step of the gates is a step or a stutter of the
  queue (`SinkUnderGates`), so both hold under them; and `RecallsTruly` follows from
  `Remembers`: a record keeps what its request asked until it is a row, every row is the
  record of a stored turn, every stored turn has a row and only one.
* **AccessProofs**: of the processes first, `MigratedBeforeUse`, `TokenFileOpens`,
  `SealedOpens`. A version stored or worked from promises the tables up to it
  (`Promised`), at most one process owes the file a token and that is the one whose hash
  is stored, unless a rotation was torn (`Owed`), and whoever is past the salt has the
  stored one (`Salted`). Access implements Startup, so the three hold under any traffic
  (`Implements`, `DiskUnderTraffic`). `SettingsHonest` and `GatesInOrder` follow from
  `Wired` (what runs has the settings its layers call for, and the gates those call for)
  and from what loading and ordering compute: one layer over another keeps what the
  upper one names (`Layered`), what kahn has placed comes after all that must come before
  it (`Settled`), and the list holds what has been seen, each once (`Lists`). These two
  are inductions over the steps of a recursive function, made with `Least`; that the
  function exists at all is a lemma of its own (`StepwiseExists`). `OnlyEntitledServed` follows from
  `RequestInvariant`: at each step of a request the guards before it have passed it with
  what it showed and what was stored then. `RateHonoured` and `GuessesBounded` follow
  from `Remembered`: what a bucket has let through since any moment and what it holds
  are no more than its capacity and its gain since (`Paid`), and the last `failures`
  wrong tokens are those of the throttle's window, all before them but a window's worth
  being out of date (`Recorded`).

Assumptions are the named ASSUMEs of the modules: constants that are numbers, `None`
apart from the values it stands beside, bounds that are naturals, shapes that fit; of
Routing that the names and the catalog are finite, and that the rows the database starts
with are combos saved before, without a race, by builds with the same providers
(`WorldsAssumption`, `SavedAssumption`). TLC evaluates them in every run.

Every invariant and action property that a run checks is stated by a theorem. Only
model-checked: the liveness properties (`ServesOn`, `ProbeResolves`, `Served`,
`Responsive`, `Ended`, `EveryGrantEnds`), which are out of the prover's reach.

## 5. Disagreements between the code and its documents

Checked by a violation run: the preflight's lost probe. Met while modelling, without a
run, by component:

Dispatcher, breaker and router
* an attempt's outcome resolves only the probe slots of its scope
  (`breaker.go:313-332`), while `breaker.go:229-230` promises that later callers wait
  only "until the probe resolves"; `stranded` in Breaker records the others;
* every failure of a credential counts toward its ban, a retryable 429 too
  (`breaker.go:334`), so that with a threshold of 2 a limit followed by one 401 bans the
  account, against `breaker.go:68-70`, 92-93, 102 and 336-337, ADR-0002 §2 (:64-65) and
  ADR-0012 §2 and §4.3 (:100): N consecutive failures that are not retryable.
  `OpenForCause` states what the code does, and that a limit alone never bans;
* a streamed success is never recorded on the breaker (`dispatcher.go:189`);
* with the preflight as wired, recovery after an outage is not sure (`ProbeResolves` is
  refuted, and the other losses of a probe are in `stranded`), so nothing claims it;
* a buffered answer whose body stalls holds its request for as long as the client stays
  (`executors/executor.go:291`, `egress/policy.go:114-117`);
* ADR-0009:78 has the preflight read `Breaker.State`; the code calls `Allow`;
* a fusion waits for every panel (`structural.go:142`), against the grace period of
  ADR-0009 §3 (:101-107); one whose client has left reports `route.fusion_all_failed`;
* a step of a pipeline whose candidates the preflight drops silently leaves the chain,
  against ADR-0009 §6, where a step that fails is a terminal error;
* `groupByStep` (`router/strategies_structural.go:153-180`) finds a candidate's step by its
  name, so steps that name the same model collapse: A, B, A has the two stages B and A-A,
  against "partitions the ordered candidates by their ORIGINATING STEP";
* Save validates and writes in two statements (`store/combo_store.go:91-112`), so two saves
  at once can store a cycle or too deep a chain, which saving should refuse; the Router
  refuses it (`CyclesNeedARace`, `ExpandsEveryChain`). A deletion checks nothing;
* fill-first (`router/strategies_sequential.go:186-230`) moves to the next credential for
  every candidate, where ADR-0009 has a credential used until it is exhausted; a
  candidate that was given a credential is not found by `demote`
  (`router/resolver.go:214-236`) and goes behind the others as incompatible;
* the daemon wires the Router without a random source (`app/app.go:1313-1315`), so a
  weighted combo always begins with its heaviest step, against ADR-0009 §2 (:90),
  `strategies_sequential.go:117-129` and `strategy_test.go:107-144`: a draw in proportion
  to the weights, the lightest first at times. For want of prices and signals cost, p2c
  and auto fall back to the order of the names. `PlansFaithful` promises no order of
  these four;
* a candidate of a nested combo gets the weight of the step that refers to it
  (`router/expand.go:86`), against the comment above (:82-83), where it keeps its own;
* `allowed_connections` of a step are honoured by fill-first only
  (`combos/combos.go:96-98`).

Calls
* CloudCode's 401 and 403 are the request's fault and end as a 400
  (`executors/cloudcode/errors.go:59-65`), against ADR-0002:64-67, where they count against the
  credential: an account that was revoked there is never taken out of the routing;
* a denied destination is the provider's fault with a 502 (`egress/policy.go:286-292`),
  against ADR-0002:108 (a 403 that is the request's);
* no call refreshes and tries again after `auth.token_expired` (ADR-0002:114); CloudCode
  renews by the clock before the call, and calls with the old token if that fails;
* a secret store that cannot be opened counts against every account it is asked for
  (`executors/cloudcode/helpers.go:80-85`, `executors/executor.go:152-160`), three calls ban them.

Quota and credentials
* a blocked window is not reopened by reading it (`quota/filter.go:91`), against
  ADR-0012:119;
* a later delivery of an attempt's usage leaves the window as it is
  (`quota/recorder.go:107`), where the type's comment (:27-31) says that it replaces;
* a first read of the quota window that fails after a restart forgets what was
  spent (`quota/recorder.go:147`), against ADR-0011:130-132, and a restart after writes
  that failed reads a window of the past; `WindowTruthful` excepts worlds with both;
* after a renewal the token of the provider's first credential is presented
  (`app/login.go:483`), against :471-474;
* `contracts/credential_store.go:49-50` has a waiter skip the refresh if ExpiresAt
  has moved past now; RefreshProvider compares access tokens only;
* a code pasted with `--code` belongs to an earlier URL and never matches the new
  challenge (`cli/cli.go:425`, help :380-383);
* any request without a state on the callback's port ends the login; when the account's
  profile cannot be had the identity is blank, and accounts share a row;
* the onboarding goes on in a goroutine that dies with the command;
* Poll reads the clock (`device_code.go:203`) and its sleep reads it again (:312); a
  grant that ends in between is polled at once, after its end and a moment after the
  last poll (:316-318), against "Wait one interval before each poll" (:210-211).
  `PollsUnhurried` speaks of polls that have slept;
* an endpoint that stalls in the body of its answer holds a login or a poll for ever
  (`oauth.go:91-98` has a timer for the headers only);
* the cap of slow_down lowers an interval that was above it; BeginLogin refuses every
  device flow.

Exchange and memory
* on the openai dialect a `[DONE]` in a named event passes as a chunk
  (`executors/stream.go:136` asks for a blank event), and more chunks or an `event: error` (`gateway.go:280-281`) may follow what the client took for
  the end, against `contracts/sse.go:5-13`, `stream.go:132-135` and ADR-0014 §2, exactly
  one terminal. `OneTerminal` holds of what the gateway writes by itself, and says when a
  sentinel can have been relayed;
* a line over the scanner's bound of 1 MiB (`executors/executor.go:46-48`,
  `executors/stream.go:45,190-191`, `cloudcode/stream.go:94-96`) ends the stream as
  upstream_unavailable although the peer is alive; a timeout of the connection is an
  upstream_timeout without the idle watcher (`executors/executor.go:379`).
  `BlamesTheCause` names both;
* the chunk gates are told that "the first byte has already been sent"
  (`pipeline/chain.go:233`), but the writer that ErrorEnvelope hands the gateway is no
  `http.Flusher` (`api/middleware/errors.go:84-89`), so chunks wait in the server's buffer;
* `absorb` (`dispatcher/stream.go:69-100`) resets the input and output counts whenever a
  later chunk only mentions "usage"; the total stays;
* PostResponse does not run after a Block, a refusal of the chain or a failed Resolve,
  where ADR-0014:99 has it once after the exchange, errors included;
* Submit releases its lock before it sends, so a Close in between makes it panic
  (`gates/memory/writer.go:200`), against "safe for concurrent use"
  (`contracts/memory.go:86`) and "no panic, no acceptance" (`gates/memory/sink_test.go:67`);
  `OrderlyShutdown` says when the daemon gets there;
* the daemon starts no Sweeper and calls neither purge, against ADR-SEC-07 §4 (:46, a
  periodic worker), §5 (:50, a route for erasure) and `contracts/memory.go:65`. An
  expired row keeps its hash, and the insert does nothing on a conflict: what a client
  has said once is never remembered again after its retention, and saying it again
  never extends it. `Everything` in Memory has this as its exception;
* with embeddings configured the embedder is called on the response path without a
  deadline (`gates/memory/writer.go:108`), against "performs no I/O" (:16-20);
* `expires_at` is compared as RFC 3339 text whose trailing zeros are dropped, which
  mis-orders instants of one second (`store/memory_store.go:50-56,105`).

Start and access
* two first boots at once each draw a token, against "generated once"; a crash or a
  failed write after the hash was committed leaves no usable file, which `TokenFileOpens`
  excuses in a rotation (`torn`) and not otherwise; `schema_version` may go back for a
  moment when two processes migrate;
* a failed Build after wireGates leaves the memory worker running;
* an unknown field of `[[providers]]` is ignored but gets a source; flags with
  underscores cannot be given; a bad value in a lower layer aborts although a higher one
  overrides it; a gap in the indices of the environment creates an empty entry, which
  Validate refuses;
* a key from systemd beside a key file (`app/app.go:295-298`), and provider ids given
  twice (:339-342), are resolved silently;
* the throttle's window is fixed: up to 2(limit - 1) wrong tokens fit in a sliding one,
  and a success under way clears a lock (`GuessesBounded` states what does hold);
* LocalOnly refuses every remote peer of the management API even with `allow_remote`;
* the observer never learns the client, so the requests it drives itself (other POSTs
  under /v1) share the limiter's common bucket.

## 6. Not modelled, and the plan

No invariant is left to prove; liveness stays with TLC.

Modules, if the daemon comes to use what they would model:

* **passthrough**: wired only when there is no gateway (`app/app.go:1487-1504`), which
  the daemon always has;
* **gated executor**: `NewGatedExecutor` has no caller outside its package;
* **memory purges and Sweeper**: no caller in the daemon;
* **embeddings**: off unless configured; the vector is stored and never searched.

Left out, since they keep no state and are functions of strings or bytes: translators,
the token gate and the text gates' matching, obfuscation and the providers' shapes, the
egress policy's proxies and redirects, combo capabilities, importers' parsing,
inspection. i18n, logging and the web UI are output. Trusted: SQLite, the Go runtime and
its HTTP server, the file system's rename, cryptography.
