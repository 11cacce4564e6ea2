# Specifications of reverse_exporter

TLA+ models of `reverse_exporter`, an HTTP server that scrapes several
Prometheus exporters on every request, labels their metrics with the exporter
they come from and serves them as one page.  Paths are relative to the
repository; line numbers are those of the files under `src/`.  The modules are
checked with TLC on small instances, and what matters most is proved with TLAPS
for instances of any size.

## 1. The system

| component | source | state it keeps | operations |
|---|---|---|---|
| `execProxy` (exporters of kind `exec`) | `pkg/metricproxy/exec_proxy.go:34-259` | map of waiting scrapes with a one-slot channel each, two mutexes, a condition variable, a running script | `Scrape`, the `execer` goroutine, a watcher goroutine per round, a kill goroutine per run |
| `execCachingProxy` (`exec_cached`) | `exec_proxy.go:261-354` | last result, a channel closed when there is one, time of the last run | `Scrape`, the `execer` goroutine |
| `ReverseProxyEndpoint` | `pkg/metricproxy/reverse_proxy.go` | per request: wait group, two channels, a goroutine per backend, an aggregator | `ServeHTTP` |
| serialization and rewriting | `pkg/metricproxy/utils.go`, `rewrite_proxy.go`, `pkg/promutil` | the pool of buffers; the `Label` slice of each metric object | `handleSerializeMetrics`, `getBuf`, `giveBuf`, `rewriteMetrics`, `decodeMetrics` |
| `fileProxy`, `netProxy` | `file_proxy.go`, `net_proxy.go` | none between scrapes; per call the derived contexts, the response or file and the reader's goroutines | `Scrape` |
| endpoint construction | `pkg/metricproxy/interface.go` | names used, backends | `NewMetricReverseProxy` |
| configuration | `pkg/config/loading.go`, `config.go`, `default_config.yml` | none | `Load`, `configMapMerge`, `All` |
| configuration value types | `pkg/config/models.go` | none | text conversions |
| authentication | `pkg/middleware/auth/auth.go` | table of credentials, constant | `SetupAuthHandler` |
| program | `cmd/reverse_exporter/main.go`, `api/` | paths seen, routes, contexts, listeners | start, stop |
| build | `magefile.go`, `mage.go`, `version/` | the queue of job slots, a goroutine per job and per result | `ReleaseBin`, `ReleaseBinAll`, `Release`, `ReleaseAll`, `concurrentRun`, `waitResults` |

**How they interact.** `main` loads the configuration, builds one
`ReverseProxyEndpoint` per path and registers it with the router.  A request to
a path starts one goroutine per backend; each calls `rewriteProxy.Scrape`, which
calls `Scrape` of a file, http, exec or exec_cached proxy with the request's
context and rewrites the labels of what it returns, in place.  Results reach the
handler through an aggregator goroutine.  Exec proxies outlive requests: their
`execer` goroutines share one run of the script, or one cached result, among the
requests of all clients, so the same metric objects are handed to several
requests.

**What is hard.** The double-mutex protocol of `execProxy` with a condition
variable signalled outside its lock, contexts that end at any point of it, and a
subprocess that outlives its purpose; results shared and changed by several
requests; the closing of channels others send to; buffers that are reused;
default values merged into a tree whose sections may be empty or missing; a
context that ends, a deadline that passes or a body that breaks off in the
middle of a scrape; release jobs that compete for slots and wait for each
other's results. `PROJECT.json` lists each hazard with its line and the
properties that watch it.

**What makes each component correct**

- `execProxy`: one instance of the script at a time, shared by all who wait; an
  answer comes from a run whose outcome was not all handed out when its scrape
  began to wait; no wakeup is lost; a scrape that is cancelled returns; a run
  nobody waits for is killed and one somebody waits for is not.
- `execCachingProxy`: scrapes return results only that were decoded to their
  end, of bounded age; no script is left behind that was not at least sent the
  kill signal; the first scrape is served when there is something to serve.
- endpoint: a response has each successful backend's metrics once and nothing of
  another request; no goroutine is left, no channel is closed too early.
- file and http exporters: metrics are a whole body's or there is an error; the
  deadline and the client's cancellation end a call wherever it is; files are
  closed.  This, with an answer for every call, is what `MetricProxy` promises
  of any exporter, and what the endpoint counts on.
- rewriting: labels survive rewriting, also when it is done again or by two
  requests; a metric never loses its `exporter_name`.
- start: what is served is what the file says; a bad file is reported; names
  distinguish exporters; a signal ends the program.
- release targets: an archive has all the binaries; an error of any job is
  reported, and only when all jobs have ended; there are slots enough.

## 2. Modules

| module | models | abstracts |
|---|---|---|
| `MetricProxy` | what every exporter promises a caller: one answer, and to return when the context is done | where metrics come from |
| `BackendScrape` | one call of `netProxy.Scrape` or `fileProxy.Scrape`, with server, file, deadline and the reader's goroutines | a body to what is left to decode and how it ends |
| `BackendScrapeProofs` | theorems about `BackendScrape` | |
| `ScrapeBatch` | what an exec exporter promises: those who wait share a run | everything else |
| `ExecProxy` | all goroutines of `execProxy`, the locks, the condition, the script and its stdout pipe | metrics to how the run ended: `ok`, `failed`, `killed` |
| `ExecProxyProofs` | theorems about `ExecProxy` | |
| `ExecCachingProxy` | both goroutines of `execCachingProxy` and the last script, with discrete time | results to placeholder, partial, whole, and their age |
| `ExecCachingProxyProofs` | theorems about `ExecCachingProxy` | |
| `Endpoint` | handler, backend goroutines, aggregator, buffer pool | a backend to succeed, fail or hang; metrics to whose they are and how often they occur |
| `EndpointProofs` | theorems about `Endpoint` | |
| `RewriteMetrics` | `rewriteMetrics` on metric objects shared by requests, slice word by slice word, and the encoder's reads | labels to two kinds, own and added |
| `RewriteMetricsProofs` | theorems about `RewriteMetrics` | |
| `Config` | the pure part of loading: `configMapMerge`, strict decoding, inheritance, `All` | a value to whether it decodes at its key |
| `ConfigProofs` | laws of the merge in `Config`, for any maps | |
| `Startup` | the life of the program, with `NewMetricReverseProxy` | router and listeners to what they refuse |
| `StartupProofs` | theorems about `Startup` and about `Load` in `Config` | |
| `Release` | the release targets of `magefile.go` with `concurrentRun` and `waitResults` | a job to what it makes, if it does |
| `ReleaseProofs` | theorems about `Release` | |
| `MC...` | instances for TLC | |

Definitions have the names of the functions and variables they model where that
is possible; `PROJECT.json` ("map") gives the lines of every one.

**ExecProxy.** A request is at one of the points `lockDrain` (line 211),
`register` (213), `notify` (222), `select` (250), `delete` (231), `signal`
(239). The execer goes through `acquire`/`asleep` (146-149), `exec`, `reading`,
`waiting` (`doExec`), `emitLock`, `emit` (185-190), `drain` (196), `await`
(201).  A critical section of `scrapeEventCond.L` that cannot block is one
action; only where a goroutine blocks while it holds a lock (the send at 189,
`drainMtx.Lock` at 196, `L.Lock` at 213) is the holder a variable.  `Broadcast`
is an action of its own, after the unlock, as in the code.  The watcher of a
round is modelled with its loop, including that it leaves when `*done` is set
although the map is not empty.  The script may end in any way, stop when its
pipe is full, and leave a child behind that keeps the pipe open.

**ExecCachingProxy.** Time passes while the timer or the script runs. `lastExec`
is represented by the time elapsed since; `MaxRunTime` and `MaxFailures` are
assumptions about the script, not about the code.  A run may also hang
(`ScriptHangs`), as nothing in the code bounds it: then the cache only gets
older (`StaleTick`), and what is left of the promise is that scrapes still
return.  The interval may be zero, the value of a missing `exec_interval`.
`Kill` only sends a signal, and may fail to: the script is `killed` or `spared`
until it is `dead`, at any later time, and the next one may start beside it, as
no path of the code waits for it.  A result is `whole` when it decoded without
an error; the exit status of the script is never asked for.

**MetricProxy and BackendScrape.** `MetricProxy` is seen from one caller.
`BackendScrape` has the three kinds of call: http without a deadline, http with
one, and file.  `ctxs` are the contexts derived for the call and not yet
cancelled by a deferred call; `ProxyDone` says whether the context the request
was sent with is done.  For a file the actions `Copier...` and
`WatcherBreaksPipe` are the two goroutines of `NewCancelReadCloser`, an external
library: one copies the file into a pipe, the other breaks the pipe when the
context is done.  A read of the file that hangs cannot be interrupted; the
scrape returns all the same, and the file is closed when the read comes back.

**Endpoint.** The `Send` on the unbuffered `mfsCh` is one action of sender and
receiver.  A `send` on a closed channel panics in Go; in the model it leaves
`ScrapePcs`.

A backend is what `MetricProxy` allows it to be: it answers when it likes, and
once the context is done it does.  `BackendScrape` and `ExecCachingProxy` are
shown to implement `MetricProxy`; `ExecProxy` does not, see findings 1 and 2.

**RewriteMetrics.** A Go slice is a pointer, a length and a capacity; the
assignment `metric.Label = outputPairs` stores them one at a time and a reader
loads them one at a time. A race is thus a choice of the words a reader sees,
and reading past the end of the shorter array is a crash or some other object.

**Config and Startup.** A nested map is a function from key paths to values, so
that `configMapMerge`, recursive in Go, is one set expression.  `Accepted` says
what the strict decoding takes at a key: keys of the structures only (the fields
of each kind of exporter under `exporter_defaults`, labels with any name), a map
where there is one, null anywhere, and a value where `Decodes`, a constant, says
that its type and form fit.  An item of the list with something in it that does
not decode is `Garbled`.  `Startup` chooses a file in its initial state.  It
keeps the order of the checks: strict decoding before the type assertions, a nil
exporter before its name, the name before the labels, the raw path before the
route.  The router is two constants: `Usable` are the routes that it takes at
all (a leading slash, no malformed wildcard such as in `/a/*x/b`), `Clash` says
which it refuses beside one that it has (`/m` beside `/:p`).  `filepath.Join`
may map different paths to one route.

**Release.** `concurrencyQueue` is the number of slots taken.  A job goes
`running`, `send` (its result into an unbuffered channel), `release`, `ended`:
it keeps its slot until its result is received, and `waitResults` receives only
when the platform has got slots for all the jobs it starts together.  `Starved`
says that such jobs hold all the slots.

## 3. Runs

| run | module / cfg | shows | bounds |
|---|---|---|---|
| `exec` | `MCExecProxy.cfg` | wakeups, drain, single instance, the two wedges are the only deadlocks and final, refinement of `ScrapeBatch`; scrapes, rounds and `doExec` end, but for the wedges and an orphan | 2 requests, any number of rounds |
| `exec_lock_inversion` | `MCExecProxyLockInversion.cfg` | violation: `CancelledReturns` | 2 requests |
| `exec_send_stuck` | `MCExecProxySendStuck.cfg` | violation: `NeverSendStuck` | 2 requests |
| `exec_innocent_kill` | `MCExecProxyKill.cfg` | violation: `KillSparesTheLiving` | 2 requests |
| `caching` | `MCExecCachingProxy.cfg` | decoded and fresh results, each script killed before the next starts, first scrape served, refinement of `MetricProxy` | 2 requests, interval 3, runs of up to 4, 2 failures in a row |
| `endpoint` | `MCEndpoint.cfg` | complete responses of one's own, no goroutine left, cancelled requests are answered | 2 requests, 2 backends, 2 buffers |
| `backends` | `MCBackendScrape.cfg` | whole bodies, no error without a cause, files closed, deadlines kept, refinement of `MetricProxy` | one call at a time (calls share nothing), any number of them |
| `rewrite` | `MCRewriteMetrics.cfg` | what survives sharing, rewriting is idempotent | 3 requests, 2 metrics |
| `rewrite_race` | `MCRewriteRace.cfg` | violation: `AllComplete` | 2 requests, 1 metric |
| `startup` | `MCStartup.cfg` | what is served, names, explained crashes, stopping | files of up to 2 items, see `MCStartup` |
| `startup_defaults` | `MCStartupDefaults.cfg` | violation: `DefaultTimeoutApplies` | as `startup` |
| `release` | `MCRelease.cfg` | complete archives, errors reported, nothing left running, a target ends or starves, nothing else stops it, starving is final and does not happen with slots enough | 3 platforms, 2 of them windows, 1 command, 1 to 3 slots |

**Why the bounds are enough.**  In `ExecProxy` two requests suffice for each
wedge and each liveness property: one is served or has given up and not left
when the other arrives.  For the safety properties and the refinement the proofs
cover any number.  Rounds are unbounded: the model is finite without a counter.
In `ExecCachingProxy` a script slower (4) and faster than the interval (3)
occurs, and the bound on the age is tight: with one less the run fails. For
endpoints, two requests compete for buffers and two backends for the channel; a
third backend adds nothing the aggregator can tell apart.  Three requests over
two metric objects give a metric that is shared by two, one shared by three, and
one that is not shared.  For the start, every check of the code compares an item
or an exporter with an earlier one, so two of each show it; the paths include
two that differ and have one route, one without slash, one wildcard that clashes
with the others and one that is malformed, and the files a null and an
undecodable value at every level.  In `BackendScrape`
nothing is counted, so the run covers all behaviours of a call.  In `Release`
two windows platforms and two slots are the smallest instance in which several
platforms starve together, and one slot and one windows platform the smallest in
which one does alone; with three slots the target of all platforms has enough.

**Deadlock checking** is on for `caching` and `endpoint`, whose goroutines must
always find something to do.  It is off for the `ExecProxy` runs, since an exec
exporter really can stop for good (findings 1 and 2), for `RewriteMetrics` and
`Startup`, which end, and for `Release`, which ends or starves.  In `backends`
it is on, as a new call can always begin.  Where it is off, what must not stop
is stated as liveness; and `DeadlocksAreWedges` and `OnlyStarvation` say that an
exec exporter and a release target stop in the known ways and in no other.  The
first is stronger than TLC's own check, as it sees a deadlock of some goroutines
while others go on.

## 4. Fairness

- `ExecProxy`: strong fairness for each request in `Scrape`, because a
  `sync.Mutex` in starvation mode is handed to the goroutine that waits longest,
  so one that finds the lock free again and again gets it; weak fairness for
  execer, watcher and kill goroutine, which the Go scheduler runs when they can.
  Nothing is assumed of clients, of the script, of its children or of what it
  writes.
- `ExecCachingProxy`: weak fairness for time and the execer; strong fairness for
  each scrape, which gets the read lock although the execer takes the write lock
  again and again.  `FirstScrapeServed` rests on the assumption about the
  script: a run ends within `MaxRunTime`, and at most `MaxFailures` in a row
  fail, or it hangs, which the property excepts.
- `BackendScrape`: weak fairness for `Scrape`, for the timer of a deadline and
  for what the reader's goroutines do after a read; `Do` returns when its
  context is done, which `net/http` promises.  Nothing is assumed of the server,
  of reads of the file or of the client.  `os.Open` is assumed to return.
- `Release`: strong fairness for a platform that waits for a slot, since the
  senders to a full channel are queued and served in order; weak fairness for
  jobs, which are builds and archives that end.
- `Endpoint`: weak fairness for the goroutines; a backend is only assumed to
  return once the request's context is done, as `MetricProxy` promises.
  `BackendScrape` and `ExecCachingProxy` keep that promise.  `execProxy` breaks
  it when it is wedged, and then holds up the response of the whole endpoint.
- `Startup`: weak fairness for the three goroutines; signals and listener errors
  need not happen.

## 5. Findings

1. **Lock inversion** (`exec_proxy.go:196` against `:211-213`).  The execer
   holds `L` and wants `drainMtx`; a new scrape holds `drainMtx` and wants `L`.
2. **Blocked send** (`exec_proxy.go:189`).  The watcher leaves when `*done` is
   set, with served scrapes still in the map; the next round sends to a full
   channel, holding the lock its reader needs to leave.
3. **Innocent kill** (`exec_proxy.go:167`).  A scrape that arrives after a run
   was cancelled is given that run's error.
4. **Relabelling race** (`utils.go:74`).  Metric objects shared by requests are
   changed without a lock.
5. **Defaults without effect** (`loading.go:137`).  The inheritance looks for
   the services one level too high.

1 and 2 are permanent: `WedgedForever` says, and `NoRecovery` proves, that no
later step of any goroutine, client or script resolves them.  They are also all
there is: `DeadlocksAreWedges` says, and `OnlyWedges` proves for any number of
scrapes, that no other goroutines of an exec exporter wait for nobody but each
other.  5 is not a matter of the files tried: `NoDefaultDeadline` proves that an
http exporter that has no timeout in the file is served without a deadline,
whatever defaults the file sets.  It compares what is served with the file, so
that it would be false of an inheritance that looked in the right place, of
which `DefaultTimeoutApplies` would be true.

Smaller observations, without a violated property of their own:

- A child of the script that has stdout open keeps `doExec` reading after the
  kill (`exec_proxy.go:121`): the exception in `DoExecReturnsOrOrphan`.  Without
  it the property fails, although the comment at `exec_proxy.go:180` says that
  `doExec` always returns.
- Release jobs can hold all the slots and wait for each other
  (`magefile.go:235`): a windows release with `CONCURRENCY=1`, `ReleaseAll` with
  no more slots than windows platforms, and any release of several commands with
  too few.  This is the exception in `EndsOrStarves`; `EnoughConcurrency` says
  from where on it cannot happen, `OnlyStarvation` that nothing else stops a
  target, and `StarvedForever` that nothing helps it.
- A cached script has no deadline: one that hangs stops the refresh, old results
  are served for ever (`exec_proxy.go:310`; `HangStopsRefresh` proves it).  A
  missing `exec_interval` means zero and a script that runs without pause
  (`:286`).
- A cached script is killed when its output has been decoded, but no path waits
  for it (`:304` is commented out): every run, good or bad, leaves a zombie, the
  next script may start beside one that is still dying, or that could not be
  signalled, and a script that crashed after valid output counts as a success
  (`:311-316`).  `KilledFirst` is what is left of `Hard kill the script'.
- A null entry in a list of exporters (`http: [ null ]`) passes both decodings
  and panics in `GetBaseExporter` (`interface.go:53`); an item without
  `exporters` panics in `All` (`interface.go:50`); paths with clashing or
  malformed wildcards panic in the router (`main.go:120`).  `CrashExplained` lists these
  with the empty sections, and `CrashesExplained` proves that `Startup` has no
  other.
- `decodeMetrics` returns what it had decoded beside an error, where its comment
  says an empty slice (`utils.go:23`, `:42`); its callers look at the error
  first (`WholeBodyOnly`).
- An http exporter whose address has a query and that does not forward
  parameters loses that query: it passes an empty, not a nil, set
  (`net_proxy.go:52`, `:75`).
- `web.read_header_timeout` has a default (`default_config.yml`) and a field
  (`config.go:43`), and is used nowhere.
- When listening fails the program exits with status 0 (`main.go:132`).
- `MarshalText` of a status range leaves out the last range (`models.go:126`);
  the type is used nowhere.

## 6. Proofs

Nothing is assumed but the named assumptions of the modules.

Each module proves the safety properties of its component, and most also the
safety core of its liveness properties.  Liveness needs three things: that
whoever waits, waits for something that comes; that nobody is set back for ever;
and that who can move does. The first two are safety, and are proved: which
goroutines can be blocked, and by whom, and a count of steps left that every
step lowers (the exec exporters go round for ever and have no such count, so
that of them only the first is proved).  The third is fairness and stays with
TLC. The operators that say
when a goroutine can go on (`CanMove`, `HandlerCanMove`, `ScrapeCanMove`,
`NeedsNobody` ...) are written from the guards of its actions; TLC finds them
equal to `ENABLED` in all states of the instances, which cannot be proved here.

**ExecProxyProofs**, for any set of scrapers (`ScrapersAssumption`: the names of
lock holders are not scrapers).  `IInv` holds initially, is kept by every
action, and implies the safety properties.  It adds to them: who holds each lock
(`LocksHeld`), that the map has exactly the requests between `register` and
`delete` (`MapMembers`), and that during a dispatch whoever is in the map is to
be visited, being sent to, or served (`Dispatching`).  The last is what makes
`DrainServed` inductive: without it the dispatch could forget a request.
`OnlyWedges` is about a graph of who waits for whom (`ScrapeWaitsFor`,
`ExecerWaitsFor`, `WatcherWaitsFor`): a set of goroutines that wait for each
other only exists exactly in the two wedges.  The proof follows whoever holds a
lock to what it waits for, and ends at somebody who can go on.  `KillIsComing`
(the safety half of `AbandonedRunKilled`) and `DoExecNeverStuck` (that of
`DoExecReturnsOrOrphan`) need `RoundState`, which ties the watcher, the kill
goroutine and the process to the execer's place in a round. `NoRecovery` proves
the action property `WedgedForever` from `IInv`, and `Refinement` that each
action is a step of `ScrapeBatch` or a stutter under the mapping in `ExecProxy`.

**ExecCachingProxyProofs**, for any set of scrapers, interval, run time and
number of failures (`IntervalAssumption`, zero included, `ScriptAssumption`).
The invariant relates the age of the cached result to the failures since and the
time elapsed; the bound `MaxAge` follows by arithmetic.  `HangStopsRefresh` and
`ResultStays` are about what no step may undo, and `NoVainWaits` names the only
things a scrape or the execer can wait for. `CallsAsPromised` is the safety half
of the refinement of `MetricProxy`, for every scraper.

**BackendScrapeProofs.**  There are no constants; the theorems hold for calls
without end.  `ScrapeKnows` ties the place Scrape is at to the contexts that are
alive, what has failed and whether a body is open; `ErrorsExcused` rests on it,
since an error at `decode` needs the contexts of the call alive until then.
Three theorems are the core of `DeadlineBounds`: the deadline of a call that has
one is armed until the return (`DeadlineRuns`), a call whose deadline has passed
or whose client is gone is not held up by the server or the file
(`InterruptedMoves`), and it has a number of steps left that only goes down
(`InterruptedReturns`).  `FilesHaveClosers` is that of `FileClosed`: an open
file always has the goroutine that closes it.

**RewriteMetricsProofs**, for any sets of requests and metric objects.  The
words of a slice that are loaded and stored apart make `NamedAlways` subtle: it
is inductive only with what a request that stored finds in the label afterwards,
whoever wrote it, and, where `exporter_name` sorts last, with the fact that no
label is ever lost then (`NamedState`, `NeverLossy`).  `OwnState` is the case of
a metric that is not shared.  `StaysSettled` needs only the types.

**ReleaseProofs**, for any finite sets of platforms and commands
(`PlatformsAssumption`, `CmdsAssumption`) and any concurrency (`EnvAssumption`).
The slots taken are the jobs that hold one (`SlotsCounted`, by cardinality), and
`PlatformState` says which jobs may run at each point.  `NeverStarves` counts:
with one command, a job that waits with its slot is one of the two archives of a
windows platform, at most one for each, so that mapping it to its platform is
injective.  `StarvationOnly` says that a target where nothing can move starves:
a platform that waits for a slot finds all taken, and each slot is followed to
its job and to the platform that has yet to receive from it.  `EveryStepCounts`
counts the steps platforms and jobs have left, so a target stops after finitely
many; `StarvesForever` is the action property `StarvedForever`.

**EndpointProofs**, for any requests and buffers and any finite set of backends
(`BackendsAssumption`, `BuffersAssumption`: no buffer is the value for none).
The core of `IInv` is `WaitGroupCounts`: the counter of the wait group is the
number of backend goroutines that have started and not ended.  Once all have
started, its zero means that all have ended, so closing `mfsCh` after the wait
cannot meet a sender, and what the aggregator has then is complete
(`GoroutinesOf`, `AppendedOnce`). `BuffersApart` says that a buffer is with one
handler or empty in the pool, which makes the bytes of a response its own.  One
lemma for each part of `IInv` goes through all actions.  `BackendsOnly` says
that with its backends out of the way some goroutine of a request can go on, and
`EveryStepCounts` that each such step leaves fewer, which no other request
changes: together they are what `CancelledAnswered` says, but for the fairness.

**ConfigProofs** states what a merge may do, for any two maps: it makes nothing
up (`MergeInventsNothing`), the right side wins (`RightSideWins`) except that
the left may fill an empty section, the left fills in what the right does not
touch (`LeftSideFillsIn`), the result is a nested map again (`MergeIsNested`),
and merging the same left side again changes nothing (`MergeTwice`).  The last
two need that being a prefix is a partial order, from the definitions of
sequences.

**StartupProofs**, for any files that are what YAML and the decoding of items
can make of one (`DocumentsAssumption`), any exporters and paths, any `Route`,
`Usable` and `Clash`, and any `Decodes` under which the embedded defaults decode
(`DefaultsDecode`): the proofs do not depend on how `filepath.Join` cleans a
path, on which routes the router refuses, or on which values mapstructure
refuses.  The first part is about `Load`: a loaded configuration is the merge of
the defaults and the file, and nothing else, since an item with something to
inherit is rejected before (`InheritsNothing`, the reason for finding 5).  Which
files load depends on the file alone (`LoadsWhatIsLoadable`: the merged map is
accepted if and only if each key and value of the file is, `AcceptsTheFile`),
and a loaded configuration loads to itself (`LoadsToItself`, by `MergeTwice`).
The second is the loop of `realMain`: while an endpoint is built its backends
are those of the exporters so far and their names differ (`BuildState`); each
item that main is done with has its route to what was built from it, and there
are as many routes as items (`RouterState`, by cardinality).  That is why no
path can hide another, and why a route that is found taken, or clashing, means
two paths of the file. A nil exporter that main meets is found again in a list
of the file by `EntryOfAll`; `HttpDeadline` ties the deadline of each http
backend to the exporter's own entry in the file, from which `SettingsKept` and
`NoDefaultDeadline` follow. `RegisteredForGood` says that what is registered
stays, `StartEnds` that every step of main takes it further and none beyond the
items there are, so that the start ends for every file.

Only model-checked: everything temporal under fairness (the liveness properties,
and the liveness half of the refinements of `MetricProxy`).  The inductive
invariants were also checked by TLC on the instances of the runs.  Some
invariants have no run of their own, being part of an `IInv` that was checked
so, or because a run checks the liveness they are the core of: the type
invariants (`TypeCorrect`) of all modules but `ExecCachingProxy`, and the
theorems on who waits for whom and on steps left.

## 7. Not modelled

- The authentication wrapper: no state; what it answers depends on the error
  values of a library.
- Text conversions of `models.go`: the configuration uses `URL` and durations
  only, as values; the status ranges are used nowhere.
- `LoadAndSanitizeConfig`, called nowhere.
- Keys in other letter case than the structures have: mapstructure accepts them,
  but the merge and the inheritance, which look keys up as they are, treat them
  as different ones.  `DocumentsAssumption` takes keys as spelled in `Config`.
- The process table: zombies of cached scripts, see section 5.
- The content of HTTP requests (headers, query parameters), content negotiation
  and gzip; what a metric family is named, and so whether exporters with
  `no_rewrite` clash.
- Sorting of label pairs, but for where `exporter_name` ends up.
- Command line and logging; the build targets other than the releases, which are
  sequences of commands.

## 8. Plan

Done: `ExecProxy` with its abstraction, `ExecCachingProxy`, `Endpoint`,
`BackendScrape` with `MetricProxy`, `RewriteMetrics`, `Release`, and `Startup`
with `Config`, each with proofs.  What would come next:

1. `Endpoint` composed with `ScrapeBatch` in the place of one backend: how a
   wedged exporter shows in the responses of an endpoint.
2. The conversions of status ranges (`models.go:38-132`) against a reference
   definition, once something uses them.
