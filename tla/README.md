# Korrel8r: models, checks and proofs

Korrel8r correlates observability data.  A search starts from some objects or
queries, applies rules to objects to obtain queries, runs the queries against
stores, and goes on with the objects they return until there is nothing left
to do.  This directory specifies the parts of the program whose correctness
depends on the order in which things happen, or on many small definitions fitting
together, checks them with TLC on small instances, and proves the most important
results with TLAPS for all instances.

`PROJECT.json` lists every run, mutant, finding, hazard and theorem, and maps
each definition to the lines it models.

## Inventory

| Part | State | Operations | What is hard |
|---|---|---|---|
| Concurrent search, `pkg/engine/traverse` | work queue, WaitGroup, set of seen queries, per class: results, processed counter, query counts | `Goals`, `Neighbors`: `run`, `handleQuery`, `dedupAndSend`, `applyRules` | a pool of workers, distributed termination, exactly-once work, limits checked and recorded apart, cancellation, failing stores |
| Store holders, `pkg/engine/stores.go` | current store, last error and count, retry time, expanded configuration | `Get`, `Ensure`, `Configs` | the lock is released around a store's `Get`; failures race with re-creation |
| Session pool, `pkg/session/session.go` | map of entries, once-initialised sessions, times of use, time of the last cleanup | `Get`, `maybeCleanup` | lock-free; creation, use and expiry interleave |
| Console events, `pkg/session/console.go`, `pkg/rest/operations.go` | a flag, a pointer, an unbuffered channel, contexts | subscribe, show, report state | one listener at a time, reconnection, request deadlines |
| Engine and builder, `pkg/engine` | domains, rules, stores; fixed after the build | `Builder`, `Engine.Get` | duplicates, delayed steps, stores that fail in part |
| Rule graph, `pkg/graph` | nodes, lines, their counts | goal paths, neighbours, pruning of empty goal paths | pure graph algorithms |
| Configuration, `pkg/config` | loaded sources, aliases | `Load` | cyclic includes, aliases within aliases, map order |
| Domains and queries, `pkg/korrel8r` | interned queries | `Query`, `Class`, constraints | double-checked locking |
| Results, `pkg/result` | list, set of IDs, condition variable | `Add`, `Append`, `Wait`, `Close` | wakeups |
| Token review and caches, `pkg/tokenreview`, `internal/pkg/cache` | entries with an expiry | `User`, `Get`, `Put` | check then delete |
| Log stores, `pkg/domains/log`, `internal/pkg/loki` | a pipeline of goroutines per query | `Get` | shared limit, cancellation, early returns |
| Other domains | HTTP clients | `Get`, conversions | merging of sources (alerts) |
| Rules, `pkg/rules`, `pkg/status` | fixed after the build | `Apply` | template and generated code |
| REST, MCP, commands, TLS, telemetry | none or process-wide set-up | handlers | I/O |

How they interact: a REST or MCP request passes the session middleware, which
obtains a session, and with it an engine, from the pool.  A search runs on the
engine; its workers call `Engine.Get`, which calls the holders of the stores of
the query's domain.  Holders are shared by all searches of a session and by the
listing of the domains.  A console and an agent of one user meet in the
console events of their common session.

What makes each part correct: a search asks each query at most once, misses
none unless it is bounded or cancelled, counts each object once, and returns;
a holder never offers a closed store, never resets a healthy one and paces
re-creation; a session stays while it is used and goes when it is idle; one
console is served at a time, in order, and its slot is always given back; a
log query returns each wanted line once within its limit; a failing alert
service costs nothing that another answered; the engine has the rules that its
configuration says; and the rules agree with each other about labels, namespaces
and classes.

## Structure

| Modules | Model | Runs | Proofs |
|---|---|---|---|
| `SearchScope`, `Search`, `Traverser`, `TraverserProps` | the concurrent search and its abstract specification | `TraverserCycle`, `TraverserWide` | `TraverserProofs` |
| `ConfigLoad`, `EngineBuild`, `RuleGraph`, `ScopedSearch` | from a configuration to the graph a search returns | `ScopedSearch` | `ScopedSearchProofs` |
| `StoreHolder` | one store, connected and dropped | `StoreHolder`, `StoreConfigs` | `StoreHolderProofs` |
| `SessionPool` | sessions of users | `SessionPool` | `SessionPoolProofs` |
| `ConsoleEvents` | subscriptions of consoles | `ConsoleEvents`, `ConsoleTimeout` | `ConsoleEventsProofs` |
| `LogAnswer`, `DirectLogs`, `QueryIntern`, `LogQuery` | a log query from its string to its answer | `LogQuery` | `LogQueryProofs` |
| `AlertStore` | alerts from three services | `AlertStore`, `AlertTimes` | `AlertStoreProofs` |
| `RuleObjects`, `K8sRules`, `KubevirtRules`, `SignalRules`, `RuleCatalogue`, `Correlation` | the built-in rules and the objects they find | `Correlation` | `CorrelationProofs` |

A module `MC`*X* instantiates *X* for TLC.  Compositions: `LogQuery` composes
the interning of queries with the log store, `ScopedSearch` builds an engine
from a configuration and searches its rule graph, `Correlation` applies the
rules of all domains to the objects of their stores.  Abstract specifications:
`Search` for the concurrent search, `LogAnswer` for the log store.

Three parts meet in the concurrent search without being composed with it in one
state space, which would be far too large.  What `ScopedSearch` computes as the
scope is the constant `Lines` of `Traverser`, which is checked and proved for any
lines; `Traverser` takes rules to be any functions and stores to give any
answers, so that what `Correlation`, `DirectLogs` and `AlertStore` do is covered;
and `ScopedSearch` takes the search to be any sequence of steps that find
objects, which covers what `Traverser` does.

## The search

### Modules

- `SearchScope`: the fixed inputs of a search: the lines in scope, what the
  rules yield for each object, what the stores may answer, the start.
- `Search`: the abstract specification.  It knows only what has been found and
  asked; it asks what it owes, each query once, and finishes when it owes
  nothing or has been cut short.
- `Traverser`: the program.  `TraverserProps`: its properties, including the
  refinement of `Search`.  `MCTraverser`: rule graphs for TLC.
- `TraverserProofs`: theorems; types, the WaitGroup, wakeups, limits and claims
  first, then, resting on them, what is counted and what is returned, that nothing
  is missed, the refinement, and depths.

### Correspondence with the code

One action is one critical section or one shared operation between two.

| Code (`traverse.go`) | Actions |
|---|---|
| `run`, main goroutine | `AddSentinel`, `AppendStart`, `Primed` once the start queries are dispatched by the steps it shares with the workers (last row), `Claim`, `ApplyRule`, `Applied`, `Finish`, `WaitDone`, `Close`, `Broadcast`, `Join` |
| `workQueue.get` | `Take`, `Block`; waking is part of `Signal` and `Broadcast` |
| `workQueue.put` | `Put`, then `Signal` after the lock is released |
| `handleQuery` | `Admit` (the checks before the lock, and reading the shared limit), `CheckLimit` (under the lock), `StartGet` (where `Constraint.Default` fills in the limit), `Merge`, `RecordLine`, `AddStatuses`, `Claim`, `ApplyRule`, `Applied`, `Finish` |
| `dedupAndSend`, `isDuplicate` | `Drop`, `MarkSeen`, `AddWork`, `Put`, `Signal` |

A node's list of results and its counter `processed` become the set of its
objects and the subset that no thread has claimed; a count becomes the set it
counts, which makes double counting visible.  Rules are any function from
objects to queries, stores may return any of a set of answers, and a store that
fails after part of its results is one more answer, because `handleQuery`
ignores the error.  Cancellation can come at any time.  Choosing the scope and
pruning the resulting graph happen before and after, in one thread: they are in
`ScopedSearch`.

### Runs

Two workers suffice for every race between two workers, and the main thread is
a third participant until it waits.

| Run | Instance | Shows |
|---|---|---|
| `TraverserCycle` | rules A to B, B to A and C; a query produced by two objects, a query that two threads produce, failing stores, cancellation; fair goroutines | `WorkAccounted`, `QuietClose`, `NoLostWakeup`, `ClaimedOnce`, `CountsExact`, `ResultConnected`, `StartObjectsAtDepthOne`, `ImplementsSearch`, `Termination` |
| `TraverserWide` | four queries of one class, a limit of one which the first `Get` fills in, a start query outside the scope | `LimitOvershoot` |

The graphs are small because a query is asked at most once: the state space is
bounded by the graph and needs no artificial bound.  No counter is capped.

Fairness (`FairSpec`): weak fairness of every thread's steps.  Go's scheduler
is preemptive and runs every runnable goroutine, and a thread that waits for a
mutex is modelled as waiting for one short step of another.  A store's `Get`
is assumed to return, which its context and the request timeout ensure.

### Proofs

All are proved from `ScopeAssumption` and `TraverserAssumption` only: any
finite non-empty set of workers, any rule graph (finite or not), any stores,
depth and limit.

- `ShapeInvariant`: the variables have their types, and every worker inside
  `handleQuery` has a job and every object being put has a line (`JobOK`).  It is stated
  apart from `wg \in Nat`, which a step cannot preserve by types alone, because
  `Finish` decrements.
- `WorkAccountedAlways`: the counter equals queued items, threads about to put,
  busy workers and the sentinel.  It is inductive with the shape.  Each step
  moves one thread, so each cardinality changes by at most one (`MoveCount`,
  `Moved`), and the step's change of `wg` and of the queue match.
- `TypeCorrect`: with the accounting, `wg` is a sum of naturals, and the full
  type invariant follows.
- `QuietCloseAlways`: `QuietClose` is not inductive: nothing in it says why the
  queue is empty when it is being closed.  The invariant is `Quiet`: once `run`
  has passed `wg.Wait` the counter stays at zero, and the queue is closed only
  after that.  A counter of zero accounts for no work (`ZeroIsQuiet`): nothing
  is queued, put or handled, so that no thread is left that could raise it, and
  `QuietClose` follows.
- `NoLostWakeupAlways`: inductive with the shape.  The critical steps are
  `Put`, which makes the putting thread a signalling one, `Signal`, which wakes
  a waiter into `get` or finds none, and `Block`, possible only on an empty
  queue.
- `LimitOvershootAlways`: the invariant `LimitInv` bounds, for each class, the
  recorded queries and the workers past the check (`InFlight`) together by the
  limit plus the number of workers; and no query is recorded before the shared
  limit has been filled in.
- `ClaimedOnceAlways`: the invariant `ClaimInv` adds that unprocessed objects
  are objects of the node, and that only a worker inside `applyRules` holds
  claimed objects.

- `OnceInvariant`: `OnceInv` says where a seen query is: being put, queued, at one
  worker before `Merge` (`Early`), or recorded and at no more than one worker after
  it (`Late`).  Most steps leave these places alone (`SamePlaces`); `MarkSeen`,
  `Put`, `Take` and `Merge` move one query from one place to the next.
- `JustInvariant`: a query anywhere on its way is a start query without a line, or
  a rule yields it for an object found at the start of its line (`JustInv`).
- `CountsExactAlways`: `CountsExact` says nothing of workers between `Merge` and
  `AddStatuses`.  `CountInv` adds what they hold: the new objects of their query,
  not yet counted by status, and by no line before `RecordLine`.  `OnceInv` gives that
  no second worker holds the query.
- `ResultConnectedAlways`: `ResultConnected` is about a finished search; `ConnInv`
  is the same at every moment, with the lines that a worker at `RecordLine` is
  about to credit counted as credited.  `Merge` keeps it because a query with a
  line is justified by an object at the line's start, which is connected already.
  A class is reached when every set that has the starts and is closed under the
  lines has it, so that no path has to be constructed.
- `CompleteInvariant`: nothing the search owes is lost.  `CompleteInv` holds for a
  search that has no bound of its own, and has four parts: a seen query is on its
  way to being recorded (`SeenUnderWay`); a start query is seen or waits in `run`
  (`StartUnderWay`); a query that a rule yields for a found object is seen, waits
  to be sent, or its rule is still to be applied to the object by a thread at that
  node, or nobody has claimed the object (`YieldUnderWay`); and an unclaimed object
  has a thread that has not come to `Claim` yet (`ClaimUnderWay`).  `PlaceInv` says
  in which part of the code a thread has something to send or to apply.
- `SearchImplemented`: every step is a step of `Search` or a stutter: `Merge` is
  its `Ask`, `Cancel` its `Cut`, `Join` its `Finish`.  `Ask` requires that the query
  is owed, which is `JustInv`, and has not been asked, which is `OnceInv`;
  `Finish` requires that nothing is owed: at `Join` the counter is zero, so by
  `WorkAccounted` nobody is under way and by `CompleteInv` all is asked (`AllAsked`).
- `StartObjectsAtDepthOneAlways`: as long as start objects are unclaimed only start
  queries are under way (`OnlyStart`), so that whichever thread claims them is at
  depth one.  It has the hypothesis `StartQueriesOfStartClass`: a start query of
  another class could lead back to the start class at a greater depth.
  `TraverseStart` refuses such a query (`rest/helpers.go:210`), the command line
  (`cmd/korrel8r/get.go:149`) does not.

Only model-checked: `Termination`, which is liveness under fairness.

## Store holders

`StoreHolder` models one holder, its lock and the clock.  A store instance is a
number in order of creation.  Callers make `Get` and `Ensure` calls, and
readers call `Configs`, which takes no lock.  `Lock`, `Relock` are the two
acquisitions of `Get`; `Connected`, `TooSoon`, `StartExpand`, `Expand`,
`CreateFails`, `Create` are the paths through `ensureLH`; `StoreGet` runs
without the lock; `Reset` or `Keep` follow.  `Init` is the state that
`Builder.store` leaves: its `Ensure` has connected the store or has failed.  The
builder connects the stores of a source (`builder.go:128`, called from `:181`) before
it sets the source's tuning (`:186`), so that the wait after a failure there is the
default one (`DefaultInterval`, ten seconds) for the stores of the first source, and
the configured one for those of the sources that it includes; `untuned` says which.
`AttemptsSpaced` asks for the wait that applies to each attempt (`Spacing`):
`FirstWait` after the builder's, `RetryInterval` after every other.
Filling the map of expanded values is two steps, so that a reader can meet it.
History variables record instances created, closed and faulty, and the times of
the attempts.

The run `StoreHolder` starts from a configured store that is connected, one
that is not, and a ready-made one.  Two callers with two calls each, a retry
interval of 2, a default interval of 1 and a clock to 2 are enough for a reset while
another call is in flight, a re-creation as soon as it is allowed, and a late failure
on the dropped instance, which the mutants `MustResetAny` and `ResetRetry` confirm; a
reader lists the configuration meanwhile.  `CallsReturn` assumes that stores
answer and that a `sync.Mutex`, which in starvation mode hands over in order,
is strongly fair (`Lock`, `Relock`).  `StoreConfigs` is
violated.  Bounds:
`MaxCalls` calls for each goroutine, `MaxTime` for the clock.

`StoreHolderProofs` proves the safety properties of the run from
`StoreHolderAssumption`: any callers and readers, any two retry intervals.  The
inductive invariant `HolderInv` is

- `Exclusion`: a caller inside the locked section holds the lock;
- `InUse`: a caller that is past `ensureLH` in `Get` has an instance, and if its
  call failed that instance is among the faulty ones;
- `Offered`: the store of a configured holder is one of the instances created
  and none of those closed; the closed ones are distinct and faulty; and there
  is no store while one is being created;
- `Waits`: a holder that must wait has an error to return; and unless there is a
  store, or one is being created, it waits from the latest attempt for the interval
  that applies to it, since every path that leaves it without a store sets
  `retryAfter` from the current time.  Before the second attempt of an untuned holder
  that is the default interval, and nothing else sets `retryAfter` by then.

`NoNilStore` needs `Waits` (why there is an error) and `Offered` (why a
ready-made holder is never without a store).  `ErrorsCounted`, which is proved
and not run, is inductive relative to `HolderInv`: by `Exclusion` at most one
caller is attempting.
`CallsReturn` and `ConfigsSafe` are only model-checked.

Elsewhere: how a domain gets its holders is in `EngineBuild`, that a query asks
all of them in `Correlation`.  Closing a store that others are still using makes
their queries fail and has no other effect on the holder.

## Session pool

`SessionPool` has one step for each atomic operation of `Get` and
`maybeCleanup`.  Entries are numbered as they reach the map.  `sync.Map.Range`
is a visit of each key in any order, with the value the key has then, and the
check and the deletion of a key are two steps.  `Epoch` is the time at which
the clock starts, later than any timeout after zero, as in reality, so that a
time that has not been set counts as long ago.  The unsynchronised read of
`ent.session` may see nil or the session, which the interleaving of `Factory`
and `Visit` covers.  Requests that fail to authenticate do not reach the pool.

The run `SessionPool` has two users, two goroutines with two calls each
(`MaxCalls`), a timeout of 1 and time for a cleanup, a period of rest longer
than the timeout, and a second cleanup (`MaxTime`).  `serial` is chosen at the
start: in its half of the behaviours requests do not overlap, and expiry must
then be exact (`ExpiresSerially`).  `GetReturns` assumes weak fairness of the
goroutines and a factory that returns.  `CleanupsSpaced` and `OnlyExpiryRemoves`
hold for overlapping requests too.

`SessionPoolProofs` proves the three safety properties for any goroutines, users,
timeout and calls.  `PoolShape` is the types, and that a call has an entry from `LoadOrStore`
until it leaves.  `CleanupsSpaced` is not inductive: `Spaced` adds that a call
about to claim a cleanup has read a time at least the timeout before its own, and
that `lastCleanup` is the time of the last cleanup, so that a compare-and-swap
that succeeds has compared exactly these.  `OnlyExpiryRemoves` needs the shape
only: a failed call replaces its own entry, whose state is not healthy.
`ExpiresSerially` rests on `SerialInv`, which says of requests that do not
overlap: one call is under way (`Solo`); a key has an entry of its user (`Keyed`);
the entry of the call is the one in the map at each of its steps, and from `Touch`
on it has the call's time, so that the call's own cleanup cannot find it expired
(`Served`); the key `Delete` removes still has the expired entry that Range saw,
and of the keys Range is through with none has one (`Swept`); and a session that
was handed out is healthy and stays in the map until it expires (`Retained`).  Each
part fails when requests overlap, which is why the property is about those that
do not.  `GetReturns`, liveness, is only model-checked.

## Console events

`ConsoleEvents` has the subscription requests of several consoles, with the
request's context, the derived context and the `AfterFunc` between them; the
flag, the pointer and the channel; and the clients that send updates and
report states.  A send on the unbuffered channel succeeds only while a loop
waits, and since the loop may be writing a keepalive it may always be dropped.
`PUT /console` is not tied to a subscription in the code, so any console may
report at any time; `stray` remembers when one without the flag did.

The run `ConsoleEvents` has two consoles with two subscriptions and a report
each and an agent with two updates (`MaxSubs`, `MaxPuts`, `MaxSends`).
`SlotFreed` assumes weak fairness of the server's goroutines only; the client
need not do anything.  `ConsoleTimeout` is violated.

`ConsoleEventsProofs` proves the safety properties for any number of clients
and requests.  `SlotInv` has `Exclusive` (the flag is set exactly when one
console is between the compare-and-swap and the reset) and `Ordered` (an update
is accepted only when nothing is being sent).  `StateOwned` says that a state reported by the
holder of the flag outlives neither it nor its deferred function; it is
inductive with the types.  `SlotFreed` is only model-checked.

Two consoles also stand for one that reconnects while the server is still
winding up its previous request.

## From a configuration to a result

| Code | Definitions |
|---|---|
| `config.loader.load` | `Skip` (already loaded), `LoadFails`, `Load`; `todo` holds what the recursion has still to come to |
| `config.expand` | `Gather`, `GatherFails`, then `Nest` once for each alias in any order, then `ExpandRules`, `ExpandFails` |
| `engine.Builder` | `Configure`, `ConfigureFails` for each source (stores at once, rules deferred), `AddBuiltIn`, then `AddRule`, `IgnoreRule` or `RejectRule` for each deferred rule, `Built` |
| `graph.NewData`, `Graph.Weight` | `LinesOf`, `Weight` |
| `goalScope`, `neighborScope` | `GoalScope`; `Walk`, which is gonum's breadth-first walk with the callbacks of the code |
| the search | `StartQuery`, `Follow`: any steps along lines in scope, ended at any point by `Finish` |
| `buildGraph`, `RemoveEmptyGoalPaths` | `ResultGraph`, `Prune` |

`main.newEngineWithConfigs` fixes the order of the builder's calls.  gonum's path
algorithms are external: `NearShortest` is what `YenKShortestPaths` promises for
a cost of one.  Resolving the name of an included source, reading and parsing
are inputs: a source reads as a file or as `Unreadable`.  A list of class names
is a set.

The run `ScopedSearch` has twenty-two configurations of three sources: includes in
a circle and as a diamond, every fault that `load`, `expand` and the builder look
for, aliases within aliases, of one name in two domains, that contain the class of
their own name or each other, missing classes, and a
web of rules with a detour, a cycle, a line from a class to itself and a rule that
leads to all classes of a domain; the detour is a dead end when nothing on it
leads on.  Two objects are the fewest for a class whose
objects two lines find; a depth of 3 (`MaxDepth`) reaches every class.

- `LoadedAsIncluded`: what was loaded are the sources that the first includes,
  directly or not, each once; loading fails only for a source that is to blame.
- `BuiltAsWritten`: the rules and stores of the engine are those that the sources
  say, in whatever order sources and aliases are gone through, and a configuration is
  only refused for a fault.
- `ScopeByDistance`: the walk collects exactly the lines from classes nearer than
  the depth, although the depth it compares is that of another callback.
- `GoalPaths`: of a goal search there remain ways from the start to goals and
  nothing else, although only lines that found something new are credited.
- `Ends`: weak fairness of the one thread that does all this.

`BuiltAsWritten` holds for aliases of any depth and says of each what it becomes
(`Expanded`).  What given names stand for is the least set closed under the aliases
(`StandsFor`).  Whatever the order of the Go map, a rule never gets a name that its own
do not stand for, never loses a class, and never ends up without names, which would
mean all classes.  Aliases within aliases are always expanded (`TwoDeep`), and
that is the result if they lead nowhere else (`Settled`).  What lies three deep depends
on the order: the loop at `configs.go:61` stops after one pass, although its comment
says that it goes on until there are no more expansions, and then the name of an
alias stays where its classes should be.  A configuration may also be refused for
a rule without a name (`Nameless`), which is a fault for the code only.

`ScopedSearchProofs` proves the four invariants for any sources, aliases, rules,
requests and objects, from `ConfigAssumption` (the root is a source, includes name
sources, and what is read has the shape that the decoder gives it),
`BuildAssumption` (finitely many classes, and the built-in rules are a list) and
`SearchAssumption`.  What is included, what is led to and what leads to a goal
are each the least set closed under one step, and a way is a function on the
numbers of its steps, so that the definitions need no recursion.

- `LoadInv`: what is loaded and what is still to be loaded are all included, and
  have together the root and whatever a loaded source includes.  When nothing is
  left to be loaded, what is loaded is closed under inclusion, so it is all of it;
  and since no source is loaded twice, their number is right.
- `BuildInv`: while the aliases are gone through, an alias has been expanded within
  others or not (`Nested`), and has the reach that it was written with (`SameReach`):
  names that no alias leads out of still hold its names if they held those written,
  and names that have every alias whose names they have still have it.  The first of
  these is why nothing alien comes in, the second why no class is lost, and both are
  kept by `Nest` in any order.  Then the rules of each source are as it says them
  (`WrittenAsSaid`), the configurations that the builder has gone through have given it
  their stores (`Held`) and their rules (`Deferred`), and those resolved and those
  still to be are together the rules that were written (`Resolving`).  When no two
  rules have one name the names still to come are new, so that a rejected rule
  has a fault.  `BuiltAsWritten` alone says nothing of a configuration half read.
- `FoundInv`: no set of classes that has the start and is closed under the credited
  lines (`Linked`) misses a class that has objects.  `GoalPaths` speaks of lines
  that pruning has left (`PruneWays`): what is left is closed under going back, so
  that a set closed under the lines left, together with all classes that were
  removed, is `Linked`.
- `WalkInv`: the queue has each class once, in the order of depths that differ by
  at most one (`WalkShape`); the depths are lengths of ways (`WalkSound`); and of any
  way shorter than the depth asked for, some class is queued no deeper than it lies
  on the way, or the end has its lines in scope (`WalkComplete`).  The last is not
  inductive without the first: the class after the one taken off the queue may
  have been queued long before, and only the order bounds its depth.  The step
  takes the first class of a way that has not been walked (`Least`).

Only model-checked: `Ends`, which is liveness.

## Log queries

`QueryIntern` is `Domains.Query` with its two locks and the search's set `seen` of
query objects: `Lookup` under the read lock, `Interned`, `Reject` or `Make` under
the write lock, then the admission of the query object.  `DirectLogs` is one `Get`
of the direct store: `Start`, `Pods`, `Spawn`, `Wait`, `Return` of the caller;
opening, `Take` (with the shared atomic counter), sending and failing of each
reader; receiving and appending of the consumer; cancellation by the caller, or
by the errgroup with the first error.  A reader that has taken a line sends it,
cancelled or not (`out <- o`); only its stream ends when the context does.
`Malformed` is the early return at `direct_store.go:80`: a pod that cannot be decoded,
after readers may have been started; its containers are among those not yet read, so
once all are, only `Wait` is left.  Get then returns an error and leaves readers and
consumer behind (`abandoned`), and nobody closes the channel.  `LogQuery` composes
them: the worker that is admitted with the log query calls `Get` and is the goroutine that runs it.

`LogAnswer` is what the caller may rely on: each wanted line once, in order, within the
limit, and none after the call has returned.  Of an abandoned call it does not promise
the last: its lines still arrive, once, in order and within the limit.

The run `LogQuery` has two workers, two query strings of which one is malformed, and
three containers that race for a limit of two; one log starts before the interval
and one ends after it.  `RunOnce`, `NoSendOnClosed`, `Complete`,
`ImplementsAnswer` and, under weak fairness of the goroutines and the workers,
`WorkerReturns`.

The proofs hold for any workers, queries, containers (finitely many), logs and
limit.  `InternInv` is the types, `SameQuery` (a worker that has been given a query
object holds the one that the map has for its string, and different strings have
different ones) and `RunInv` (a string is admitted at most once, and then its
object is in `seen`), from which `RunOnce` follows.  `LogsInv` is `LogsTypeOK`,
`Phase` (where consumer, channel and readers are in each phase of the caller; behind
an abandoned call the consumer is never done and the channel never closed),
`Streams` (a reader has passed no line after the interval), `Ledger` (the wanted
lines that a reader has passed are those in the answer and the one the consumer
holds), `Counted` (what is answered and in flight is what the counter counted, up
to the limit) and `Ended` (why a reader stopped).  `NoSendOnClosed` follows from
`Phase`, `LimitKept` from `Counted`, `Complete` from `Ledger` with `Ended`, and a
step that appends maps to `Deliver` by `Ledger` and `Counted`.  The composition is proved from the two components:
every step of `LogQuery` is a step of each or leaves it alone (`InternPart`,
`LogsPart`).  `SameQuery` and `LimitKept` are proved and not run.

## Alerts

`AlertStore` has the calls of one `Get` after another, each of which may fail, the
review of the user's access with its cache (`Check`, `Expire`, and `Reviewed` for
another request), and the node's result set, which keeps one object for each ID.
An alert is its labels and its times relative to the interval.  Annotations,
values and encodings are left out.  `augmentAlert` is modelled as it is, with the
`continue` that only leaves the inner loop.

The services list their alerts in any order (`Orders`), and so may list two with
equal labels, of which the result set keeps the first (`Taken`).

The run `AlertStore` has four alerts of Prometheus, four of two Loki tenants, two of
them with equal labels and different times, four of Alertmanager and three queries.
`Sound` and `RuleAlertsKept` hold whichever calls fail and whenever the review
expires.  `AlertTimes` is violated.

`AlertStoreProofs` proves `Sound` and `RuleAlertsKept` for any alerts, tenants and
queries, from `AlertAssumption` (a query, and the answer of Alertmanager, are
lists).  The invariant `AlertInv` says of each object that it is an alert of a
service that matches a query, and that its ID is empty or its labels; and, while a
Get goes through its label sets, of each alert at hand that matches one of those
done that it was kept, or began too late, or that Alertmanager was asked and has an
alert that shares a label (`Kept`).  The form of the ID makes
`RuleAlertsKept` inductive: the result set ignores an alert when some object has its
ID, and only by the form of IDs does that object have its labels.

## Rules

`K8sRules`, `KubevirtRules` and `SignalRules` have one operator for each generated
rule: from an object to the set of queries it writes, or none if it panics.
`RuleCatalogue` has their annotations and functions, and drops a rule whose
classes the cluster does not have; `RuleObjects` has what a query selects and the
lookup of classes.  `Correlation` walks along them.

The run `Correlation` has a cluster with an object for every kind that a rule is
about, in two namespaces, with matching and misleading labels.  It is one of plain
Kubernetes (`Routes = FALSE`), with pods owned by something that the cluster no longer
serves and flows of pods that nothing owns; the run also passes with routes.
`StaysInNamespace` says that only references that name another namespace leave the
start's; `LeadsBack` that 23 rules have an inverse which finds the start again;
`ShortcutsAgree` that a direct rule finds what two steps find.

`OnlyKnownLosses` says that what a rule writes is followed, all of it, except in three
cases in which none of it is, and which all occur in the run:

- `LosesAll`: a rule that asks for the operands of something by a list of classes, one
  of which the cluster lacks (a Route, say).  `quickrules.go:178` and
  `TestRulesUnknownClasses` have it that unknown classes are skipped; that is so for
  the annotation, but `parseQueries` (`rules.go:77`) gives up at the first of them and
  the queries for the other classes are lost;
- `Undeclared`: an end of a flow of a kind that the rule does not declare or the
  cluster lacks, such as the owner of a Pod without one.  The search drops the query
  without a trace (`traverse.go:485`);
- `Dangling`: a reference to a class that the cluster lacks.

`CorrelationProofs` proves all four.  `StaysInNamespaceAlways` is for any cluster:
whatever resources are served and whatever the stores hold.  It goes through the
rules by what they follow.  `About` is a query that can only find objects of a
namespace or of none:
a k8s query with that namespace or for one object without any, a log query with
that namespace, a query for signals with a label that tells it.  `FoundWithin`
shows that of the stores' answers; that each rule writes only such queries for an
object of the namespace is shown for references by name (`ReferencesStay`), labels
(`SelectorsStay`), signals about an object (`SignalsStay`), what signals name
(`NamesStay`), and what may be elsewhere: owners, events, volumes, cluster-wide
types (`OthersStay`).  Each case is that of the rules' own text, and `RuleStays`
puts them together with what `RuleCatalogue` says each rule starts from.  Rules
that start from objects without a namespace are never reached from inside one
(`ClusterStays`).  `StaysInv`, which says in addition that the namespace is not
empty, is inductive.

The proof needs what the cluster, not the rules, sees to (`ObjectsAssumption`):
nodes, resource definitions and operators have no namespace; an event is about
something of its own namespace or of none; owners have names; and a flow has only
the label of its source among those that tell a namespace.  A signal whose labels
tell two namespaces counts as having none.  The proof showed that
`k8s_namespace_name` has to be one of these labels: `MetricToPod` and its like prefer
it to `namespace`, so that a metric which has both, with different values, would
lead out of the namespace that `namespace` alone tells.

The other three compare what rules write with what a cluster serves and holds, so
that their theorems have hypotheses on the cluster.  They are operators of
`Correlation`, and `MCCorrelation` has TLC evaluate them, so that they hold together
on the cluster of the run:

| Hypothesis | Says | `OnlyKnownLossesAlways` | `ShortcutsAgreeAlways` | `LeadsBackAlways` |
|---|---|---|---|---|
| `VersionsWritten` | the groups whose version some rules write out have that version | yes | | yes |
| `ObjectsServed` | the class of an object is served, and an event tells the class it is about | | yes | yes |
| `FlowsComplete` | a flow that tells the type of an end, or of its owner, tells the name and the namespace | | | yes |
| `LogsOfPods` | a log that tells a namespace is that of a pod there, in the class for the namespace, with the labels of the pod | | yes | yes |
| `ObjectsNamed` | an alert has labels, those that tell one thing twice agree, and a workload has a namespace | | | yes |

- `OnlyKnownLossesAlways`: each rule's text shows what it writes.  Most rules declare
  one class, or signals, which a usable rule has (`Sure`), and write for it alone; an
  operand rule writes for all its classes or for none; the ends of flows and the
  references are one query each, so that the class of that query decides.  Nothing
  is asked about which classes the cluster serves or what its objects refer to.
- `ShortcutsAgreeAlways`: a list by labels finds the pods that carry them; with
  `LogsOfPods` the logs that carry the labels are those of these pods, which
  are also what the queries by name find.
- `LeadsBackAlways`: `FoundBy` says of an object that a rule finds that it is selected
  by a query the rule writes, and `LedBack` reduces the goal to a query of the inverse
  that selects the start.  Between the two is a lemma for each form of rule: signals
  about a pod, the ends of flows and their owners, endpoint slices,
  events, alerts by name.  `RuleLeadsBack` puts them together.

## Divergences

Runs that TLC must find violated, each a finding in `PROJECT.json`:

| Run | What happens |
|---|---|
| `StoreConfigs` | the configuration map is cloned while it is being filled |
| `ConsoleTimeout` | the request timeout ends a subscription that is documented to be exempt |
| `AlertTimes` | an alert is given the times of another alert that shares a label |

Other behaviour that a reader of the documentation would not expect.  The models
have it, except where an item says otherwise:

- Search: a class may run more queries than the limit, by up to one for each
  worker (`LimitOvershoot`).  A query within the depth limit is missed when a
  worker with a greater depth claims the object.  A line all of whose objects
  other lines found first is not in the result, so that the paths a search shows
  depend on the interleaving.  A goal search whose start is its goal has no lines.
- Configuration: aliases three deep and more depend on the order of a map, although
  the comment at `configs.go:66` says that they are expanded until there are no more
  (`BuiltAsWritten` says exactly what becomes of them).  A rule without a name is
  refused, although `config/types.go:76` says that a name is generated (`Nameless`).
  The error of an unknown start domain is overwritten by resolving the goal, and the rule is
  dropped silently.  Outside the model: a root given as `./x` and included as `x`
  is loaded twice; a store with a duplicate configuration is still connected.
- Stores: the builder connects the stores of a source before it sets its tuning, so
  that the second attempt comes after the default interval, which is too early when
  a longer one is configured (`config/types.go:150`; `untuned`).
- Sessions: a session in use may be removed by a concurrent cleanup that reads its
  first use as zero.
- Console: the handler of an old subscription clears the state of the new console;
  an update is lost when writing it to the stream fails (`console.go:77`).
- Logs: one container whose stream cannot be opened cancels the readers of all
  others (`direct_store.go:103`); a pod that cannot be decoded makes Get return while
  its readers go on to append to the caller's result (`direct_store.go:82`,
  `Malformed`), and its consumer never ends; the last lines are selected before the time
  filter is applied.  Listing pods for logs takes the limit and the interval of
  the logs (outside the model).
- Alerts: an alert that only Alertmanager has is stored without a fingerprint, so
  that a result set keeps one of them; the access is reviewed up to four times in
  a `Get`, and the reviews may disagree.
- Rules: without OpenShift Routes a custom resource yields no operands at all, since
  one unknown class loses all queries of a rule (`LosesAll`); `SubscriptionToCSV` writes a query
  without a namespace, which finds nothing; selectors of a ReplicationController
  are not followed; `AllToEvent` finds no events of objects without a namespace;
  the flow of a Pod, Service or Node that has no owner loses its owner query
  (`Undeclared`).

## Not modelled

- HTTP, TLS, authentication, telemetry, commands and MCP translate and pass on;
  they have no state whose order matters beyond what is above.
- The HTTP clients of Loki, Tempo, Prometheus and Kubernetes, and the conversion
  of their data; parsing and printing of queries and of configuration.
- Templates: rules and named templates written in a configuration are any
  functions of an object; status rules only label objects.
- The token cache of `pkg/tokenreview`: an expired entry may be deleted after
  another request has renewed it, which costs one more review.
- `SyncResult` is only used by tests; the memoising functions of
  `internal/pkg/cache` store strings of immutable values.
- Bounds on real time: the clock of `StoreHolder` and `SessionPool` is a counter.

`PROJECT.json` gives the reason for each component.

## Running

    tlc -config TraverserCycle.cfg MCTraverser.tla
    tlc -config ScopedSearch.cfg MCScopedSearch.tla
    tlapm TraverserProofs.tla

Mutants, such as `SignalNobody` for `Signal`, stand next to the definition they
change; replacing the definition by its mutant must violate the property that
`PROJECT.json` names, which shows that the property can fail.
