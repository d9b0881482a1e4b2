# A verification development for Kiro Fabric

Kiro Fabric (`src/`) is a private stdio MCP server. It offers an agent one tool
that runs a TypeScript program (`fabric_exec`), one that describes what such a
program may call (`fabric_info`) and one that inspects or switches the workspace
(`fabric_workspace`). A program is type-checked and emitted by a compiler
thread, evaluated by a QuickJS machine in a worker thread, and calls host
actions over a JSON bridge: local files and shell, the code Navigator, durable
state, artifacts, external MCP servers.

This directory holds TLA+ modules translated from that code, TLC
configurations that check them on small instances, and theorems with proofs
checked by TLAPS for every value of the constants. `PROJECT.json` indexes
them: components, runs, mutants, the source lines of every definition,
findings, hazards and theorems.

## 1. Inventory

What each component keeps, what happens to it, what is hard about it, and what
makes it correct. Paths are relative to `src/src/`.

### Modelled

**Durable workspace state** (`providers/state-provider.ts`,
`state-directory.ts`, `owned-file.ts`). Several server processes share one store
directory: `state.json`, the lock file `.state-mutation.lock`, one claim file
per lock being reclaimed, temporary files. In each process: whether durability
is available, a lock and a temporary whose cleanup was deferred, and an
"uncertain" flag. Operations: get, set and delete with an optional expected
revision. Hard: processes interleave at every system call, any of them may
die, so may the host; inode numbers are reused; a failure after the rename is
not a failure of the mutation. Correct when there is one owner of the lock, no
lost update, no live writer's lock removed, and when what a caller is told is true.

**Compiler pool** (`runtime/compiler-pool.ts`). The worker set, retiring
terminations, at most one idle warm worker with a timer, and a cache bounded by
entries and characters. Operations: check, close, and the events of workers,
timers and abort signals. Hard: the order of those events, capacity that is
given back before the thread is gone, late replies. Correct when capacity
equals work, no thread lacks an owner, and a failure is reported after the thread's exit.

**Execution service** (`execution-service.ts`). Admission counts executions,
then compiles, runs the sandbox, waits for settlements and closes in order:
compiler and executions, sandbox runtime, registry. Hard: cancellation at every
stage, close against admission. Correct when the pool never refuses what was
admitted, a cancelled execution is not a success, and nothing outlives the drain.

**Sandbox transport** (`runtime/quickjs-runtime.ts`,
`sandbox-worker-entry.ts`). Slots, one warm worker, messages in both directions,
host calls at work. Hard: replies after the end, abort during the bounded
drain, guests that never yield, termination that rejects. Correct when a
finished run is silent in its thread, a cancelled one is dead, and every run returns.

**Shared deadline** (`runtime/deadline.ts`). A shared cell raised by
compare-and-exchange and forced by `expireNow`. Correct when extensions are not
lost and a forced expiry is final.

**MCP session** (`kiro/mcp-session.ts`, `mcp-session-lifecycle.ts`,
`mcp-workspace.ts`, `mcp-execution.ts`, `power/workspace-binding.ts`). Candidate
roots, the binding, the published runtime and its identity, active leases, the
lifecycle queue, runtimes being closed, failed cleanups. Operations: the three
tools, roots announced by the client, close. Hard: switches while executions
run, directories that vanish or are replaced, failing factories and cleanups,
close at any moment. Correct when authority never outlives its binding,
outcomes are true, and after close nothing is left or acquired.

**Host calls** (`execution-service.ts`, `core/action-registry.ts`,
`runtime/guest-bootstrap.ts`). In the guest a semaphore with a queue and the
`parallel()` helper; on the host quotas, the queue of local effects, reserved
resources, prompts and audits. Hard: effects of concurrent programs,
cancellation between any two of a call's steps, permits while the queue is
stopped. Correct when a failed effect is the last of its program, writers
exclude each other, nothing is reported before its calls have settled, and no permit is lost.

**Action registry** (`core/action-registry.ts`). Discovery indexes per provider,
units of capacity, two raw slots, a queue. Correct when capacity neither
overflows nor leaks, the queue moves and answers are of the current revision.

**Catalogue snapshots, artifacts, trace** (`core/catalog-snapshot-store.ts`,
`kiro/artifacts.ts`, `artifact-owner.ts`, `trace/trace-writer.ts`). Bounded
stores with reservations, eviction, owners whose authority is withdrawn, files
that fail. Correct when quotas hold whatever fails, what a caller was given
stays while it needs it, and nothing is served or lost in silence.

**External MCP servers** (`kiro/mcp-provider.ts`). One runtime, a lane per
server, observed tools and cursors, a worker process per connection, a staged
copy of the configuration. Hard: a timeout ends a call for its caller only;
settings change between approval and use; close meets a runtime that is still
being made. Correct when a call uses what was approved and close leaves nothing.

**Local provider** (`providers/local-*.ts`). Approved edits under a lock that
several runtimes share, host commands with a process group, reads and searches
in parts. Correct when an effect replaces what was approved, a command is over
when it is told so, parts join into one whole, and a review shows what is written.

**Navigator, host side** (`fovea/host.ts`, `scheduler.ts`, `root-leases.ts`,
`engine-process.ts`, `engine-entry.ts`). Queues with one running job, leases,
observations, retained results, one child process at a time with a crash
budget. Hard: each await of a query against release, retirement, crash and
close. Correct when nothing stale is published and no child lacks an owner.

**Navigator, engine side** (`fovea/engine.ts`, `core/build.ts`, `core/state.ts`,
`core/sync.ts`, `core/session.ts`, `core/astgrep.ts`, `source-access.ts`,
`scratch-owner.ts`, `provenance-journal.ts`). The exact snapshot of the tree, the
facts extracted from it and their cache, graphs and conversations, prepared
syncs, the scratch directory, the journal that hosts share. Correct when facts
follow the tree, a conversation is told of what it did not see, acknowledged
preparations are current, only owned files are removed, and authorship is never made up.

**Roots of the client and the process** (`kiro/power/workspace-context.ts`,
`kiro/mcp-server.ts`, `mcp-entry.ts`). A cached snapshot with one shared refresh;
start-up part by part and cleanups in reverse. Correct when nobody is told of
roots older than its question and what was started is cleaned up once, users first.

How they interact: the MCP session creates a runtime per workspace identity; a
runtime owns an execution service and a registry of providers; the service owns
the compiler pool and the sandbox runtime and calls them through promises; the
sandbox shares the deadline cell with its worker by memory and everything else
by messages; the durable state is reached by host actions and shared with other
processes by the file system, as are the journal, the scratch directory and the
locks of local effects. The local provider's commits are observed by the
Navigator host, which marks roots dirty and appends to the journal.

### Not modelled

The algorithms over extracted facts (`fovea/core/ops.ts`, `anchors.ts`,
`graph.ts`, `cochange.ts`, `heat.ts`, `basins.ts`, `join.ts`, `protocols.ts`, and the
pattern side of `extract.ts`), rendering and wording, platform bindings and
native code, the TypeScript type checker and guest diagnostics, data paths and
prompts, configuration and schema validation, the repository adapter, and the
installation and build scripts. They transform text or facts, call the operating
system or run once; `PROJECT.json` gives each its reason. Of the modelled
components, section 8 says what is left out.

## 2. Plan and how it was carried out

Most important behaviour first, and the state that several processes share
before the state of one: the store and its abstract specification; the compiler
pool and the service over it; the sandbox; the deadline; the session; the
Navigator's host over its child, then its engine, journal, scratch, facts, turns,
parser and snapshot; host calls on both sides and the registry; external
servers; the local provider; quota stores; roots and process. All of these have
modules.

The proofs follow the same order: the store's lock, then what its calls report and
its refinement; the pool and the service; the sandbox; the session; the parts of
`MCHosts` without folds, then the totals written as recursive functions; the engine,
the turns, the facts, the scratch directory and the journal; the Navigator's host
over its child; the action registry.

What remains: recursive functions in place of the folds over the chunks of
`ParserRuns`; the algorithms of `fovea/core` as operators against reference definitions.

## 3. The modules and the code

| Module | Models | State corresponds to |
| --- | --- | --- |
| `StateDocument` | document, requests, conflicts, mutation | contents of `state.json`; `log` is a history of the calls applied |
| `AtomicState` | promises to callers | nothing in the code: the abstract specification |
| `StateStore` | one action per system call other processes can see; apart from `Next`, `#assertRoot` throwing after the unlink at `state-provider.ts:599` | `dir` and `disk` (visible and surviving directory), `prov` (fields of each provider), `call` (program point and locals) |
| `CompilerPool` | one action per handler | `workers`, `retiring`, `idle`, `uses`, `pending`, `cache`, `cachedChars` are the fields; `thread`, `posted` the thread itself; `phase`, `verdict` the callers' promises |
| `ServiceLifecycle` | extends `CompilerPool` | `stage` of each execution, `status` it returns, `shutdown`, `awaited` (the list `close` drains) |
| `Sandbox` | host handlers, worker handlers, FIFO channels | `slots`, `idle`, `termination`, `run`, `calls`; in the worker `active`, `pending`, `guest` |
| `Deadline` | constructor, loop and exchange of `extendTo`, `expireNow`, clock | `cell` (the shared word), `pc` and `loaded` of each thread |
| `McpSession` | synchronous stretches of a call between awaits | `candidates`, `binding`, `advertised`, `runtime`, `identity`, `tail` (lifecycle queue), `active`, `runtimes` |
| `HostBridge` | a host call from admission to its audit | `run` (counters and queue of an execution), `call`, resources reserved, locks, prompts |
| `GuestBridge` | semaphore, `parallel()`, `cancel` in the guest | `sem` (`activeHostCalls`, waiters, stopped), `fan` (cursor, items, outcome) |
| `ActionRegistry` | discovery | `disc` (`#discovery`, raw queue, indexes), units held |
| `CatalogStore` | reserve, publish, page, prune, close | `snapshots`, authorities that are current, a reader and the cursors it holds |
| `ArtifactStore` | publication, eviction, reading, removal, close | `store` (entries, files, residue), `publishing` |
| `TraceWriter` | give, flush, failure, close | ring, bytes written, dropped, disabled |
| `McpProvider` | calls through lanes, discovery, close | `lane` (`#serverTails`), `authority` (tickets and cursors), `link`, `mcpRuntime` |
| `McpConnection` | both halves of a connection and the channel | `waiting` (`#pending`), `shut`, `broken`, inbox and outbox |
| `McpConfiguration` | read, stage, load, remove | the two files and the descriptors' identities |
| `LocalWorkspace` | prepare, reserve, publish, verify, release | `file`, `lock` (`local-<root>.lock`), `local` per runtime |
| `LocalShell` | spawn to settlement of a command | leader, member, streams, what is told |
| `LocalText` | anchors, application and review of two edits; continuations and search cursors | texts as sequences of letters; `reading`, `cached` (`#searchPages`), `handed` |
| `EngineProcess` | parent and child of the Navigator's engine | `child`, `generation`, `start`, `stopping`, `crashes`, `request`; `kid` the processes |
| `NavigatorHost` | extends `EngineProcess`: scheduler, leases, invocations, observations, retirement, close | `queue`, `running`, `lease`, `observed`, `stored`, `claims`, `inv` |
| `NavigatorEngine` | requests on the tail, between awaits | `residents`, `conversations`, `prepared`, `work` |
| `ProvenanceJournal` | commits, append under the lock, load, sync, release, bind, reset | `ledger` (the file), `ledgerLock`, `pending`, `observation` (`#observed`, by lease), `mark` (the baseline) |
| `NavigatorScratch` | create, move, sweep, inspect, remove, close | `disk`, `own` (`#trees`, `#files`, `#failure`), `task` |
| `NavigatorFacts` | passes over the tree, failures, restarts | `st` (RepoState, FactStore), `cache` on disk, `world` |
| `TurnSync` | edits, focus, sync, delivery or loss | `conv`, `prep`, `repo` |
| `ParserRuns` | chunks, retries, halves, collection | `parse` |
| `SourceSnapshot` | walk, look, read, look again, copy or reuse | `live`, `kept` (previous private tree), the walk |
| `WorkspaceContext` | announce, ask, load, publish | `context`, `refresh`, the client's channel |
| `ServerProcess` | start-up, end, cleanups, exit | `server`, `entry` |

One step is the largest stretch nobody can interrupt: a system call where
processes share files, an event handler or promise reaction in the JavaScript
components, an atomic memory access in the deadline. Where a module treats
several system calls as one step, section 8 says so.

The MC modules give the constants. `MCHosts`, `MCNavigator` and `MCSettles` put
small components side by side: they share no state, the initial state chooses
one part, only that part moves and the others rest where they begin
(`OthersRest`). The behaviours are those of each part alone; what they save is a
run each. Their properties are the conjunctions of the parts', and each module
keeps its conjuncts as named definitions. Where a conjunct has a mutated form of
its own in its module (marked `a mutant`), it was also seen violated by it.
Composition that does share state is by extension: `ServiceLifecycle` over
`CompilerPool`, `NavigatorHost` over `EngineProcess`.

## 4. The runs

| Run | Instance | Shows |
| --- | --- | --- |
| `recovery` | three processes, a call each, two inode numbers, crashes | mutual exclusion; no lost update; a reclaim removes only the re-checked dead lock; a live writer's lock is never removed |
| `crash` | two processes, three calls, host crashes and write-back | the inductive lock invariant; locks accounted for; outcomes true; durable means on disk |
| `atomic` | two processes, two keys, every request kind, fairness | the store implements `AtomicState` (`Linearizable`); calls return |
| `rootfault` | adds the failing root check | **violation**, see section 7 |
| `pool` | four requests, two threads, two keys, one custom worker | `ThreadsOwned` (capacity, ownership, service, failures after exit), the cache's account; requests settle |
| `sandbox_reuse` | two executions, two threads, one host call each | `RunsIsolated`: no message leaks between runs, reuse, ownership, providers told to stop |
| `sandbox_returns` | two executions, one thread that refuses to die | cancelled means dead or reported; executions return, close settles |
| `session` | two calls, three setups (see `MCMcpSession`) | authority, truth of responses, drains, close |
| `session_outlive` | detaches while the directory may vanish | **violation**, see section 7 |
| `settles` | service with two executions, session, Navigator host, host command, deadline | `PromisesKept`: whoever waits is answered; admission and drain of the service; cancellation is reported |
| `navigator` | eight parts, see `MCNavigator` | host over child, dirty marks, preparations, journal, scratch, facts, turns, inputs |
| `hosts` | sixteen parts, see `MCHosts` | external servers, host calls, registry, local provider, stores, roots, process, deadline |

### Bounds

- Store. Three processes are the least with an owner that died, a reclaimer and
  a newcomer; two inode numbers let a number be reused while another lock lives.
  The age of a lock is left open: a reader may take any lock of a dead owner for
  reclaimable. `crash` needs two calls in one process, so that one finds what
  the other deferred. `MaxReadAttempts` bounds the retries of a read that sees
  its file replaced; `MaxEntries` is small so that the limit is met.
- Pool. Two requests miss on one key at once, a third entry is as large as the
  whole cache (so eviction is by size; with two keys the entry limit is not what
  evicts), the fourth brings its own worker. `Threads` bounds how many threads
  are ever spawned. `MaxUses = 2` retires a thread after its second use.
- Service. `MaxWorkers = 1` with two executions makes the second one wait for
  what the first gave back; two threads suffice since each execution needs one.
- Sandbox. Two executions are enough to reuse a thread; one host call per run
  (`MaxCalls`) to be late in each way; one stuck thread in `sandbox_returns`,
  where host calls are absent (`MaxCalls = 0`) since `sandbox_reuse` covers them.
- Deadline. A clock up to 5, cap 4, floors below, inside and beyond the cap.
- Session. `MaxRuntimes` bounds runtimes ever made (beyond it the factory
  rejects, as it may anyway), `MaxIdentity` and `MaxChanges` how often a
  directory changes. Setups fix which tools, switches and failures a behaviour
  has, so that three small state spaces replace one large one.
- Navigator host. Two invocations, one that syncs and one that reloads, so that
  each meets the other queued and running; one crash exhausts the budget, a
  second generation is what a stale reply must not reach. Liveness has one
  invocation and a retirement.
- Engine. Three roots where two are resident and one is hot, so that eviction
  and cooling happen; two changes of the source, three requests.
- Journal. Two hosts, one record retained and one waiting, two changes, so that
  trimming and a full backlog happen at the second commit; each host may be released or
  reset once, so that an append outlives the observation it was committed under.
- Scratch. One act of another process in each removal is enough to be seen or missed.
- Facts and turns. Two acts of the world between queries; a threshold of two with
  masses up to two, so that one change wakes alone and two add up.
- Parser and snapshot. Three files in chunks of two, an answer limit of two, so
  that halves are cut; two files, contents of equal and of different size, a
  cap that one exceeds and a total that both exceed.
- Host calls. A quota of two and one, two programs, one resource, one prompt;
  the guest has three items and two direct calls over two permits.
- Registry and stores. Capacity for one production beside one index; two
  snapshots and two artifacts, so that the third evicts; a buffer of two lines
  and a file of a few bytes. Catalogs of no, one and three descriptors, the long
  ones over the budget of a page, read by a reader that takes any of its cursors next
  with any budget up to three.
- External servers. Two callers of one server, one change of its settings; three
  requests of a connection. Local provider: two runtimes, two contents; texts
  up to three letters with every pair of edits over two letters.
- Roots and process. Two callers, two announcements, three requests; every start
  that fails and every order of causes that end the process.
- Symmetry is used only in runs without liveness properties and only among
  values the module treats alike. Deadlock is not checked: every instance ends
  when its calls are over.

### Fairness

- `StateStore`: weak fairness of a call's step, because a call runs to
  completion once it occupies the thread; strong fairness of the contention
  timer (`Resume`), of the reaction that reports (`Report`) and of the lock
  deadline (`LoopThrow`), each of which is disabled again and again while
  another call of the process occupies the thread. Nothing is assumed of starts,
  requests, crashes or of the host.
- `CompilerPool`, `ServiceLifecycle`: request and idle timers fire, terminated
  threads exit, promise reactions run; in the service sandboxes end by their
  deadline and local effects by theirs. A compiler thread need never reply.
- `Sandbox`: host timers and reactions, and exits of threads told to terminate.
  Nothing is assumed of the guest or of providers.
- `Deadline`: a thread inside `extendTo` keeps running; nothing calls it.
- `McpSession`: requests to the client time out after two seconds, prompts end
  by the request's deadline, aborted or expired executions settle (shown in
  `Sandbox`), a closing runtime settles (shown in `ServiceLifecycle`).
- `NavigatorHost` (`HostSteps`): the host's event loop runs what is ready, its
  timers fire, exits are delivered. Nothing is assumed of the child, which may hang.
- `LocalShell` (`ShellHost`): the provider's waits end by their limits. Nothing is
  assumed of the command, its group or its streams.

In `MCSettles` each of these is asked for only while its part moves.

## 5. What is proved

All theorems hold for every number of processes, calls, threads, requests and
runtimes, under the named assumptions of each module (that constants have their
types and bounds are positive), which TLC evaluates in the runs. There is one
proof module per component or group of components; each states the inductive
invariant, the effect of each step on it, and the theorems.

### The store (`StateStoreProofs`)

- `LockProtocol`: `LockInvariant` is an invariant of `Spec`, host crashes
  included. Mutual exclusion alone is not inductive: a step may create the lock
  file only if nobody owns it, so the invariant says that each call in the
  critical section and each deferred release *is* the owner recorded in the file
  (`OwnersOwn`), that no call owns a lock from its past (`LockHasOwner`), that a
  claim file is held by at most one reclaimer and that the lock it re-checked
  stays (`ClaimsExclusive`). The last needs that a dead process never comes back
  and that a call creates the lock once, hence inode numbers may be recycled
  freely. From it: `TypeCorrect`, `Exclusion`, `UpdatesKept`, `ReclaimSafe`, and
  for steps `LockKept`.
- `Durable`: a mutation reported durable survives a host crash. Strengthened by
  `DurableInvariant`: a barrier is available only if the entry naming the root was
  flushed, the document's log only grows and contains a call that reached the barrier.
- `OutcomeProtocol`: what the flags of a call, the document's log and the state of
  the lock's cleanup say agrees (`OutcomeInvariant`): the log holds a mutation as
  long as the process that renamed it in lives (`LogKnown`), a call reports once
  and at its end (`ReportedOnce`), a lock whose cleanup was confirmed does not come
  back. From it `LocksAccounted` and `OutcomesTrue`.
- `Refinement`: `Spec` implements `AtomicState`, whose document is the visible one
  and whose image is the surviving one. The rename is where a mutation takes
  effect, and it applies to the document it was checked against by
  `NoLostUpdate`; a flush persists, a barrier confirms, a host crash loses what
  is not confirmed (`DurableInvariant`), a report says what the log says
  (`OutcomeInvariant`). Every other step is a stutter.

### The pool, the service and the registry (`ServiceProofs`)

- `PoolInvariant` joins capacity, ownership and service with what relates a
  termination to its thread; the lemma `StopKeeps` covers the five ways a set of
  requests is finished at once. From it `CapacityHolds`, `Ownership`, `Service`,
  `FailuresSettle`, `CloseComplete`, and joined `ThreadsStayOwned`, the property of
  the run `pool`.
- `NeverRefused`: threads at work serve distinct executions that are active and
  others than the one asking, so that their number, counted by an injection,
  stays below the limit admission enforced. `DrainComplete` and `ServiceStops`
  follow from the order of the shutdown stages, and `AdmissionAgrees` joins them
  as the property the run `settles` checks.
- `CacheIsAccounted` (`CacheAccounted`): the counter of cached characters is the sum of
  what is cached, and both limits hold between operations (`CacheInvariant`). The
  sum (`CharsOf`) is a recursive function over the places of the cache; its
  equations, and that it splits where two sequences are joined, are shown by
  induction over a set of numbers. Eviction drops the shortest prefix that lets
  the rest fit: the last entry alone always does, and every longer rest does not.
- `RegistryHolds` (`RegistryKept`): capacity, queue and currency of the discovery
  indexes. `Sound` is what every step on the way keeps: what a state of an index holds
  fits it (`UnitsMatch`), nothing abandoned holds anything, capacity and slots are not
  exceeded, and the queue holds waiting producers only, each once. `Consistent` relates the
  indexes to who asks: the users of an index are as many as the queries that wait on
  it (`UsersSound`), a producer at work is the one the map names (`MapSound`), an index
  was checked against a revision no later than what it holds (`RevisionsSound`), a
  waiting query's index is no older than its question (`AskedSound`). `QueueServed` is that a
  waiting queue has a producer at work: a pump that stops early was stopped by one,
  and one that had no producer to wait for refuses the head. It is not kept by a
  part of a step, only by whole ones, so that the lemmas on the parts
  (`DroppingKeeps`, `RoomKeeps`, `UnwantedKeeps`) leave it to `PumpedKeeps`.
  The units held are a set of pairs (`UnitsOf`) so that the sum over the indexes is a
  cardinality: that one index takes more and others give back is then a union and a
  subset. `PumpedAll` and `Staying` are recursive functions over the queue. The
  theorem assumes that a production and an index take some of the capacity, as their
  constants do.

### The sandbox (`SandboxProofs`)

- `SandboxIsolates` (`RunsIsolated`) and `CancellationKills` (`CancelledIsDead`) from
  the invariant `Isolation`. The channels are FIFO, so an execution that is being
  served is in one of three stages: its run message is on the way and nothing
  came back (`Waiting`), the thread works for it and both channels carry only its
  messages (`Working`), or the last message on the way back is its result
  (`Reported`). `LeftQuiet` is the heart of reuse: once the host has taken the
  result nothing of the execution is left in the thread, its guest or its
  channels, and an idle thread stays so. That a guest which called nothing leaves
  no call behind, and that providers were told to stop before a torn-down guest
  reports, complete it. Cancellation follows since an execution returns only
  after its thread's termination has settled or failed.

### The session (`McpSessionProofs`)

- `SessionOrdered`: only the head of the chain waits (`HeadWaits`), so operations
  run one at a time; a runtime is published, or the head waits for it to be
  made or closed, or it is over (`RuntimesSound`); a lease keeps its runtime
  published or draining, and one that drains has aborted it (`LeasesSound`); what is
  made is meant for the binding of that time (`WaitsSound`). Steps are classified by
  what they do to the chain and the runtimes, and each kind preserves the invariant.
- From it `ResponsesTold`, `CloseQuiets`, and, where the constants satisfy
  `NoBlindDetach`, `AuthorityKept` and `SwitchesMadeCleanly`. The hypothesis says
  that no setup combines executions with the detach of a directory that may
  vanish. It is needed: without it the property is false, which is the finding
  `session_outlive`; every other setup satisfies it.

### Around a running program (`HostsProofs`)

- Connection (`ConnectionQuiet`): close is the last request sent and its answer the
  last response; whoever waits is on its way, in the worker or on its way back.
- Roots and process (`SurroundingsHold`): a question that no later announcement
  follows in the channel is answered with the client's roots of now, and a
  snapshot that counts as fresh has the current generation. In the process,
  what started and was not cleaned up is exactly the rest of the list of
  cleanups, in its order and each once, users before what they use.
- External servers (`ProviderHolds`): the call at work is the first of its lane; the
  connection is what it was last opened for; authority only dwindles, but when a
  listing is published; nothing begins without a runtime that is ready or after
  close has begun. For the configuration: identities are handed out once, and a
  file that ceased to be ours never is again.
- Host calls (`BridgeHolds`): calls have distinct numbers of an execution; an effect
  past the queue found all its predecessors successful; reservations are apart
  and a switch is alone; a report waits for the calls to settle. In the guest
  permits are counted: the permits taken are the calls and items at work, by
  lemmas on cardinalities; the queue lists the waiting calls once each; items
  past the cursor have not begun; the semaphore is stopped exactly after a rejection.
- Deadline: a thread in the loop knows that what it loaded was the cell's value
  once, and that the cell has only been raised or forced since; hence
  `DeadlineCapped`, `ForcedStays`, `Forward`, `ExtensionHolds`, and `DeadlineHolds`.
- Artifact store (`ArtifactsHold`, which states `ArtifactsKept`): the quota holds, and a
  file of the store's own making is an entry, counted as residue, or the close is
  in doubt (`StoreSound`). Each operation keeps it: what a write puts down is young,
  so that the eviction it causes never takes the receipt it is about to return;
  a read takes the entry of that length out of the total before it adds it again.
  The total (`TotalChars`) is a recursive function, as for the cache.
- Catalogs and trace (`StoresHold`, which states `StoresKept`): `CatalogInvariant` says of a
  reader that each descriptor is on a page still to come, or has one cursor at the
  end of what was got of it, or was got in full (`DescriptorSound`), and that a cursor
  names the snapshot it was issued for, while that lasts (`OfSnapshots`). A page
  (`PageFrom`, a recursive function) moves on and holds whole only what it passed; a
  descriptor it passed and did not hold gets a cursor of its own (`PageTold`), a
  chunk joins what was got (`ChunkJoins`). Bytes are counted as a set of units, so that
  what was taken away only makes them fewer (`PartitionShrinks`). The eviction of
  the source goes by use, so the model lets any snapshots go whose last one was needed.
  Of the trace `TraceSound` counts each line given as written whole, still in the ring or dropped.

`RecursionTheorems` is what the totals, the pages of a catalog and the journal's
attribution (below) rest on: a set of numbers has a least
member, so that what holds of 0 and passes on to the next number holds of all
(`NumbersInduction`), and a function defined on 0 to a length by its value at the
number before exists (`RecursionExists`). The library's induction takes an operator as
a parameter, which no installed prover can instantiate; these take a set.

### The Navigator's engine (`NavigatorProofs`)

- `EngineHolds` (`EngineCurrent`): what a request found (its root resident, hot, its
  conversation as it was read) stays so until the request ends, since it alone is
  on the tail and evictions spare its root; a preparation is held only by a loaded
  conversation and was judged against the baseline that conversation still has.
- `TurnsHold` (`TurnsTold`): the baseline holds every source that could be known when it
  was adopted (`KnownHeld`), so that one of them that is gone is in `Deleted` and, if the
  conversation attends to it, makes the sync red; what was known is kept as history
  (`told.known`) and not read from the baseline, which a gap may have emptied. The latch
  is armed only in calm, and a report that waits for its delivery counts what was told
  before it, so that to acknowledge it, to lose it or to prepare another neither embeds a
  target twice nor skips a calm turn.
- `FactsHold` (`FactsTrue`): facts are sound (a source that has not changed since it
  was read has the facts of its content, and unmarked facts are complete), in the
  store and in the cache on disk alike; at an unmoved head what is not dirty has
  the facts of the commit, and what is not listed is dirty just when the commit
  has it (`Basis`); what is known and not listed is dirty or behind a boundary that
  vanished (`Boundaries`). Each pass brings the store to its plan (`Brought`), and
  a plan over git or over a walk names everything that differs. The proof attempt
  showed that `FactsFollow` was too strong without git: a dirty file may be off
  the list and stale after an edit that names other files (section 7).
- `ScratchIsKept` (`ScratchKept`): `ScratchInvariant` says that what is recorded was
  captured, and that what was captured is recorded until it is gone, unless an entry
  without identity bars every removal above it (`Recorded`); that the steps a removal
  has left are of its tree, its own directory last, with everything it looked at
  vetted and each recorded node of the tree about to go (`RemovalSound`); that before
  the directory exists, and after a clean close, nothing of the owner's is there.
  The lemmas on `Plan` show that it holds one removal of every node it saw, after
  the removals inside that node; the tampering of others only takes away from what a later
  step will find, or puts a number there that the recheck refuses.
- `JournalIsTrue` (`JournalTrue`): a host's records come before its waiting changes, each
  list in the order of the commits (`AllOrdered`), and each change of its present
  observation has a place (`Placed`): in the journal, waiting, or outlived, when the
  journal has been trimmed and all the host still has in it or waiting is later.
  That a host past the lock holds it and loaded the journal there is (`LockSound`) makes
  each rename move exactly the first waiting change; a change that is dropped instead
  leaves a gap in the observation it was committed under, and if that one is gone, the
  change is none of the present one's: an observation that begins owns nothing yet
  (`Continues`). An attribution rests on `OwnersFounded`: each owner that the
  chain of records names wrote one of them, and one wrote the content reached last; the
  chain is a recursive function, taken apart by `RecursionTheorems`.

### The Navigator's host (`NavigatorHostProofs`)

- `HostHolds`: `HostInvariant` is an invariant of `NavigatorSpec`. What the three
  promises need from the two processes and from each other is said in parts. Of the
  process: a child is there from its start until it was reaped and no other
  starts meanwhile (`Single`); after the message to leave a child is sent nothing but
  cancellations, so what it told last stays so (`Farewell`). Of the one request: its
  program point fits the errand, the job that runs and the child it was posted to
  (`RequestSound`); a child that serves has at most that request's message in its inbox,
  or works for it, or has answered it (`Exchange`); once a retirement is answered
  nothing of its conversation is in the child or on its way to it (`RetiredClean`). Of
  the host: what a sync's snapshot did not see is marked and counted after its
  revision (`Marked`), jobs are of roots that were bound or of retirements that were
  asked for (`Attached`).
- The steps of the process are classified by what they do to the child, the
  termination and the request (`EngineStep`: a turn that sends nothing, a message
  posted, a fork, a reply heard, an exit reaped, a move of the child), and each kind
  keeps each part; a step of the host touches the process in four ways only
  (`HostTurn`: it calls, clears, withdraws or shuts down), so that `HostStepHolds`
  leaves each action the host's own part to show. `HostIsKept` and `ChangesMarked`
  follow. The queue without the jobs of a root (`Remaining`) is defined by the places
  that stay, since nothing can be proved of `SelectSeq` here; that it holds jobs of
  the queue only rests on a counting lemma (`PlaceIs`).

## 6. Only model-checked

- Liveness (`CallsReturn`, `RequestsSettle`, `SandboxSettles`, `PromisesKept`,
  `CancellationReported`): fairness and ENABLED are out of the prover's reach.
- `InputsTrue`: the chunks of a parse are computed by folds and selections over
  sequences, which the prover cannot unfold. They would have to be written as
  recursive functions and reasoned about by `RecursionTheorems`, as was done for the
  compiler's cache, the registry, the stores and the journal's attribution.
- `LocalProviderKept`: compares texts through several recursive functions at once.

## 7. Findings

- `rootfault`: `#removeNamedEntry` may unlink the lock and then throw from the
  second `#assertRoot` (`state-provider.ts:599`). The release counts as failed
  and is retried by name and inode later; a number reused by another process's
  lock in between makes the retry remove a live writer's lock.
- `session_outlive`: `callWorkspace` takes a detach from a binding that
  `status()` calls unbound as provably unchanged (`mcp-workspace.ts:100`), but a
  bound directory that cannot be verified at the moment is also reported so.
  The runtime with the old authority is not revoked first, against the comment
  at lines 92-96.

Seen and not run, because nothing in the repository says which is meant: a
deferred switch commits after shutdown has begun if its own signal was not
aborted (`mcp-workspace.ts:138`; the direct path looks again at line 105); a
lost reply of the Darwin child process makes a visible mutation a plain failure
(`state-directory.ts:135`).

The Navigator showed more of this kind. `docs/fovea/architecture.md` says that
`repo.sync` never commits its baseline, but a sync that is not red adopts it
silently (`engine.ts:323-327`). A root's observation gap is one per root, so that a
second conversation's lost baseline may go unreported. A tracked file that is
deleted and comes back with other contents stays dirty and is not listed again
(`state.ts:327-337`); should git vanish meanwhile, an edit or a forced sweep covers
only what was listed (`state.ts:409-412`), so its facts stay those of the deleted
file, which is the exception `FactsFollow` names; one that was modified and then deleted stays listed and is
reported unreadable, other than the comment at `build.ts:1068` has it. The comment
at `state.ts:250` has the cache remember which nested boundaries were enrolled, so
that a restart restores coverage; the cache is written only while facts are
loaded (`build.ts:1006`; the deferred writer at `build.ts:686` does nothing), when
none is enrolled yet (the invariant `Boundaries` says `~cache.enrolled`). To
acknowledge a red sync overwrites the attention a focus added meanwhile
(`engine.ts:180`); an edit after a checkout and before the sync is adopted
quietly; a checkout is adopted as the start of a new chain, deletions of attended sources
and all (`sync.ts:364-367`); a baseline adopted quietly while a gap withholds a source
forgets the source, so that its later deletion is not reported; routes removed while
extraction is degraded are absorbed in silence. `TurnsTold` names the two exceptions.

A host's gap belongs to the observation of its lease, which goes with a release
(`host.ts:78`) and with a reset (`host.ts:291`). An append that is still pending then
fails on the revoked lease and marks the orphaned observation only (`host.ts:170-175`), so that
when the same conversation is bound again, a commit the journal lost is not told as a gap,
though "callers mark a gap" (`provenance-journal.ts:39`). `CommitsAccounted`
therefore speaks of the changes of the present observation. A journal that could not be
read makes the baseline's sequence 0 (`engine.ts:429-434`, `:312`), so that after a rebind
the next sync classifies old records again. In
the host-call bridge a non-local write that is cancelled after its provider
succeeded has no acknowledgement in the audit (`action-registry.ts:616-618`). The
models contain these steps.

## 8. What the models leave out

- Store: Windows, locks of the older format, replacing the root directory beyond
  the failure it causes, the Darwin child process, contents of values.
- Pool: a `Worker` constructor that throws, `terminate()` that rejects (the code
  swallows it), the compiler's work.
- Service and host calls: catalogue pages, schemas, the restricted web action, the
  text of results. In the guest: strict-JSON checks, the windows of `searchRead`
  and `focusRead`; a nested helper's calls are further direct calls.
- Sandbox: spans and traces, flush and prepare messages, messages that extend
  the deadline (see `Deadline`), everything inside the machine.
- Deadline: one clock for all threads is assumed; only the pattern of use of the
  runtime matters, the host raising and the worker forcing.
- Session: contents of responses and of `fabric_info`, authorization epochs,
  retirement of Navigator conversations, the artifact store's inside, path
  aliases and refusal of overly broad roots. The snapshot of the client's roots
  is any answer a client may give.
- Registry: ranking, schemas, the single-descriptor cache. Catalogue: a
  descriptor is its length. Artifacts: the checkpoint store, residue of other
  processes, an uncertain directory close during a removal; which of two entries
  read at the same instant is older is left open.
- External servers: payloads, schemas, argument files. The configuration's staged
  file is not edited in place and back by others while it is loaded.
- Local provider: an editor may slip between the last look and the replacement,
  as the code allows; path policies; one scan of `/proc` is one step; the three
  lines of context in a review are a number of characters.
- Journal: one file and one conversation of each host; the gaps for uncertain events, for
  invalid transitions and for more than 256 paths; storage that is not there.
- Navigator host: arguments and quotas of retained results. Engine: budgets and
  answers. Scratch: a look and the call it precedes are one step, which the code
  documents as no sandbox. Facts and turns: a pass reads a private snapshot and
  is one step; sizes and generated sources. Parser: a non-zero exit with a silent
  stderr is "no matches", as the code takes it. Snapshot: an edit changes the
  time stamp; a warm reuse trusts the bytes of a private tree that is pinned.
- Roots: publishing a snapshot and clearing the refresh are one step, since
  callers continue after both; expiry is a refresh that may come at any time.
- Process: a start-up failure waits for its cleanups without the limit that ends
  a serving process; signals before the entry's handlers exist; a tracer whose
  first event throws.
- `core/asyncutil.ts`: a released waiter continues a microtask later, so that a
  caller arriving in that microtask could pass the limit; no such caller was found.
