# HELIOS-NET: a TLA+ verification project

HELIOS-NET is a Python control plane (campaigns, planning, state, an encrypted
write-ahead log) over native cores: a Go port scanner that runs as a long-lived
process, and C and Rust libraries for matching and graphs. These modules model the
parts where an error would be hard to reach with a test: what survives a crash, what
threads, tasks and processes can do to each other, what a scheduler loses, what a late
answer is taken for, whether a label names who really answered, and where a walk that
servers steer may go.

- [Inventory](#inventory)
- [Modules and how they correspond to the code](#modules-and-how-they-correspond-to-the-code)
- [Runs](#runs), [bounds](#bounds-and-why-they-are-enough), [fairness](#fairness)
- [Proofs](#proofs)
- [What the code does not keep](#what-the-code-does-not-keep)
- [What is not modelled](#what-is-not-modelled)
- [Plan](#plan)

To check a run: `tlc -config MCWal.cfg MCWal`. To check a proof: `tlapm WalProofs.tla`.
`PROJECT.json` lists every run with its properties, a fault of the code for each
property that makes TLC find it violated, the source lines of every definition, and
the hazards the properties are for.

## Inventory

| Component | State it keeps | Operations | Works with | What is hard | What makes it correct |
|---|---|---|---|---|---|
| Write-ahead log `core/wal.py` | the file; `_lsn`, `_v3`, `_legacy`, `_salt`, `_active_txn`, `_txn_buffer` | open, begin, append, commit, rollback, replay | the daemon | crash or error inside a write; two layouts in one format | acknowledged records are readable, in order; rolled-back ones are not |
| Its key file `core/wal.py` | key file, log, each process's key | create, adopt, read, replace, refuse | other processes | processes that open one log at once; a death while the key is written | one key per log; records stay readable |
| Planner `core/planner.py` | step counter; plan, waves | plan, from_json, schedule | orchestrator | cycles, dangling ids, cut waves | no step lost or repeated, dependencies first, always ends |
| Orchestrator `core/orchestrator.py` | campaign status, step status, context | run_campaign, recover | planner, store, scope, module runners | a pool of threads, exceptions at every call | waves do not overlap, failures stay in their step, log and status agree |
| Campaign store `core/state.py` | one JSON file and one JSONL log per campaign | save, load, delete, log_event, read_log | orchestrator | full disk, crash inside a line | what returned is there |
| Runners `modules/registry.py`, Collector | `ctx`: findings, pacer, collected | one runner per kind of step | orchestrator, accel, assets | a context that outlives the campaign, findings of other hosts | probes stay within the scope's ports, banners are the target's |
| Asset discovery `modules/discovery/assets.py` | queue, seen names, request count | walk, redirects, documents, certificate log | scope, DNS | every answer comes from outside and changes | never leaves the scope, keeps the budget, ends |
| Scope `core/scope.py` | rules | read a file, check targets and ports | orchestrator, modules | a hand-written reader | accepts the documented shape only, allows only what is written |
| goscan `transport/goscan/goscan.go` | channels, WaitGroup, workers | one-shot sweep, serve loop, port arguments | the bridge over pipes | goroutines, channel closing, buffers | each port once, all results, always an answer |
| Go bridge `modules/discovery/goscan_bridge.py` | the serve process, `_seq`, `LAST_ERROR` | scan, close, fall back to one-shot | `core/accel.py`, threads of a wave | timeouts, late answers, restarts, a shared variable | the caller gets its own answer or an error |
| Acceleration `core/accel.py`, health `core/cores.py` | none of its own | match, fingerprint, graph calls, batches, comparison, report | C and Rust bridges, Python | degradation in the middle of a request | the label names who answered; report and service agree |
| C bridge `core/c_core_bridge.py`, Rust bridge `core/rust_bridge.py` | loaded library, probe results, signature handles | probe, match, batch, digest | accel | caches that outlive what they describe, several threads | answers of one front end, automata of the file as it is |
| Daemon `core/daemon.py` | running flag, log | mission cycle, start, stop | log, async recon | failures around the transaction, cancellation | the log tells what each cycle found |
| Async recon `core/async_engine.py` | queue, results, AIMD window | recon | daemon | a worker that dies before `task_done` | ends, each port probed once |
| Raft-style handler `core/consensus/raft.go` | term, state, log, commit index | HandleAppendEntries | none | late, lost and repeated requests | log matching |
| Graph, pathfinder `engine/graph`, `engine/killchain` | nodes, adjacency | ingest, degrees, components, paths, betweenness, route | orchestrator, Rust core | orders of insertion, ties | agree with a reference and with each other |
| Pattern matcher `engine/pattern_matcher.py` | trie, links, patterns | add, load, build, match | accel | loads that fail half-way, twin implementations | finds every pattern where it is |

The orchestrator calls the planner and the store directly; the runners of a wave run
in a `ThreadPoolExecutor` and share the store (behind its lock), the context dict and,
through `accel.scan_ports`, the one `goscan serve` process and the module variable
`LAST_ERROR`. Every analysis goes through `accel`, which asks the C bridge, the Rust
bridge or Python. The daemon is the client of the write-ahead log and of the async recon.

## Modules and how they correspond to the code

**`Wal`** (`core/wal.py`, one process). Every public method holds `self._lock` throughout, so threads
interleave whole operations and an operation is an action. The file is a sequence of chunks: the v3 header,
a record, or the torn part of one. A write may raise or be cut short by a crash anywhere; `AppendRaises`,
`AppendDies`, `CommitRaises` and `CommitDies` leave every prefix that this allows, torn chunk included; with
`WritesRaise` false a write is cut short by a death alone. Replay is modelled by what it certainly returns
(`Sure`) and by what the bytes behind a tear may also frame by accident (`Chance`). Sealing is abstracted to
the layout and the salt under which a payload was sealed; a payload opens when replay uses the same.
Variables after the comment "History" are read by no operation.

**`WalKey`** (`core/wal.py`, several processes). A step is one system call on the key
file or the log, since a `threading.Lock` does not reach another process. Here nothing
is torn, but the key file is empty between its creation and its write. The history
variable `overlapped` says whether two processes ever had the log open at once, so that
one run asks both what holds then and what holds for one process after the other.

**`Planner`** (`core/planner.py`). `Plan` and `FromJson` make a plan, `ScheduleWave` is
one turn of the loop of `schedule()`, its deadlock branch included. An intelligence
item is the module it names, the priority it asks for and whether it asks for ports.

**`Campaign`** (`core/orchestrator.py` and `core/state.py`) extends `Planner`: the main
thread's `main` walks through `run_campaign`, `th[i]` through `_safe_run` of step `i`.
Every `save` and `log_event` may raise, and the process may crash at any point and the campaign
be recovered. The log is the set of its whole lines and the `tail` behind the last newline: a
write that stops leaves nothing, a part of a line (`Torn`), or all of it but the newline, and what
is appended to a tail becomes one line with it, which `read_log` skips (`ReadLog`). A runner
that returns something is kept apart from one that returns nothing (`Collect`). In the code
`step_failed` and `module_missing` name a step by its module and action; the model names it by its number.

**`Runners`** (`modules/registry.py`, `Collector.add`, the filter of `scan_ports`). The
five runners of one campaign after another on one `Orchestrator`: what discovery, the
asset walk and recon put into `ctx["findings"]` and take from it. An asset step tries the web
ports that the scope allows, or those of its parameter `web_ports`, as they are (`given`). A banner is the host it
was read from, so that a borrowed one shows.

**`Sweep`** is the abstract specification of a sweep: asked for ports, dial each once,
answer with the open ones. **`GoPool`** (`transport/goscan/goscan.go`) is the code: the
prefilled work channel, the workers, the WaitGroup, the buffered results channel, the
closing goroutine and the two readers, `runServe` and `main`. A print of `main` may find
the pipe full and wait (`blocked`). `SweepIsKept` states that `GoPool` implements `Sweep`.

**`GoServe`** (`modules/discovery/goscan_bridge.py` and `_go_scan` of `core/accel.py`).
Threads share `_ServeWorker` and `LAST_ERROR`; a step ends at the lock, at a pipe and
around an access to `LAST_ERROR`. The write of a request may wait in a full pipe with the lock
held (`blocked`), and a one-shot process that fails may have given rows to a caller that is not
strict. The process behind the pipes does what `Sweep`
promises its client, or dies, hangs or refuses to start. A request is identified by
the call it belongs to, so that an answer to another call can be told apart even if it
bears the expected number.

**`CCore`** (`core/c_core_bridge.py`). The library and the executable on the host, each absent, broken or
sound, or an executable that answers and fails its selftest (`flawed`); the caches of what was loaded and
probed; `_handles`, the automata of signature files by path and digest; and a call's way through them:
choose a front end, hash the file, reuse or open an automaton, match banner by banner, or hand the whole
batch on to the executable and then to Python. A step ends where the host, the file or another thread may
change what is looked at next. A row is who made it and for which banner. The contents of the file may
return; `had` are those it had since the call began, `overlap` the calls that met another one on the file,
and `slips` the digests under which an automaton of other contents was kept. **`Accel`** (`core/accel.py`,
`core/rust_bridge.py`, `check_c` of `core/cores.py`) extends it: the loop over the backends in their order,
`prefer`, skipped and raising backends, the label of the answer, `compare_backends` and the health report.
The history variable `broke` marks a call to which a core that had passed its probe gave no answer, and
which says so to nobody.

**`Daemon`** (`core/daemon.py`, `core/async_engine.py`). One event loop, so a step lasts
from one await to the next: the cycle up to `queue.join()`, each worker's `get`, probe and
backoff, and everything from the return of the join to the end of the cycle. The log is
used as `Wal` shows it to be: records of an open transaction are in memory, an
interrupted commit leaves the start of what it wrote, replay stops at a tear.

**`Assets`** (`modules/discovery/assets.py`, the names of `ct.py`). The walk: the queue
of names, resolving, the check of the name and of every address, one probe per address
and port, redirects, documents, the names that certificates and the log add, and the
count of requests, which is brought up to date only when a target is done. The ports are the
scope's or those the caller gives. A name that `getaddrinfo` cannot encode raises
(`ResolveRaises`, `HopRaises`). The world answers anything at every step.

The modules below are functions of an input more than protocols; the run `functions`
takes them together.

- **`GoPorts`** (`parsePorts` and its helpers): an argument is a preset or a list of tokens;
  the result is compared with the plain meaning of numbers and ranges.
- **`ScopeFile`** (`core/scope.py`): files line by line through `_parse_scope_yaml`,
  `_validate_document` and the enforcer, against a declarative definition of the documented files.
  It is taken from the docstring (`core/scope.py:222-233`: the shape, optional quotes, comments on
  their own line or after a value) and from the shipped `config/scope.yaml` (rates with a fraction),
  not from the reader: `InSubset` and `Documented`. What the reader rejects of them is `Rejected`.
- **`AssetGraph`** (`engine/graph/core.py`, `engine/killchain/pathfinder.py`, `Graph::shortest_hops_from`
  and `shortest_path` of `rust-core/src/graph.rs`): graphs are built relation by relation in every order;
  Brandes' algorithm, both searches for a shortest path and Dijkstra's loop are compared with the
  sets of all paths. The Rust core measures the distance first, by Dijkstra's algorithm with a heap
  that keeps old entries (`HopsFrom`), and gives up if there is none; it then goes as many frontiers far.
- **`Matcher`** (`engine/pattern_matcher.py`, `_python_match` and `_c_match` of `accel`, the
  signature file of `c_core_bridge`): characters with their folding and their width in bytes;
  a node of the trie is the text that leads to it, and failure links are built one depth after
  the other, as the breadth-first loop does. `Lower` gives what `str.lower` makes of a pattern,
  `Made` the names that `_c_match` makes up for the file.
- **`Raft`** (`core/consensus/raft.go`): requests that the leaders of four terms may send, in
  any order, again or never.

Each `MC*` module gives the sets of inputs for the runs. A definition named `Faulty_...`
is the definition after it with a plausible mistake; no specification uses it.

## Runs

| Run | Config | Distinct states | Shows |
|---|---|---|---|
| `wal` | `MCWal.cfg` | 610,631 | replay is in order, what was acknowledged is readable in an undamaged file, what was rolled back is not there |
| `plan_and_walk` | `MCPlanAndWalk.cfg` | 401,628 | planner: each step once, dependencies first, a deadlock broken exactly when there is one, the collector alone at the end, termination; asset walk: every request goes to a name and an address in the scope, the budget is exceeded by one at most, the walk ends with every name accounted for, or raises for one of two reasons |
| `campaign` | `MCCampaign.cfg` | 706,279 | waves do not overlap, what `read_log` returns agrees with the steps, ended means over, a torn log line costs one event, `run_campaign` ends |
| `go_scan` | `MCGoScan.cfg` | 480,036 | the pool implements `Sweep`, answers, and its workers end even if the output is never read; in the bridge no mix-up after timeouts and restarts, accepted rows are the caller's own and were swept, calls end unless a write blocks for ever |
| `accel` | `MCAccel.cfg` | 3,672,090 | answers from one front end, automata of contents the file had, true labels, a health report that agrees with the service |
| `daemon` | `MCDaemon.cfg` | 522,312 | the log says of each cycle what its probes found, no probe outlives its recon, a cycle ends unless a worker died |
| `functions` | `MCFunctions.cfg` | 1,734,774 | port arguments, scope files, graphs, routes, matchers, append requests and shared findings against their references; three processes that open one log: one key while none replaces an unusable key file; one after the other, dying anywhere: the log stays readable |
| `wal_crash_recovery` | `MCWal_CrashRecovery.cfg` | violation | see [What the code does not keep](#what-the-code-does-not-keep) |
| `daemon_cycles_end` | `MCDaemon_CyclesEnd.cfg` | violation | the same |
| `scope_shipped` | `MCScopeFile.cfg` | violation | the same |
| `web_ports` | `MCRunners.cfg` | violation | the same |
| `walk_never_raises` | `MCAssets.cfg` | violation | the same |

`plan_and_walk`, `go_scan` and `functions` each check modules that share nothing: a behaviour is one of
one of them, while the others stay where they began, so nothing is interleaved that the program does not
interleave and the states of the parts are added, not multiplied.

### Bounds and why they are enough

- `wal`: four records, two interrupted writes, a v2 log of at most one record. Two
  faults allow a torn header followed by a torn record, and a commit that fails and is
  repeated; four records allow one before and one behind each of them, and a
  transaction of two. The theorems below do not depend on the bounds.
- `functions`, the key file: with three processes one can replace, one adopt and one be between creating
  and writing the key, and the same three can come one after the other, two of them
  dying, each at any stage of the log's start. Processes are symmetric: only their
  identity is ever compared.
- `plan_and_walk`, the planner: every list of up to three items over all kinds of module names, and of up to
  two with a priority of their own; two plans, because step ids go on from one to the
  next. Every document of three steps with every dependency relation, an id that does not
  exist included. A pool of two, so that waves are cut. Nothing is planned after a
  document was read: plans depend on earlier ones through the step counter alone, which
  `from_json` leaves as it is.
- `campaign`: a pool of two, seven intelligence lists (waves of one and two, a cut
  wave, a missing module, ports inside and outside the scope, an item that makes
  `plan()` raise), two failing writes, one crash.
- `go_scan`, the pool: three ports for two workers, so that one worker takes two; two requests,
  so that leftovers of the first would show in the second.
- `go_scan`, the bridge: two threads, three calls, two faults: a call that times out, the restart,
  and a call whose request number is again 1.
- `accel`: two threads, two requests of any of the six kinds with any `prefer`, batches of two
  banners (one answered in-process before the other fails), every host, and one failing call.
  Either the host changes once, and a second change or failure would hit a request that the first
  one has sent to another backend already; or, on a sound host and for scans and matches, the file
  changes twice among two contents and none, which is enough for the old contents to return while a
  call is between the digest and the open. Threads are symmetric.
- `daemon`: three ports for two workers, two cycles (the second meets what the first left),
  one dying worker and one failing or interrupted write.
- `plan_and_walk`, the walk: four names (one outside the scope, one that cannot be encoded), three
  addresses (one outside), three ports (one that the scope does not allow, which is tried if it is
  given), depth 2, three hosts and six requests: the budget runs out within a chain of redirects,
  among documents and between targets.
- `functions`: `MaxPort = 5` in place of 65535 with numbers on both sides of the ends, up to three
  tokens; scope files of up to five lines of many kinds, right and wrong; graphs on four nodes with a chord, a loop
  and ties; three patterns out of nine and texts of up to four characters; logs of four leaders
  that go on from different places of each other's; two campaigns.

### Fairness

- `Planner`: the loop of `schedule()` goes on.
- `Campaign`: the main thread and every pool thread take their next step; a runner
  returns or raises. That a runner does return is an assumption about the modules:
  their network calls have timeouts.
- `GoPool`: Go runs goroutines that can run, and a dial ends, because `DialTimeout`,
  the TLS deadline and the read deadlines bound it. Nothing is assumed of whoever empties
  the pipe that `main` prints to.
- `GoServe`: Python runs each thread that can run, `reader.join(timeout)` returns and
  the one-shot process ends. Nothing is assumed of the serve process, and not that the
  lock is fair: there are finitely many calls. That a write of a request does not block for ever
  is no fairness but a premise of `CallsEnd` (`WritesEnd`), as there is no deadline for it.
- `Daemon`: the event loop runs every task that can go on, and every wait in a probe has a
  time-out. Nothing makes a probe raise, a write fail or an operator stop the daemon.
- `Assets`: a walk that was called for goes on (nobody has to call for one); every wait of it is a socket's
  with a time-out.
- `Wal`, `WalKey`, `CCore`/`Accel` and the functions have safety properties only. Deadlock is checked in
  the `Wal` runs; everywhere else the system may come to rest (the campaign is over,
  the processes are gone, the bound is reached).

## Proofs

All constants are arbitrary, within the named assumptions, which TLC evaluates on its runs. Most
only say that a bound is a number. Those that say more: `PlannerAssumption` (a pool has a worker)
and `InputAssumption` (a document, as `to_json()` writes it, does not use one id for two steps, and
an item of intelligence names a module, a priority and whether it asks for ports); `LeadersAgree` (the log matching
property among the leaders, which the handler relies on and Raft gives); `ScopeAssumption`
(what a token may be in a file); `PortsAssumption` (an argument is a preset or a list of
tokens that is not empty); `RunnersAssumption` (a sweep names finitely many ports);
`MatcherAssumption` (folding an ASCII letter keeps its width in bytes, only the empty pattern has an
empty lower case, and the made-up names are distinct, neither blank nor break nor `#`, and as many as
the patterns of a registry).

**`WalProofs`.** `Invariance` is `Spec => []Inv`, and `TypeCorrect`, `ReplayIsOrdered`,
`AcknowledgedIsDurable` and `RolledBackIsAbsent` follow from it. None of these
properties is inductive alone: that replay returns acknowledged records depends on the
layout the next append will choose, which depends on the attributes that an earlier
open took from the file. `Inv` therefore also says
  - `Shape`: a header is the first chunk or there is none, and the buffer holds whole
    records;
  - `Txn`: nothing is buffered outside a transaction, and none outlives its process;
  - `Fresh`: identities in the file, in the buffer and among the discarded are disjoint
    and were given out;
  - `Layout`: how `_v3`, `_legacy` and `_salt` follow from the start of the file, so that
    everything in it, and everything about to be written to it, has one layout;
  - `AckedOnDisk`: an acknowledged record is a whole chunk of the file;
  - `Order` and `BufferOrder`: LSNs grow along the readable file and along the buffer,
    and `_lsn` is ahead of both.

There is one lemma per action, with one step per conjunct it disturbs, over lemmas on
what appending to a file does to `Sure`, `FileFormat` and the identities in it.

**`WalKeyProofs`.** `OneKeyHolds` proves `OneKey` for any set of processes. `KeyInv` adds
that a process about to write the key it created is alone in that, and that the file
it created is still short: this is what exclusive creation gives. `LogIsRecoverable` proves
`Recoverable`, for processes that do not overlap and die anywhere: `Solo` says that the
log has one layout, that its records were sealed with the key in the key file (or that
file was damaged from the start), and that the attributes of the one process that is up
agree with the file, at each place of its start.

**`CampaignProofs`**, first of `Planner`: `ScheduleInvariance` proves `ScheduleInv`. Its part
`WaveInv` says that `done` is the ids in the waves, that waves and `remaining` are disjoint and make
up the plan, and that, until a deadlock is broken, dependencies come first: `NoStepLost`
(`EachStepOnce`) and `DependenciesComeFirst` (`DependenciesFirst`), for every plan, cyclic or not,
and every pool size. `PlanInv` adds what `ScheduleIsOrdered` (`OrderedUnlessStuck`) needs: a
deadlock that was met is a set of steps that wait for each other (`Stuck`), and a plan that `plan()`
made, from any intelligence, numbers its steps without repetition, each waiting for earlier ones
only and the collector for all others (`WellMade`); so of what remains the step with the least id
is always ready, and the collector comes last.

Then of `Campaign`, for any intelligence, workers, failing writes, crashes and recoveries.
`CampaignInvariance` proves `OrderInv`: `ScheduleInv`, where the planner is when the main thread is
at each of its places (`PlaceInv`), and what each wave's threads may be doing, given the wave the
main thread is at (`ProgressInv`). No promise of a campaign is inductive without it, as a thread
does not see the wave it belongs to. On it rest `StepsRunInOrder` (`StepsInOrder`), `EndedMeansOver`
(`EndedIsOver`, with `EndInv`, which also speaks of the status in memory, since that is what the
next save writes) and `AuditTrailAgrees` (`AuditAgrees`, with `AuditInv`, which follows a step's
record through each place of its thread, in memory, among the events that were acknowledged and
among the lines that `read_log` finds). `TearsAreBounded` (`TearCostsOneEvent`) needs `TearInv`
only: the events lost so far, and the one that a torn last line is about to cost, are at most
the writes that failed.

**`GoScanProofs`.** `PoolImplementsSweep` is the refinement `Spec => SweepIsKept`: initial
states map to initial states, and every step maps to a step of `Sweep` or to a stutter.
What makes it go through is `PoolInv`: a port that is not dialled is in the work channel or
with exactly one worker (`Waiting`); every outcome of a dial is with one worker, in the
results channel or received, once (`Truthful`, `Single`, `Kept`); the WaitGroup counts the
workers, and the channel is closed only when it is zero (`Counted`); and what is printed is
what was received (`Reading`).

Of the bridge (`GoServe`): `NeverMixed` (`NoMixup`) and `AcceptedWasSwept` (`AcceptedIsSwept`), for
any number of threads, calls and faults. `ServeInv` says that whoever is between the write of
a request and its reply holds the lock (`Locked`), that what is in the pipes of a live process
belongs to that call and nobody else's (`OneRequest`), and that rows are a caller's own (`OwnRows`).

**`AssetsProofs`.** `StaysInScope` (`RequestsStayInScope`) and `StaysInBudget`
(`RequestsBounded`). `ScopeInv` follows what was checked from the place of the check to the
place of its use: the name that was taken from the queue, the addresses kept for it, the
target that is probed, and each hop. `BudgetInv` relates the requests sent to the count and to
the redirects and documents that are not in it yet.

**`DaemonProofs`.** `ReconLeavesNoProbe` (`NoProbeOutlivesRecon`), for any list of ports and any
number of workers. While a recon runs, the queue's count is that of the ports in the queue and
with workers (`Tally`), and each port is in the queue, with one worker or in one result
(`Placed`, `Apart`); so the join that returns at zero finds nobody busy and every port probed once.
`LogRecordsCycles` (`CyclesRecorded`), for any number of cycles and of faulty commits: `RecordInv`
is what a cycle holds before its commit, namely its start in the buffer and a count of open ports
that agrees with the results (`CycleInv`), and what that makes of the file: entries of ended cycles
alone, in order as far as replay reads them, and every committed cycle whole (`DiskInv`).

**`AccelProofs`.** `AutomataAreCurrent` (`AutomatonIsCurrent`): `Alone` says that of the live calls that
are not in `overlap` no other uses the same file, so nobody releases an automaton that one of them
uses; `Fresh` that a digest in hand is of contents the file had during the call; and `Remembered` that an
automaton under a digest was made of those contents, whatever the file held since, or is in `slips`.
`AnswersFromOneFront` (`BatchFromOneFront`): a request has no rows before the place where it is
answered (`SoFar`), and only the library that passed its selftest is ever used (`InLibrary`).
`LabelsAreTrue` (`LabelTrueUnlessCoreBroke`): `LabelInv` ties, at each place of a request, the backend
that is tried, the front end that was chosen, the label and the maker of the rows so far, and says
that a core remembered as available is the library or an executable that has answered (`Probed`).
`HealthIsTrue`
(`HealthAgreesWithService`): on a quiet host the caches are what a fresh probe would find
(`Remembers`), so it does not matter whether the report or the service filled them. A core reported
sound serves its own answers; a core that serves is the library, or an executable that
answers, which the report calls sound unless it fails its selftest.

**`FunctionsProofs`.** Six modules whose operations are loops over their input. A fact about a
loop is proved by its least counterexample: in a set of numbers that is not empty there is a least
one (`LeastNumber`), so if a turn of the loop failed there is a first that did, and the turn before it
gives the contradiction. This takes the place of the library's induction theorems, which the
provers cannot instantiate. `EachTurn` states it for a property of turns, and `LoopRuns` and `RunOf`
that every loop has a run, which is what makes a recursive function equal to its definition.
  - `SweptAsNamed` (`SweepsWhatIsNamed`): `PortsOf` says, of the tokens expanded so far, that the ports
    in hand are those they name, grouped by token and growing within a token; `OnceEach`, of the
    ports gone through so far, that each was kept at its first place and no other. The order of
    first naming follows from the two.
  - `LogsMatch` (`LogMatching`): `MatchInv` adds that the log is a sequence of terms. Each step of the
    handler's loop keeps the log, up to the entry it has placed, in agreement with every leader: an
    entry that is in place already leaves the rest alone, another one cuts the rest off.
  - `ProbesKeepToTheTarget` (`ProbesAreOfTheTarget`): `ContextInv` says of every finding that a runner
    leaves to the next that its port is in the scope or was given to an asset step, unless recon reports it,
    and that in the first campaign its banner, if it has one, is the target's (`Sound`).
  - `ReaderReadsTheSubset` (`ReadsTheSubset`) and `AllowsWhatIsWritten` (`AllowsOnlyWhatIsWritten`): the
    reader keeps a key, the values below each key and whether it has met `scope:`; `ReaderInv` says
    that these are what the lines read so far say, line by line (`BodyInv`), and that those lines
    have the documented shape (`ShapeInv`). The reader stops at the first line that has not, or whose value it
    cannot take, and no continuation makes such a file one it accepts. The values of an accepted file are then
    compared with those that are documented, and the enforcer's answers with the lines themselves.
  - `RouteIsCheapest` (`RouteIsLeast`): the correctness of Dijkstra's algorithm with a heap that keeps
    entries that are out of date. A node is settled when the entry with its cost in `visited` was
    taken. `SearchInv` says that settled nodes come before every entry in the heap, by cost and name
    (`Ordered`); that what they have looked at is in `visited` at a cost no higher than theirs allows
    (`Reached`); that an entry is a path at its cost over settled nodes (`EntryInv`), each of which
    is, of the settled nodes that could come before the next one, the first by cost and name
    (`Chosen`); and that no two entries share node and cost (`Single`), on which the model of the
    heap relies. `Frontier`: on every path from the source to a node that is not settled stands an
    entry of the heap, no dearer than the path. So the least entry, when it is the jewel's, is no
    dearer than any path, and an empty heap means that there is none. Costs are greater than zero
    (`GraphAssumption`, as all of `SERVICE_COSTS` and the default are): without that, a node could be
    settled before one that is chosen ahead of it.
  - `EnginesGiveTheSame` (`EnginesAgree`): `EngineInv` says that the nodes are distinct, that edges are
    between known nodes and that `adj` is the edges in both directions. So the lists of the Rust core are
    the neighbours of Python, position by position (`KeptTogether`, `ListsAre`), which is all that the
    degrees need. For the paths, `Searched` follows Python's queue: after `k` turns all neighbours of the
    first `k` nodes are seen, and what is seen was met from one of them. The Rust core goes frontier by
    frontier instead; `AfterHops` says that its state after `h` frontiers is, up to names, Python's after
    some number of turns, that the nodes seen are those `Within` `h` hops, and that each was met from one
    that is a hop nearer (`Nearer`). How many frontiers there are to go was measured before, by Dijkstra's
    algorithm: a node is settled at a distance `Within` which it lies and no nearer one (`DistancesAre`), as
    every node that is not settled has on each path to it an entry in the heap that is no farther (`OnHeap`,
    `Measures`); where there is no distance there is no path (`NoPathFound`). One more frontier keeps this
    (`NextHop`, from `FrontierAlike`). Going back along `prev` therefore loses a hop each time
    (`TracedBack`), the way back is a shortest path (`TracedIsPath`, `PathFound`), and since Python's later
    turns change no entry of `prev` that is on it, both engines trace the same one (`TracesAlike`). The
    components follow from a search never leaving a set that is closed under neighbours (`StaysInside`): two
    searches that share a node see the same (`SameSeen`).
  - `OutputsAreRight` (`OutputsAreSuffixes`): the correctness of the Aho-Corasick construction, for a
    registry that is loaded in pieces, with loads that fail and links that are built more than once.
    `MatcherInv` says that the nodes are closed under prefixes, that every pattern stands at the node of
    its lower case and that a node has no output but ends of its text (`Registry`), and that the outputs
    of a registry with links are complete (`Complete`). Within one build, after the depth `n`, the link
    of every node up to `n` is its longest proper end that is a node (`Longest`) and its outputs are
    complete. The loop over links goes through the ends of a node from the longest down (`OneLinkBack`),
    so it stops at the longest that can be gone on with (`FollowIs`).
  - `MatchersReportTheSame` (`MatchersAgree`): the search that restarts one character behind each hit
    finds every place (`FindAllIs`); the sum of widths is the number of bytes before a place, counted as a
    set (`ByteOffsetIs`), in the folded text as in the text (`HitsAre`). Through the file: one more line at
    the end adds exactly one line to what is read (`LineMore`), a line that was written for a pattern that
    survives is read back as its name and the pattern (`SignatureIsRead`), and a made-up name belongs to one
    pattern (`NameIs`).

**Only model-checked.** Liveness (`ScheduleEnds`, `CampaignEnds`, `SweepEnds`, `CallsEnd`,
`CycleEndsUnlessWorkerDied`, `WalkEnds`) is outside the prover's reach. Of the invariants one is left,
`BetweennessIsShareOfPaths`: it compares sums of quotients over all pairs of nodes with the cardinalities
of sets of shortest paths, so a proof has to count those paths and to exchange sums for every graph,
which is induction over data.

## What the code does not keep

Five runs expect a violation; the property states what a line of the repository says.

| Run | Line | What happens |
|---|---|---|
| `wal_crash_recovery` | `core/wal.py:7` | a process dies in the middle of a write; what the next one acknowledges goes behind the torn bytes and no replay reaches it (`core/wal.py:374`). The same holds of a write that raises and leaves a part of its record |
| `daemon_cycles_end` | `core/daemon.py:6` | a probe raises what the worker does not catch, the worker ends before `task_done()`, `queue.join()` never returns, and the daemon waits for good (`core/async_engine.py:117`) |
| `scope_shipped` | `core/scope.py:220` | a number with a fraction stays text (`core/scope.py:320`), so the shipped `config/scope.yaml`, with `timeout_seconds: 2.0` in line 20, is rejected |
| `web_ports` | `core/orchestrator.py:97` | a plan gives its asset step `web_ports` (`core/planner.py:138` hands parameters through, `core/orchestrator.py:100` looks at `ports` only, `modules/registry.py:200` takes them as they are); the walk finds such a port open, and recon connects to it on the target although the scope does not allow it |
| `walk_never_raises` | `modules/discovery/assets.py:17-18` | a name with an empty or too long label raises `UnicodeError` through the walk (`:97` catches `OSError` only; called in `:538` and, before the scope is asked, in `:400`), and so does the port of a `Location` that is out of range (`:343`, outside the try block); the walk ends with nothing |

The passing runs show where the border is: the log loses nothing while no chunk is torn
and its header was written (`AckedDurable`), a cycle ends unless a worker died
(`CycleEndsUnlessWorkerDied`), a documented scope file is accepted but for the values named below
(`ReadsTheSubset`), ports that are connected to are the scope's or were given (`ProbesAreOfTheTarget`), and
nothing but those two reasons ends a walk without its result (`WalkEnds`).

More consequences of the code that the models show and the properties leave room for:

- `core/wal.py:6`: a commit is not atomic; a crash inside it leaves part of the transaction,
  which replay returns.
- `core/wal.py:128`, `:142`: a key file seen by another process between its creation and its write
  is taken for a damaged one and overwritten; hence the condition of `OneKey`.
- `core/wal.py:194`: when writing the header raises, `_v3` is already set: the records that
  follow have no header before them and are unreadable after a restart.
- `core/state.py:90`, `:146`: an event appended behind a partial line becomes part of it, and
  `read_log` skips both, although `log_event` returned: so the outcome of a step that is over may not be on
  record. `AuditAgrees` and `TearCostsOneEvent` bound the loss by the writes that failed.
- `modules/registry.py:230`: pacing and discovery share the first wave, so the scan may run before
  the policy exists; and `discovery_runner` never waits on the pacer, which the same comment says.
- `modules/registry.py:122`: recon probes on its target the ports that the asset walk found open on other
  hosts, and in a second campaign on one `Orchestrator` may report a banner of the first one's target.
- `modules/discovery/goscan_bridge.py:416`: another thread's call clears `LAST_ERROR` before a failed
  caller that is not strict looks. With `strict=True`, as `_go_scan` calls it, a failure is never
  taken for an answer (`AcceptedIsSwept`).
- `modules/discovery/goscan_bridge.py:194`: the write of a request has no deadline and is made with the
  lock held; while a process that lives does not read a request larger than the pipe, no caller returns,
  although "a wedged worker is still killed and replaced rather than blocking forever" (`:422`); hence the
  premise of `CallsEnd`.
- `goscan.go:265`, `:300`, `core/accel.py:813`: an argument that names no valid port, such as the
  reversed ranges `9-2,8-3` or a caller's list without a valid port, sweeps the default ports; hence
  the condition of `SweepsWhatIsNamed`.
- `core/c_core_bridge.py`, `core/rust_bridge.py:237`: a core that passed its probe and fails in a call
  is replaced, by Python or by an empty answer, under the label of the core; `LabelTrueUnlessCoreBroke`
  is what remains true. A batch answered by the executable lacks the banners it could not encode.
- `core/c_core_bridge.py:367`, `:381`: the digest and the open read the file one after the other. When the
  contents change in between, the automaton of the new ones stays under the digest of the old ones and is
  used again when those return, against `:352-353`, "an edited signature file must not keep matching
  against the automaton built from the previous contents". And nothing keeps a thread from releasing an
  automaton (`:378`) that another thread's call is using. `AutomatonIsCurrent` leaves out both, by `slips`
  and `overlap`.
- `core/c_core_bridge.py:476-504`, `core/cores.py:170-175`: an executable that answers "version" is used even if
  it fails the selftest that the health report runs: answers bear the name of a core that is reported as
  failed. `HealthAgreesWithService` names this exception.
- `modules/discovery/assets.py:401`: the host and the addresses of a redirect are checked, its port is not
  checked against the ports of the scope.
- `modules/discovery/assets.py:16`: "Every loop is bounded by `max_hosts` and `max_requests`", but the
  requests sent may exceed `max_requests` by one: redirects and documents are checked against a count
  (`:391`, `:592`) to which they are added when they are done. `RequestsBounded` says by one at most.
- `core/scope.py:232-233`: "quoting is optional, and comments start at `#` on their own line or after a
  value", but a quoted value with a comment behind it is rejected as an unterminated quote (`:314`); and if
  the comment ends with the same quote, it becomes part of the value (`:316`). `ReadsTheSubset` names the
  first (`Rejected`) and leaves out the second (`NoneSwallowed`).
- `core/accel.py` `_c_match`: a signature file loses blanks at the end of a pattern, and an empty pattern
  is read as one that matches its placeholder; `MatchersAgree` speaks of patterns that survive.
- `engine/pattern_matcher.py:100`: a load that fails half-way leaves patterns that are listed and, until the
  next build of the links, found only in part.
- `core/consensus/raft.go:67`: a request from behind the end of the log is accepted, and the commit index
  may cover entries that no request confirmed and outlast a truncation; `LogMatching` is conditioned on `gap`.
- `core/planner.py:206`: `schedule()` keeps the last of two steps with one id, and `from_json()` does not
  check for that; documents come from `to_json()`, whose ids are distinct, hence `InputAssumption`.
- `core/planner.py:217`: with `max_concurrency` zero or below the loop of `schedule()` does not end.

## What is not modelled

Ciphers and digests (a payload opens exactly under the key, layout and salt it was
sealed with), banner and TLS data, formatting of reports, the command line, build
scripts, benchmarks, DNS packets, and random dwell times. Of the scope, a file in JSON and
list items with a colon. Of the recon, the AIMD controller, whose value nobody reads. Of the
store, `delete`, which only a test calls, and `load_all`, which only reads. Of the registry,
plugins. Two live writers of one log are modelled for the key and the layout, but no
property is stated of their records: the code promises nothing there. The verdict rules,
drift, envelopes, the input guard and the balancing algorithms are single passes over one
input without a second definition in the repository that they could be compared with. The C
and Rust sources are covered by what their Python callers and twins make of their
answers; their memory management is outside TLC's reach. `PROJECT.json` names every
component with its status.

## Plan

Done: all modules above and their proofs. What is left, in order of worth:

1. Of `BetweennessIsShareOfPaths`, the part that is about paths and not about sums: that `Explore` finds
   the distances and the number of shortest paths to each node.
2. `delete` of a campaign that runs, if a caller ever does that.
3. Balancing (`engine/algorithms/balancing.py`) and the C automaton as functions against a
   reference.
