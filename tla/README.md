# frp-plus and sing-box-plus: transactions, ledgers and quotas

This directory models the parts of the repository that make promises across
goroutines, processes and failures:

- the **configuration transaction** of frp-plus (`src/frp-plus/agent`,
  `src/frp-plus/monitor`): an administrator edits the configuration of a node in
  the monitor, the monitor sends commands to the agent of that node, and the
  agent replaces the Store file of the native service, applies it, verifies it
  and confirms it, or restores the old version;
- the **ledgers of the monitor** (`src/frp-plus/monitor/control`): one goroutine
  owns the database; traffic totals and the history of tunnels are accumulated
  from reports that are late, lost, repeated or cut by restarts;
- the **accounting of sing-box-plus** (`src/sing-box-plus/internal/userstats`):
  bytes and quotas are counted without locks by the copy loops of the data
  plane while control requests read and replace them, and every connection must
  leave a record in a log whose writes may fail.

Contents: the inventory of the repository, the modules and how they
correspond to the code, the runs with their bounds, fairness, the proofs, what
is known not to hold, what is left out, and the plan.

## 1. Inventory

The repository is a collection of independent projects. The components are
listed in `PROJECT.json`:

| project | what it is |
|---|---|
| `frp-plus` | agent and monitor for frp nodes: telemetry, tunnels, probes, configuration transactions, backup and restore |
| `sing-box-plus` | patches of sing-box: per-user accounting, quotas, access log |
| `ip-certd`, `resend-ticketd`, `vps-trafficd` | small Rust services: DNS names with certificates, mail tickets, traffic of an interface |
| `sing-box-manager`, `sing-box-plus-manager` | Rust controllers of proxy nodes |
| `shadowsocks-rust-plus`, `sub2api-plus` | overlays and patches of upstream projects |
| `sing-box-plus-deploy`, `sing-box-routing` | renderers of configuration files |
| `wxapkg-helper`, `web-standard-kit`, `web-site`, `vps-monitor`, `scripts` | a command line tool, static pages, documentation, scripts |

The modelled parts:

| part | state | operations | what makes it hard | what makes it correct |
|---|---|---|---|---|
| transaction engine (`agent/managed`) | Store file; per operation a journal record and the snapshots `.old`, `.new`; in memory the records, `active`, the worker, `abortCode`, `recoveryGate` | Open, AttachRuntime, Prepare, Apply, Rollback, Query, PruneSnapshots, Close; timers and watchers | every durable write may fail before or after its rename; native hooks run outside the lock, hang, fail, return late; kill at any step; outside writers of the Store | one unfinished operation; recoverable at every step; a final answer is durable and was true; an accepted Rollback wins; a refused undo changes nothing |
| channel (`monitor/config_link.go`, `agent/service/config_control.go`) | one pending command per connection; queue of one; the agent's busy gate and job | ConfigCommand, sendConfigCommand, acceptConfigResult, dispatchConfig, configLoop | commands outlive their callers, provider calls outlive their deadlines and connections | an answer reaches only the request that asked; the agent executes in order, one at a time |
| durable operations (`monitor/control/config_operations.go`) | one row per operation: state, version, agent's view, digest | Create, Get, Transition, ListActive | a transition may commit for a caller that was told otherwise | one active operation per node, versions compared and swapped |
| coordinator and admin API (`monitor/config_coordinator.go`, `config_admin.go`) | the set of nodes being worked on | create, GET, apply, rollback, cancel; the reconcile loop | rows read before the node is held; answers that skip states; restarts of the monitor in any state | intent before command; no inferred outcome; every slot is freed in the end |
| provider (`agent/configuration/bridge.go`) | its gate | HandleConfig: secret, prepare, query, apply, rollback, cancel | errors that come with or without facts | a code without facts means that nothing was left behind |
| control store (`monitor/control/store.go`) | the bounded queue, the batch, `pending`, `ingestErr`, `unhealthy`, `closed` | Accept, call, Flush, Close; the worker `run` with apply, serveCall and the drain | callers whose context ends, a Close that races senders, a batch that stops at a call, transactions that fail, restarts | every call comes back with a true answer; accepted reports are dealt with; a call sees the reports before it; failures are told |
| traffic ledger (`monitor/control/traffic.go`, `nodes.go`) | per node: day, period, totals, partial flags, baseline, revision | observe, refresh, CreateNode, GetNode, UpdateNode | reports wait over midnight, counters begin again, readers move the day | a total not called partial is exact; the day never goes back |
| tunnel history (`monitor/control/tunnels.go`, `tunnel_observer.go`, `tunnel_link.go`) | tables of sources, tunnels, instances and events; the newest snapshot and the observer's position | observeTunnels, IngestTunnelSlice, PruneTunnels; the registry of the native process | a window of events that moves on, slices, lost answers, restarts of three processes, other bindings, retention | each event once and in order; holes are shown; generations are not used twice; the inventory is stored; events arrive |
| accounting (`internal/userstats` of sing-box-plus) | per lineage a counter and a quota cell; the table's epoch; open sessions; the snapshot's sequence | admission, the copy loops, PUT quota, GET snapshot, reload, staleness, cool-down | single atomic loads and stores of loops, enforcement, PUT and GET interleave | snapshots can be billed by difference; the overshoot ends with the Close of enforcement; the newest table rules; a session ends once |
| access log (`internal/userstats/audit.go`) | per writer a queue and counts of drops; the LRU of open files, their buffers, sizes, rotated files | submit, the writer's loop, flush, rotation, eviction, the cap, Close, replacement by a reload | queue full, system calls that fail halfway, connections that end after their writer | a record is on disk, or a gap line or `audit_dropped` tells of it |

Interaction, configuration: a request handler (or the loop) of the monitor
acquires the node, records the intent, sends one command over the node's
connection and waits; the agent's loop hands it to the provider, which calls the
engine; the answer carries the engine's record, which the handler records step
by step. The agent never calls the monitor on its own.

Interaction, ledgers: connection handlers put reports into the queue of the
store and never wait; administrators call and wait; the worker serves the queue
in order. The tunnel observer asks the native process for a snapshot, keeps the
newest, and writes slices of it as calls of that store.

Interaction, accounting: a connection is admitted against its lineage's cell,
then two copy loops count and charge; control requests share the cells and
counters with them and exclude only each other. When the connection ends, it
hands its record to the writer it captured when it began.

The places where this can go wrong, each with its line and the properties about
it, are the `hazards` of `PROJECT.json`. Further ones that no property covers
are in section 7.

## 2. Modules

    AtomicStore            EngineView
        ^  refines             ^  refines        ^ composed with
        |                      |                 |
        +---- ManagedEngine ---+        ConfigTransaction --- ConfigLink
                 ^      ^                        ^
     MCManagedEngine   ManagedEngineProofs   MCConfigTransaction
                                ^
                  ManagedEngineRefinementProofs  ConfigTransactionProofs
                                                 (of ConfigTransaction)

    TrafficLedger <-- ControlStore      TunnelLedger
                              ^          ^        ^
                            MCControlStore    TunnelLedgerProofs
                                    ^           ^
                                  ControlStoreProofs

         UserStats          AuditTrail
          ^      ^           ^      ^
          |       MCUserStats       |
   UserStatsProofs     ^     AuditTrailProofs
               ^       |       ^
               MCUserStatsProofs

### ManagedEngine

The engine in full. Durable state is `store`, `file` and `jrn`; the memory of
the process is `proc`, `rec` (e.records), `active`, `abort` (abortCode # ""),
`gate` (recoveryGate); `pc`, `job`, `ctx`, `ret`, `cur` belong to the one thread
that owns the worker lease or a critical section of several writes. `late` is
the deadline, `runtime` what the native service serves.

- **Granularity.** Every durable write is a step: a kill may come between any
  two. `e.mu` is held exactly while `pc` is in `LockedPcs`; other handlers
  require `LockFree`. A hook is two steps, its run and its return (`a_apply`,
  `a_applied`), so that timeouts, Rollback and Close can come while it runs and
  also between `ctx.Err()` and the next lock.
- **Writes.** `Results`: a write succeeds, fails before the rename (`lost`) or
  reports an error after it (`installed`), as `privateDir.replace` can.
- **SetState** is `e.state`: a failed save leaves `outcome_unknown` in memory.
- **Hooks** are nondeterministic: Check may refuse; Apply may fail and leave the
  old version, the new one or a mixture; Verify passes only if the runtime
  serves what it was asked about. A panic or a hang is a failure or a late
  return.
- **A crash** is a kill of the process: what was renamed stays.

Handlers correspond one to one to methods (`Prepare`, `Apply`, `ApplyRefused`,
`RollbackRunning`, `RollbackPrepared`, `RollbackConfirmed`,
`RollbackUnfinished`, `ExpirePrepared`, `CloseRunning`, `CloseIdle`,
`AttachRuntime`, `PruneExpire`, ...), the worker's steps to the lock sections of
`applyWorker`, `rollbackWorker`, `rollbackConfirmed` and `rollbackAfterCheck`.
Handlers that end without changing anything (already prepared, busy, expired
materials) are not actions.

### AtomicStore

What the engine promises of the Store: a status per operation (idle, open,
committed, reverted) and its two versions. Only an open operation moves the
Store, only between its own versions; it is committed with the new version in
place and reverted with the old one; a finished one is reopened only from the
version it left. `ManagedEngine` implements it with the status read off the
journal alone (`Promise`), so kills, faults and recoveries are stuttering or
abstract moves. It describes no single piece of code and has no `map` entries.

### EngineView

The engine as the monitor can see it: per operation the state in memory (the
answer to Query) and in the journal (what a restart finds), and the kind of
worker that may still change it. `ManagedEngine` implements it (`View`: a state
is visible while the engine serves; an operation being reserved by Prepare is
not yet). The composition uses this module in place of the engine, so each of
its steps is one the full engine was shown to be able to hide behind.

### ConfigLink

The channel of one node. `pending`, `queue`, `conn` are the monitor's end,
`busy`, `job`, `call` the agent's, `wire` and `out` what is under way.
`Disconnect` drops what is under way; a job and a call keep running with a dead
context. `call.late` is a call past its deadline whose answer was already given
as "timeout"; `Release` frees the busy gate after the result was offered, as
`configLoop` does.

### ConfigTransaction

The composition: the rows (`op`), the threads of the monitor (`h`: administrators
and the reconcile loop), the coordinator's reservation of the node (`gate`), the
channel and the engine. A thread goes through `read`, `call`, `wait`, `mark`
(intent), `record`, `stored`, `settle` and `unknown`, which are the points
between which another actor can act; each record is one transaction of the store
(`Transition`, with the guards of `TransitionConfigOperation` in `Legal`). The
provider's methods are actions of the agent (`Prepare`, `Apply`, `Rollback`,
`Missing`, `Known`, `Join`, ...). Time-outs, lost connections, kills, failed or
unseen commits, refusals and writes that fail at the engine are counted by
`mishaps`.

Abstractions, with the reason they are sound for the properties:

- `Version` is exact. The monotone `UpdatedAtMS` comparison of views is left out:
  there is one order of answers per operation, since the node is reserved for
  the whole exchange.
- The store's queue is served by one worker in order, so a request whose caller
  has left (`store.go:514`) commits before any later request of the same
  process: `unseen` commits at once and reports an error.
- An audit row that cannot be written before a command, a missing rate token, a
  missing link are one thing: `NotSent`.
- The 16 remembered request IDs are not modelled; `Fresh` picks an ID nothing
  carries, as a random one would be. `Ids` bounds how many are in use.
- Several secrets are one round; `inspect` moves nothing.
- The five-step bound of `recordConfigResult` is never reached: no path of
  `StepTo` takes more than four transitions.

### TrafficLedger and ControlStore

`TrafficLedger` is the arithmetic of one node's row: `Refresh` moves it into the
day and period of an instant, `Observe` applies a report, `Updated` is what an
administrator changes. The calendar is a parameter (`DayStart`, `PeriodStart`,
`PeriodEnd`): the code works on dates of two time zones. One counter stands for
received and sent bytes, which go through the same lines.

`ControlStore` is the goroutine that owns the database. `queue` is the bounded
channel, `worker` the goroutine: its place in `run` (`at`), whether it drains,
the batch, the working copy `tx` of the transaction and the call a batch stopped
at (`pending`). `call[c]` is one caller: waiting for room, waiting for the
answer, returned. Choices of a `select` are disjuncts; that the second select
looks once more for an answer when the worker has ended is `Answer`. A failing
transaction is `RollBack` or `Refuse`; a kill or restart at any step leaves the
database only (`Restart`).

Abstractions: `serveCall` is one step, since nobody else touches the database;
a batch is applied report by report to the working copy, so that a kill or a
failure can come in between. Adjustments of the used bytes, changes of the
reset day and zone, a clock that is set back, other nodes and DeleteNode are
left out.

### TunnelLedger

The native process numbers the events of its tunnels and shows the last ones
(`Window`) with the present objects; `SnapshotEvents` and `SnapshotObjects` are
two steps because objects are read after the lock is released. The monitor keeps
the newest snapshot (`report`); the observer (`observer`) remembers how far it
got in it. A transaction (`work`) reads the position of the source
(`BeginSlice`, with the gap rows), writes events and then objects within its
`Budget` (`WriteEvent`, `WriteObject`) and commits; it may fail (`LoseSlice`) or
commit without its observer learning it (`CommitSlice(FALSE)`). `Upsert` is the
upsert of a tunnel and of an instance, `Prune` the retention with its three
rounds. `NativeRestart`, `Reconnect`, `MonitorRestart`, `Rebind` and `Learn` are
what changes around it; the server's source lives and dies with the monitor.

Abstractions: one source and one proxy name; a tunnel that is shared by server
and client sources is modelled per source. Left out: the capacities of the
tables and `ErrTunnelBusy` (the slice does not begin), the `SameTunnelOrigin`
conflict, the overlay of live counters. Ages are not modelled: whatever could be
too old may be forgotten.

### UserStats

Every atomic load and store of the copy loops and of admission is a step, as are
the stores of a PUT (`PutLift` and `PutClear`, `PutGrant`, `PutLimit` and
`PutCool` per lineage, then the three that publish the table) and the loads of a
GET. Enforcement is three steps: `EnforceMark` swaps the flag, and only the loop
that found it clear goes on to `EnforceDeny` (the cool-down) and `EnforceClose`;
the others copy on until then. `apply` and `snap` are the two mutexes. `bill`,
`chunks`, `reloads`, `conn[c].over` and `conn[c].late` are history: the chunks
charged to a used-up quota, and the loops whose present chunk was copied while
another loop was between mark and Close (`Cutting`). A chunk is one byte; a closed
connection copies no more, but a loop that has copied charges what it has.

Abstractions: the four directional counters of a lineage are one; counting and
marking the overflow are one step. Draining, anonymous and unknown identities
(rejected before any state), invalid bodies, `runtime_mismatch` and telemetry
counters are left out, as is the snapshot of a registry without lineages. A
half-closed direction is a loop that takes no step.

### AuditTrail

`connState[r]` is a connection with the writer it captured; `queue`, `gaps`, `noted`
belong to a writer, `files` to the one writer goroutine that is alive, with the
directory. Operations on files give the set of their outcomes, as each system
call in them may fail. Connections that submit after their writer took the last
look into its queue are `late`, the one loss the code accepts without a trace
and the property names. A crash of the process is outside: its README accepts
the loss of the buffers. Left out: the exclusion filter, sequence numbers,
files moved by others, torn lines.

Lines are counted by weight: `Amount` adds up what the members of a sequence
weigh, `InLog` does so over the rotated files, the disk and the buffer of an
identity, `InQueues` over all queues. `Copies`, `Recorded` and `OpenGaps` are
the same sum with different weights.

## 3. Runs

`MCManagedEngine` and `MCConfigTransaction` add the symmetry sets.
`MCControlStore` puts the store and the tunnel history side by side, `MCUserStats`
accounting and the access log: they share no variable, and a behaviour explores
one part while the other rests. Sizes are distinct states.

| run | instance | checks | size |
|---|---|---|---|
| `engine_faults` | 1 operation, 3 versions, 2 faults, 1 crash, 1 outside write, two of these together | TypeOK, Recoverable, TerminalIsDurable, WireValid, RefusedUndoKeepsHistory, AbortWins, OutcomeIsObserved, ImplementsEngineView | 698 k |
| `engine_two_ops` | 2 operations, 2 versions, 1 crash | SingleUnfinished (no write fails here), ImplementsAtomicStore, ImplementsEngineView | 890 k |
| `engine_fair` | 1 operation, 2 versions, 1 fault, 1 crash, fair | EngineSettles, ImplementsAtomicStore | 60 k |
| `config_requests` | 1 operation, 3 requests (creation, apply, rollback, cancel), 1 mishap | IntentFirst, OutcomeIsJournalled | 1.1 M |
| `config_two_ops` | 2 operations, secret and prepare, 2 requests, 1 mishap | TypeOK, EndedHasNoWork, UnfinishedHoldsSlot | 1.4 M |
| `config_liveness` | 1 operation, 2 requests, 1 mishap, fair | SlotIsFreed | 363 k |
| `userstats` | accounting: 2 lineages, 2 connections of 2 loops, 2 control requests, 3 chunks, 2 epochs, 1 reload; log: 3 connections, 2 writers, 1 failing call, queue and LRU of one | TypesOK, SnapshotsMonotone, FinishedOnce, OvershootBounded, NewestTableRules, LossIsTraced, CloseKeepsAll, GateIsJustified | 363 k |
| `monitor_store` | 2 callers, 3 reports, queue and batch of 2, 4 instants with a day and a period inside; history: 2 instances, 3 events, window 2, budget 1, 2 processes, 2 sessions, 2 bindings | TypesOK, ExactTotals, AnswerIsTrue, CallSeesItsReports, AcceptedIsDrained, FailureIsTold, RecordedInOrder, MissingIsShown, GenerationFresh, InventoryIsStored, DayNeverReturns, EverybodyReturns, EventsReachLedger | 373 k |
| `engine_lost_intent` | 1 operation, 2 faults | RollbackIntentDurable is violated | |
| `config_undo_slot` | 1 operation, 3 requests (creation, apply, rollback), 1 mishap | RollbackFailedHoldsSlot is violated | |
| `config_draft` | 1 operation, 1 request, 1 mishap, fair | FinalIsLearnt is violated | |
| `userstats_unlimited` | as `userstats` | UnlimitedIsFree is violated | |

What the runs say, the configuration:

- *Recoverable*: at every step, killed there, Open accepts the directory and
  finds the Store at one of the two versions of the unfinished operation.
- *TerminalIsDurable*: a state the engine calls final is in its journal, unless
  retention has shut the engine (`recoveryGate`).
- *WireValid*: records always pass the validation of the wire type, else the
  answer would lose its facts.
- *AbortWins*, *OutcomeIsObserved*, *RefusedUndoKeepsHistory*: the three promises
  made to an administrator who stops, trusts or undoes an operation.
- *EngineSettles*: a worker ends, and a preparation nobody applies expires.
- *EndedHasNoWork*: rejected, conflict or cancelled without a view means that
  nothing exists at the agent, also after lost answers, busy agents and
  `operation_not_found`.
- *IntentFirst*: a command that may still run is announced by the row.
- *OutcomeIsJournalled*: a row ends with the journal's outcome.
- *UnfinishedHoldsSlot*: unfinished work at the agent has an active row, or one
  that says confirmed (see section 6).
- *SlotIsFreed*: see the next section.

Store and ledgers:

- *ExactTotals*: a total that is not called partial is what the host transferred
  since its range began, up to the last report, whatever was dropped, lost with
  a batch or a restart, or cut by midnight, a reset or a boot.
- *DayNeverReturns*: a report that waited over midnight does not bring back the
  day a reader has left.
- *AnswerIsTrue*: success only of a committed call; "closed", a conflict or a
  failure only of one without effect.
- *CallSeesItsReports*, *AcceptedIsDrained*, *FailureIsTold*: calls and reports
  keep their order though a batch stops at a call; nothing accepted is left in a
  queue nobody reads; a failed batch is told to a Flush or to Close.
- *EverybodyReturns*: every call and every Close comes back.
- *RecordedInOrder*, *MissingIsShown*: an event is recorded once and in its
  order, and no hole is silent.
- *GenerationFresh*: two instances of a tunnel never share a generation.
- *InventoryIsStored*: when the observer calls a snapshot complete, its open
  instances are in the database.
- *EventsReachLedger*: however often the snapshot changes before it is written.
  Behaviours in which all is stored and only snapshots go on are fair ones.

Accounting:

- *SnapshotsMonotone*: snapshots in the order of their numbers never go back or
  lose a lineage.
- *OvershootBounded*: past the end of a quota a connection charges at most one
  chunk per copy loop, besides those copied between the mark of enforcement and
  its Close. In that window the other loop may charge any number: it finds the
  mark and returns. The property rules out that this goes on once a Close came,
  and that a connection is marked and left open.
- *NewestTableRules*: when no PUT is under way, the cells are those of the table
  with the highest accepted epoch.
- *GateIsJustified*: nobody is cut, or turned away as exhausted, before the quota
  the current table grants is used up.
- *FinishedOnce*: a connection is counted off once and recorded once.
- *LossIsTraced*, *CloseKeepsAll*: a record is on disk or announced as lost; a
  Close without failures keeps all.

Bounds and why they suffice. Operations compete only for the gate and, at the
monitor, for the slot: two show every competition between an old one and a new
one. Two versions are an old and a new one; the third is a foreign one. Each
recovery path handles one failure at a time; a second fault is allowed where it
matters (`engine_faults`), and it is the second fault that refutes
`RollbackIntentDurable` and would refute `ImplementsAtomicStore`, which is why
the refinement runs allow one. Three requests are the longest useful sequence of
an administrator on one operation (create, apply, then roll back); a longer one
repeats pairs already met, from rows that are the same but for their version.
One mishap interrupts any of these sequences at any step. `LaterActs` leaves the
administrator's GET out of the long sequences: it runs what the reconcile loop
runs, which is never bounded. `SnapshotQuota` of 4 files admits two operations;
`ResultCap` is 2 where the code has 4, since at most one call and one refusal
are under way.

In `userstats` the two copy loops of a connection meet those of another one or
two control requests: three actors at a time (`ThreeAtOnce`) are enough, since
every conflict in this code is between a loop and one or two requests. A third
chunk is copied with at most one connection and one control request (or reload):
the window between mark and Close of a connection needs it, after one PUT. Tables
have at most one lineage, so that a second PUT lifts what the first limited. The
log has one place in its queue and one open file, so that the second connection
finds both taken. The counter saturates at 2 with 3 chunks.

In `monitor_store` a behaviour chooses one of three parts. "traffic": the clock
runs over midnight and a reset day, with one of a boot, a restart that loses a
transaction, and a change by an administrator. "calls": one instant, two
reports, failures, contexts that end, Close. "tunnels": one mishap of restart,
reconnect, rebinding, failure, retention; three events, fewer with restarts. A
snapshot that was written whole under the binding the service knows (`Stored`) is
not written again until something changes: the code does so each minute and finds
nothing new. After another binding it is written again, as in the code. Without
this bound retention and rewriting would make new numbers without end.
Nothing else moves while a transaction of the history runs, which loses nothing:
the transaction reads what it needs at its beginning, so that any other step
commutes to before it or after it. The theorems of section 5 have none of these
bounds.

Deadlock is checked in the other runs of the engine. It is not checked in
`engine_faults` (an outside writer can leave a directory that Open rightly
refuses for good), in the composition (when requests and mishaps are used up and
everything is settled, only the loop remains, and it only reads active rows), in
`userstats` (chunks and epochs are used up) nor in `monitor_store` (all reports
are in, every caller has returned); that nobody waits for ever there is what
`EverybodyReturns` and `EventsReachLedger` say.

## 4. Fairness

`ManagedEngine`: the worker's goroutine, the continuation of a handler that
holds the lock and of Open, the passing of a deadline and the timer of a
preparation are weakly fair, since the Go scheduler and timers give them that. A hook
returns: `types.go` demands that hooks honour their context, and every phase has
a deadline. Requests, kills, faults and outside writers are never obliged to
happen. `EngineSettles` holds under this.

`ConfigTransaction`: threads of the monitor, delivery, the agent's loops, the
provider and the reconnect loop are weakly fair. `EngineOpens` assumes that a
stopped agent is started again by its service manager. `WorkerStep` and the expiry of a
preparation are what `EngineSettles` establishes of the full
engine. The loop's `Read` of an operation is strongly fair: its cursor visits
every active row in turn, while a row may repeatedly leave and rejoin the set.

`SlotIsFreed` says that an operation's slot is free again and again, or finally
the agent itself keeps it unfinished (`rollback_failed`, `outcome_unknown`, which
need an administrator by design), or it is one of two known leftovers:

- `Orphaned`: the journal of a preparation was never written, the monitor saw
  its digest in the answer, and the agent restarted. `operation_not_found` is
  ignored once a digest is known (`config_coordinator.go:199`).
- `Unassignable`: see `FinalIsLearnt` in section 6.

`ControlStore`: the worker, each caller that is under way, and the end of Close
are weakly fair: goroutines the scheduler runs, and a `select` with a ready case
proceeds. Nobody has to call, to close, to restart or to send a report, and a
context need never end.

`TunnelLedger`: taking a snapshot and going on with a slice are weakly fair; both
are loops driven by a ticker of one second. Busy locks, incomplete snapshots and
failing transactions come finitely often (`MaxLost`): nothing in the code holds
those locks for ever. In the run a slice is fair while not all is `Stored`
(`MCTunnelFairness`), the very guard its bound puts on slices, so that a history
that has come to rest is a fair behaviour.

`UserStats` and `AuditTrail` state no liveness.

## 5. Proofs

All theorems hold for every value of the constants that the named assumptions
allow; the assumptions are evaluated in the runs.

### The engine (`ManagedEngineProofs`)

For any sets of operations and versions and any number of faults, crashes and
outside writes (`ConstantsAssumption`: the special values are distinct from the
others, the bounds are naturals):

- `TypeCorrect`: `Spec => []TypeOK`
- `OneUnfinished`: `Spec => []SingleUnfinished`
- `Inductive`: `Spec => []IInv`, from which both follow

The run checks `SingleUnfinished` with a kill but without failing writes; that it
survives those too is known from `OneUnfinished` alone.

`SingleUnfinished` speaks of the journal only and is not inductive: Prepare checks
`e.active` in memory, not the disk. The strengthening `IInv` says why that is
enough:

- `GateHeld`: what is unfinished in memory is `active`; so one at most.
- `GateCovers`: what is unfinished on disk is unfinished in memory. This is where
  the failed writes matter: `SetState` leaves `outcome_unknown` in memory when a
  terminal state could not be recorded, and Prepare leaves its reservation.
- `LeaseHeld`: whoever works on an operation, other than pruning, has the gate
  for it, so its records are the ones covered.
- `DownIsIdle`: a stopped process has no thread.

There is one lemma per action; `SetStateEffect` and `SetStateGate` carry the
argument for all actions that record a state, `WorkerRecords`, `WorkerMoves` and
`WorkerSaves` the three shapes of a worker's step, `HandlerRecords` and
`HandlerLaunches` those of a handler. `PowerOffIInv` and `OpenIInv` do the
restart: memory is emptied and then equals the journal.

### The records of the engine (`ManagedEngineProofs`, second part)

Under the same assumptions, on top of `IInv`:

- `FactsHold`: `Spec => []FInv`, the inductive invariant
- `AnswersAreDurable`: `Spec => []TerminalIsDurable`
- `RecordsAreValid`: `Spec => []WireValid`
- `RefusalsChangeNothing`: `Spec => []RefusedUndoKeepsHistory`
- `AlwaysLoadable`: `Spec => []Loadable`

None of them is inductive. `FInv` says of every program counter what the code
before it has established. `DataInv` relates memory, journal and snapshots:
memory knows what the journal knows, about the same versions (`Follows`), the
materials of a record stay until the journal says that it is expired (`Kept`),
a preparation that was answered is journalled, and so is a record that needs
recovery. `ControlInv` is about the thread: Prepare writes both snapshots before
the journal (`Reserved`), a worker has a journalled record that is unfinished
until its last step (`Leased`), each program counter belongs to certain workers
(`KindsFit`) and has collected certain facts (`FactsCollected`), and an undo
remembers the record it started from (`Undoing`). `SetStateRecords` is the lemma
all steps that record a state rest on: the journal has the new record or the old
one, and memory says `outcome_unknown` unless the save was reported successful.

### The outcomes of the engine (`ManagedEngineProofs`, third part)

- `KillsAreRecovered`: `Spec => []Recoverable`
- `OutcomesAreObserved`: `Spec => OutcomeIsObserved`
- `RequestsWin`: `Spec => AbortWins`

`GInv` adds to `FInv` that, as long as nobody else writes the Store, it holds one
of the two versions of the unfinished operation (`PlanInv`, about the journal when
the process is down and about memory when it is up), and that what a successful
Verify has seen is still served when its result is read (`ObsInv`). `StepIsGood`
shows for every action that it preserves both and records an outcome only as
`OutcomeOK` allows; the two action properties follow from it.

### What the engine implements (`ManagedEngineRefinementProofs`)

An atomic Store, under a bound on what fails:

- `EngineIsAtomic`: `MaxDrifts = 0`, `MaxFaults <= 1` imply
  `Spec => ImplementsAtomicStore`
- `IntentIsDurable`: the same imply `Spec => []RollbackIntentDurable`

The refinement maps the record of an operation in the journal to idle, open,
committed or reverted; memory is not mapped at all, which is the point: a crash
is a stutter. The hypotheses say how far the promise of the code goes (the run
`engine_two_ops` checks the refinement with no failed write at all). With an
outside writer the Store is not the engine's to promise. With two failed writes the refinement is false:
`engine_lost_intent` shows the Store overwritten without an intent, and
`IntentIsDurable` that one failed write cannot do that. `KInv` adds to `GInv`
what a single failure leaves (`Plain`): memory and journal are at odds about an
outcome only after it, and the Store then is what the journal says; an operation
that is merely prepared has not touched the Store. `Seat` says at which program
counters the intent is in the journal and the Store unchanged since the check.
`JournalStep` lists what may become of one record, and `RefinesRecord` and
`RefinesMove` turn that into a step of `AtomicStore`.

What a peer may assume of it, with no bound at all:

- `EngineIsItsView`: `Spec => ImplementsEngineView`, for any operations, versions,
  failed writes, crashes and outside writers

`ConfigTransaction` uses `EngineView` in place of the engine, so with this theorem
the proofs about the composition speak of the full engine as far as the mapping
goes: what Query answers and what a restart finds. `VInv` adds to `FInv` the
four facts that the view depends on and the records do not show (`SightInv`):

- `OpenReads`, `OwedRecovery`: while Open recovers, memory and journal agree on
  each state, and `AttachRuntime` finds the recovery as Open left it; otherwise
  a restart could show something that was never recorded.
- `PhaseCtx`: only a hook has a context that can be cancelled.
- `FirstPhase`, `FirstWrite`: until it has been stopped, an apply works on the very
  record that is in the journal; what Query answers of it is what a restart would
  find.

There is one lemma per action (`...Seen`): the step is a step of the view, or
leaves it unchanged, and preserves `SightInv`; `StepIsSeen` puts them together.
The worker of the view is what it may still do (`SeenKind`), which changes at the
program counters where the thread gives up one of its possibilities.

### A configuration operation from end to end (`ConfigTransactionProofs`)

For any operations, request IDs, administrators, capacity of the agent's results,
requests and mishaps (`ConstantsAssumption`):

- `Inductive`: `Spec => []Inv`
- `TypesHold`: `Spec => []TypeOK`
- `IntentsPrecede`: `Spec => []IntentFirst`
- `EndedIsGone`: `Spec => []EndedHasNoWork`
- `OutcomesAreTrue`: `Spec => []OutcomeIsJournalled`
- `SlotIsHeld`: `Spec => []UnfinishedHoldsSlot`

The properties relate the database of the monitor to the journal of the agent,
with a channel in between that loses, delays and outlives its callers. The
argument rests on three facts about an operation that the engine never takes
back, whatever it does and however often it dies: there is no record of it
(`NoRecord`, as long as no prepare of it is under way: `Unborn`), it ended without effect
(`Final`), it was confirmed once (`Past`). The first part of the module shows
that (`EngineStable`, from `EngineInv`). `Inv` then says

- of the rows (`RowTrue`) which of these facts each state stands for;
- of the commands that may still run, `Live`, that the row has their intent
  (`IntentsFirst`), a prepare only of a row without a candidate;
- of each thread (`SeatedAt`) that it is at work exactly if it has the node, that
  its copy is the row if the version is, and what it has learnt: a thread about to
  record a result has a fact, and nothing else of the node is under way
  (`RecordAllowed`); one about to end an operation without facts knows that it is
  unborn (`SettleAllowed`);
- of the channel (`Fence`, `AnswersTrue`) that an awaited request has one carrier
  at a time, which is the youngest, so that when its answer is written no older
  command of any operation can still run, and that an answer stays true until it
  is read.

The version check of `TransitionConfigOperation` is what makes a thread's copy
usable; the serial order of the agent (`configLoop`, the busy gate) is what makes
"no such operation" a fact. The lemmas `EngineStepsKeep`, `ChannelStepsKeep`,
`ProviderKeeps`, `ThreadKeeps`, `DeliverKeeps`, `AgentDiesKeeps` and
`MonitorDiesKeeps` show one group of actions each.

### The store and the traffic ledger (`ControlStoreProofs`)

For any calendar whose days and periods begin before the instants in them
(`CalendarAssumption`), any counter that does not fall without a boot, any
capacity, batch limit, callers, failures and restarts (`StoreAssumption`):

- `StoreTypeCorrect`: the row keeps its type and the queue its capacity
- `TotalsAreExact`: `Spec => []ExactTotals`
- `TheDayNeverReturns`: `Spec => DayNeverReturns`
- `AnswersAreTrue`: `Spec => []AnswerIsTrue`
- `CallsSeeTheirReports`: `Spec => []CallSeesItsReports`
- `AcceptedIsDealtWith`: `Spec => []AcceptedIsDrained`
- `FailuresAreTold`: `Spec => []FailureIsTold`

`ExactTotals` speaks of the committed row. Its strengthening `StoreInv` says the
same of the working copy of a batch (`WorkerInv`), that every report in the
queue, in the batch or put aside is a true reading of the counter, and of both
totals that they are zero as long as no report is later than the beginning of
their range (`TrueRange`), which is what a report exactly on the boundary needs.
The lemmas `RefreshKeepsTrue`, `CreditedRange`, `EstimatedRange`,
`RecordKeepsTrue`, `ObserveKeepsTrue` and `UpdatedKeepsTrue` are about
`TrafficLedger` alone: what the arithmetic does to a true row and a true report.
For the day, `DayInv` says that no report and no row is ahead of the clock and
that the working copy is not behind the row it was begun from.

The four theorems about the callers share `CallInv`. A call is in one place at a
time: in the queue, held by the worker (served, or put aside when a batch stopped
at it) or answered (`Distinct`, `Held`); as long as it may be served it has no
answer and its caller still waits or has left with its context (`Unserved`). That
is why a call is answered once, and why an answer cannot bury the news of a failed
batch. `Numbering` gives every request in the queue its number in the count of the
accepted reports, from what the worker has taken (`Ahead`) to what was accepted; a
call carries the number it was queued at, so when it is served the reports applied
are those. `DrainInv`: an ended worker has drained, and what follows are calls.

### The tunnel history (`TunnelLedgerProofs`)

For any numbers of instances, processes, sessions, bindings and failures and any
sizes of window, ring and budget (`TunnelAssumption`):

- `LedgerIsTrue`: `TunnelSpec => []LedgerInv`, the inductive invariant
- `EventsAreRecordedInOrder`: `TunnelSpec => []RecordedInOrder`
- `MissingEventsAreShown`: `TunnelSpec => []MissingIsShown`
- `GenerationsAreFresh`: `TunnelSpec => []GenerationFresh`
- `InventoryIsInTheDatabase`: `TunnelSpec => []InventoryIsStored`
- `HistoryIsTyped`: `TunnelSpec => []TunnelTypeOK`

The tables alone are not enough, since a transaction is many steps: `WorkInv`
says that its copy is the tables with more rows, that they are in order up to the
event the transaction has reached (`Reached`), and that a hole before its next
event is already announced (`NextIsTold`). What makes this inductive is that
every row but the gaps is matched by the position of its source (`EndsAt`): the
last event of a source is the one its position names, so that the next one is
its successor or comes after a gap row. Retention cuts the oldest rows, which
keeps the order (`SuffixKeepsOrder`) but not the explanation of the first row
left, which `pruned` excepts; a source may be forgotten only when no row names
it. Nothing is assumed about the process: a snapshot is any window with a first
number.

For the generations (`Fresh`): the numbers of tunnels are at most the counter,
which only grows, no two tunnels have the same number, and every generation
that was ever committed, or that a transaction has written, is at most that of
its tunnel while there is one. A tunnel that goes with its last instance comes
back under a new number.

For the inventory (`InventoryInv`) the difficulty is that snapshots have no
numbers of their own: the observer compares them by content (`Hash`), so that one
may come back after another one was seen, and be taken for the one that was
written. The argument is about time. `NextLength`, the number of the last event
in the next snapshot to come, never falls within a session; a snapshot seen earlier ends no later
(`Earlier`), and one that is not the newest and ends before `NextLength` never
comes back, so nothing needs to be true of it (`Live`). One that may still come
back ends at the newest event, so that nothing has happened since: whatever was
taken in between shows the same objects (`Agree`, `Returned`), and writing that
one does not disturb what the observer believes to be stored (`Covered`). An
event is never written after the objects of a live snapshot (`NothingToRead`),
since it would have to be newer. `Seen` and `Copied` say that the first `offset`
objects are in the tables and in the copy of the transaction; retention spares
open instances of an observed source (`PruneStored`), and a new session or
binding makes everything seen before worthless rather than wrong (`Current`).

### Accounting and quota (`UserStatsProofs`)

For any number of lineages, connections, copy loops and control requests, any
tables and any bounds (`UserStatsAssumption`: a table maps lineages to naturals,
the connections under way and the copy loops of each are finitely many, the
special values are distinct):

- `AccountsAreTyped`: `Spec => []TypeOK`
- `OvershootIsBounded`: `Spec => []OvershootBounded`
- `SessionsAreExact`: `Spec => []SessionsExact`, one half of `FinishedOnce`
- `SnapshotsAreMonotone`: `Spec => []SnapshotsMonotone`
- `NewestTableRulesAlways`: `Spec => []NewestTableRules`
- `GateIsAlwaysJustified`: `Spec => GateIsJustified`

Each rests on `Shape`, the inductive form of the types (a table under way speaks
of known lineages only), and on one invariant of its own:

- `Meter`: the chunks a connection took over its quota are at most its spent
  loops: those in enforce, those outside a chunk once it is marked or closed, and
  those whose chunk is late. A connection that is marked is closed, or a loop is
  about to close it; so what is copied after the mark is late or not copied at
  all, and every other charge over the quota makes its own loop a spent one.
- `Opened`: with `Meter`, a loop that closes belongs to a live connection, and
  only a live connection is finished, so the first Close takes exactly one away.
- `Shots`: the reader holds the lock and the last number; what it has seen and
  what it still has to see are all known lineages; whatever was shown before is
  not above the counters now. So what is read next cannot be below it.
- `Rules`: one PUT at a time is between its check and its last store; `Undone` is
  the set of lineages it has not set, the cells of all others are right already;
  its epoch is above all applied ones. A reload waits for it, and what a reload
  adds has no limit and is in no table.
- `Ledger`: what remains is what was granted less what was charged. It holds of
  granted cells only: `UnlimitedIsFree` (section 6) fails on the others.

### Access log (`AuditTrailProofs`)

For any identities (finitely many), connections, writers and failed system calls
and any sizes of queues, buffers, files, the LRU and the directory
(`AuditAssumption`: every connection has an identity, the sizes are positive):

- `LogInvariant`: `LogSpec => []LogInv`, the inductive invariant
- `LogTypes`: `LogSpec => []LogTypeOK`
- `RecordsOnce`: `LogSpec => []RecordOnce`, the other half of `FinishedOnce`
- `LossesTraced`: `LogSpec => []LossIsTraced`
- `ClosesKeep`: `LogSpec => []CloseKeepsAll`

The difficulty is that an operation on the files is a set of outcomes, reached
by a chain of steps over all open files in any order, and that the properties
count lines over everything the writer has ever kept. The proof therefore does
not follow lines but weights. For any weight of lines (a stop line weighs
nothing), `Traced(f, g, v, W, n)` says that from the files `f` to the files `g`
the log of `v` has gained `n`, or less and then a drop was noted, and never more.
It composes (`TracedBoth`), so that there is one lemma per operation: a flush,
a rename, an eviction and a reopen keep every weight (`Kept`), a line adds its
own weight to its identity (`Written`), and the total cap takes a file away and
puts an open gap in its place (`Removed`). A flush that fails halfway has written
a prefix of the buffer, so that it can lose but not repeat. `Sound` is what the operations
need and restore: only open files have buffers, no buffer is full beyond its
bound.

On top of these, `LogInv` has one conjunct per promise:

- `Typed`: the types, with `Sound` files between two steps;
- `Phased`: writers follow each other, and the attached one is in its loop;
- `Emptied`: what is in the queue of a writer past its drain was sent late, what
  is counted at a writer that has ended was dropped late, and with no writer at
  work no buffer has a line;
- `Once`: a record has at most one copy, and none before it was handed over.
  Without the second half it is not inductive: `Submit` makes a copy;
- `Accounted`: the books of each identity. Submit adds one to what was sent and
  one to a queue or a count; TakeRecord moves one from the queue to the files; the
  tick and the end of a writer move counts to gap lines; only the cap breaks the
  balance, and opens a gap.

The properties are `Traced` read with three weights: a record of its own weighs
one; a record line weighs one and a gap line as much as it counts; an open gap
weighs one.

`Amount` is a recursive function, and what it computes is proved rather than
checked: the induction theorems of the library take an operator, but a set of
numbers that has 0 and every successor has every number (`SetInduction`, from
the minimum of a well-founded order), which is enough to show that a function
defined by recursion over `0..n` exists and unfolds (`RecursionExists`,
`AmountUnfolds`). The same induction runs the chains over the open files
(`ChainCarries`).

### Both parts of a run (`MCUserStatsProofs`, end of `ControlStoreProofs`)

The runs `userstats` and `monitor_store` put two specifications side by side.
`BothParts` and `BothHalves` show that their behaviours are behaviours of each,
whatever the bounds of the run cut off. Hence `TypesOfBoth` (`TypesOK`, in each
of the two) and `FinishedConnectionsOnce` (`FinishedOnce`).

### Not proved

Every invariant and every action property of the passing runs is stated by a
theorem. Only model-checked are the liveness properties (`EngineSettles`,
`SlotIsFreed`, `EverybodyReturns`, `EventsReachLedger`): fairness and `ENABLED`
are out of the prover's reach.

## 6. What does not hold

Four statements of the repository are refuted by runs with
`expect: violation`; `PROJECT.json` quotes them.

1. `RollbackIntentDurable` (`runtime.go:311`). After the save of "confirmed"
   reported an error although it was renamed, and the save of "rolling_back"
   failed, the old Store is written under a journal that says confirmed. A kill
   at that moment is not recovered.
2. `RollbackFailedHoldsSlot` (`README.md:178`). The undo of a confirmed operation
   may take longer than the request. The row settles on confirmed again, the
   undo fails, and no transition leads from confirmed to what the agent reports.
   `UnfinishedHoldsSlot` is therefore stated with confirmed rows excepted.
3. `FinalIsLearnt` (`todo.md:334`). A monitor killed between a prepare and its
   answer leaves a draft; when the agent reports it cancelled, the transition is
   refused because a digest comes with it, each time, until an administrator
   cancels.
4. `UnlimitedIsFree` (`quota.go:53` of sing-box-plus). A PUT that lifts a quota
   stores "unlimited" and then clears the remaining bytes; a loop or an admission
   that has loaded the old state charges or reads the cleared cell, finds it used
   up, and cuts or turns away a connection of a lineage that has no quota.

Observed while modelling, without a run of their own:

- userstats: the documents bound the overshoot of a connection by one chunk
  (`README.md:1617`) or by one per direction (`quota_integration_test.go:276`);
  the window between the mark and the Close of `enforce` (`tracker.go:209`, `214`)
  allows more, as many as the other loop copies before the Close takes effect.
- userstats: drops of a writer that is replaced before any snapshot was taken
  are lost with it (`registry.go:96`, `398`); a record submitted between the
  check for a closed writer and the end of its drain is lost without a trace
  (excepted in `LossIsTraced` as late); sequence numbers of a file begin again
  after its eviction or a reload; lifting a quota does not end the cool-down;
  the first table is called accepted before its time is stored; the flags of a
  snapshot are read before its counters.
- control store: a failure told to a Flush whose caller has left is told to
  nobody; a cancelled call may have taken effect; a later batch that succeeds
  clears `unhealthy`, so a lost batch shows only in `ingestErr`.
- tunnel history: the inventory is stored from its first object again whenever
  the snapshot has changed, so that objects beyond one slice can wait for ever
  while it changes each second; after an unavailable snapshot without process
  the source's dropped count is stored as zero, and a gap row follows that names
  an overflow that was already told; a new binding records the window again in
  its scope; a slice can commit an older state of an instance for a moment; an
  instance that is closed with a connection older than the retention is
  forgotten and stored again with a new generation.

## 7. Not modelled

In the modelled components:

- Restore takeover on both sides (`restoreBlocked`, restore markers, the restore
  lane of the channel, `serverRestorePending`), service identities and changed
  context.
- Expired or changed materials in the composition (`MaterialsState`); in
  `ManagedEngine` expiry is modelled, and refuses undo.
- Corruption of snapshots or journals by others; with intact files the branches
  `snapshot_invalid` of the worker are unreachable, except for a preparation
  that was never completed, which is modelled.
- Adoption of version 1 records (`record_retention.go`) and the limit of eight
  records per retention round.
- A writer of the Store between the last comparison and the rename of one
  `replace` (`files_unix.go:229`), which the comment above it excludes.
- Audit rows and events of the monitor, previews, rendering and input
  validation.
- Abstractions of the ledgers and of the accounting are listed in section 2.

Hazards without a property: snapshots of interrupted work count against the
quota of new ones (`retention.go:41`); a preparation whose journal was never
written (`engine.go:422`, excepted in `SlotIsFreed`); a result later than the 16
remembered request IDs ends the connection (`config_link.go:67`); four slots are
shared by all nodes (`config_coordinator.go:36`).

The rest of the repository: telemetry, probes, time series, backups and the web
of frp-plus are I/O, rendering or pure functions. The Rust services have no
shared state of this kind or are thin clients of others. `sub2api-plus` is by far
the largest part (more than half of all lines are generated by ent), handlers and
configuration over a database; what it adds to its upstream is spread over files
of that project. The share of the repository's lines these modules stand for is
therefore small, and stays small however the parts above are extended.

## 8. Plan

Done: the configuration transaction, the control store with both ledgers,
accounting and access log of sing-box-plus, the runs and the proofs above.

Next modules, most important first:

1. `RestoreTakeover`: the marker of a restored directory, `loadRestore`,
   verification at start and the gate over the engine (`restoreBlocked`,
   `ManagementWriteBlocked`); abstract promise: nothing is written before a
   restored service is verified and confirmed by the monitor.
2. `RestoreConfirmation`: the restore lane (`restore_link.go`,
   `config_restore_admin.go`, `control/config_restores.go`), composed with 1 over
   `ConfigLink`, whose queue it shares; a takeover must end the operations of the
   old identity.
3. Materials in `ConfigTransaction`: expiry and changed context as part of the
   view, with the checks of `configResultMatches`; property: a row never goes
   back from expired.
4. `Coordinator`: the four slots with several nodes; no node starves behind
   others that are offline.
5. In `TunnelLedger`, a second source for the same name (server and client), with
   the conflict of origins.

Next theorems: those of the modules above, as they are written. Of the present
ones only liveness is left, which stays with TLC.
