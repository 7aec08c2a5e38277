------------------------------ MODULE TunnelLedger ------------------------------
(***************************************************************************)
(* The tunnel history of the monitor (frp-plus/monitor/control/tunnels.go, *)
(* fed by monitor/tunnel_observer.go).  The native process numbers the     *)
(* events of its tunnels and shows a snapshot: the last few events and the *)
(* present state of every tunnel.  The monitor keeps the newest snapshot   *)
(* only; once a second a worker writes a slice of it into the database, in *)
(* a transaction that may fail, or commit without its caller learning it.  *)
(* Processes, connections and the monitor restart, and an administrator    *)
(* gives the node another binding.                                         *)
(*                                                                         *)
(* One source is modelled, a node or the server (side says which), and the *)
(* instances of one proxy name: the successive generations of one logical  *)
(* tunnel.  States stand for objects, and in "settled" the counters are    *)
(* final.                                                                  *)
(***************************************************************************)
EXTENDS Integers, Sequences, FiniteSets

CONSTANTS
  MaxInstances, \* bound: instances a process may open
  Window,       \* MaxTunnelEvents: events of one snapshot
  Ring,         \* ringSize: events the process keeps
  Budget,       \* objects and events of one transaction
  Bound,        \* Bound[e]: the node has a binding in epoch e
  MaxProcesses, \* bound: native processes
  MaxEvents,    \* bound: events of one process
  MaxCollectors,\* bound: connections, and lives of the monitor
  MaxEpochs,    \* bound: binding epochs
  MaxLost       \* bound: transactions that fail or whose end is not told, and
                \* snapshots that are not complete

Epochs    == 0 .. MaxEpochs
Instances == 1 .. MaxInstances
Processes == 1 .. MaxProcesses

ASSUME TunnelAssumption ==
  /\ Window \in Nat \ {0} /\ Ring \in Nat \ {0} /\ Budget \in Nat \ {0}
  /\ MaxProcesses \in Nat \ {0} /\ MaxEpochs \in Nat \ {0} /\ MaxCollectors \in Nat \ {0}
  /\ MaxInstances \in Nat /\ MaxEvents \in Nat /\ MaxLost \in Nat
  /\ Bound \in [Epochs -> BOOLEAN] /\ ~Bound[0]

VARIABLES
  side,      \* the source: "client" or "server", for ever
  native,    \* the process: [process, state, log]
  frame,     \* the snapshot being taken: <<>> or <<events taken>>
  report,    \* the snapshot the monitor keeps: <<>> or one
  collector, \* CollectorEpoch: the life of the monitor and of the connection
  binding,   \* the current binding epoch, in the database
  known,     \* the one in the credentials the service has loaded
  observer,  \* tunnelSourceState: <<>> or one
  work,      \* the transaction under way: <<>> or one
  tables,    \* the tables
  past       \* history: [born, lost]

agentVars   == <<side, native, frame>>
monitorVars == <<report, collector, known, observer>>
storeVars   == <<binding, tables, past>>
tunnelVars  == <<agentVars, monitorVars, work, storeVars>>

-----------------------------------------------------------------------------
(* The native process (pkg/util/tunnelmonitor) *)

\* Without a process, as when the registry is busy, there is nothing else.
NoProcess == 0
Blank == [process |-> NoProcess, state |-> "unavailable", first |-> 0, events |-> <<>>,
          objects |-> <<>>, dropped |-> 0]

\* Mutant: the window is one event too long.
BugFirst(log) == IF Len(log) > Window THEN Len(log) - Window ELSE 1

First(log) == IF Len(log) > Window THEN Len(log) - Window + 1 ELSE 1

\* Open, setState, Close and FinishConnection: the event carries the state.
\* One without connections when it is closed does not settle later.
\* Instances are numbered in the order in which they are opened.
Follows(s) == CASE s = "none"       -> {"starting"}
                [] s = "starting"   -> {"registered", "closed"}
                [] s = "registered" -> {"starting", "closed"}
                [] s = "closed"     -> {"settled"}
                [] OTHER            -> {}

Emit(i) ==
  /\ Len(native.log) < MaxEvents
  /\ \A j \in 1 .. i - 1 : native.state[j] # "none"
  /\ \E s \in Follows(native.state[i]) :
       native' = [native EXCEPT !.state[i] = s, !.log = Append(@, [of |-> i, state |-> s])]
  /\ UNCHANGED <<side, frame, monitorVars, work, storeVars>>

\* pruneLocked: an instance that is closed and has no connection leaves the
\* inventory some minutes later, before the next Open or Snapshot.
Retire(i) ==
  /\ native.state[i] \in {"closed", "settled"}
  /\ native' = [native EXCEPT !.state[i] = "gone"]
  /\ UNCHANGED <<side, frame, monitorVars, work, storeVars>>

\* Snapshot: under the lock of the registry the events and which objects there
\* are, or nothing at all; the objects in the order of their IDs.
Listed(S) == {s \in [1 .. Cardinality(S) -> S] : \A m, n \in DOMAIN s : m < n => s[m] < s[n]}

Inventories ==
  {[n \in DOMAIN open |-> [of |-> open[n], state |-> native.state[open[n]]]] :
     open \in Listed({i \in Instances : native.state[i] \notin {"none", "gone"}})}

SnapshotEvents ==
  /\ frame = <<>>
  /\ \E objects \in Inventories :
       frame' = <<[Blank EXCEPT !.process = native.process,
                                !.first   = IF native.log = <<>> THEN 0 ELSE First(native.log),
                                !.events  = SubSeq(native.log, First(native.log),
                                                   Len(native.log)),
                                !.objects = objects,
                                !.dropped = IF Len(native.log) > Ring
                                            THEN Len(native.log) - Ring ELSE 0]>>
  /\ UNCHANGED <<side, native, monitorVars, work, storeVars>>

SnapshotNothing ==
  /\ frame = <<>> /\ past.lost < MaxLost
  /\ report' = <<Blank>>
  /\ past' = [past EXCEPT !.lost = @ + 1]
  /\ UNCHANGED <<agentVars, collector, known, observer, work, binding, tables>>

\* and then, one by one, the objects as they are: newer than the events, maybe.
Shown(o) == [o EXCEPT !.state = IF native.state[o.of] = "gone" THEN "settled"
                                ELSE native.state[o.of]]

SnapshotObjects ==
  /\ frame # <<>>
  /\ report' = <<[frame[1] EXCEPT !.state = "ready",
                                  !.objects = [n \in DOMAIN @ |-> Shown(@[n])]]>>
  /\ frame' = <<>>
  /\ UNCHANGED <<side, native, collector, known, observer, work, storeVars>>

\* A busy handle or too many tunnels leave it without objects.
SnapshotNoObjects ==
  /\ frame # <<>> /\ past.lost < MaxLost
  /\ \E state \in {"unavailable", "truncated"} :
       report' = <<[frame[1] EXCEPT !.state = state, !.objects = <<>>]>>
  /\ frame' = <<>>
  /\ past' = [past EXCEPT !.lost = @ + 1]
  /\ UNCHANGED <<side, native, collector, known, observer, work, binding, tables>>

-----------------------------------------------------------------------------
(* The tables (schema.sql) *)

NoSource   == [collector |-> 0, last |-> 0, dropped |-> 0, state |-> "none"]
NoTunnel   == [id |-> 0, generation |-> 0]
NoInstance == [id |-> 0, tunnel |-> 0, generation |-> 0, state |-> "none"]

\* Only AUTOINCREMENT numbers rows, so that a number is never used again.
Empty == [sources   |-> [k \in Epochs \X Processes |-> NoSource],
          tunnels   |-> [k \in Epochs \X (0 .. MaxProcesses) \X (0 .. MaxInstances) |-> NoTunnel],
          instances |-> [k \in Epochs \X Processes \X Instances |-> NoInstance],
          rows      |-> <<>>,       \* tunnel_events
          pruned    |-> FALSE,      \* tunnel_retention
          tunnelId  |-> 0, instanceId |-> 0]

TunnelInit ==
  /\ native = [process |-> 1, state |-> [i \in Instances |-> "none"], log |-> <<>>]
  /\ frame = <<>> /\ report = <<>>
  /\ side \in {"client", "server"}
  /\ collector = 1 /\ binding = 1 /\ known = 1
  /\ observer = <<>> /\ work = <<>>
  /\ tables = Empty
  /\ past = [born |-> {}, lost |-> 0]

\* tunnelOwners: who the objects belong to, and where their source is known.
\* A claim of an unbound node stays with the instance.
Owner == IF side = "server" /\ ~Bound[binding] THEN 0 ELSE binding
Scope == IF side = "server" THEN 0 ELSE binding

TunnelKey(p, i) == IF side = "client" /\ ~Bound[binding] THEN <<Owner, p, i>>
                                                         ELSE <<Owner, 0, 0>>
InstanceKey(p, i) == <<Owner, p, i>>

\* tunnelStateKey leaves the counters out.
StateKey(s) == IF s = "settled" THEN "closed" ELSE s

\* upsert
AddTunnel(d, t) ==
  IF d.tunnels[t] # NoTunnel THEN d
  ELSE [d EXCEPT !.tunnels[t] = [id |-> d.tunnelId + 1, generation |-> 0],
                 !.tunnelId = @ + 1]

AddInstance(d, t, k, state) ==
  [d EXCEPT !.tunnels[t].generation = @ + 1,
            !.instances[k] = [id |-> d.instanceId + 1, tunnel |-> d.tunnels[t].id,
                              generation |-> d.tunnels[t].generation + 1, state |-> state],
            !.instanceId = @ + 1]

Upsert(d, p, o) ==
  LET k == InstanceKey(p, o.of)
      t == TunnelKey(p, o.of)
  IN  IF d.instances[k] = NoInstance THEN AddInstance(AddTunnel(d, t), t, k, o.state)
      ELSE IF StateKey(o.state) = StateKey(d.instances[k].state) THEN d
      ELSE [d EXCEPT !.instances[k].state = o.state]

-----------------------------------------------------------------------------
(* The worker: observeTunnels, IngestTunnelSlice *)

Row(scope, p, code, seq, of) ==
  [scope |-> scope, process |-> p, code |-> code, seq |-> seq, of |-> of]

LastSequence(v) == IF v.events = <<>> THEN 0 ELSE v.first + Len(v.events) - 1

\* Mutant: the hole between two snapshots is not looked for.
BugGaps(v, old) == IF old.collector # collector THEN <<"collector_gap">> ELSE <<>>

When(missing, code) == IF missing THEN <<code>> ELSE <<>>

\* What is known to be missing when a slice begins.
Gaps(v, old) ==
  When(old.collector # collector, "collector_gap")
    \o When(v.events # <<>> /\ v.first > old.last + 1, "event_gap")
    \o When(v.dropped \notin {0, old.dropped}, "source_overflow")
    \o When(v.state \notin {"ready", old.state}, "source_not_ready")

Hash == <<report[1], known, collector>>
Same == observer # <<>> /\ observer[1].hash = Hash

\* Mutant: a new snapshot goes on where the old one stopped.
BugOffset == IF observer # <<>> /\ ~observer[1].complete THEN observer[1].offset ELSE 0

\* The same snapshot goes on where its last slice ended.
Offset == IF Same /\ ~observer[1].complete THEN observer[1].offset ELSE 0

\* A snapshot without a process is one of the process seen last.
Attributed ==
  IF report[1].process = NoProcess /\ observer # <<>>
  THEN [report[1] EXCEPT !.process = observer[1].process] ELSE report[1]

Rewound(v, old) ==
  /\ old # NoSource /\ LastSequence(v) < old.last
  /\ v.state = "ready" \/ LastSequence(v) # 0

\* Mutant: events that are skipped use up the budget.
BugProgress(v, old) ==
  LET skipped == IF old.last >= v.first THEN old.last - v.first + 1 ELSE 0
  IN  [processed |-> old.last, remaining |-> IF skipped > Budget THEN 0 ELSE Budget - skipped]

\* Mutant: a slice begins with the first event of its snapshot.
BugReplay(v, old) == [processed |-> 0, remaining |-> Budget]

\* Where a slice begins and how much it may write.
Progress(v, old) == [processed |-> old.last, remaining |-> Budget]

\* The first part of the transaction.  A snapshot that was written is written
\* again after a minute.
BeginSlice ==
  /\ work = <<>> /\ report # <<>>
  /\ LET v     == Attributed
         old   == tables.sources[<<Scope, v.process>>]
         gaps  == Gaps(v, old)
     IN  /\ v.process # NoProcess
         /\ ~Rewound(v, old)
         /\ work' = <<[snapshot  |-> v,
                       hash      |-> Hash,
                       tx        |-> [tables EXCEPT !.rows = @ \o
                                        [g \in DOMAIN gaps |-> Row(Scope, v.process, gaps[g], 0, 0)]],
                       processed |-> Progress(v, old).processed,
                       offset    |-> Offset,
                       remaining |-> Progress(v, old).remaining]>>
  /\ UNCHANGED <<agentVars, monitorVars, storeVars>>

\* There is nothing to write about no process.
SkipSlice ==
  /\ work = <<>> /\ report # <<>>
  /\ Attributed.process = NoProcess
  /\ observer' = <<[hash |-> Hash, complete |-> TRUE, offset |-> Offset, process |-> NoProcess]>>
  /\ UNCHANGED <<agentVars, report, collector, known, work, storeVars>>

\* Events up to the last one written are skipped.
NextSequence(w) == IF w.snapshot.first > w.processed + 1 THEN w.snapshot.first
                                                       ELSE w.processed + 1

MoreEvents(w)  == NextSequence(w) <= LastSequence(w.snapshot)
MoreObjects(w) == w.offset < Len(w.snapshot.objects)

WriteEvent ==
  /\ work # <<>>
  /\ LET w   == work[1]
         v   == w.snapshot
         seq == NextSequence(w)
     IN  /\ MoreEvents(w) /\ w.remaining > 0
         /\ LET e  == v.events[seq - v.first + 1]
                k  == InstanceKey(v.process, e.of)
                d1 == Upsert(w.tx, v.process, e)
                d2 == [d1 EXCEPT !.rows = Append(@, Row(Scope, v.process, "event", seq,
                                                       d1.instances[k].id))]
            IN  work' = <<[w EXCEPT !.tx = IF e.state = "settled"
                                           THEN [d2 EXCEPT !.instances[k].state = "settled"]
                                           ELSE d2,
                                    !.processed = seq,
                                    !.remaining = @ - 1]>>
  /\ UNCHANGED <<agentVars, monitorVars, storeVars>>

\* Objects follow when all events are written.
WriteObject ==
  /\ work # <<>>
  /\ LET w == work[1]
         v == w.snapshot
     IN  /\ ~MoreEvents(w) /\ MoreObjects(w) /\ w.remaining > 0
         /\ work' = <<[w EXCEPT !.tx = Upsert(w.tx, v.process, v.objects[w.offset + 1]),
                                !.offset = @ + 1,
                                !.remaining = @ - 1]>>
  /\ UNCHANGED <<agentVars, monitorVars, storeVars>>

Written(w) ==
  [w.tx EXCEPT !.sources[<<Scope, w.snapshot.process>>] =
     [collector |-> w.hash[3], last |-> w.processed,
      dropped |-> w.snapshot.dropped, state |-> w.snapshot.state]]

Born(d) == {<<d.instances[k].tunnel, d.instances[k].generation, d.instances[k].id>> :
              k \in {j \in DOMAIN d.instances : d.instances[j] # NoInstance}}

\* The budget is used up or nothing is left to write.  The observer learns how
\* far the slice got, or that it failed: then the transaction may have been
\* committed all the same.
CommitSlice(told) ==
  /\ work # <<>>
  /\ LET w == work[1]
     IN  /\ w.remaining = 0 \/ ~(MoreEvents(w) \/ MoreObjects(w))
         /\ tables' = Written(w)
         /\ past' = [past EXCEPT !.born = @ \cup Born(w.tx),
                                 !.lost = IF told THEN @ ELSE @ + 1]
         /\ observer' = IF told
                        THEN <<[hash |-> w.hash, process |-> w.snapshot.process,
                                complete |-> ~MoreEvents(w) /\ ~MoreObjects(w),
                                offset |-> w.offset]>>
                        ELSE observer
  /\ ~told => past.lost < MaxLost
  /\ work' = <<>>
  /\ UNCHANGED <<agentVars, report, collector, known, binding>>

LoseSlice ==
  /\ work # <<>> /\ past.lost < MaxLost
  /\ work' = <<>>
  /\ past' = [past EXCEPT !.lost = @ + 1]
  /\ UNCHANGED <<agentVars, monitorVars, binding, tables>>

\* The end of observeTunnels: a source without a connection is forgotten.
Forget ==
  /\ work = <<>> /\ report = <<>> /\ observer # <<>>
  /\ observer' = <<>>
  /\ UNCHANGED <<agentVars, report, collector, known, work, storeVars>>

-----------------------------------------------------------------------------
(* Restarts, bindings and retention *)

Reborn == [process |-> native.process + 1, state |-> [i \in Instances |-> "none"], log |-> <<>>]

\* frpc embeds the agent and frps the monitor, so that a connection ends with
\* the first and the service with the second.
NativeRestart ==
  /\ native.process < MaxProcesses /\ collector < MaxCollectors
  /\ native' = Reborn
  /\ frame' = <<>> /\ report' = <<>>
  /\ collector' = collector + 1
  /\ IF side = "server" THEN /\ known' = binding
                             /\ observer' = <<>> /\ work' = <<>>
                        ELSE UNCHANGED <<known, observer, work>>
  /\ UNCHANGED <<side, storeVars>>

\* A new session of the agent.
Reconnect ==
  /\ side = "client" /\ collector < MaxCollectors
  /\ frame' = <<>> /\ report' = <<>>
  /\ collector' = collector + 1
  /\ UNCHANGED <<side, native, known, observer, work, storeVars>>

\* The monitor of a client restarts: what it had in memory is gone, the
\* transaction under way too.
MonitorRestart ==
  /\ side = "client" /\ collector < MaxCollectors
  /\ frame' = <<>> /\ report' = <<>> /\ observer' = <<>> /\ work' = <<>>
  /\ collector' = collector + 1
  /\ known' = binding
  /\ UNCHANGED <<side, native, storeVars>>

\* The trigger tunnel_binding_update; the service learns it from the answer.
Rebind ==
  /\ work = <<>> /\ binding < MaxEpochs
  /\ binding' = binding + 1
  /\ UNCHANGED <<agentVars, monitorVars, work, tables, past>>

Learn ==
  /\ known # binding
  /\ known' = binding
  /\ UNCHANGED <<agentVars, report, collector, observer, work, storeVars>>

\* A source that is being observed is written at least once a minute.
Observed(s) ==
  /\ s = <<Scope, native.process>>
  /\ report # <<>> \/ observer # <<>>

SourceOf(k) == <<IF side = "server" THEN 0 ELSE k[1], k[2]>>
RowsOf(d, s) == {n \in DOMAIN d.rows : <<d.rows[n].scope, d.rows[n].process>> = s}

\* Instances that may be too old to keep: no event names them, and they are
\* closed, or nobody observes their source.
Expired(d) ==
  {k \in DOMAIN d.instances :
     /\ d.instances[k] # NoInstance
     /\ \A n \in DOMAIN d.rows : d.rows[n].of # d.instances[k].id
     /\ StateKey(d.instances[k].state) = "closed" \/ ~Observed(SourceOf(k))}

\* Mutant: the generations of a tunnel begin again when one instance goes.
BugWithoutInstances(d, old) ==
  [d EXCEPT !.instances = [k \in DOMAIN @ |-> IF k \in old THEN NoInstance ELSE @[k]],
            !.tunnels   = [t \in DOMAIN @ |->
                             IF \E k \in old : d.instances[k].tunnel = @[t].id
                             THEN [@[t] EXCEPT !.generation = 0] ELSE @[t]]]

\* The generations of a tunnel go with its last instance.
WithoutInstances(d, old) ==
  [d EXCEPT !.instances = [k \in DOMAIN @ |-> IF k \in old THEN NoInstance ELSE @[k]],
            !.tunnels   = [t \in DOMAIN @ |->
                             IF \E k \in DOMAIN d.instances \ old : d.instances[k].tunnel = @[t].id
                             THEN @[t] ELSE NoTunnel]]

WithoutSources(d) ==
  [d EXCEPT !.sources = [s \in DOMAIN @ |->
     IF Observed(s) \/ RowsOf(d, s) # {}
        \/ \E k \in DOMAIN d.instances : d.instances[k] # NoInstance /\ SourceOf(k) = s
     THEN @[s] ELSE NoSource]]

\* PruneTunnels: the oldest events, and if it is time the rest.
\* Bound: one event of a transaction.
Prune ==
  /\ work = <<>>
  /\ \E n \in {0, 1}, quiet \in BOOLEAN :
       /\ n <= Len(tables.rows)
       /\ LET cut == [tables EXCEPT !.rows = SubSeq(@, n + 1, Len(@)), !.pruned = @ \/ n > 0]
          IN  \E old \in SUBSET Expired(cut) :
                tables' = IF quiet THEN WithoutSources(WithoutInstances(cut, old))
                                   ELSE WithoutInstances(cut, old)
  /\ UNCHANGED <<agentVars, monitorVars, work, binding, past>>

-----------------------------------------------------------------------------

Snapshot == SnapshotEvents \/ SnapshotObjects
Slice    == BeginSlice \/ WriteEvent \/ WriteObject \/ CommitSlice(TRUE)

TunnelNext ==
  \/ \E i \in Instances : Emit(i) \/ Retire(i)
  \/ Snapshot \/ SnapshotNothing \/ SnapshotNoObjects
  \/ Slice \/ SkipSlice \/ Forget
  \/ CommitSlice(FALSE) \/ LoseSlice
  \/ NativeRestart \/ Reconnect \/ MonitorRestart
  \/ Rebind \/ Learn \/ Prune

TunnelSpec == TunnelInit /\ [][TunnelNext]_tunnelVars

(***************************************************************************)
(* Fairness: every second the process is asked for a snapshot and the      *)
(* worker looks at the newest one, in loops of their own, and a            *)
(* transaction that has begun goes on.  What MaxLost bounds happens for a  *)
(* while only: nothing holds the locks that Snapshot does not wait for, or *)
(* the database, for ever.                                                 *)
(***************************************************************************)
TunnelFairness == WF_tunnelVars(Snapshot) /\ WF_tunnelVars(Slice)

TunnelFairSpec == TunnelSpec /\ TunnelFairness

-----------------------------------------------------------------------------
(* Properties *)

\* The types of the variables: at most one snapshot, transaction and observed
\* state of the source, and a ledger of event and gap rows.
TunnelTypeOK ==
  /\ native.process \in Processes /\ Len(native.log) <= MaxEvents
  /\ \A taken \in {frame, report} :
       /\ Len(taken) <= 1
       /\ taken # <<>> => /\ taken[1].process \in 0 .. MaxProcesses
                          /\ taken[1].state \in {"ready", "truncated", "unavailable"}
                          /\ Len(taken[1].events) <= Window
  /\ collector \in 1 .. MaxCollectors
  /\ binding \in 1 .. MaxEpochs /\ known \in 1 .. binding
  /\ Len(observer) <= 1 /\ Len(work) <= 1
  /\ work # <<>> => work[1].remaining \in 0 .. Budget
  /\ tables.tunnelId \in Nat /\ tables.instanceId \in Nat
  /\ \A n \in DOMAIN tables.rows : tables.rows[n].seq \in 0 .. MaxEvents
  /\ past.lost \in 0 .. MaxLost

RowSource(r) == <<r.scope, r.process>>
Native(r)    == r.code = "event"

\* An event of a process is recorded once and in its order, whatever slices,
\* lost answers and restarts there were, and the position kept with the source
\* is never behind what is recorded (IngestTunnelSlice, tunnel_sources).
RecordedInOrder ==
  \A n \in DOMAIN tables.rows : LET r == tables.rows[n] IN Native(r) =>
    /\ r.seq <= tables.sources[RowSource(r)].last
    /\ \A m \in 1 .. n - 1 :
         LET q == tables.rows[m]
         IN  Native(q) /\ RowSource(q) = RowSource(r) => q.seq < r.seq

\* No event is missing between two recorded ones without a row that says so,
\* which is what an administrator reads the history by (gap("event_gap")).
MissingIsShown ==
  \A n \in DOMAIN tables.rows : LET r == tables.rows[n] IN Native(r) =>
    \/ r.seq = 1 \/ tables.pruned
    \/ \E m \in 1 .. n - 1 :
         LET q == tables.rows[m]
         IN  /\ RowSource(q) = RowSource(r)
             /\ q.code = "event_gap" \/ (Native(q) /\ q.seq = r.seq - 1)
             /\ \A k \in m + 1 .. n - 1 :
                  ~(Native(tables.rows[k]) /\ RowSource(tables.rows[k]) = RowSource(r))

\* Two instances of a tunnel never get the same generation, not even when the
\* first one is gone (PruneTunnels, tunnel_generations).
GenerationFresh ==
  \A a, b \in past.born : a[1] = b[1] /\ a[2] = b[2] => a[3] = b[3]

\* A ready snapshot the observer calls complete is in the database: each of its
\* open instances, in the state it has there, under the current binding.
InventoryIsStored ==
  (observer # <<>> /\ report # <<>> /\ work = <<>> /\ known = binding) =>
    LET v == report[1]
    IN  (observer[1].complete /\ observer[1].hash = Hash /\ v.process # NoProcess) =>
          \A n \in DOMAIN v.objects :
            LET o == v.objects[n]
                i == tables.instances[InstanceKey(v.process, o.of)]
            IN  StateKey(o.state) # "closed" =>
                  i # NoInstance /\ StateKey(i.state) = StateKey(o.state)

\* The events of the process reach the ledger, as far as they are not missing,
\* however often the snapshot changes before it is written (observeTunnels).
EventsReachLedger ==
  []<>(tables.sources[<<Scope, native.process>>].last = Len(native.log))
=============================================================================
