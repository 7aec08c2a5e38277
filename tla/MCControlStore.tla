--------------------------- MODULE MCControlStore ---------------------------
(* Model-checking instance of ControlStore and TunnelLedger.  A day begins  *)
(* at 1, a period at 2, and the bytes of every instant differ, so that no   *)
(* two sums are equal; the node has a binding in epoch 1 and none in 2.     *)
(* A behaviour explores one of three things: in "traffic" the clock runs    *)
(* and the monitor restarts while reports and calls come; in "calls" the    *)
(* clock stands still while contexts end, transactions fail and Close is    *)
(* called; in "tunnels" the tunnel history is written.                      *)
EXTENDS ControlStore, TunnelLedger, FiniteSets, TLC

CONSTANTS c1, c2

VARIABLE part

MCDayStart    == [t \in Time |-> IF t < 1 THEN 0 ELSE 1]
MCPeriodStart == [t \in Time |-> IF t < 2 THEN 0 ELSE 2]
MCPeriodEnd   == [t \in Time |-> IF t < 2 THEN 2 ELSE 4]
MCSent        == [t \in Time |-> 2 ^ t]
MCKinds       == (c1 :> {"flush", "reset"}) @@ (c2 :> {"get", "mode", "reset"})

MCBound       == [e \in Epochs |-> e = 1]

MCInit == /\ part \in {"traffic", "calls", "tunnels"}
          /\ Init
          /\ TunnelInit /\ (part # "tunnels" => side = "client")

\* Bound: reports of different instants; one caller; one of a boot of the host,
\* a restart that loses a transaction and a change by an administrator; Close at
\* the end of the clock.
TrafficPart ==
    /\ Cardinality({x \in {"boot", "restart", "change"} :
         CASE x = "boot"    -> booted' # 0
           [] x = "restart" -> history'.restarts # 0
           [] x = "change"  -> call'[c2].kind # "get"}) <= 1
    /\ history'.restarts # history.restarts => worker.at = "apply" /\ worker.tx # db
    /\ closing = "no" /\ closing' # "no" => clock = Horizon /\ queue = <<>>
    /\ history'.failed = 0
    /\ \A i, j \in DOMAIN queue' :
         i # j /\ queue'[i].caller = {} => queue'[i].sample # queue'[j].sample
    /\ call'[c1].pc # "idle" => call'[c1].result = "closed"
    /\ ~call'[c2].done

\* Bound: one instant, two reports.
CallPart ==
    /\ clock' = 0 /\ history'.restarts = 0 /\ history'.accepted <= 2
    /\ call'[c2].pc # "idle" => call'[c2].kind = "reset"
    /\ ~call'[c2].done

Within == (part = "traffic" /\ TrafficPart) \/ (part = "calls" /\ CallPart)

\* What is out of the ordinary in the tunnel history.
Mishaps ==
    (collector - 1) + (binding - 1) + past.lost
    + Cardinality({c \in {"pruned", "retired"} :
        CASE c = "pruned"  -> \/ tables.pruned
                              \/ tables.instanceId # Cardinality(
                                   {k \in DOMAIN tables.instances : tables.instances[k] # NoInstance})
          [] c = "retired" -> \E i \in Instances : native.state[i] = "gone"})

\* A snapshot that was written whole, under the binding the service knows, has
\* nothing new for the database.
Stored ==
    /\ work = <<>> /\ report # <<>> /\ Same
    /\ observer[1].complete /\ known = binding

\* Bound: one mishap, fewer events with a restart; a snapshot that is stored is
\* not written again; one event while a snapshot is taken.  Nothing else moves
\* during a transaction, which reads the database only: such a step could as well
\* be taken before it, or after it ends.
TunnelsPart ==
    /\ Mishaps' <= 1
    /\ Len(native'.log) + (native'.process - 1) + (collector' - 1) <= 3
    /\ work # <<>> => UNCHANGED <<agentVars, report, collector, known>>
    /\ work' # <<>> => ~Stored
    /\ native' # native /\ frame # <<>> => Mishaps = 0 /\ Len(native.log) = 1

MCNext ==
    \/ part # "tunnels" /\ Next /\ Within /\ UNCHANGED <<part, tunnelVars>>
    \/ part = "tunnels" /\ TunnelNext /\ TunnelsPart /\ UNCHANGED <<part, vars>>

\* TunnelFairness for the slices that the bound admits: when all is stored, only
\* snapshots go on.
MCTunnelFairness ==
    /\ WF_tunnelVars(part = "tunnels" /\ Snapshot)
    /\ WF_tunnelVars(part = "tunnels" /\ ~Stored /\ Slice)

MCSpec == /\ MCInit /\ [][MCNext]_<<vars, tunnelVars, part>>
          /\ Fairness /\ MCTunnelFairness

\* The types of both.
TypesOK == TypeOK /\ TunnelTypeOK
=============================================================================
