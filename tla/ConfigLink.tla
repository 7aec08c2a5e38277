----------------------------- MODULE ConfigLink -----------------------------
(***************************************************************************)
(* The configuration channel of one node.  The monitor keeps one pending   *)
(* command per connection (monitor/config_link.go); the agent's service    *)
(* reads commands in order and has at most one call of its provider under  *)
(* way, across reconnects (agent/service/config_control.go).  Anything may *)
(* be late: a command outlives its caller, a call outlives its deadline    *)
(* and its connection.                                                     *)
(***************************************************************************)
EXTENDS Naturals, Sequences

CONSTANTS Ids,        \* request IDs
          None,       \* no command, no call
          ResultCap   \* capacity of the channel of results

VARIABLES conn,      \* the connection is up
          pending,   \* link.pending: the ID whose result is awaited
          queue,     \* link.commands, capacity 1
          wire,      \* commands on their way to the agent
          busy,      \* s.configBusy
          job,       \* s.configJobs, capacity 1: [cmd, alive]
          call,      \* the provider call: [cmd, alive, late, res]
          out        \* results on their way to the monitor: [id, val]

vars == <<conn, pending, queue, wire, busy, job, call, out>>
agentEnd   == <<busy, job, call>>

\* Requests of which a command or a result is under way.
UnderWay == {wire[i].id : i \in 1..Len(wire)} \cup {out[i].id : i \in 1..Len(out)}
            \cup (IF queue = None THEN {} ELSE {queue.id})
            \cup (IF job = None THEN {} ELSE {job.cmd.id})
            \cup (IF call = None THEN {} ELSE {call.cmd.id})

\* A random ID is fresh: nothing still carries it.
Carried == {pending} \cup UnderWay
HasFresh == \E id \in Ids : id \notin Carried   \* bound: Ids
Fresh == CHOOSE id \in Ids : id \notin Carried

Init ==
    /\ conn = FALSE
    /\ pending = None /\ queue = None /\ wire = <<>> /\ out = <<>>
    /\ busy = FALSE /\ job = None /\ call = None

-----------------------------------------------------------------------------
(* The monitor's end *)

\* ConfigCommand up to the queue.
Free == conn /\ pending = None /\ queue = None

Submit(cmd) ==
    /\ Free /\ HasFresh
    /\ pending' = cmd.id /\ queue' = cmd
    /\ UNCHANGED <<conn, wire, busy, job, call, out>>

\* The caller stops waiting: deadline, closed link, shutdown.
Abandon(id) ==
    /\ pending' = IF pending = id THEN None ELSE pending
    /\ UNCHANGED <<conn, queue, wire, busy, job, call, out>>

\* sendConfigCommand: a command nobody waits for any more is not sent.
Send ==
    /\ queue # None /\ queue' = None
    /\ wire' = IF queue.id = pending THEN Append(wire, queue) ELSE wire
    /\ UNCHANGED <<conn, pending, busy, job, call, out>>

\* ... nor one that has expired meanwhile.
SendExpired ==
    /\ queue # None /\ queue' = None
    /\ UNCHANGED <<conn, pending, wire, busy, job, call, out>>

\* acceptConfigResult: a late result is recognised and ignored.
Accept ==
    /\ out # <<>> /\ out' = Tail(out)
    /\ pending' = IF Head(out).id = pending THEN None ELSE pending
    /\ UNCHANGED <<conn, queue, wire, busy, job, call>>

-----------------------------------------------------------------------------
(* The agent's end *)

\* offerConfigResult: never blocks, and not on a dead connection.
Offer(alive, cmd, val) ==
    out' = IF alive /\ Len(out) < ResultCap
           THEN Append(out, [id |-> cmd.id, val |-> val]) ELSE out

Receive == wire # <<>> /\ wire' = Tail(wire)
                       /\ UNCHANGED <<conn, pending, queue>>

\* dispatchConfig
DispatchExpired ==
    Receive /\ Offer(TRUE, Head(wire), "code_rejected") /\ UNCHANGED agentEnd

DispatchBusy ==
    Receive /\ busy /\ Offer(TRUE, Head(wire), "code_unsure") /\ UNCHANGED agentEnd

DispatchJob ==
    /\ Receive /\ ~busy
    /\ busy' = TRUE /\ job' = [cmd |-> Head(wire), alive |-> TRUE]
    /\ UNCHANGED <<call, out>>

AgentOnly == UNCHANGED <<conn, pending, queue, wire>>

\* configLoop takes the job: it has expired, its connection is gone, or it
\* is handed to the provider.
JobExpired ==
    /\ job # None /\ AgentOnly
    /\ Offer(job.alive, job.cmd, "code_rejected")
    /\ job' = None /\ UNCHANGED <<busy, call>>

JobDropped ==
    /\ job # None /\ ~job.alive /\ AgentOnly
    /\ job' = None /\ UNCHANGED <<busy, call, out>>

JobStarts ==
    /\ job # None /\ job.alive /\ call = None /\ AgentOnly
    /\ call' = [cmd |-> job.cmd, alive |-> TRUE, late |-> FALSE, res |-> "todo"]
    /\ job' = None /\ UNCHANGED <<busy, out>>

\* ctx.Done while the provider runs: the answer is "timeout", the gate stays
\* shut until the provider returns.
CallTimesOut ==
    /\ call # None /\ ~call.late /\ AgentOnly
    /\ Offer(call.alive, call.cmd, "code_unsure")
    /\ call' = [call EXCEPT !.late = TRUE]
    /\ UNCHANGED <<busy, job>>

\* The provider returns; a late result is dropped.
CallReturns(val) ==
    /\ call # None /\ AgentOnly
    /\ Offer(call.alive /\ ~call.late, call.cmd, val)
    /\ call' = None /\ UNCHANGED <<busy, job>>

\* Only after its result was offered does a job free the gate.
Release ==
    /\ busy /\ job = None /\ call = None /\ AgentOnly
    /\ busy' = FALSE /\ UNCHANGED <<job, call, out>>

-----------------------------------------------------------------------------
(* Connections.  A new one has its own link, queue and results; a job and a  *)
(* call keep the context of the one they came from.                          *)

Connect ==
    /\ ~conn /\ conn' = TRUE
    /\ UNCHANGED <<pending, queue, wire, busy, job, call, out>>

Lose ==
    /\ conn' = FALSE
    /\ pending' = None /\ queue' = None /\ wire' = <<>> /\ out' = <<>>

Disconnect ==
    /\ conn /\ Lose
    /\ job' = IF job = None THEN None ELSE [job EXCEPT !.alive = FALSE]
    /\ call' = IF call = None THEN None ELSE [call EXCEPT !.alive = FALSE]
    /\ UNCHANGED busy

\* The agent's process ends.
AgentStops ==
    /\ Lose
    /\ busy' = FALSE /\ job' = None /\ call' = None
=============================================================================
