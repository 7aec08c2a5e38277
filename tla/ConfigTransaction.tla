------------------------- MODULE ConfigTransaction -------------------------
(***************************************************************************)
(* A configuration operation from end to end: the monitor's durable record *)
(* of it (monitor/control/config_operations.go), the handlers of the admin *)
(* API and the reconcile loop that move the record (monitor/config_admin,  *)
(* config_coordinator), the channel to the agent (ConfigLink), the         *)
(* provider that executes commands (agent/configuration/bridge.go) and the *)
(* transaction engine (EngineView).  One node.                             *)
(*                                                                         *)
(* Either process may be killed at every step, the connection may be lost, *)
(* a caller may give up, a write may fail or succeed unseen; "mishaps"     *)
(* counts these.                                                           *)
(***************************************************************************)
EXTENDS Naturals, Sequences

CONSTANTS Ops,          \* operation IDs
          Ids,          \* request IDs
          None,         \* nothing
          ResultCap,    \* capacity of the agent's channel of results
          Admins,       \* threads that serve requests of administrators
          Loop,         \* the thread of configReconcileLoop
          FirstActs,    \* what a creation sends first: "secret", "prepare"
          LaterActs,    \* what administrators do with an operation they created
          MaxRequests,  \* bound: requests of administrators
          MaxMishaps    \* bound: kills, losses, time-outs and failed writes

ASSUME ConstantsAssumption ==
    /\ Loop \notin Admins /\ None \notin Ops \cup Ids \cup Admins \cup {Loop}
    /\ FirstActs \subseteq {"secret", "prepare"}
    /\ LaterActs \subseteq {"query", "apply", "rollback", "cancel"}
    /\ {ResultCap, MaxRequests, MaxMishaps} \subseteq Nat

VARIABLES
    op,        \* op[o]: the row of config_operations
    late,      \* late[o]: the deadline of o has passed at the monitor
    h,         \* h[t]: what thread t is doing
    gate,      \* configCoordinator.nodes: the thread that holds the node
    conn, pending, queue, wire, busy, job, call, out,   \* ConfigLink
    up, mem, jrn, worker,                               \* EngineView
    requests, mishaps                                   \* bounds

monitor == <<op, late, h, gate>>
link    == <<conn, pending, queue, wire, busy, job, call, out>>
agent   == <<up, mem, jrn, worker>>
vars    == <<op, late, h, gate, conn, pending, queue, wire, busy, job, call, out,
             up, mem, jrn, worker, requests, mishaps>>

Link   == INSTANCE ConfigLink
Engine == INSTANCE EngineView

Threads == Admins \cup {Loop}

-----------------------------------------------------------------------------
(* The durable record *)

\* shared.ConfigOperationActive: these states hold the slot of the node.
ActiveStates == {"draft", "validated", "prepared", "applying", "verifying",
                 "outcome_unknown", "rolling_back", "rollback_failed"}
Active(s) == s \in ActiveStates
RowStates == {"absent", "rejected", "conflict", "failed", "cancelled",
              "confirmed", "rolled_back"} \cup ActiveStates

\* shared.ConfigOperationTransitionAllowed
Allowed == [s \in RowStates |->
    CASE s = "draft"     -> {"validated", "rejected", "conflict", "failed",
                             "cancelled", "outcome_unknown"}
      [] s = "validated" -> {"prepared", "rejected", "conflict", "failed",
                             "cancelled", "outcome_unknown"}
      [] s = "prepared"  -> {"applying", "conflict", "failed", "cancelled",
                             "outcome_unknown"}
      [] s = "applying"  -> {"verifying", "rolling_back", "failed", "outcome_unknown"}
      [] s = "verifying" -> {"confirmed", "rolling_back", "outcome_unknown"}
      [] s \in {"confirmed", "rollback_failed"} -> {"rolling_back"}
      [] s = "rolling_back" -> {"rolled_back", "rollback_failed", "outcome_unknown"}
      [] s = "outcome_unknown" ->
            {"validated", "prepared", "applying", "verifying", "confirmed",
             "rejected", "conflict", "failed", "cancelled", "rolling_back",
             "rolled_back", "rollback_failed"}
      [] OTHER -> {}]

\* ver: Version; view: the state in o.Agent, "none" before the first
\* observation; dig: CandidateDigest is assigned.
Row(s) == [state |-> s, ver |-> 1, view |-> "none", dig |-> FALSE]
NoRow  == [Row("absent") EXCEPT !.ver = 0]

NeedsDigest == {"validated", "prepared", "applying", "verifying", "confirmed",
                "rolling_back", "rolled_back"}
BeforeDeadline == {"validated", "prepared", "applying"}

\* The unique index on the active operations of a node.
SlotFree(o) == \A p \in Ops \ {o} : ~Active(op[p].state)

\* TransitionConfigOperation accepts: o is in the version the caller read, v
\* is the observation that comes with it ("none" without one).
Legal(o, snap, next, v, code) ==
    /\ op[o].ver = snap.ver
    /\ next = op[o].state => v # "none" \/ code \in {"secret_stored", "outcome_unknown"}
    /\ next # op[o].state =>
          /\ next \in Allowed[op[o].state]
          /\ next \in BeforeDeadline => ~late[o]
    /\ ~op[o].dig =>
          IF v = "none" THEN next \notin NeedsDigest
          ELSE op[o].state = "outcome_unknown" \/ next \in {"validated", "prepared"}
    /\ Active(next) /\ ~Active(op[o].state) => SlotFree(o)

Moved(snap, next, v) ==
    [state |-> next, ver |-> snap.ver + 1,
     view |-> IF v = "none" THEN snap.view ELSE v, dig |-> snap.dig \/ v # "none"]

\* The store's worker commits, does not, or commits for a caller whose context
\* has ended ("unseen").
Results == {"ok", "lost", "unseen"}

Mishap == mishaps < MaxMishaps /\ mishaps' = mishaps + 1

Transition(o, snap, next, v, code, res) ==
    IF ~Legal(o, snap, next, v, code)
    THEN res = "lost" /\ UNCHANGED <<op, mishaps>>
    ELSE /\ op' = IF res = "lost" THEN op
                  ELSE [op EXCEPT ![o] = Moved(op[o], next, v)]
         /\ IF res = "ok" THEN UNCHANGED mishaps ELSE Mishap

-----------------------------------------------------------------------------
(* Threads *)

\* snap: the thread's copy of the row; act: its command; view: the result it
\* records; next: the state it is about to record; id: its request.
IdleThread == [pc |-> "idle", op |-> None, snap |-> NoRow, act |-> "none",
               view |-> "none", next |-> "none", id |-> None]

\* Mutant: an error path that does not release the node.
BugEnd(t) == /\ h' = [h EXCEPT ![t] = IdleThread]
             /\ UNCHANGED gate

End(t) == /\ h' = [h EXCEPT ![t] = IdleThread]
          /\ gate' = IF gate = t THEN None ELSE gate

Goto(t, l) == h' = [h EXCEPT ![t].pc = l] /\ UNCHANGED gate

\* A row the thread has moved is the copy it goes on with.
GotoWith(t, l) == /\ h' = [h EXCEPT ![t].pc = l, ![t].snap = op'[h[t].op]]
                  /\ UNCHANGED gate

Acquire(t) == gate = None /\ gate' = t

Request == requests < MaxRequests /\ requests' = requests + 1

Cmd(t) == [id |-> Link!Fresh, op |-> h[t].op,
           act |-> IF h[t].act = "preflight" THEN "query" ELSE h[t].act]

Init ==
    /\ op = [o \in Ops |-> NoRow]
    /\ late = [o \in Ops |-> FALSE]
    /\ h = [t \in Threads |-> IdleThread]
    /\ gate = None
    /\ Link!Init /\ Engine!Init
    /\ requests = 0 /\ mishaps = 0

-----------------------------------------------------------------------------
(* Requests *)

MonitorStep == UNCHANGED <<link, agent, late>>

\* createConfigOperation: the draft is durable before anything is sent.  A
\* draft that was committed unseen is left to the reconcile loop.
Create(t, o, first, res) ==
    /\ t \in Admins /\ h[t].pc = "idle" /\ Request
    /\ first \in FirstActs
    /\ op[o].state = "absent" /\ SlotFree(o)
    /\ op' = [op EXCEPT ![o] = Row("draft")]
    /\ \/ /\ res = "ok" /\ Acquire(t) /\ UNCHANGED mishaps
          /\ h' = [h EXCEPT ![t] = [IdleThread EXCEPT
                     !.pc = "call", !.op = o, !.snap = Row("draft"), !.act = first]]
       \/ /\ res = "unseen" /\ gate = None /\ Mishap /\ UNCHANGED <<gate, h>>
    /\ MonitorStep

\* The row is read before the node is acquired: GET of an operation, and one
\* round of configReconcileLoop over the active operations.
Read(t, o) ==
    /\ h[t].pc = "idle" /\ op[o].state # "absent"
    /\ IF t = Loop THEN Active(op[o].state) /\ UNCHANGED requests
       ELSE /\ "query" \in LaterActs
            /\ Active(op[o].state) \/ op[o].view # "none"
            /\ Request
    /\ h' = [h EXCEPT ![t] = [IdleThread EXCEPT
               !.pc = "read", !.op = o, !.snap = op[o], !.act = "query"]]
    /\ UNCHANGED <<op, gate, mishaps>> /\ MonitorStep

Enter(t) ==
    /\ h[t].pc = "read"
    /\ \/ Acquire(t) /\ h' = [h EXCEPT ![t].pc = "call"]
       \/ gate # None /\ End(t)
    /\ UNCHANGED <<op, requests, mishaps>> /\ MonitorStep

\* actionConfigOperation: acquire, read again, check the state.  The rollback
\* of a confirmed operation looks at the journal first.
ActionTarget == [apply |-> "applying", rollback |-> "rolling_back",
                 cancel |-> "outcome_unknown"]

Admits(a, row) ==
    CASE a = "apply"    -> row.state = "prepared" /\ row.view # "none"
      [] a = "rollback" -> row.state \in {"rollback_failed", "outcome_unknown"}
                           /\ row.view # "none"
      [] a = "cancel"   -> row.state \in {"prepared", "draft", "outcome_unknown"}

Action(t, o, a) ==
    /\ t \in Admins /\ h[t].pc = "idle" /\ Request
    /\ Acquire(t)
    /\ \/ /\ Admits(a, op[o])
          /\ h' = [h EXCEPT ![t] = [IdleThread EXCEPT
                     !.pc = "mark", !.op = o, !.snap = op[o], !.act = a,
                     !.next = ActionTarget[a]]]
       \/ /\ a = "rollback" /\ op[o].state = "confirmed" /\ op[o].view # "none"
          /\ h' = [h EXCEPT ![t] = [IdleThread EXCEPT
                     !.pc = "call", !.op = o, !.snap = op[o], !.act = "preflight"]]
    /\ UNCHANGED <<op, mishaps>> /\ MonitorStep

\* Mutant: the command is sent and recorded afterwards.
BugMark(t, res) ==
    /\ h[t].pc = "mark" /\ res = "ok"
    /\ Goto(t, "call")
    /\ UNCHANGED <<op, requests, mishaps>> /\ MonitorStep

\* The intent is durable before the command: no record, no command.
Mark(t, res) ==
    /\ h[t].pc = "mark"
    /\ Transition(h[t].op, h[t].snap, h[t].next, "none", h[t].next, res)
    /\ IF res = "ok" THEN GotoWith(t, "call") ELSE End(t)
    /\ UNCHANGED requests /\ MonitorStep

-----------------------------------------------------------------------------
(* Commands *)

CallStep == UNCHANGED <<op, late, agent, requests>>

Submit(t) ==
    /\ h[t].pc = "call"
    /\ Link!Submit(Cmd(t))
    /\ h' = [h EXCEPT ![t].pc = "wait", ![t].id = Link!Fresh]
    /\ UNCHANGED <<gate, mishaps>> /\ CallStep

\* Mutant: a prepare without an answer counts as not sent.
BugNoAnswer(t, sent) ==
    CASE h[t].act \in {"secret", "prepare"} ->
           h' = [h EXCEPT ![t].pc = "settle", ![t].next = "rejected"] /\ UNCHANGED gate
      [] h[t].act \in {"query", "preflight"} -> End(t)
      [] OTHER -> Goto(t, "unknown")

\* What a handler does without an answer: a command that was never queued is
\* known not to have run, any other may have.
NoAnswer(t, sent) ==
    CASE h[t].act = "secret" ->
           h' = [h EXCEPT ![t].pc = "settle", ![t].next = "rejected"] /\ UNCHANGED gate
      [] h[t].act = "prepare" /\ ~sent ->
           h' = [h EXCEPT ![t].pc = "settle", ![t].next = "rejected"] /\ UNCHANGED gate
      [] h[t].act \in {"query", "preflight"} -> End(t)
      [] OTHER -> Goto(t, "unknown")

\* ErrConfigNotSent: no link, a busy link, no token, no audit record.
NotSent(t) ==
    /\ h[t].pc = "call"
    /\ IF Link!Free THEN Mishap ELSE UNCHANGED mishaps
    /\ NoAnswer(t, FALSE)
    /\ UNCHANGED link /\ CallStep

\* The context ends in the pause between two attempts: nothing was sent, but
\* the error does not say so.
PauseEnds(t) ==
    /\ h[t].pc = "call" /\ Mishap
    /\ NoAnswer(t, TRUE)
    /\ UNCHANGED link /\ CallStep

\* The caller's context ends, or the link is closed.
GiveUp(t) ==
    /\ h[t].pc = "wait"
    /\ IF pending = h[t].id /\ pending \in Link!UnderWay THEN Mishap
                                                       ELSE UNCHANGED mishaps
    /\ Link!Abandon(h[t].id)
    /\ NoAnswer(t, TRUE)
    /\ CallStep

\* Mutant: a busy or late agent counts as a refusal.
BugPrepareFailureState(val) ==
    IF val = "code_conflict" THEN "conflict" ELSE "rejected"

\* configPrepareFailureState
PrepareFailureState(val) ==
    CASE val = "code_conflict" -> "conflict"
      [] val = "code_rejected" -> "rejected"
      [] OTHER -> "outcome_unknown"

IsView(val) == val \in Engine!States \ {"absent"}

\* Mutant: only a draft is given up.
BugUnprepared(row) == row.state = "draft" /\ ~row.dig

\* A serialized journal lookup that finds nothing ends an operation of which
\* the agent never had a candidate.
Unprepared(row) == row.state \in {"draft", "outcome_unknown"} /\ ~row.dig

Answered(t, val) ==
    LET a == h[t].act
        go(l, next) == /\ h' = [h EXCEPT ![t].pc = l, ![t].next = next,
                                         ![t].id = None]
                       /\ UNCHANGED gate
    IN CASE a = "secret" -> IF val = "ok" THEN go("stored", "draft")
                                          ELSE go("settle", "rejected")
         [] IsView(val) -> /\ h' = [h EXCEPT ![t].pc = "record", ![t].view = val,
                                             ![t].id = None]
                           /\ UNCHANGED gate
         [] a = "prepare" /\ ~IsView(val) -> go("settle", PrepareFailureState(val))
         [] a \in {"query", "preflight"} /\ ~IsView(val) ->
               IF val = "no_operation" /\ Unprepared(h[t].snap)
               THEN go("settle", "cancelled") ELSE End(t)
         [] OTHER -> go("unknown", "none")

\* A result reaches the thread that waits for it; any other is ignored.
Deliver ==
    /\ Link!Accept
    /\ LET r == Head(out) IN
       IF pending = r.id
       THEN \E t \in Threads : /\ h[t].pc = "wait" /\ h[t].id = r.id
                              /\ Answered(t, r.val)
       ELSE UNCHANGED <<h, gate>>
    /\ UNCHANGED mishaps /\ CallStep

-----------------------------------------------------------------------------
(* Records of what was learnt *)

Stored(t, res) ==
    /\ h[t].pc = "stored"
    /\ Transition(h[t].op, h[t].snap, "draft", "none", "secret_stored", res)
    /\ IF res = "ok"
       THEN /\ h' = [h EXCEPT ![t].pc = "call", ![t].act = "prepare",
                              ![t].snap = op'[h[t].op]]
            /\ UNCHANGED gate
       ELSE End(t)
    /\ UNCHANGED requests /\ MonitorStep

\* An operation ends without an observation.
Settle(t, res) ==
    /\ h[t].pc = "settle"
    /\ Transition(h[t].op, h[t].snap, h[t].next, "none", h[t].next, res)
    /\ IF res # "ok" /\ h[t].act = "prepare" THEN Goto(t, "unknown") ELSE End(t)
    /\ UNCHANGED requests /\ MonitorStep

\* configUnknown
Unknown(t, res) ==
    /\ h[t].pc = "unknown"
    /\ IF ~Active(h[t].snap.state) \/ h[t].snap.state = "outcome_unknown"
       THEN res = "ok" /\ UNCHANGED <<op, mishaps>>
       ELSE Transition(h[t].op, h[t].snap, "outcome_unknown", "none",
                       "outcome_unknown", res)
    /\ End(t)
    /\ UNCHANGED requests /\ MonitorStep

\* Mutant: a rollback that is under way counts as done.
BugStepTo(row, v, expired) ==
    LET legal == row.state = v \/ v \in Allowed[row.state]
        next == CASE row.state = "rolling_back" /\ v = row.state -> "rolled_back"
                  [] row.state = "draft" /\ v = "prepared"      -> "validated"
                  [] row.state = "applying" /\ v = "confirmed"  -> "verifying"
                  [] row.state \in {"rollback_failed", "confirmed"}
                     /\ v = "rolled_back"                       -> "rolling_back"
                  [] legal /\ {row.state, v} # {"rolling_back"}  -> v
                  [] OTHER                                      -> "outcome_unknown"
    IN IF next \in BeforeDeadline /\ row.state # next /\ expired
       THEN "outcome_unknown" ELSE next

\* recordConfigResult, one transition of its loop: the journal may have
\* skipped states the row has to pass through.
StepTo(row, v, expired) ==
    LET legal == row.state = v \/ v \in Allowed[row.state]
        next == CASE row.state = "draft" /\ v = "prepared"      -> "validated"
                  [] row.state = "applying" /\ v = "confirmed"  -> "verifying"
                  [] row.state \in {"rollback_failed", "confirmed"}
                     /\ v = "rolled_back"                       -> "rolling_back"
                  [] legal                                      -> v
                  [] OTHER                                      -> "outcome_unknown"
    IN IF next \in BeforeDeadline /\ row.state # next /\ expired
       THEN "outcome_unknown" ELSE next

Expired(o, v) == late[o] /\ v \in BeforeDeadline

\* The same journal record again.
SameFacts(o, row, v) ==
    /\ row.view = v
    /\ row.state = v \/ (row.state = "outcome_unknown" /\ Expired(o, v))

\* After the record: the preflight of a rollback goes on if the operation is
\* still confirmed.
Recorded(t, row) ==
    IF h[t].act = "preflight" /\ row.state = "confirmed"
    THEN /\ h' = [h EXCEPT ![t].pc = "mark", ![t].act = "rollback",
                           ![t].next = "rolling_back", ![t].snap = row]
         /\ UNCHANGED gate
    ELSE End(t)

NotRecorded(t) == IF h[t].act \in {"query", "preflight"} THEN End(t)
                                                         ELSE Goto(t, "unknown")

\* code: "recorded" for a step of the loop, "recovered" for the evidence of an
\* operation that outlived its deadline.
Record(t, res) ==
    LET o == h[t].op
        row == h[t].snap
        v == h[t].view
        next == IF h[t].next = "recovered" THEN row.state ELSE StepTo(row, v, late[o])
        shown == IF next = "outcome_unknown" /\ ~row.dig /\ row.state # next
                 THEN "none" ELSE v
        last == \/ h[t].next = "recovered"
                \/ next = v
    IN /\ h[t].pc = "record"
       /\ IF h[t].next = "none" /\ SameFacts(o, row, v)
          THEN /\ res = "ok" /\ Recorded(t, row) /\ UNCHANGED <<op, mishaps>>
          ELSE /\ Transition(o, row, next, shown, "recorded", res)
               /\ IF res # "ok" THEN NotRecorded(t)
                  ELSE IF last THEN Recorded(t, op'[o])
                  ELSE /\ h' = [h EXCEPT ![t].snap = op'[o],
                                 ![t].next = IF next = "outcome_unknown" /\ Expired(o, v)
                                             THEN "recovered" ELSE "more"]
                       /\ UNCHANGED gate
       /\ UNCHANGED requests /\ MonitorStep

-----------------------------------------------------------------------------
(* The agent: Provider.HandleConfig *)

Provide(res) == call' = [call EXCEPT !.res = res]

ProviderStep == /\ call # None /\ call.res = "todo" /\ up
                /\ UNCHANGED <<op, late, h, gate, conn, pending, queue, wire, busy,
                               job, out, requests>>

\* A durable write of the engine succeeds, or it is a mishap.
Write(ok) == IF ok THEN UNCHANGED mishaps ELSE Mishap

Unmoved == UNCHANGED <<agent, mishaps>>

Secret == /\ ProviderStep /\ call.cmd.act = "secret"
          /\ Provide("ok") /\ Unmoved

ContextOver == call.late \/ ~call.alive

\* The call ends before it touches the engine: provider busy, read-only
\* source, context over, a panic, a closed engine.
Refuse ==
    /\ ProviderStep
    /\ IF ContextOver THEN UNCHANGED mishaps ELSE Mishap
    /\ Provide("code_unsure") /\ UNCHANGED agent

\* The candidate does not pass the adapter, or the engine refuses it before
\* it reserves the ID.
PrepareRefused(code) ==
    /\ ProviderStep /\ call.cmd.act = "prepare" /\ mem[call.cmd.op] = "absent"
    /\ code \in {"code_conflict", "code_rejected"}
    /\ Provide(code) /\ Unmoved

PrepareBusy ==
    /\ ProviderStep /\ call.cmd.act = "prepare" /\ mem[call.cmd.op] = "absent"
    /\ ~(Engine!Quiet /\ Engine!Alone(call.cmd.op))
    /\ Provide("code_unsure") /\ Unmoved

Prepare(ok) ==
    /\ ProviderStep /\ call.cmd.act = "prepare"
    /\ Engine!Prepare(call.cmd.op, ok)
    /\ Write(ok) /\ Provide(mem'[call.cmd.op])

\* execute: the journal has no such operation.
Missing ==
    /\ ProviderStep /\ call.cmd.act # "secret" /\ call.cmd.act # "prepare"
    /\ mem[call.cmd.op] = "absent"
    /\ Provide("no_operation") /\ Unmoved

\* A query, or an action that finds nothing to do or may not do it (runtime not
\* attached, Store drifted, another operation active): the known facts are the
\* answer.
Known ==
    /\ ProviderStep
    /\ \/ call.cmd.act = "query"
       \/ call.cmd.act \in {"apply", "rollback"} /\ worker.op # call.cmd.op
       \/ call.cmd.act = "cancel" /\ mem[call.cmd.op] = "cancelled"
    /\ mem[call.cmd.op] # "absent"
    /\ Provide(mem[call.cmd.op]) /\ Unmoved

\* An apply or a rollback of an operation that has a worker joins it.
Join ==
    /\ ProviderStep /\ call.cmd.act \in {"apply", "rollback"}
    /\ worker.op = call.cmd.op
    /\ Provide("wait") /\ Unmoved

CancelRefused ==
    /\ ProviderStep /\ call.cmd.act = "cancel"
    /\ mem[call.cmd.op] \notin {"absent", "prepared", "cancelled"}
    /\ Provide("code_conflict") /\ Unmoved

Apply(ok) ==
    /\ ProviderStep /\ call.cmd.act = "apply"
    /\ \/ Engine!Apply(call.cmd.op, ok)
       \/ \E s \in {"cancelled", "conflict"} : Engine!Refuse(call.cmd.op, s, ok)
    /\ Write(ok) /\ Provide("wait")

Rollback(ok) ==
    /\ ProviderStep /\ call.cmd.act \in {"rollback", "cancel"}
    /\ \/ Engine!Cancel(call.cmd.op, ok)
       \/ /\ call.cmd.act = "rollback"
          /\ \/ Engine!Rollback(call.cmd.op, ok)
             \/ ok /\ Engine!RollbackNothing(call.cmd.op)
             \/ ok /\ Engine!Undo(call.cmd.op)
    /\ Write(ok) /\ Provide("wait")

\* wait: the worker is done, or the context is over; what is known by then is
\* the answer.
Awaited ==
    /\ call # None /\ call.res = "wait"
    /\ \/ worker.op # call.cmd.op /\ UNCHANGED mishaps
       \/ worker.op = call.cmd.op /\ ContextOver /\ UNCHANGED mishaps
       \/ worker.op = call.cmd.op /\ ~ContextOver /\ Mishap
    /\ Provide(mem[call.cmd.op])
    /\ UNCHANGED <<op, late, h, gate, conn, pending, queue, wire, busy, job, out,
                   agent, requests>>

\* A result that cannot be projected is an error.
Returns ==
    /\ call # None /\ call.res \notin {"todo", "wait"}
    /\ \/ Link!CallReturns(call.res) /\ UNCHANGED mishaps
       \/ IsView(call.res) /\ Link!CallReturns("code_unsure") /\ Mishap
    /\ UNCHANGED <<op, late, h, gate, agent, requests>>

-----------------------------------------------------------------------------
(* The channel, the engine's own steps, time and kills *)

LinkOnly == UNCHANGED <<monitor, agent, requests>>

LinkStep(A) == A /\ LinkOnly /\ UNCHANGED mishaps

SendStep     == LinkStep(Link!Send)
DispatchStep == LinkStep(Link!DispatchBusy \/ Link!DispatchJob)
JobStep      == LinkStep(Link!JobDropped \/ Link!JobStarts \/ Link!Release)

TransportFails ==
    /\ \/ Link!SendExpired \/ Link!DispatchExpired \/ Link!JobExpired
       \/ Link!CallTimesOut \/ Link!Disconnect
    /\ LinkOnly /\ Mishap

Connect == LinkStep(up /\ Link!Connect)

EngineOnly == UNCHANGED <<monitor, link, requests>>

EngineWorks ==
    /\ \/ Engine!TurnBack \/ Engine!UndoRefused \/ Engine!Exit \/ Engine!Resave
       \/ \E o \in Ops : Engine!Recover(o)
    /\ EngineOnly /\ UNCHANGED mishaps

EngineRecords(ok) ==
    /\ Engine!Recording(ok) \/ \E o \in Ops : Engine!Cancel(o, ok)
    /\ EngineOnly /\ Write(ok)

EngineOpens ==
    /\ Engine!Open \/ \E o \in Ops : Engine!OpenIntent(o)
    /\ EngineOnly /\ UNCHANGED mishaps

AgentDies ==
    /\ Engine!Crash \/ \E o \in Ops : Engine!CloseCancels(o)
    /\ Link!AgentStops /\ Mishap
    /\ UNCHANGED <<monitor, requests>>

MonitorDies ==
    /\ h' = [t \in Threads |-> IdleThread] /\ gate' = None
    /\ \/ Link!Disconnect
       \/ ~conn /\ (\E t \in Threads : h[t].pc # "idle") /\ UNCHANGED link
    /\ Mishap
    /\ UNCHANGED <<op, late, agent, requests>>

Late(o) ==
    /\ ~late[o] /\ op[o].state \in BeforeDeadline \cup {"draft", "outcome_unknown"}
    /\ late' = [late EXCEPT ![o] = TRUE]
    /\ UNCHANGED <<op, h, gate, link, agent, requests, mishaps>>

-----------------------------------------------------------------------------

ThreadStep(t) ==
    \/ Enter(t) \/ Submit(t) \/ NotSent(t) \/ PauseEnds(t) \/ GiveUp(t)
    \/ \E res \in Results : \/ Mark(t, res) \/ Stored(t, res) \/ Settle(t, res)
                            \/ Unknown(t, res) \/ Record(t, res)

Requested(t) ==
    \E o \in Ops :
       \/ Read(t, o)
       \/ \E a \in LaterActs \ {"query"} : Action(t, o, a)
       \/ \E first \in FirstActs, res \in Results : Create(t, o, first, res)

Provider ==
    \/ Secret \/ PrepareBusy \/ Missing \/ Known \/ Join \/ CancelRefused
    \/ Awaited \/ Returns
    \/ \E code \in {"code_conflict", "code_rejected"} : PrepareRefused(code)
    \/ \E ok \in BOOLEAN : Prepare(ok) \/ Apply(ok) \/ Rollback(ok)

Next ==
    \/ \E t \in Threads : ThreadStep(t) \/ Requested(t)
    \/ Deliver \/ Provider \/ Refuse
    \/ SendStep \/ DispatchStep \/ JobStep \/ TransportFails \/ Connect
    \/ EngineWorks \/ EngineOpens \/ (\E ok \in BOOLEAN : EngineRecords(ok))
    \/ AgentDies \/ MonitorDies
    \/ \E o \in Ops : Late(o)

Spec == Init /\ [][Next]_vars

-----------------------------------------------------------------------------
(* Properties *)

Acts == {"secret", "prepare", "query", "apply", "rollback", "cancel"}
Cmds == [id : Ids, op : Ops, act : Acts]
Codes == {"ok", "no_operation", "code_conflict", "code_rejected", "code_unsure"}

\* Every variable holds what the code can put there; the thread that holds the
\* node is at work.
TypeOK ==
    /\ op \in [Ops -> [state : RowStates, ver : Nat, dig : BOOLEAN,
                       view : (Engine!States \ {"absent"}) \cup {"none"}]]
    /\ late \in [Ops -> BOOLEAN]
    /\ \A t \in Threads :
          /\ h[t].pc \in {"idle", "read", "call", "wait", "mark", "record",
                          "stored", "settle", "unknown"}
          /\ h[t].op \in Ops \cup {None} /\ h[t].id \in Ids \cup {None}
          /\ h[t].act \in Acts \cup {"preflight", "none"}
          /\ gate = t <=> h[t].pc \notin {"idle", "read"}
    /\ pending \in Ids \cup {None} /\ queue \in Cmds \cup {None}
    /\ \A i \in 1..Len(wire) : wire[i] \in Cmds
    /\ \A i \in 1..Len(out) : /\ out[i].id \in Ids
                              /\ out[i].val \in Engine!States \cup Codes
    /\ Len(out) <= ResultCap
    /\ busy \in BOOLEAN /\ conn \in BOOLEAN
    /\ (job # None \/ call # None) => busy /\ (job = None \/ call = None)
    /\ mem \in [Ops -> Engine!States] /\ jrn \in [Ops -> Engine!States]
    /\ worker \in Engine!Workers

\* Commands the agent may still execute: on their way, or taken and not begun.
Live == {wire[i] : i \in 1..Len(wire)}
        \cup (IF queue # None /\ queue.id = pending THEN {queue} ELSE {})
        \cup (IF job # None THEN IF job.alive THEN {job.cmd} ELSE {} ELSE {})
        \cup (IF call # None THEN IF call.res = "todo" THEN {call.cmd} ELSE {} ELSE {})

Intents == [prepare |-> {"draft", "outcome_unknown"},
            apply |-> {"applying", "outcome_unknown", "rolling_back"},
            rollback |-> {"rolling_back", "outcome_unknown"},
            cancel |-> {"outcome_unknown", "rolling_back"}]

\* A command that can still change the node is covered by the durable record
\* of its intent: while an apply may yet run the row never says "prepared",
\* while a prepare may yet run the operation is not ended.  Late commands,
\* lost answers, queries on a new connection and kills of the monitor do not
\* get around the write before the command (actionConfigOperation) and the
\* order in which the agent works (configLoop).
IntentFirst == \A c \in Live : c.act \in DOMAIN Intents =>
                                  op[c.op].state \in Intents[c.act]

\* An operation that was ended without facts from the agent (ErrConfigNotSent,
\* a refused prepare, "operation_not_found") has left nothing there: no record
\* in memory or in the journal that could recover or hold the engine.
EndedHasNoWork ==
    \A o \in Ops : op[o].state \in {"rejected", "conflict", "cancelled"}
                   /\ op[o].view = "none"
                   => mem[o] = "absent" /\ jrn[o] = "absent"

\* recordConfigResult infers no outcome: a row ends with the outcome that is
\* in the journal, and says "confirmed" only of an operation that was.
OutcomeIsJournalled ==
    \A o \in Ops :
       /\ op[o].state \in {"rolled_back", "cancelled", "conflict"}
          /\ op[o].view # "none" => jrn[o] = op[o].state
       /\ op[o].state = "confirmed" =>
             jrn[o] \notin {"absent", "prepared", "applying", "verifying",
                            "cancelled", "conflict"}

\* What the agent has not finished holds the slot of the node at the monitor.
\* The exception is the undo of a confirmed operation, which the monitor may
\* have forgotten (RollbackFailedHoldsSlot).
UnfinishedHoldsSlot ==
    \A o \in Ops : Engine!Unfinished(mem[o]) \/ Engine!Unfinished(jrn[o])
                   => Active(op[o].state) \/ op[o].state = "confirmed"

\* README.md:178: an operation that ended in rollback_failed keeps the slot of
\* its node.
RollbackFailedHoldsSlot ==
    \A o \in Ops : mem[o] = "rollback_failed" => Active(op[o].state)

-----------------------------------------------------------------------------
(* Liveness.  Threads are scheduled; a connection is tried again; the agent's *)
(* loops run; a worker ends (WorkerEnds of ManagedEngine), a preparation      *)
(* expires (PreparedEnds), a closed engine is opened again; the reconcile     *)
(* loop comes round to every operation.                                       *)

EngineStep(A) == A /\ EngineOnly /\ UNCHANGED mishaps

WorkerStep == EngineStep(\/ Engine!Exit \/ Engine!UndoRefused
                         \/ Engine!Confirm(TRUE) \/ Engine!Verify(TRUE)
                         \/ Engine!TurnBack \/ Engine!Intend(TRUE)
                         \/ \E s \in Engine!States : Engine!Conclude(s, TRUE))

Fairness ==
    /\ \A t \in Threads : WF_vars(ThreadStep(t))
    /\ \A o \in Ops : SF_vars(Read(Loop, o))
    /\ WF_vars(Deliver) /\ WF_vars(Provider) /\ WF_vars(Connect)
    /\ WF_vars(SendStep) /\ WF_vars(DispatchStep) /\ WF_vars(JobStep)
    /\ WF_vars(EngineOpens)
    /\ WF_vars(WorkerStep)
    /\ \A o \in Ops : /\ WF_vars(EngineStep(Engine!Recover(o)))
                      /\ WF_vars(EngineStep(Engine!Cancel(o, TRUE)))

FairSpec == Spec /\ Fairness

\* The monitor saw a candidate that the agent has no record of any more: a
\* preparation whose journal was never written, and a restart.
Orphaned(o) == op[o].dig /\ mem[o] = "absent"

\* A draft cannot be assigned the digest that comes with a final state
\* (FinalIsLearnt).
Unassignable(o) == op[o].state = "draft" /\ mem[o] \in {"cancelled", "conflict"}

\* configReconcileLoop settles every operation, whatever was lost on the way:
\* only one that the agent itself keeps unfinished holds the slot of the node
\* for ever, or one of the two kinds above.
SlotIsFreed ==
    \A o \in Ops : \/ []<>(~Active(op[o].state))
                   \/ <>[](\/ Engine!Unfinished(mem[o])
                           \/ Orphaned(o) \/ Unassignable(o))

\* todo.md:335: after a lost acknowledgement or a restart of the monitor, once
\* the connection is back the final version can be determined: the row of an
\* operation that is final at the agent ends.
FinalIsLearnt ==
    \A o \in Ops : <>[](mem[o] \in Engine!TerminalStates)
                   => []<>(~Active(op[o].state))
=============================================================================
