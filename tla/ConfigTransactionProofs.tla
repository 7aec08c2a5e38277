----------------------- MODULE ConfigTransactionProofs -----------------------
(***************************************************************************)
(* What the rows of ConfigTransaction say is true of the agent, whatever   *)
(* was late, lost, refused or killed on the way: theorems for any number   *)
(* of operations, administrators, requests and mishaps.                    *)
(***************************************************************************)
EXTENDS ConfigTransaction, SequenceTheorems, TLAPS

-----------------------------------------------------------------------------
(* Types *)

Views == Engine!States \ {"absent"}
Rows  == [state : RowStates, ver : Nat, dig : BOOLEAN, view : Views \cup {"none"}]

Pcs == {"idle", "read", "call", "wait", "mark", "record", "stored", "settle", "unknown"}
ThreadStates ==
    [pc : Pcs, op : Ops \cup {None}, snap : Rows, act : Acts \cup {"preflight", "none"},
     view : Views \cup {"none"}, next : RowStates \cup {"none", "more", "recovered"},
     id : Ids \cup {None}]

Jobs    == [cmd : Cmds, alive : BOOLEAN]
Answers == {"todo", "wait"} \cup Engine!States \cup Codes
Calls   == [cmd : Cmds, alive : BOOLEAN, late : BOOLEAN, res : Answers]
Outs    == [id : Ids, val : Engine!States \cup Codes]

MonitorTypes ==
    /\ op \in [Ops -> Rows]
    /\ late \in [Ops -> BOOLEAN]
    /\ h \in [Threads -> ThreadStates]
    /\ gate \in Threads \cup {None}

LinkTypes ==
    /\ conn \in BOOLEAN /\ busy \in BOOLEAN
    /\ pending \in Ids \cup {None}
    /\ queue \in Cmds \cup {None}
    /\ wire \in Seq(Cmds)
    /\ job \in Jobs \cup {None}
    /\ call \in Calls \cup {None}
    /\ out \in Seq(Outs) /\ Len(out) <= ResultCap

AgentTypes ==
    /\ up \in BOOLEAN
    /\ mem \in [Ops -> Engine!States] /\ jrn \in [Ops -> Engine!States]
    /\ worker \in Engine!Workers

-----------------------------------------------------------------------------
(* The agent.  What a row says rests on three facts about an operation that  *)
(* the engine never takes back: that there is no record of it, that it ended *)
(* without effect, that it was confirmed once.                               *)

EngineInv ==
    /\ up => \A o \in Ops : mem[o] = "absent" => jrn[o] = "absent"
    /\ ~up => worker = Engine!NoWorker /\ \A o \in Ops : mem[o] = "absent"
    /\ \A o \in Ops : mem[o] \in Engine!TerminalStates => jrn[o] = mem[o]
    /\ worker.kind \in {"apply", "verify", "rollback", "restore", "undoing"}
          => Engine!Unfinished(mem[worker.op])
    /\ worker.kind = "undo" => mem[worker.op] = "confirmed"

NoRecord(o) == mem[o] = "absent" /\ jrn[o] = "absent"

Final(o, s) == jrn[o] = s /\ (up => mem[o] = s)

\* States an operation can be in once it was confirmed.
AfterConfirm == {"confirmed", "outcome_unknown", "rolling_back", "rollback_failed",
                 "rolled_back"}
Past(o) == /\ jrn[o] \in AfterConfirm
           /\ up => mem[o] \in AfterConfirm
           /\ worker.op = o => worker.kind \notin {"apply", "verify"}

\* What an answer v about o proves for good.
Fact(o, v) == /\ v \in {"rolled_back", "cancelled", "conflict"} => Final(o, v)
              /\ v = "confirmed" => Past(o)

LivePrepare(o) == \E c \in Live : c.op = o /\ c.act = "prepare"

\* The engine has no record of o and nothing on its way can begin one.
Unborn(o) == NoRecord(o) /\ ~LivePrepare(o)

-----------------------------------------------------------------------------
(* The rows *)

RowTrue(o) ==
    LET r == op[o] IN
    /\ r.dig <=> r.view # "none"
    /\ r.state # "failed"
    /\ r.state \in {"absent", "draft", "rejected"} => ~r.dig
    /\ r.state \in {"rolled_back", "confirmed"} => r.dig
    /\ r.state \in {"absent", "rejected"} => Unborn(o)
    /\ r.state \in {"conflict", "cancelled"} /\ ~r.dig => Unborn(o)
    /\ r.state \in {"conflict", "cancelled", "rolled_back"} /\ r.dig => Final(o, r.state)
    /\ r.state = "confirmed" => Past(o)

RowsTrue == \A o \in Ops : RowTrue(o)

IntentOf(c) == /\ c.act \in DOMAIN Intents => op[c.op].state \in Intents[c.act]
               /\ c.act = "prepare" => ~op[c.op].dig
IntentsFirst == \A c \in Live : IntentOf(c)

-----------------------------------------------------------------------------
(* The threads *)

\* The command a thread sends.
Sent(a) == IF a = "preflight" THEN "query" ELSE a

\* A creation works on a draft that nobody has seen a candidate of.
Drafting(s) == s.act \in {"secret", "prepare"} =>
    /\ s.pc \in {"call", "wait", "stored", "settle", "unknown", "record"}
    /\ s.pc \notin {"unknown", "record"} => s.snap.state = "draft" /\ ~s.snap.dig
Begins(s) == \/ s.act = "secret" /\ s.pc \in {"call", "wait", "stored", "settle"}
             \/ s.act = "prepare" /\ s.pc = "call"

CallAllowed(s) == s.pc = "call" =>
    /\ s.act \in DOMAIN Intents \ {"prepare"} => op[s.op].state \in Intents[s.act]
    /\ s.act \in {"secret", "prepare"} => op[s.op].state = "draft"

MarkAllowed(s) == s.pc = "mark" =>
    \/ s.act = "apply" /\ s.next = "applying" /\ s.snap.state = "prepared" /\ s.snap.dig
    \/ /\ s.act = "rollback" /\ s.next = "rolling_back" /\ s.snap.dig
       /\ s.snap.state \in {"rollback_failed", "outcome_unknown", "confirmed"}
    \/ s.act = "cancel" /\ s.next = "outcome_unknown"

RecordAllowed(s) == s.pc = "record" =>
    /\ s.view \in Views /\ Fact(s.op, s.view) /\ Live = {}
    /\ s.next = "recovered" => s.snap.state = "outcome_unknown"

SettleAllowed(s) == s.pc = "settle" =>
    \/ s.next = "outcome_unknown"
    \/ /\ s.next \in {"rejected", "conflict", "cancelled"}
       /\ Unborn(s.op) /\ ~s.snap.dig
       /\ s.snap.state = "draft" \/ Live = {}

SeatedAt(t, s) ==
    /\ s.pc \notin {"idle", "read"} <=> gate = t
    /\ s.pc # "idle" =>
         /\ s.op \in Ops /\ op[s.op].state # "absent"
         /\ s.act \in Acts \cup {"preflight"}
         /\ s.pc = "read" => s.act = "query"
         /\ s.pc = "stored" => s.act = "secret"
         /\ s.snap.ver <= op[s.op].ver
         /\ s.snap.ver = op[s.op].ver => s.snap = op[s.op]
         /\ s.snap.dig <=> s.snap.view # "none"
         /\ s.pc \notin {"record", "unknown"} => s.next # "recovered"
         /\ Begins(s) => Unborn(s.op)
         /\ Drafting(s) /\ CallAllowed(s) /\ MarkAllowed(s)
         /\ RecordAllowed(s) /\ SettleAllowed(s)

ThreadsSeated == \A t \in Threads : SeatedAt(t, h[t])

-----------------------------------------------------------------------------
(* The channel *)

Idle == job = None /\ call = None

\* The command c is the one whose answer is awaited.
Awaits(c) == c.id = pending
Mine(c) == Awaits(c) => c.op = h[gate].op /\ c.act = Sent(h[gate].act)

\* An awaited request has one carrier at a time, and it is the youngest.
Fence ==
    /\ queue # None => /\ Awaits(queue) /\ Mine(queue)
                       /\ \A i \in 1..Len(wire) : ~Awaits(wire[i])
    /\ \A i \in 1..Len(wire) : Awaits(wire[i]) => i = Len(wire) /\ Mine(wire[i])
    /\ (queue # None \/ \E i \in 1..Len(wire) : Awaits(wire[i])) =>
          /\ job # None => ~Awaits(job.cmd)
          /\ call # None => ~Awaits(call.cmd)
          /\ \A i \in 1..Len(out) : out[i].id # pending
    /\ job # None /\ Awaits(job.cmd) =>
          /\ Mine(job.cmd) /\ wire = <<>> /\ queue = None
          /\ \A i \in 1..Len(out) : out[i].id # pending
    /\ call # None /\ Awaits(call.cmd) =>
          /\ Mine(call.cmd) /\ wire = <<>> /\ queue = None
          /\ ~call.late => \A i \in 1..Len(out) : out[i].id # pending
    /\ \A i \in 1..Len(out) : out[i].id = pending => wire = <<>> /\ queue = None

Waiting ==
    /\ gate \in Threads /\ h[gate].pc = "wait" /\ h[gate].id = pending

\* All prepares of the operation that may still run are the awaited one, and it
\* is the first.
OnlyPrepare == h[gate].act = "prepare" =>
    \A c \in Live : c.act = "prepare" /\ c.op = h[gate].op => Awaits(c) /\ NoRecord(c.op)

\* An answer under way is true.
AnswerTrue(r) ==
    LET o == h[gate].op
        a == h[gate].act
    IN /\ r.val \in Views => Fact(o, r.val) /\ a # "secret" /\ Live = {}
       /\ r.val = "no_operation" => NoRecord(o) /\ Live = {}
       /\ a = "prepare" /\ r.val \in {"code_conflict", "code_rejected"} => Unborn(o)
AnswersTrue == \A i \in 1..Len(out) : out[i].id = pending => AnswerTrue(out[i])

ChannelInv ==
    /\ ~conn => /\ pending = None /\ queue = None /\ wire = <<>> /\ out = <<>>
                /\ job # None => ~job.alive
                /\ call # None => ~call.alive
    /\ (job # None \/ call # None) => busy /\ (job = None \/ call = None)
    /\ pending # None => Waiting /\ Fence /\ OnlyPrepare /\ AnswersTrue

CallTrue == call # None =>
    /\ call.res = "wait" => call.cmd.act # "secret"
    /\ call.res \in Views => Fact(call.cmd.op, call.res) /\ call.cmd.act # "secret"
    /\ call.res = "no_operation" => NoRecord(call.cmd.op)
    /\ call.cmd.act = "prepare" /\ call.res \in {"code_conflict", "code_rejected"}
          => NoRecord(call.cmd.op)

Types == MonitorTypes /\ LinkTypes /\ AgentTypes

-----------------------------------------------------------------------------
(* The engine *)

EndStates == {"rolled_back", "cancelled", "conflict"}

Steady(o) == /\ NoRecord(o) => NoRecord(o)'
             /\ \A s \in EndStates : Final(o, s) => Final(o, s)'
             /\ Past(o) => Past(o)'
EngineStable == \A o \in Ops : Steady(o)

EngineGood == AgentTypes' /\ EngineInv' /\ EngineStable

BusyKinds == {"apply", "verify", "rollback", "restore", "undoing"}

\* One operation gets a record, which the journal may have missed (Record).
LEMMA RecordGood ==
  ASSUME AgentTypes, EngineInv, NEW o \in Ops, NEW s \in Views, NEW ok \in BOOLEAN,
         up, up' = up, Engine!Record(o, s, ok),
         \/ Engine!Unfinished(mem[o])
         \/ mem[o] = "confirmed" /\ s \notin EndStates,
         worker' \in Engine!Workers,
         worker'.kind \in BusyKinds => Engine!Unfinished(mem'[worker'.op]),
         worker'.kind = "undo" => mem'[worker'.op] = "confirmed",
         Past(o) => s \in AfterConfirm,
         \A p \in Ops : worker'.op = p /\ worker'.kind \in {"apply", "verify"} =>
            \/ worker.op = p /\ worker.kind \in {"apply", "verify"}
            \/ p = o /\ mem[o] = "prepared"
  PROVE  EngineGood
<1> USE DEF AgentTypes
<1>1. s \in Engine!States /\ s # "absent" /\ "outcome_unknown" \in Engine!States
  BY DEF Views, Engine!States, Engine!UnfinishedStates
<1> DEFINE v == IF ok THEN s ELSE "outcome_unknown"
<1>2. v \in Views /\ mem' = [mem EXCEPT ![o] = v]
  BY <1>1 DEF Engine!Record, Views
<1>3. /\ \/ jrn' = [jrn EXCEPT ![o] = s]
         \/ ~ok /\ jrn' = jrn
      /\ ok => v = s
      /\ ~ok => v = "outcome_unknown"
  BY DEF Engine!Record
<1> HIDE DEF v
<1>4. AgentTypes'
  BY <1>1, <1>2, <1>3 DEF Views
<1>5. mem'[o] = v /\ \A p \in Ops \ {o} : mem'[p] = mem[p] /\ jrn'[p] = jrn[p]
  BY <1>2, <1>3
<1>6. jrn'[o] = s \/ jrn'[o] = jrn[o]
  BY <1>3
<1>7. EngineInv'
  <2>1. ASSUME NEW p \in Ops, mem'[p] = "absent" PROVE jrn'[p] = "absent"
    BY <1>2, <1>5, <2>1 DEF EngineInv, Views
  <2>2. ASSUME NEW p \in Ops, mem'[p] \in Engine!TerminalStates PROVE jrn'[p] = mem'[p]
    <3>1. CASE p # o
      BY <1>5, <2>2, <3>1 DEF EngineInv
    <3>2. CASE p = o
      <4>1. v \in Engine!TerminalStates
        BY <1>5, <2>2, <3>2
      <4>2. ok
        BY <1>3, <4>1 DEF Engine!TerminalStates
      <4> QED
        BY <1>2, <1>3, <1>5, <3>2, <4>2
    <3> QED
      BY <3>1, <3>2
  <2> QED
    BY <2>1, <2>2 DEF EngineInv, BusyKinds
<1>8. ASSUME NEW p \in Ops PROVE Steady(p)
  <2>1. NoRecord(p) => NoRecord(p)'
    <3>1. mem[o] # "absent"
      BY DEF Engine!Unfinished, Engine!UnfinishedStates
    <3> QED
      BY <1>5, <3>1 DEF NoRecord
  <2>2. ASSUME NEW e \in EndStates, Final(p, e) PROVE Final(p, e)'
    <3>1. mem[o] # e
      BY DEF EndStates, Engine!Unfinished, Engine!UnfinishedStates
    <3> QED
      BY <1>5, <2>2, <3>1 DEF Final
  <2>3. ASSUME Past(p) PROVE Past(p)'
    <3>1. mem[o] = "prepared" => p # o
      BY <2>3 DEF Past, AfterConfirm
    <3>2. jrn'[p] \in AfterConfirm /\ mem'[p] \in AfterConfirm
      <4>1. CASE p # o
        BY <1>5, <2>3, <4>1 DEF Past
      <4>2. CASE p = o
        BY <1>2, <1>3, <1>5, <1>6, <2>3, <4>2 DEF Past, AfterConfirm
      <4> QED
        BY <4>1, <4>2
    <3>3. worker'.op = p => worker'.kind \notin {"apply", "verify"}
      BY <2>3, <3>1 DEF Past
    <3> QED
      BY <3>2, <3>3 DEF Past
  <2> QED
    BY <2>1, <2>2, <2>3 DEF Steady
<1> QED
  BY <1>4, <1>7, <1>8 DEF EngineGood, EngineStable

\* The worker changes, and nothing else.
LEMMA WorkerGood ==
  ASSUME AgentTypes, EngineInv, up, UNCHANGED <<up, mem, jrn>>,
         worker' \in Engine!Workers,
         worker'.kind \in BusyKinds => Engine!Unfinished(mem[worker'.op]),
         worker'.kind = "undo" => mem[worker'.op] = "confirmed",
         worker'.kind \notin {"apply", "verify"} \/ worker' = worker
  PROVE  EngineGood
<1>1. AgentTypes'
  BY DEF AgentTypes
<1>2. EngineInv'
  BY DEF EngineInv, BusyKinds
<1>3. EngineStable
  BY DEF EngineStable, Steady, NoRecord, Final, Past
<1> QED
  BY <1>1, <1>2, <1>3 DEF EngineGood

EngineUse == AgentTypes /\ EngineInv

\* Whoever works does so in an open engine.
LEMMA WorkerKnown ==
  ASSUME EngineUse, worker.kind \in Engine!Kinds
  PROVE  up /\ worker.op \in Ops /\ worker \in [op : Ops, kind : Engine!Kinds]
BY DEF EngineUse, AgentTypes, EngineInv, Engine!Workers, Engine!NoWorker, Engine!Kinds

LEMMA WorkerMoves ==
  ASSUME EngineUse, worker.kind \in Engine!Kinds, NEW k \in Engine!Kinds,
         worker' = [worker EXCEPT !.kind = k]
  PROVE  worker' \in Engine!Workers /\ worker'.op = worker.op /\ worker'.kind = k
BY WorkerKnown DEF Engine!Workers

LEMMA WorkerStarts ==
  ASSUME NEW o \in Ops, NEW k \in Engine!Kinds, Engine!Start(o, k)
  PROVE  worker' \in Engine!Workers /\ worker'.op = o /\ worker'.kind = k
BY DEF Engine!Start, Engine!Workers

LEMMA MemAfter ==
  ASSUME AgentTypes, NEW o \in Ops, NEW s, NEW ok, Engine!Record(o, s, ok)
  PROVE  mem'[o] = IF ok THEN s ELSE "outcome_unknown"
BY DEF AgentTypes, Engine!Record

\* A preparation becomes an apply, a refusal or a cancellation.
LEMMA PreparedGood ==
  ASSUME EngineUse, NEW o \in Ops, NEW ok \in BOOLEAN,
         \/ Engine!Apply(o, ok) \/ Engine!Cancel(o, ok)
         \/ \E s \in {"cancelled", "conflict"} : Engine!Refuse(o, s, ok)
  PROVE  EngineGood
<1> USE DEF EngineUse
<1>1. up /\ up' = up /\ Engine!Quiet /\ mem[o] = "prepared"
  BY DEF Engine!Apply, Engine!Cancel, Engine!Refuse
<1>2. PICK s \in {"applying", "cancelled", "conflict"} : 
         /\ Engine!Record(o, s, ok)
         /\ \/ worker' = worker
            \/ ok /\ s = "applying" /\ Engine!Start(o, "apply")
  BY DEF Engine!Apply, Engine!Cancel, Engine!Refuse
<1>3. s \in Views
  BY DEF Views, Engine!States, Engine!UnfinishedStates, Engine!TerminalStates
<1>4. Engine!Unfinished(mem[o])
  BY <1>1 DEF Engine!Unfinished, Engine!UnfinishedStates
<1>5. ~Past(o)
  BY <1>1 DEF Past, AfterConfirm
<1>6. CASE worker' = worker
  <2>1. worker.kind = "none" /\ worker \in Engine!Workers
    BY <1>1 DEF Engine!Quiet, Engine!NoWorker, AgentTypes
  <2> QED
    BY <1>1, <1>2, <1>3, <1>4, <1>5, <1>6, <2>1, RecordGood DEF BusyKinds
<1>7. CASE ok /\ s = "applying" /\ Engine!Start(o, "apply")
  <2>1. worker' \in Engine!Workers /\ worker'.op = o /\ worker'.kind = "apply"
    BY <1>7, WorkerStarts DEF Engine!Kinds
  <2>2. mem'[o] = "applying"
    BY <1>2, <1>7, MemAfter
  <2>3. Engine!Unfinished(mem'[worker'.op])
    BY <2>1, <2>2 DEF Engine!Unfinished, Engine!UnfinishedStates
  <2> QED
    BY <1>1, <1>2, <1>3, <1>4, <1>5, <2>1, <2>3, RecordGood DEF BusyKinds
<1> QED
  BY <1>2, <1>6, <1>7

LEMMA RollbackGood ==
  ASSUME EngineUse, NEW o \in Ops, NEW ok \in BOOLEAN, Engine!Rollback(o, ok)
  PROVE  EngineGood
<1> USE DEF EngineUse
<1>1. /\ up /\ up' = up /\ Engine!Quiet /\ Engine!Unfinished(mem[o])
      /\ Engine!Record(o, "rolling_back", ok)
      /\ IF ok THEN Engine!Start(o, "rollback") ELSE worker' = worker
  BY DEF Engine!Rollback
<1>2. "rolling_back" \in Views /\ "rolling_back" \in AfterConfirm
  BY DEF Views, AfterConfirm, Engine!States, Engine!UnfinishedStates
<1>3. CASE ok
  <2>1. worker' \in Engine!Workers /\ worker'.op = o /\ worker'.kind = "rollback"
    BY <1>1, <1>3, WorkerStarts DEF Engine!Kinds
  <2>2. Engine!Unfinished(mem'[worker'.op])
    BY <1>1, <1>3, <2>1, MemAfter DEF Engine!Unfinished, Engine!UnfinishedStates
  <2> QED
    BY <1>1, <1>2, <2>1, <2>2, RecordGood DEF BusyKinds
<1>4. CASE ~ok
  <2>1. worker'.kind = "none" /\ worker' \in Engine!Workers
    BY <1>1, <1>4 DEF Engine!Quiet, Engine!NoWorker, AgentTypes
  <2> QED
    BY <1>1, <1>2, <2>1, RecordGood DEF BusyKinds
<1> QED
  BY <1>3, <1>4

\* The steps that record nothing in the journal.
LEMMA NothingGood ==
  ASSUME EngineUse, NEW o \in Ops, Engine!RollbackNothing(o)
  PROVE  EngineGood
<1> USE DEF EngineUse, AgentTypes
<1>1. /\ up /\ up' = up /\ jrn' = jrn /\ worker' = worker /\ worker.kind = "none"
      /\ mem' = [mem EXCEPT ![o] = "rollback_failed"]
      /\ jrn[o] = "absent" /\ mem[o] \in Engine!UnfinishedStates
  BY DEF Engine!RollbackNothing, Engine!Quiet, Engine!NoWorker, Engine!Unfinished
<1>2. "rollback_failed" \in Engine!States
      /\ "rollback_failed" \notin Engine!TerminalStates \cup {"absent"}
  BY DEF Engine!States, Engine!UnfinishedStates, Engine!TerminalStates
<1>3. AgentTypes'
  BY <1>1, <1>2
<1>4. EngineInv'
  BY <1>1, <1>2 DEF EngineInv
<1>5. ASSUME NEW p \in Ops PROVE Steady(p)
  BY <1>1, <1>2 DEF Steady, NoRecord, Final, Past, EndStates, AfterConfirm,
     Engine!UnfinishedStates
<1> QED
  BY <1>3, <1>4, <1>5 DEF EngineGood, EngineStable

LEMMA StartGood ==
  ASSUME EngineUse, NEW o \in Ops, Engine!Undo(o) \/ Engine!Recover(o)
  PROVE  EngineGood
<1> USE DEF EngineUse
<1>1. CASE Engine!Undo(o)
  <2>1. worker' \in Engine!Workers /\ worker'.op = o /\ worker'.kind = "undo"
    BY <1>1, WorkerStarts DEF Engine!Undo, Engine!Kinds
  <2> QED
    BY <1>1, <2>1, WorkerGood DEF Engine!Undo, BusyKinds
<1>2. CASE Engine!Recover(o)
  <2>1. worker' \in Engine!Workers /\ worker'.op = o /\ worker'.kind = "rollback"
    BY <1>2, WorkerStarts DEF Engine!Recover, Engine!Kinds
  <2>2. Engine!Unfinished(mem[o])
    BY <1>2 DEF Engine!Recover, Engine!Unfinished, Engine!UnfinishedStates
  <2> QED
    BY <1>2, <2>1, <2>2, WorkerGood DEF Engine!Recover, BusyKinds
<1> QED
  BY <1>1, <1>2

\* The worker goes on, or leaves, without a record.
LEMMA MovesGood ==
  ASSUME EngineUse, Engine!TurnBack \/ Engine!UndoRefused \/ Engine!Exit
  PROVE  EngineGood
<1> USE DEF EngineUse
<1>1. /\ worker.kind \in Engine!Kinds /\ UNCHANGED <<up, mem, jrn>>
  BY DEF Engine!TurnBack, Engine!UndoRefused, Engine!Exit, Engine!Works, Engine!Kinds
<1>2. up
  BY <1>1, WorkerKnown
<1>3. CASE Engine!TurnBack
  <2>1. worker' \in Engine!Workers /\ worker'.op = worker.op /\ worker'.kind = "rollback"
    BY <1>1, <1>3, WorkerMoves DEF Engine!TurnBack, Engine!Become, Engine!Kinds
  <2>2. Engine!Unfinished(mem[worker.op])
    BY <1>3 DEF EngineInv, Engine!TurnBack, Engine!Works
  <2> QED
    BY <1>1, <1>2, <2>1, <2>2, WorkerGood DEF BusyKinds
<1>4. CASE Engine!UndoRefused
  <2>1. worker' \in Engine!Workers /\ worker'.op = worker.op /\ worker'.kind = "done"
    BY <1>1, <1>4, WorkerMoves DEF Engine!UndoRefused, Engine!Become, Engine!Kinds
  <2> QED
    BY <1>1, <1>2, <2>1, WorkerGood DEF BusyKinds
<1>5. CASE Engine!Exit
  <2>1. worker' \in Engine!Workers /\ worker'.kind = "none"
    BY <1>5 DEF Engine!Exit, Engine!NoWorker, Engine!Workers
  <2> QED
    BY <1>1, <1>2, <2>1, WorkerGood DEF BusyKinds
<1> QED
  BY <1>3, <1>4, <1>5

\* Every record of a worker.
LEMMA RecordingGood ==
  ASSUME EngineUse, NEW ok \in BOOLEAN, Engine!Recording(ok)
  PROVE  EngineGood
<1> USE DEF EngineUse
<1> DEFINE o == worker.op
<1>1. worker.kind \in Engine!Kinds /\ up' = up
  BY DEF Engine!Recording, Engine!Doubt, Engine!Verify, Engine!Confirm, Engine!Intend,
     Engine!Conclude, Engine!Works, Engine!Kinds, Engine!Conclusions
<1>2. up /\ o \in Ops
  BY <1>1, WorkerKnown
<1>3. /\ Engine!Unfinished("outcome_unknown") /\ Engine!Unfinished("verifying")
      /\ Engine!Unfinished("rolling_back")
  BY DEF Engine!Unfinished, Engine!UnfinishedStates
<1>4. {"outcome_unknown", "verifying", "confirmed", "rolling_back", "rolled_back",
       "rollback_failed", "cancelled", "conflict"} \subseteq Views
  BY DEF Views, Engine!States, Engine!UnfinishedStates, Engine!TerminalStates
<1>5. ASSUME NEW k \in Engine!Kinds, Engine!Become(k)
      PROVE  worker' \in Engine!Workers /\ worker'.op = o /\ worker'.kind = k
  BY <1>1, <1>5, WorkerMoves DEF Engine!Become
<1>6. CASE Engine!Doubt(ok)
  <2>1. /\ Engine!Record(o, "outcome_unknown", ok) /\ Engine!Unfinished(mem[o])
        /\ worker' = worker
    BY <1>6 DEF Engine!Doubt
  <2>2. mem'[o] = "outcome_unknown"
    BY <1>2, <2>1, MemAfter
  <2>3. worker.kind # "undo"
    BY <2>1 DEF EngineInv, Engine!Unfinished, Engine!UnfinishedStates
  <2>4. worker' \in Engine!Workers
    BY <2>1 DEF AgentTypes
  <2> QED
    BY <1>1, <1>2, <1>3, <1>4, <2>1, <2>2, <2>3, <2>4, RecordGood DEF BusyKinds, AfterConfirm
<1>7. CASE Engine!Verify(ok)
  <2>1. /\ Engine!Record(o, "verifying", ok) /\ worker.kind = "apply"
        /\ Engine!Become(IF ok THEN "verify" ELSE "rollback")
    BY <1>7 DEF Engine!Verify, Engine!Works
  <2>2. Engine!Unfinished(mem[o]) /\ ~Past(o)
    BY <2>1 DEF EngineInv, Past
  <2>3. /\ worker' \in Engine!Workers /\ worker'.op = o
        /\ worker'.kind = IF ok THEN "verify" ELSE "rollback"
    BY <1>5, <2>1 DEF Engine!Kinds
  <2>4. Engine!Unfinished(mem'[o])
    BY <1>2, <1>3, <2>1, MemAfter
  <2> QED
    BY <1>1, <1>2, <1>4, <2>1, <2>2, <2>3, <2>4, RecordGood DEF BusyKinds
<1>8. CASE Engine!Confirm(ok)
  <2>1. /\ Engine!Record(o, "confirmed", ok) /\ worker.kind = "verify"
        /\ Engine!Become(IF ok THEN "done" ELSE "rollback")
    BY <1>8 DEF Engine!Confirm, Engine!Works
  <2>2. Engine!Unfinished(mem[o]) /\ ~Past(o)
    BY <2>1 DEF EngineInv, Past
  <2>3. /\ worker' \in Engine!Workers /\ worker'.op = o
        /\ worker'.kind = IF ok THEN "done" ELSE "rollback"
    BY <1>5, <2>1 DEF Engine!Kinds
  <2>4. ~ok => Engine!Unfinished(mem'[o])
    BY <1>2, <1>3, <2>1, MemAfter
  <2> QED
    BY <1>1, <1>2, <1>4, <2>1, <2>2, <2>3, <2>4, RecordGood DEF BusyKinds
<1>9. CASE Engine!Intend(ok)
  <2>1. /\ Engine!Record(o, "rolling_back", ok) /\ worker.kind \in {"rollback", "undo"}
        /\ Engine!Become(IF worker.kind = "rollback" THEN "restore"
                         ELSE IF ok THEN "undoing" ELSE "done")
    BY <1>9 DEF Engine!Intend, Engine!Works
  <2>2. Engine!Unfinished(mem[o]) \/ mem[o] = "confirmed"
    BY <2>1 DEF EngineInv
  <2>3. /\ worker' \in Engine!Workers /\ worker'.op = o
        /\ worker'.kind \in {"restore", "undoing", "done"}
    BY <1>5, <2>1 DEF Engine!Kinds
  <2>4. Engine!Unfinished(mem'[o])
    BY <1>2, <1>3, <2>1, MemAfter
  <2> QED
    BY <1>1, <1>2, <1>4, <2>1, <2>2, <2>3, <2>4, RecordGood
    DEF BusyKinds, AfterConfirm, EndStates
<1>10. ASSUME NEW s \in Engine!States, Engine!Conclude(s, ok) PROVE EngineGood
  <2>1. /\ Engine!Record(o, s, ok) /\ Engine!Become("done")
        /\ worker.kind \in DOMAIN Engine!Conclusions
        /\ s \in Engine!Conclusions[worker.kind]
    BY <1>10 DEF Engine!Conclude, Engine!Works
  <2>2. worker.kind \in {"apply", "rollback", "restore", "undoing"}
    BY <2>1 DEF Engine!Conclusions
  <2>3. /\ s \in {"cancelled", "conflict", "rollback_failed", "rolled_back", "confirmed"}
        /\ worker.kind # "apply" => s \in {"rollback_failed", "rolled_back", "confirmed"}
    BY <2>1, <2>2 DEF Engine!Conclusions
  <2>4. Engine!Unfinished(mem[o]) /\ (worker.kind = "apply" => ~Past(o))
    BY <2>2 DEF EngineInv, Past
  <2>5. /\ worker' \in Engine!Workers /\ worker'.op = o
        /\ worker'.kind = "done"
    BY <1>5, <2>1 DEF Engine!Kinds
  <2> QED
    BY <1>1, <1>2, <1>4, <2>1, <2>3, <2>4, <2>5, RecordGood DEF BusyKinds, AfterConfirm
<1> QED
  BY <1>6, <1>7, <1>8, <1>9, <1>10 DEF Engine!Recording

\* A save that repeats what memory knows.
LEMMA ResaveGood == ASSUME EngineUse, Engine!Resave PROVE EngineGood
<1> USE DEF EngineUse, AgentTypes
<1> DEFINE o == worker.op
<1>1. /\ UNCHANGED <<up, mem, worker>> /\ jrn' = [jrn EXCEPT ![o] = mem[o]]
      /\ worker # Engine!NoWorker
  BY DEF Engine!Resave, Engine!NoWorker
<1>2. up /\ o \in Ops
  BY <1>1 DEF EngineInv, Engine!Workers
<1>3. jrn'[o] = mem[o] /\ \A p \in Ops \ {o} : jrn'[p] = jrn[p]
  BY <1>1, <1>2
<1>4. AgentTypes'
  BY <1>1, <1>2
<1>5. EngineInv'
  BY <1>1, <1>2, <1>3 DEF EngineInv
<1>6. ASSUME NEW p \in Ops PROVE Steady(p)
  <2>1. NoRecord(p) => NoRecord(p)'
    BY <1>1, <1>3 DEF NoRecord
  <2>2. ASSUME NEW s \in EndStates, Final(p, s) PROVE Final(p, s)'
    BY <1>1, <1>2, <1>3, <2>2 DEF Final
  <2>3. ASSUME Past(p) PROVE Past(p)'
    BY <1>1, <1>2, <1>3, <2>3 DEF Past
  <2> QED
    BY <2>1, <2>2, <2>3 DEF Steady
<1> QED
  BY <1>4, <1>5, <1>6 DEF EngineGood, EngineStable

\* Memory is lost; the journal stays, except that Close cancels what nobody
\* applied.
LEMMA StopsGood ==
  ASSUME EngineUse, Engine!Crash \/ \E o \in Ops : Engine!CloseCancels(o)
  PROVE  EngineGood
<1> USE DEF EngineUse, AgentTypes
<1>1. /\ up /\ up' = FALSE /\ mem' = [o \in Ops |-> "absent"] /\ worker' = Engine!NoWorker
      /\ \/ jrn' = jrn
         \/ \E o \in Ops : mem[o] = "prepared" /\ jrn' = [jrn EXCEPT ![o] = "cancelled"]
  BY DEF Engine!Crash, Engine!CloseCancels, Engine!Down
<1>2. {"absent", "cancelled"} \subseteq Engine!States
  BY DEF Engine!States, Engine!TerminalStates
<1>3. AgentTypes'
  BY <1>1, <1>2 DEF Engine!Workers
<1>4. EngineInv'
  BY <1>1 DEF EngineInv, Engine!NoWorker, Engine!TerminalStates
<1>5. ASSUME NEW p \in Ops PROVE Steady(p)
  <2>1. mem'[p] = "absent" /\ worker'.op # p /\ ~up'
    BY <1>1, ConstantsAssumption DEF Engine!NoWorker
  <2>2. mem[p] # "prepared" => jrn'[p] = jrn[p]
    BY <1>1
  <2> QED
    BY <1>1, <2>1, <2>2 DEF Steady, NoRecord, Final, Past, EndStates, AfterConfirm
<1> QED
  BY <1>3, <1>4, <1>5 DEF EngineGood, EngineStable

\* Open, and the intents it journals before.
LEMMA OpensGood ==
  ASSUME EngineUse, Engine!Open \/ \E o \in Ops : Engine!OpenIntent(o)
  PROVE  EngineGood
<1> USE DEF EngineUse, AgentTypes
<1>1. CASE Engine!Open
  <2>1. /\ ~up /\ up' = TRUE /\ mem' = jrn /\ jrn' = jrn /\ worker' = worker
        /\ worker = Engine!NoWorker
    BY <1>1 DEF Engine!Open, EngineInv
  <2>2. AgentTypes' /\ EngineInv'
    BY <2>1 DEF EngineInv, Engine!NoWorker
  <2>3. EngineStable
    BY <2>1 DEF EngineStable, Steady, NoRecord, Final, Past
  <2> QED
    BY <2>2, <2>3 DEF EngineGood
<1>2. ASSUME NEW o \in Ops, Engine!OpenIntent(o) PROVE EngineGood
  <2>1. /\ ~up /\ UNCHANGED <<up, mem, worker>> /\ jrn[o] \in Engine!UnfinishedStates
        /\ jrn' = [jrn EXCEPT ![o] = "rolling_back"] /\ worker = Engine!NoWorker
    BY <1>2 DEF Engine!OpenIntent, EngineInv, Engine!Unfinished
  <2>2. AgentTypes'
    BY <2>1 DEF Engine!States, Engine!UnfinishedStates
  <2>3. EngineInv'
    BY <2>1 DEF EngineInv, Engine!NoWorker, Engine!TerminalStates
  <2>4. ASSUME NEW p \in Ops PROVE Steady(p)
    BY <2>1 DEF Steady, NoRecord, Final, Past, EndStates, AfterConfirm,
       Engine!UnfinishedStates
  <2> QED
    BY <2>2, <2>3, <2>4 DEF EngineGood, EngineStable
<1> QED
  BY <1>1, <1>2

\* A preparation begins a record, and only its own.
LEMMA PrepareGood ==
  ASSUME EngineUse, NEW o \in Ops, NEW ok \in BOOLEAN, Engine!Prepare(o, ok)
  PROVE  /\ AgentTypes' /\ EngineInv'
         /\ \A p \in Ops \ {o} : Steady(p)
         /\ NoRecord(o)
         /\ mem'[o] \in {"prepared", "outcome_unknown"}
<1> USE DEF EngineUse, AgentTypes
<1> DEFINE v == IF ok THEN "prepared" ELSE "outcome_unknown"
<1>1. /\ up /\ mem[o] = "absent" /\ UNCHANGED <<up, worker>> /\ worker.kind = "none"
      /\ mem' = [mem EXCEPT ![o] = v]
      /\ jrn' = [jrn EXCEPT ![o] = "prepared"] \/ jrn' = jrn
  BY DEF Engine!Prepare, Engine!Quiet, Engine!NoWorker
<1>2. v \in {"prepared", "outcome_unknown"}
  OBVIOUS
<1> HIDE DEF v
<1>3. /\ {"prepared", "outcome_unknown"} \subseteq Engine!States
      /\ v # "absent" /\ v \notin Engine!TerminalStates
  BY <1>2 DEF Engine!States, Engine!UnfinishedStates, Engine!TerminalStates
<1>4. AgentTypes'
  BY <1>1, <1>2, <1>3
<1>5. mem'[o] = v /\ \A p \in Ops \ {o} : mem'[p] = mem[p] /\ jrn'[p] = jrn[p]
  BY <1>1
<1>6. EngineInv'
  BY <1>1, <1>3, <1>5 DEF EngineInv
<1>7. ASSUME NEW p \in Ops \ {o} PROVE Steady(p)
  BY <1>1, <1>5 DEF Steady, NoRecord, Final, Past
<1>8. NoRecord(o)
  BY <1>1 DEF NoRecord, EngineInv
<1> QED
  BY <1>2, <1>4, <1>5, <1>6, <1>7, <1>8


-----------------------------------------------------------------------------
(* What is live and what stays true *)

OnWire(c)  == \E i \in 1..Len(wire) : c = wire[i]
InQueue(c) == queue # None /\ queue.id = pending /\ c = queue
InJob(c)   == job # None /\ job.alive /\ c = job.cmd
InCall(c)  == call # None /\ call.res = "todo" /\ c = call.cmd

\* Where a command that may still run can be.
LEMMA LiveMembers ==
  /\ \A c : c \in Live <=> OnWire(c) \/ InQueue(c) \/ InJob(c) \/ InCall(c)
  /\ \A c : c \in Live' <=> OnWire(c)' \/ InQueue(c)' \/ InJob(c)' \/ InCall(c)'
BY DEF Live, OnWire, InQueue, InJob, InCall

LEMMA LiveTyped == ASSUME LinkTypes PROVE Live \subseteq Cmds
<1> SUFFICES ASSUME NEW c \in Live PROVE c \in Cmds
  OBVIOUS
<1>1. OnWire(c) \/ InQueue(c) \/ InJob(c) \/ InCall(c)
  BY LiveMembers
<1>2. OnWire(c) => c \in Cmds
  BY ElementOfSeq DEF OnWire, LinkTypes
<1>3. InQueue(c) => c \in Cmds
  BY DEF InQueue, LinkTypes
<1>4. InJob(c) => c \in Cmds
  BY DEF InJob, LinkTypes, Jobs
<1>5. InCall(c) => c \in Cmds
  BY DEF InCall, LinkTypes, Calls
<1> QED
  BY <1>1, <1>2, <1>3, <1>4, <1>5

Kept == \A o \in Ops : /\ Unborn(o) => Unborn(o)'
                       /\ \A s \in EndStates : Final(o, s) => Final(o, s)'
                       /\ Past(o) => Past(o)'

\* With an agent that takes nothing back, rows stay true unless a command appears.
LEMMA StableKept == ASSUME EngineStable, Live' \subseteq Live PROVE Kept
<1> SUFFICES ASSUME NEW o \in Ops
    PROVE  /\ Unborn(o) => Unborn(o)'
           /\ \A s \in EndStates : Final(o, s) => Final(o, s)'
           /\ Past(o) => Past(o)'
  BY DEF Kept
<1>1. ~LivePrepare(o) => ~LivePrepare(o)'
  BY DEF LivePrepare
<1> QED
  BY <1>1 DEF EngineStable, Steady, Unborn

LEMMA FactKept == ASSUME Kept, NEW o \in Ops, NEW v, Fact(o, v) PROVE Fact(o, v)'
BY DEF Kept, Fact, EndStates

LEMMA UnchangedStable == ASSUME UNCHANGED agent PROVE EngineStable
BY DEF EngineStable, Steady, NoRecord, Final, Past, agent

LEMMA RowKept ==
  ASSUME Kept, NEW o \in Ops, op'[o] = op[o], RowTrue(o)
  PROVE  RowTrue(o)'
BY DEF Kept, RowTrue, EndStates

LEMMA RowsKept == ASSUME Kept, UNCHANGED op, RowsTrue PROVE RowsTrue'
BY RowKept DEF RowsTrue

\* What is said of a thread does not depend on commands that vanish.
LEMMA SeatKept ==
  ASSUME Kept, UNCHANGED <<op, gate>>, Live' \subseteq Live,
         NEW t, NEW s, SeatedAt(t, s)
  PROVE  SeatedAt(t, s)'
<1>1. s.pc \notin {"idle", "read"} <=> gate' = t
  BY DEF SeatedAt
<1>2. ASSUME s.pc # "idle"
      PROVE  /\ s.op \in Ops
             /\ Begins(s) => Unborn(s.op)'
             /\ CallAllowed(s)' /\ RecordAllowed(s)' /\ SettleAllowed(s)'
  <2>1. /\ s.op \in Ops /\ (Begins(s) => Unborn(s.op))
        /\ CallAllowed(s) /\ RecordAllowed(s) /\ SettleAllowed(s)
    BY <1>2 DEF SeatedAt
  <2>2. Begins(s) => Unborn(s.op)'
    BY <2>1 DEF Kept
  <2>3. CallAllowed(s)'
    BY <2>1 DEF CallAllowed
  <2>4. RecordAllowed(s)'
    BY <2>1, FactKept DEF RecordAllowed
  <2>5. SettleAllowed(s)'
    BY <2>1 DEF SettleAllowed, Kept
  <2> QED
    BY <2>1, <2>2, <2>3, <2>4, <2>5
<1> QED
  BY <1>1, <1>2 DEF SeatedAt

\* The monitor looks away, commands only vanish, the agent takes nothing back.
LEMMA MonitorRests ==
  ASSUME Kept, UNCHANGED <<op, h, gate>>, Live' \subseteq Live,
         RowsTrue, IntentsFirst, ThreadsSeated
  PROVE  RowsTrue' /\ IntentsFirst' /\ ThreadsSeated'
<1>1. RowsTrue'
  BY RowsKept
<1>2. IntentsFirst'
  BY DEF IntentsFirst, IntentOf
<1>3. ThreadsSeated'
  BY SeatKept DEF ThreadsSeated
<1> QED
  BY <1>1, <1>2, <1>3

LEMMA OnlyPrepareKept ==
  ASSUME EngineStable, UNCHANGED <<h, gate, pending>>, Live' \subseteq Live, OnlyPrepare,
         h[gate].op \in Ops
  PROVE  OnlyPrepare'
BY DEF OnlyPrepare, EngineStable, Steady, Awaits

\* Answers under way stay true.
LEMMA AnswerKept ==
  ASSUME EngineStable, UNCHANGED <<h, gate>>, Live' \subseteq Live, h[gate].op \in Ops,
         NEW r, AnswerTrue(r)
  PROVE  AnswerTrue(r)'
<1>1. Kept
  BY StableKept
<1>2. \A v : Fact(h[gate].op, v) => Fact(h[gate].op, v)'
  BY <1>1, FactKept
<1>3. NoRecord(h[gate].op) => NoRecord(h[gate].op)'
  BY DEF EngineStable, Steady
<1>4. Unborn(h[gate].op) => Unborn(h[gate].op)'
  BY <1>1 DEF Kept
<1>5. h'[gate'] = h[gate]
  OBVIOUS
<1> QED
  BY <1>2, <1>3, <1>4, <1>5 DEF AnswerTrue, Fact, NoRecord, Unborn

LEMMA CallKept ==
  ASSUME EngineStable, LinkTypes, UNCHANGED call, CallTrue PROVE CallTrue'
<1> SUFFICES ASSUME call # None PROVE CallTrue'
  BY DEF CallTrue
<1>1. call.cmd.op \in Ops
  BY DEF LinkTypes, Calls, Cmds
<1>2. NoRecord(call.cmd.op) => NoRecord(call.cmd.op)'
  BY <1>1 DEF EngineStable, Steady
<1>3. \A v : Fact(call.cmd.op, v) => Fact(call.cmd.op, v)'
  BY <1>1 DEF EngineStable, Steady, Fact, EndStates
<1> QED
  BY <1>2, <1>3 DEF CallTrue, Fact, NoRecord

-----------------------------------------------------------------------------
(* The engine's own steps *)

Safe == Types /\ EngineInv /\ RowsTrue /\ IntentsFirst /\ ThreadsSeated
Inv  == Safe /\ ChannelInv /\ CallTrue

\* A thread that waits is at work on an operation.
LEMMA WaiterKnown ==
  ASSUME Inv, pending # None
  PROVE  /\ gate \in Threads /\ gate # None /\ h[gate].pc = "wait" /\ h[gate].id = pending
         /\ h[gate].op \in Ops /\ h[gate].act \in Acts \cup {"preflight"}
         /\ h[gate] \in ThreadStates /\ conn
<1>1. gate \in Threads /\ h[gate].pc = "wait" /\ h[gate].id = pending /\ conn
  BY DEF Inv, ChannelInv, Waiting
<1>2. SeatedAt(gate, h[gate])
  BY <1>1 DEF Inv, Safe, ThreadsSeated
<1>3. h[gate] \in ThreadStates
  BY <1>1 DEF Inv, Safe, Types, MonitorTypes
<1>4. gate # None
  BY <1>1, ConstantsAssumption DEF Threads
<1> QED
  BY <1>1, <1>2, <1>3, <1>4 DEF SeatedAt

LEMMA ChannelRests ==
  ASSUME Inv, EngineStable, UNCHANGED <<link, h, gate>>
  PROVE  ChannelInv' /\ CallTrue'
<1> USE DEF link
<1>1. Live' = Live
  BY DEF Live
<1>2. CallTrue'
  BY CallKept DEF Inv, Safe, Types
<1>3. CASE pending = None
  BY <1>2, <1>3 DEF Inv, ChannelInv
<1>4. CASE pending # None
  <2>1. /\ Waiting /\ Fence /\ OnlyPrepare /\ AnswersTrue /\ h[gate].op \in Ops
    BY <1>4, WaiterKnown DEF Inv, ChannelInv
  <2>2. Waiting' /\ Fence'
    BY <2>1 DEF Waiting, Fence, Awaits, Mine
  <2>3. OnlyPrepare'
    BY <1>1, <2>1, OnlyPrepareKept
  <2>4. AnswersTrue'
    BY <1>1, <2>1, AnswerKept DEF AnswersTrue
  <2> QED
    BY <1>2, <2>2, <2>3, <2>4 DEF Inv, ChannelInv
<1> QED
  BY <1>3, <1>4

\* A step of the engine leaves the monitor and the channel.
LEMMA EngineOnlyKeeps ==
  ASSUME Inv, EngineGood, UNCHANGED <<op, h, gate, link>>, late' \in [Ops -> BOOLEAN]
  PROVE  Inv'
<1>1. Live' = Live
  BY DEF Live, link
<1>2. EngineStable
  BY DEF EngineGood
<1>3. Kept
  BY <1>1, <1>2, StableKept
<1>4. RowsTrue' /\ IntentsFirst' /\ ThreadsSeated'
  BY <1>1, <1>3, MonitorRests DEF Inv, Safe
<1>5. ChannelInv' /\ CallTrue'
  BY <1>2, ChannelRests
<1>6. Types'
  BY DEF Inv, Safe, Types, MonitorTypes, LinkTypes, EngineGood, link
<1> QED
  BY <1>4, <1>5, <1>6 DEF Inv, Safe, EngineGood

LEMMA EngineStepsKeep ==
  ASSUME Inv,
         \/ EngineWorks \/ EngineOpens
         \/ \E ok \in BOOLEAN : EngineRecords(ok)
         \/ \E o \in Ops : Late(o)
  PROVE  Inv'
<1>1. EngineUse /\ late \in [Ops -> BOOLEAN]
  BY DEF EngineUse, Inv, Safe, Types, MonitorTypes
<1>2. CASE EngineWorks
  <2>1. EngineGood
    BY <1>1, <1>2, MovesGood, ResaveGood, StartGood DEF EngineWorks
  <2> QED
    BY <1>1, <1>2, <2>1, EngineOnlyKeeps DEF EngineWorks, EngineOnly, monitor, link
<1>3. CASE EngineOpens
  <2>1. EngineGood
    BY <1>1, <1>3, OpensGood DEF EngineOpens
  <2> QED
    BY <1>1, <1>3, <2>1, EngineOnlyKeeps DEF EngineOpens, EngineOnly, monitor, link
<1>4. ASSUME NEW ok \in BOOLEAN, EngineRecords(ok) PROVE Inv'
  <2>1. EngineGood
    BY <1>1, <1>4, RecordingGood, PreparedGood DEF EngineRecords
  <2> QED
    BY <1>1, <1>4, <2>1, EngineOnlyKeeps DEF EngineRecords, EngineOnly, monitor, link
<1>5. ASSUME NEW o \in Ops, Late(o) PROVE Inv'
  <2>1. UNCHANGED <<op, h, gate, link, agent>> /\ late' = [late EXCEPT ![o] = TRUE]
    BY <1>5 DEF Late
  <2>2. late' \in [Ops -> BOOLEAN]
    BY <1>1, <2>1
  <2>3. EngineStable
    BY <2>1, UnchangedStable
  <2>4. AgentTypes' /\ EngineInv'
    BY <2>1 DEF agent, Inv, Safe, Types, AgentTypes, EngineInv
  <2>5. EngineGood
    BY <2>3, <2>4 DEF EngineGood
  <2> QED
    BY <2>1, <2>2, <2>5, EngineOnlyKeeps
<1> QED
  BY <1>2, <1>3, <1>4, <1>5

-----------------------------------------------------------------------------
(* The channel's own steps *)

LEMMA SideKeeps ==
  ASSUME Inv, UNCHANGED <<op, late, h, gate>>, AgentTypes', EngineInv', EngineStable,
         Live' \subseteq Live, LinkTypes', ChannelInv', CallTrue'
  PROVE  Inv'
<1>1. RowsTrue' /\ IntentsFirst' /\ ThreadsSeated'
  BY StableKept, MonitorRests DEF Inv, Safe
<1>2. Types'
  BY DEF Inv, Safe, Types, MonitorTypes
<1> QED
  BY <1>1, <1>2 DEF Inv, Safe

LEMMA LinkKeeps ==
  ASSUME Inv, UNCHANGED <<op, late, h, gate, agent>>,
         Live' \subseteq Live, LinkTypes', ChannelInv', CallTrue'
  PROVE  Inv'
<1>1. EngineStable
  BY UnchangedStable
<1>2. AgentTypes' /\ EngineInv'
  BY DEF agent, Inv, Safe, Types, AgentTypes, EngineInv
<1> QED
  BY <1>1, <1>2, SideKeeps

\* What is said of the awaited request, after a step that leaves the waiter.
LEMMA WaiterKept ==
  ASSUME Inv, UNCHANGED <<h, gate, pending>>, EngineStable, Live' \subseteq Live,
         pending # None
  PROVE  /\ Waiting' /\ OnlyPrepare' /\ Kept
         /\ \A r : AnswerTrue(r) => AnswerTrue(r)'
         /\ \A c : Mine(c) => Mine(c)'
         /\ Fence /\ OnlyPrepare /\ AnswersTrue /\ conn
         /\ h[gate].op \in Ops
<1>1. Waiting /\ Fence /\ OnlyPrepare /\ AnswersTrue /\ h[gate].op \in Ops /\ conn
  BY WaiterKnown DEF Inv, ChannelInv
<1>2. Waiting' /\ \A c : Mine(c) => Mine(c)'
  BY <1>1 DEF Waiting, Mine, Awaits
<1>3. OnlyPrepare'
  BY <1>1, OnlyPrepareKept
<1>4. \A r : AnswerTrue(r) => AnswerTrue(r)'
  BY <1>1, AnswerKept
<1>5. Kept
  BY StableKept
<1> QED
  BY <1>1, <1>2, <1>3, <1>4, <1>5

\* The connection is lost, with what it carried.
LEMMA LoseKeeps ==
  ASSUME Inv, Link!Disconnect, UNCHANGED agent
  PROVE  LinkTypes' /\ ChannelInv' /\ CallTrue'
<1>1. /\ conn' = FALSE /\ pending' = None /\ queue' = None /\ wire' = <<>> /\ out' = <<>>
      /\ job' = IF job = None THEN None ELSE [job EXCEPT !.alive = FALSE]
      /\ call' = IF call = None THEN None ELSE [call EXCEPT !.alive = FALSE]
      /\ busy' = busy
  BY DEF Link!Disconnect, Link!Lose
<1>2. LinkTypes
  BY DEF Inv, Safe, Types
<1>3. /\ job' \in Jobs \cup {None}
      /\ job = None => job' = None
      /\ job # None => ~job'.alive
  BY <1>1, <1>2 DEF LinkTypes, Jobs
<1>4. /\ call' \in Calls \cup {None}
      /\ call = None => call' = None
      /\ call # None => /\ call'.cmd = call.cmd /\ call'.res = call.res
                        /\ ~call'.alive
  BY <1>1, <1>2 DEF LinkTypes, Calls
<1>5. LinkTypes'
  <2>1. wire' \in Seq(Cmds) /\ out' \in Seq(Outs) /\ Len(out') <= ResultCap
    BY <1>1, EmptySeq, ConstantsAssumption
  <2> QED
    BY <1>1, <1>2, <1>3, <1>4, <2>1 DEF LinkTypes
<1>6. ChannelInv'
  BY <1>1, <1>3, <1>4 DEF Inv, ChannelInv
<1>7. CallTrue'
  <2>1. CASE call = None
    BY <1>4, <2>1 DEF CallTrue
  <2>2. CASE call # None
    BY <1>4, <2>2 DEF Inv, CallTrue, agent, Fact, NoRecord, Final, Past
  <2> QED
    BY <2>1, <2>2
<1> QED
  BY <1>5, <1>6, <1>7

LEMMA LoseShrinks == ASSUME Inv, Link!Disconnect PROVE Live' \subseteq Live
<1> SUFFICES ASSUME NEW c \in Live' PROVE c \in Live
  OBVIOUS
<1>1. /\ queue' = None /\ wire' = <<>>
      /\ job' = IF job = None THEN None ELSE [job EXCEPT !.alive = FALSE]
      /\ call' = IF call = None THEN None ELSE [call EXCEPT !.alive = FALSE]
      /\ job \in Jobs \cup {None} /\ call \in Calls \cup {None}
  BY DEF Link!Disconnect, Link!Lose, Inv, Safe, Types, LinkTypes
<1>2. InCall(c)'
  BY <1>1, LiveMembers DEF OnWire, InQueue, InJob, Jobs
<1>3. InCall(c)
  BY <1>1, <1>2 DEF InCall, Calls
<1> QED
  BY <1>3, LiveMembers

\* At most one result is added, and only for the command that is answered.
LEMMA OfferKeeps ==
  ASSUME LinkTypes, NEW alive, NEW c \in Cmds, NEW v \in Engine!States \cup Codes,
         Link!Offer(alive, c, v)
  PROVE  /\ out' \in Seq(Outs) /\ Len(out') <= ResultCap
         /\ \A i \in 1..Len(out') :
               \/ i \in 1..Len(out) /\ out'[i] = out[i]
               \/ alive /\ out'[i] = [id |-> c.id, val |-> v]
<1> USE DEF LinkTypes
<1> DEFINE r == [id |-> c.id, val |-> v]
<1>1. CASE alive /\ Len(out) < ResultCap
  <2>1. r \in Outs
    BY DEF Outs, Cmds
  <2>2. out' = Append(out, r)
    BY <1>1 DEF Link!Offer
  <2> HIDE DEF r
  <2>3. /\ out' \in Seq(Outs) /\ Len(out') = Len(out) + 1
        /\ \A i \in 1..Len(out) : out'[i] = out[i]
        /\ out'[Len(out) + 1] = r
    BY <2>1, <2>2, AppendProperties
  <2>4. Len(out) \in Nat
    BY LenProperties
  <2>5. ResultCap \in Nat
    BY ConstantsAssumption
  <2> QED
    BY <1>1, <2>3, <2>4, <2>5 DEF r
<1>2. CASE ~(alive /\ Len(out) < ResultCap)
  BY <1>2 DEF Link!Offer
<1> QED
  BY <1>1, <1>2

\* The first command leaves the wire.
LEMMA ReceiveKeeps ==
  ASSUME LinkTypes, wire # <<>>, wire' = Tail(wire)
  PROVE  /\ wire' \in Seq(Cmds) /\ Head(wire) \in Cmds /\ Head(wire) = wire[1]
         /\ Len(wire) \in Nat /\ Len(wire) >= 1 /\ Len(wire') = Len(wire) - 1
         /\ \A i \in 1..Len(wire') : i + 1 \in 1..Len(wire) /\ wire'[i] = wire[i + 1]
         /\ Len(wire) = 1 => wire' = <<>>
<1>1. wire \in Seq(Cmds)
  BY DEF LinkTypes
<1>2. /\ wire' \in Seq(Cmds) /\ Head(wire) \in Cmds /\ Head(wire) = wire[1]
      /\ Len(wire') = Len(wire) - 1
  BY <1>1, HeadTailProperties
<1>3. Len(wire) \in Nat /\ Len(wire) >= 1
  BY <1>1, EmptySeq, LenProperties
<1>4. \A i \in 1..Len(wire') : i + 1 \in 1..Len(wire) /\ wire'[i] = wire[i + 1]
  BY <1>1, <1>2, <1>3, HeadTailProperties
<1>5. Len(wire) = 1 => wire' = <<>>
  BY <1>2, EmptySeq
<1> QED
  BY <1>2, <1>3, <1>4, <1>5

LEMMA WireIsLive == ASSUME LinkTypes, wire # <<>> PROVE Head(wire) \in Live
<1>1. wire \in Seq(Cmds) /\ Len(wire) \in Nat /\ Len(wire) >= 1 /\ Head(wire) = wire[1]
  BY EmptySeq, LenProperties, HeadTailProperties DEF LinkTypes
<1>2. OnWire(Head(wire))
  BY <1>1 DEF OnWire
<1> QED
  BY <1>2, LiveMembers

\* A command that is dropped before the provider saw it was the only one that
\* could have begun the operation.
LEMMA RejectedIsTrue ==
  ASSUME Inv, UNCHANGED <<h, gate, pending, agent>>, pending # None, Live' \subseteq Live,
         NEW c \in Live, Awaits(c), \A d \in Live' : ~Awaits(d),
         Mine(c), NEW r, r.val \in {"code_rejected", "code_unsure"}
  PROVE  AnswerTrue(r)'
<1> DEFINE o == h[gate].op
<1>1. /\ OnlyPrepare /\ o \in Ops
      /\ OnlyPrepare'
  BY WaiterKept, UnchangedStable
<1>2. r.val \notin Views \cup {"no_operation"}
  BY DEF Views, Engine!States, Engine!UnfinishedStates, Engine!TerminalStates
<1>3. ASSUME h[gate].act = "prepare" PROVE Unborn(o)'
  <2>1. c.op = o /\ c.act = "prepare"
    BY <1>3 DEF Mine, Sent
  <2>2. NoRecord(o)
    BY <1>1, <1>3, <2>1 DEF OnlyPrepare
  <2>3. NoRecord(o)'
    BY <2>2 DEF NoRecord, agent
  <2>4. ~LivePrepare(o)'
    BY <1>1, <1>3 DEF OnlyPrepare, LivePrepare, Awaits
  <2> QED
    BY <2>3, <2>4 DEF Unborn
<1> QED
  BY <1>2, <1>3 DEF AnswerTrue

\* AnswersTrue, result by result.
LEMMA AnswersFrom ==
  ASSUME \A r : \A i \in 1..Len(out') : r = out'[i] /\ r.id = pending' => AnswerTrue(r)'
  PROVE  AnswersTrue'
BY DEF AnswersTrue, AnswerTrue

\* Tail of the wire: nothing but the wire and the results changes.
LEMMA DispatchShrinks ==
  ASSUME LinkTypes, wire # <<>>, wire' = Tail(wire), UNCHANGED <<pending, queue, job, call>>
  PROVE  Live' \subseteq Live
<1> SUFFICES ASSUME NEW c \in Live' PROVE c \in Live
  OBVIOUS
<1>1. OnWire(c)' => OnWire(c)
  BY ReceiveKeeps DEF OnWire
<1>2. /\ InQueue(c)' <=> InQueue(c)
      /\ InJob(c)' <=> InJob(c)
      /\ InCall(c)' <=> InCall(c)
  BY DEF InQueue, InJob, InCall
<1> QED
  BY <1>1, <1>2, LiveMembers

LEMMA DispatchKeeps ==
  ASSUME Inv, Link!DispatchBusy \/ Link!DispatchExpired,
         UNCHANGED <<op, late, h, gate, agent>>
  PROVE  Inv'
<1>1. PICK v \in {"code_rejected", "code_unsure"} : Link!Offer(TRUE, Head(wire), v)
  BY DEF Link!DispatchBusy, Link!DispatchExpired
<1>2. /\ wire # <<>> /\ wire' = Tail(wire)
      /\ UNCHANGED <<conn, pending, queue, busy, job, call>>
  BY DEF Link!DispatchBusy, Link!DispatchExpired, Link!Receive, Link!agentEnd
<1>3. LinkTypes
  BY DEF Inv, Safe, Types
<1> DEFINE c == Head(wire)
<1>4. /\ wire' \in Seq(Cmds) /\ c \in Cmds /\ c = wire[1]
      /\ Len(wire) \in Nat /\ Len(wire) >= 1 /\ Len(wire') = Len(wire) - 1
      /\ \A i \in 1..Len(wire') : i + 1 \in 1..Len(wire) /\ wire'[i] = wire[i + 1]
      /\ Len(wire) = 1 => wire' = <<>>
  BY <1>2, <1>3, ReceiveKeeps
<1>5. v \in Engine!States \cup Codes
  BY DEF Codes
<1>6. /\ out' \in Seq(Outs) /\ Len(out') <= ResultCap
      /\ \A i \in 1..Len(out') :
               \/ i \in 1..Len(out) /\ out'[i] = out[i]
               \/ out'[i] = [id |-> c.id, val |-> v]
  BY <1>1, <1>3, <1>4, <1>5, OfferKeeps
<1>7. LinkTypes'
  BY <1>2, <1>3, <1>4, <1>6 DEF LinkTypes
<1>8. Live' \subseteq Live /\ c \in Live
  BY <1>2, <1>3, DispatchShrinks, WireIsLive
<1>9. EngineStable
  BY UnchangedStable
<1>10. CallTrue'
  BY <1>2, <1>3, <1>9, CallKept DEF Inv
<1>11. ASSUME pending # None PROVE Waiting' /\ Fence' /\ OnlyPrepare' /\ AnswersTrue'
  <2>1. /\ Waiting' /\ OnlyPrepare'
        /\ \A r : AnswerTrue(r) => AnswerTrue(r)'
        /\ \A d : Mine(d) => Mine(d)'
        /\ Fence /\ AnswersTrue
    BY <1>2, <1>8, <1>9, <1>11, WaiterKept
  <2>2. /\ job # None => ~Awaits(job.cmd)
        /\ call # None => ~Awaits(call.cmd)
        /\ \A i \in 1..Len(out) : out[i].id # pending
    BY <1>2, <2>1 DEF Fence
  <2>3. Awaits(c) => wire' = <<>> /\ queue = None /\ Mine(c)
    BY <1>4, <2>1 DEF Fence
  <2>4. \A i \in 1..Len(out') : out'[i].id = pending => Awaits(c) /\ out'[i].val = v
    BY <1>6, <2>2 DEF Awaits
  <2>5. Fence'
    <3>1. \A i \in 1..Len(wire') : Awaits(wire'[i]) => i = Len(wire') /\ Mine(wire'[i])
      BY <1>4, <2>1 DEF Fence
    <3>2. queue # None => /\ Awaits(queue) /\ Mine(queue)
                          /\ \A i \in 1..Len(wire') : ~Awaits(wire'[i])
      BY <1>4, <2>1 DEF Fence
    <3>3. \A i \in 1..Len(wire') : Awaits(wire'[i]) => ~Awaits(c)
      BY <1>4, <2>3
    <3>4. \A d : Awaits(d)' <=> Awaits(d)
      BY <1>2 DEF Awaits
    <3> QED
      BY <1>2, <2>1, <2>2, <2>3, <2>4, <3>1, <3>2, <3>3, <3>4 DEF Fence
  <2>6. AnswersTrue'
    <3>1. SUFFICES ASSUME NEW i \in 1..Len(out'), NEW r, r = out'[i], r.id = pending
                   PROVE  AnswerTrue(r)'
      BY <1>2, AnswersFrom
    <3>2. Awaits(c) /\ r.val = v
      BY <2>4, <3>1
    <3>3. \A d \in Live' : ~Awaits(d)
      <4> SUFFICES ASSUME NEW d \in Live' PROVE ~Awaits(d)
        OBVIOUS
      <4>1. wire' = <<>> /\ queue' = None
        BY <1>2, <2>3, <3>2
      <4>2. InJob(d)' \/ InCall(d)'
        BY <4>1, LiveMembers DEF OnWire, InQueue
      <4> QED
        BY <1>2, <2>2, <4>2 DEF InJob, InCall
    <3> QED
      BY <1>2, <1>8, <1>11, <2>3, <3>2, <3>3, RejectedIsTrue
  <2> QED
    BY <2>1, <2>5, <2>6
<1>12. ChannelInv'
  BY <1>2, <1>11 DEF Inv, ChannelInv
<1> QED
  BY <1>7, <1>8, <1>10, <1>12, LinkKeeps

\* A step of the channel that keeps what is awaited: what is left to show.
LEMMA ChannelKeeps ==
  ASSUME Inv, UNCHANGED <<op, late, h, gate, agent, conn, pending>>,
         Live' \subseteq Live, LinkTypes', CallTrue',
         (job' # None \/ call' # None) => busy' /\ (job' = None \/ call' = None),
         ~conn => /\ queue' = None /\ wire' = <<>> /\ out' = <<>>
                  /\ job' # None => ~job'.alive
                  /\ call' # None => ~call'.alive,
         pending # None => Fence' /\ AnswersTrue'
  PROVE  Inv'
<1>1. pending # None => Waiting' /\ OnlyPrepare'
  BY WaiterKept, UnchangedStable
<1>2. ChannelInv'
  BY <1>1 DEF ChannelInv, Inv
<1> QED
  BY <1>2, LinkKeeps

LEMMA AnswersStay ==
  ASSUME Inv, UNCHANGED <<h, gate, pending, out>>, EngineStable, Live' \subseteq Live,
         pending # None
  PROVE  AnswersTrue'
<1>1. (\A r : AnswerTrue(r) => AnswerTrue(r)') /\ AnswersTrue
  BY WaiterKept
<1> QED
  BY <1>1, AnswersFrom DEF AnswersTrue

LEMMA AnswersRest ==
  ASSUME Inv, UNCHANGED <<h, gate, pending, out, agent>>, Live' \subseteq Live, pending # None
  PROVE  AnswersTrue'
BY AnswersStay, UnchangedStable

LEMMA SendKeeps ==
  ASSUME Inv, Link!Send \/ Link!SendExpired, UNCHANGED <<op, late, h, gate, agent>>
  PROVE  Inv'
<1>1. /\ queue # None /\ queue' = None
      /\ UNCHANGED <<conn, pending, busy, job, call, out>>
      /\ \/ wire' = wire
         \/ Awaits(queue) /\ wire' = Append(wire, queue)
  BY DEF Link!Send, Link!SendExpired, Awaits
<1>2. LinkTypes
  BY DEF Inv, Safe, Types
<1>3. queue \in Cmds /\ wire \in Seq(Cmds) /\ Len(wire) \in Nat
  BY <1>1, <1>2, LenProperties DEF LinkTypes
<1>4. /\ wire' \in Seq(Cmds) /\ Len(wire') \in Nat
      /\ \A i \in 1..Len(wire') :
            \/ i \in 1..Len(wire) /\ wire'[i] = wire[i]
            \/ Awaits(queue) /\ i = Len(wire') /\ wire'[i] = queue
  BY <1>1, <1>3, AppendProperties
<1>5. LinkTypes'
  BY <1>1, <1>2, <1>4 DEF LinkTypes
<1>6. Live' \subseteq Live
  <2> SUFFICES ASSUME NEW c \in Live' PROVE c \in Live
    OBVIOUS
  <2>1. OnWire(c)' => OnWire(c) \/ InQueue(c)
    BY <1>1, <1>4 DEF OnWire, InQueue, Awaits
  <2>2. /\ ~InQueue(c)'
        /\ InJob(c)' <=> InJob(c)
        /\ InCall(c)' <=> InCall(c)
    BY <1>1 DEF InQueue, InJob, InCall
  <2> QED
    BY <2>1, <2>2, LiveMembers
<1>7. CallTrue'
  BY <1>1, <1>2, CallKept, UnchangedStable DEF Inv
<1>8. ASSUME pending # None PROVE Fence' /\ AnswersTrue'
  <2>1. Fence /\ \A d : Mine(d) => Mine(d)'
    BY <1>1, <1>6, <1>8, WaiterKept, UnchangedStable
  <2>2. AnswersTrue'
    BY <1>1, <1>6, <1>8, AnswersRest
  <2>3. /\ Awaits(queue) /\ Mine(queue) /\ \A i \in 1..Len(wire) : ~Awaits(wire[i])
        /\ job # None => ~Awaits(job.cmd)
        /\ call # None => ~Awaits(call.cmd)
        /\ \A i \in 1..Len(out) : out[i].id # pending
    BY <1>1, <2>1 DEF Fence
  <2>4. \A d : Awaits(d)' <=> Awaits(d)
    BY <1>1 DEF Awaits
  <2>5. \A i \in 1..Len(wire') : Awaits(wire'[i]) => i = Len(wire') /\ Mine(wire'[i])
    BY <1>4, <2>3
  <2>6. Fence'
    BY <1>1, <2>1, <2>3, <2>4, <2>5 DEF Fence
  <2> QED
    BY <2>2, <2>6
<1>9. conn
  BY <1>1 DEF Inv, ChannelInv
<1> QED
  BY <1>1, <1>5, <1>6, <1>7, <1>8, <1>9, ChannelKeeps DEF Inv, ChannelInv

LEMMA JobKeeps ==
  ASSUME Inv, Link!DispatchJob, UNCHANGED <<op, late, h, gate, agent>>
  PROVE  Inv'
<1> DEFINE c == Head(wire)
<1>1. /\ wire # <<>> /\ wire' = Tail(wire) /\ ~busy /\ busy' = TRUE
      /\ job' = [cmd |-> c, alive |-> TRUE]
      /\ UNCHANGED <<conn, pending, queue, call, out>>
  BY DEF Link!DispatchJob, Link!Receive
<1>2. LinkTypes /\ job = None /\ call = None
  BY <1>1 DEF Inv, Safe, Types, ChannelInv
<1>3. /\ wire' \in Seq(Cmds) /\ c \in Cmds /\ c = wire[1]
      /\ Len(wire) \in Nat /\ Len(wire) >= 1 /\ Len(wire') = Len(wire) - 1
      /\ \A i \in 1..Len(wire') : i + 1 \in 1..Len(wire) /\ wire'[i] = wire[i + 1]
      /\ Len(wire) = 1 => wire' = <<>>
  BY <1>1, <1>2, ReceiveKeeps
<1>4. job' \in Jobs /\ job'.cmd = c
  BY <1>1, <1>3 DEF Jobs
<1>5. LinkTypes'
  BY <1>1, <1>2, <1>3, <1>4 DEF LinkTypes
<1>6. Live' \subseteq Live
  <2> SUFFICES ASSUME NEW d \in Live' PROVE d \in Live
    OBVIOUS
  <2>1. OnWire(d)' => OnWire(d)
    BY <1>3 DEF OnWire
  <2>2. InJob(d)' => d = c
    BY <1>4 DEF InJob
  <2>3. (InQueue(d)' <=> InQueue(d)) /\ ~InCall(d)'
    BY <1>1, <1>2 DEF InQueue, InCall
  <2>4. c \in Live
    BY <1>1, <1>2, WireIsLive
  <2> QED
    BY <2>1, <2>2, <2>3, <2>4, LiveMembers
<1>7. CallTrue'
  BY <1>1, <1>2, CallKept, UnchangedStable DEF Inv
<1>8. ASSUME pending # None PROVE Fence' /\ AnswersTrue'
  <2>1. Fence /\ \A d : Mine(d) => Mine(d)'
    BY <1>1, <1>6, <1>8, WaiterKept, UnchangedStable
  <2>2. AnswersTrue'
    BY <1>1, <1>6, <1>8, AnswersRest
  <2>3. \A i \in 1..Len(out) : out[i].id # pending
    BY <1>1, <2>1 DEF Fence
  <2>4. Awaits(c) => wire' = <<>> /\ queue = None /\ Mine(c)
    BY <1>3, <2>1 DEF Fence
  <2>5. \A d : Awaits(d)' <=> Awaits(d)
    BY <1>1 DEF Awaits
  <2>6. \A i \in 1..Len(wire') : Awaits(wire'[i]) =>
              i = Len(wire') /\ Mine(wire'[i]) /\ ~Awaits(c)
    BY <1>3, <2>1, <2>4 DEF Fence
  <2>7. queue # None => /\ Awaits(queue) /\ Mine(queue) /\ ~Awaits(c)
                        /\ \A i \in 1..Len(wire') : ~Awaits(wire'[i])
    BY <1>3, <2>1, <2>4 DEF Fence
  <2>8. Fence'
    BY <1>1, <1>2, <1>4, <2>1, <2>3, <2>4, <2>5, <2>6, <2>7 DEF Fence
  <2> QED
    BY <2>2, <2>8
<1>9. conn
  BY <1>1 DEF Inv, ChannelInv
<1> QED
  BY <1>1, <1>2, <1>5, <1>6, <1>7, <1>8, <1>9, ChannelKeeps

LEMMA JobDropKeeps ==
  ASSUME Inv, Link!JobDropped, UNCHANGED <<op, late, h, gate, agent>>
  PROVE  Inv'
<1>1. /\ job # None /\ job' = None
      /\ UNCHANGED <<conn, pending, queue, wire, busy, call, out>>
  BY DEF Link!JobDropped, Link!AgentOnly
<1>2. LinkTypes
  BY DEF Inv, Safe, Types
<1>3. LinkTypes'
  BY <1>1, <1>2 DEF LinkTypes
<1>4. Live' \subseteq Live
  BY <1>1, LiveMembers DEF OnWire, InQueue, InJob, InCall
<1>5. CallTrue'
  BY <1>1, <1>2, CallKept, UnchangedStable DEF Inv
<1>6. ASSUME pending # None PROVE Fence' /\ AnswersTrue'
  <2>1. Fence /\ \A d : Mine(d) => Mine(d)'
    BY <1>1, <1>4, <1>6, WaiterKept, UnchangedStable
  <2>2. AnswersTrue'
    BY <1>1, <1>4, <1>6, AnswersRest
  <2>3. \A d : Awaits(d)' <=> Awaits(d)
    BY <1>1 DEF Awaits
  <2>4. Fence'
    BY <1>1, <2>1, <2>3 DEF Fence
  <2> QED
    BY <2>2, <2>4
<1> QED
  BY <1>1, <1>3, <1>4, <1>5, <1>6, ChannelKeeps DEF Inv, ChannelInv

LEMMA JobStartKeeps ==
  ASSUME Inv, Link!JobStarts, UNCHANGED <<op, late, h, gate, agent>>
  PROVE  Inv'
<1>1. /\ job # None /\ job' = None /\ job.alive /\ call = None
      /\ call' = [cmd |-> job.cmd, alive |-> TRUE, late |-> FALSE, res |-> "todo"]
      /\ UNCHANGED <<conn, pending, queue, wire, busy, out>>
  BY DEF Link!JobStarts, Link!AgentOnly
<1>2. LinkTypes
  BY DEF Inv, Safe, Types
<1>3. /\ call' \in Calls /\ call'.cmd = job.cmd /\ call'.res = "todo"
      /\ call'.late = FALSE
  BY <1>1, <1>2 DEF LinkTypes, Jobs, Calls, Answers
<1>4. LinkTypes'
  BY <1>1, <1>2, <1>3 DEF LinkTypes
<1>5. Live' \subseteq Live
  BY <1>1, <1>3, LiveMembers DEF OnWire, InQueue, InJob, InCall
<1>6. CallTrue'
  <2>1. "todo" \notin Views
    BY DEF Views, Engine!States, Engine!UnfinishedStates, Engine!TerminalStates
  <2> QED
    BY <1>3, <2>1 DEF CallTrue
<1>7. ASSUME pending # None PROVE Fence' /\ AnswersTrue'
  <2>1. Fence /\ \A d : Mine(d) => Mine(d)'
    BY <1>1, <1>5, <1>7, WaiterKept, UnchangedStable
  <2>2. AnswersTrue'
    BY <1>1, <1>5, <1>7, AnswersRest
  <2>3. \A d : Awaits(d)' <=> Awaits(d)
    BY <1>1 DEF Awaits
  <2>4. Fence'
    BY <1>1, <1>3, <2>1, <2>3 DEF Fence
  <2> QED
    BY <2>2, <2>4
<1> QED
  BY <1>1, <1>4, <1>5, <1>6, <1>7, ChannelKeeps DEF Inv, ChannelInv

LEMMA JobExpireKeeps ==
  ASSUME Inv, Link!JobExpired, UNCHANGED <<op, late, h, gate, agent>>
  PROVE  Inv'
<1> DEFINE c == job.cmd
<1>1. /\ job # None /\ job' = None /\ Link!Offer(job.alive, c, "code_rejected")
      /\ UNCHANGED <<conn, pending, queue, wire, busy, call>>
  BY DEF Link!JobExpired, Link!AgentOnly
<1>2. LinkTypes /\ call = None
  BY <1>1 DEF Inv, Safe, Types, ChannelInv
<1>3. c \in Cmds
  BY <1>1, <1>2 DEF LinkTypes, Jobs
<1>4. /\ out' \in Seq(Outs) /\ Len(out') <= ResultCap
      /\ \A i \in 1..Len(out') :
               \/ i \in 1..Len(out) /\ out'[i] = out[i]
               \/ job.alive /\ out'[i] = [id |-> c.id, val |-> "code_rejected"]
  BY <1>1, <1>2, <1>3, OfferKeeps DEF Codes
<1>5. LinkTypes'
  BY <1>1, <1>2, <1>4 DEF LinkTypes
<1>6. Live' \subseteq Live
  BY <1>1, LiveMembers DEF OnWire, InQueue, InJob, InCall
<1>7. CallTrue'
  BY <1>1, <1>2, CallKept, UnchangedStable DEF Inv
<1>8. ASSUME pending # None PROVE Fence' /\ AnswersTrue'
  <2>1. /\ Fence /\ AnswersTrue
        /\ \A d : Mine(d) => Mine(d)'
        /\ \A r : AnswerTrue(r) => AnswerTrue(r)'
    BY <1>1, <1>6, <1>8, WaiterKept, UnchangedStable
  <2>2. \A d : Awaits(d)' <=> Awaits(d)
    BY <1>1 DEF Awaits
  <2>3. \A i \in 1..Len(out') : out'[i].id = pending =>
            \/ i \in 1..Len(out) /\ out'[i] = out[i] /\ out[i].id = pending
            \/ job.alive /\ Awaits(c) /\ out'[i].val = "code_rejected"
    BY <1>4 DEF Awaits
  <2>4. Awaits(c) => wire = <<>> /\ queue = None /\ Mine(c)
    BY <1>1, <2>1 DEF Fence
  <2>5. (queue # None \/ \E i \in 1..Len(wire) : Awaits(wire[i])) =>
            ~Awaits(c) /\ \A i \in 1..Len(out) : out[i].id # pending
    BY <1>1, <2>1 DEF Fence
  <2>6. Fence'
    BY <1>1, <1>2, <2>1, <2>2, <2>3, <2>4, <2>5 DEF Fence
  <2>7. AnswersTrue'
    <3>1. SUFFICES ASSUME NEW i \in 1..Len(out'), NEW r, r = out'[i], r.id = pending
                   PROVE  AnswerTrue(r)'
      BY <1>1, AnswersFrom
    <3>2. CASE i \in 1..Len(out) /\ out'[i] = out[i]
      BY <2>1, <3>1, <3>2 DEF AnswersTrue
    <3>3. CASE job.alive /\ Awaits(c) /\ r.val = "code_rejected"
      <4>1. c \in Live
        BY <1>1, <3>3, LiveMembers DEF InJob
      <4>2. \A d \in Live' : ~Awaits(d)
        BY <1>1, <1>2, <2>4, <3>3, LiveMembers DEF OnWire, InQueue, InJob, InCall
      <4> QED
        BY <1>1, <1>6, <1>8, <2>4, <3>3, <4>1, <4>2, RejectedIsTrue
    <3> QED
      BY <2>3, <3>1, <3>2, <3>3
  <2> QED
    BY <2>6, <2>7
<1>9. ~conn => out' = <<>>
  BY <1>1 DEF Inv, ChannelInv, Link!Offer
<1> QED
  BY <1>1, <1>2, <1>5, <1>6, <1>7, <1>8, <1>9, ChannelKeeps DEF Inv, ChannelInv

\* The deadline of a call: the answer is "timeout", whatever the provider does.
LEMMA TimeoutKeeps ==
  ASSUME Inv, Link!CallTimesOut, UNCHANGED <<op, late, h, gate, agent>>
  PROVE  Inv'
<1> DEFINE c == call.cmd
<1>1. /\ call # None /\ ~call.late /\ Link!Offer(call.alive, c, "code_unsure")
      /\ call' = [call EXCEPT !.late = TRUE]
      /\ UNCHANGED <<conn, pending, queue, wire, busy, job>>
  BY DEF Link!CallTimesOut, Link!AgentOnly
<1>2. LinkTypes /\ job = None /\ busy
  BY <1>1 DEF Inv, Safe, Types, ChannelInv
<1>3. c \in Cmds /\ call \in Calls
  BY <1>1, <1>2 DEF LinkTypes, Calls
<1>4. /\ call' \in Calls /\ call'.cmd = c /\ call'.res = call.res
      /\ call'.late = TRUE /\ (call'.alive <=> call.alive)
  BY <1>1, <1>3 DEF Calls
<1>5. /\ out' \in Seq(Outs) /\ Len(out') <= ResultCap
      /\ \A i \in 1..Len(out') :
               \/ i \in 1..Len(out) /\ out'[i] = out[i]
               \/ call.alive /\ out'[i] = [id |-> c.id, val |-> "code_unsure"]
  BY <1>1, <1>2, <1>3, OfferKeeps DEF Codes
<1>6. LinkTypes'
  BY <1>1, <1>2, <1>4, <1>5 DEF LinkTypes
<1>7. Live' \subseteq Live
  BY <1>1, <1>4, LiveMembers DEF OnWire, InQueue, InJob, InCall
<1>8. CallTrue'
  BY <1>1, <1>4 DEF Inv, CallTrue, Fact, NoRecord, Final, Past, agent
<1>9. ASSUME pending # None PROVE Fence' /\ AnswersTrue'
  <2>1. /\ Fence /\ AnswersTrue
        /\ \A d : Mine(d) => Mine(d)'
        /\ \A r : AnswerTrue(r) => AnswerTrue(r)'
    BY <1>1, <1>7, <1>9, WaiterKept, UnchangedStable
  <2>2. \A d : Awaits(d)' <=> Awaits(d)
    BY <1>1 DEF Awaits
  <2>3. \A i \in 1..Len(out') : out'[i].id = pending =>
            \/ i \in 1..Len(out) /\ out'[i] = out[i] /\ out[i].id = pending
            \/ Awaits(c) /\ out'[i].val = "code_unsure"
    BY <1>5 DEF Awaits
  <2>4. Awaits(c) => wire = <<>> /\ queue = None /\ Mine(c)
    BY <1>1, <2>1 DEF Fence
  <2>5. (queue # None \/ \E i \in 1..Len(wire) : Awaits(wire[i])) =>
            ~Awaits(c) /\ \A i \in 1..Len(out) : out[i].id # pending
    BY <1>1, <2>1 DEF Fence
  <2>6. Fence'
    BY <1>1, <1>2, <1>4, <2>1, <2>2, <2>3, <2>4, <2>5 DEF Fence
  <2>7. AnswersTrue'
    <3>1. SUFFICES ASSUME NEW i \in 1..Len(out'), NEW r, r = out'[i], r.id = pending
                   PROVE  AnswerTrue(r)'
      BY <1>1, AnswersFrom
    <3>2. CASE i \in 1..Len(out) /\ out'[i] = out[i]
      BY <2>1, <3>1, <3>2 DEF AnswersTrue
    <3>3. CASE r.val = "code_unsure"
      BY <3>3 DEF AnswerTrue, Views, Engine!States, Engine!UnfinishedStates,
         Engine!TerminalStates
    <3> QED
      BY <2>3, <3>1, <3>2, <3>3
  <2> QED
    BY <2>6, <2>7
<1>10. ~conn => /\ queue' = None /\ wire' = <<>> /\ out' = <<>>
                /\ ~call'.alive
  BY <1>1, <1>4 DEF Inv, ChannelInv, Link!Offer
<1> QED
  BY <1>1, <1>2, <1>6, <1>7, <1>8, <1>9, <1>10, ChannelKeeps

\* Connecting, and freeing the gate, concern no command.
LEMMA FreeKeeps ==
  ASSUME Inv, Link!Connect \/ Link!Release, UNCHANGED <<op, late, h, gate, agent>>
  PROVE  Inv'
<1>1. /\ UNCHANGED <<pending, queue, wire, job, call, out>>
      /\ conn' \in BOOLEAN /\ busy' \in BOOLEAN
      /\ conn => conn'
      /\ busy' = busy \/ (job = None /\ call = None)
  BY DEF Link!Connect, Link!Release, Link!AgentOnly, Inv, Safe, Types, LinkTypes
<1>2. LinkTypes' /\ Live' = Live
  BY <1>1 DEF Inv, Safe, Types, LinkTypes, Live
<1>3. CallTrue'
  BY <1>1, CallKept, UnchangedStable DEF Inv, Safe, Types
<1>4. ASSUME pending # None PROVE Waiting' /\ Fence' /\ OnlyPrepare' /\ AnswersTrue'
  <2>1. Waiting' /\ OnlyPrepare' /\ Fence /\ \A d : Mine(d) => Mine(d)'
    BY <1>1, <1>2, <1>4, WaiterKept, UnchangedStable
  <2>2. AnswersTrue'
    BY <1>1, <1>2, <1>4, AnswersRest
  <2>3. \A d : Awaits(d)' <=> Awaits(d)
    BY <1>1 DEF Awaits
  <2>4. Fence'
    BY <1>1, <2>1, <2>3 DEF Fence
  <2> QED
    BY <2>1, <2>2, <2>4
<1>5. ChannelInv'
  <2>1. ~conn' => ~conn
    BY <1>1
  <2>2. (job # None \/ call # None) => busy'
    BY <1>1 DEF Inv, ChannelInv
  <2> QED
    BY <1>1, <1>4, <2>1, <2>2 DEF Inv, ChannelInv
<1> QED
  BY <1>2, <1>3, <1>5, LinkKeeps

LEMMA ChannelStepsKeep ==
  ASSUME Inv,
         SendStep \/ DispatchStep \/ JobStep \/ TransportFails \/ Connect
  PROVE  Inv'
<1>1. UNCHANGED <<op, late, h, gate, agent>>
  BY DEF SendStep, DispatchStep, JobStep, TransportFails, Connect, LinkStep, LinkOnly, monitor
<1>2. CASE Link!Send \/ Link!SendExpired
  BY <1>1, <1>2, SendKeeps
<1>3. CASE Link!DispatchBusy \/ Link!DispatchExpired
  BY <1>1, <1>3, DispatchKeeps
<1>4. CASE Link!DispatchJob
  BY <1>1, <1>4, JobKeeps
<1>5. CASE Link!JobDropped
  BY <1>1, <1>5, JobDropKeeps
<1>6. CASE Link!JobStarts
  BY <1>1, <1>6, JobStartKeeps
<1>7. CASE Link!JobExpired
  BY <1>1, <1>7, JobExpireKeeps
<1>8. CASE Link!CallTimesOut
  BY <1>1, <1>8, TimeoutKeeps
<1>9. CASE Link!Connect \/ Link!Release
  BY <1>1, <1>9, FreeKeeps
<1>10. CASE Link!Disconnect
  BY <1>1, <1>10, LoseKeeps, LoseShrinks, LinkKeeps
<1> QED
  BY <1>2, <1>3, <1>4, <1>5, <1>6, <1>7, <1>8, <1>9, <1>10
  DEF SendStep, DispatchStep, JobStep, TransportFails, Connect, LinkStep

-----------------------------------------------------------------------------
(* Kills *)

\* The agent's process ends: memory and the calls are gone.
LEMMA AgentDiesKeeps == ASSUME Inv, AgentDies PROVE Inv'
<1>1. EngineGood
  BY StopsGood DEF AgentDies, EngineUse, Inv, Safe, Types
<1>2. /\ conn' = FALSE /\ pending' = None /\ queue' = None /\ wire' = <<>> /\ out' = <<>>
      /\ busy' = FALSE /\ job' = None /\ call' = None
      /\ UNCHANGED <<op, late, h, gate>>
  BY DEF AgentDies, Link!AgentStops, Link!Lose, monitor
<1>3. Live' = {}
  BY <1>2 DEF Live
<1>4. LinkTypes'
  <2>1. wire' \in Seq(Cmds) /\ out' \in Seq(Outs) /\ Len(out') <= ResultCap
    BY <1>2, EmptySeq, ConstantsAssumption
  <2> QED
    BY <1>2, <2>1 DEF LinkTypes
<1>5. ChannelInv' /\ CallTrue'
  BY <1>2 DEF ChannelInv, CallTrue
<1> QED
  BY <1>1, <1>2, <1>3, <1>4, <1>5, SideKeeps DEF EngineGood

LEMMA IdleTyped == IdleThread \in ThreadStates /\ IdleThread.pc = "idle"
<1>1. NoRow \in Rows
  BY DEF NoRow, Row, Rows, RowStates
<1> QED
  BY <1>1 DEF IdleThread, ThreadStates, Pcs

LEMMA IdleSeated == ASSUME NEW t, gate' # t PROVE SeatedAt(t, IdleThread)'
BY IdleTyped DEF SeatedAt

\* The monitor's process ends: nobody holds the node and nobody waits.
LEMMA MonitorDiesKeeps == ASSUME Inv, MonitorDies PROVE Inv'
<1>1. /\ h' = [t \in Threads |-> IdleThread] /\ gate' = None
      /\ UNCHANGED <<op, late, agent>>
  BY DEF MonitorDies
<1>2. LinkTypes' /\ ChannelInv' /\ CallTrue' /\ Live' \subseteq Live
  <2>1. CASE Link!Disconnect
    BY <1>1, <2>1, LoseKeeps, LoseShrinks
  <2>2. CASE ~conn /\ UNCHANGED link
    <3>1. Live' = Live
      BY <2>2 DEF Live, link
    <3>2. LinkTypes'
      BY <2>2 DEF Inv, Safe, Types, LinkTypes, link
    <3>3. CallTrue'
      BY <1>1, <2>2, CallKept, UnchangedStable DEF Inv, Safe, Types, link
    <3>4. ChannelInv'
      BY <2>2 DEF Inv, ChannelInv, link
    <3> QED
      BY <3>1, <3>2, <3>3, <3>4
  <2> QED
    BY <2>1, <2>2 DEF MonitorDies
<1>3. Kept
  BY <1>1, <1>2, StableKept, UnchangedStable
<1>4. RowsTrue' /\ IntentsFirst'
  BY <1>1, <1>2, <1>3, RowsKept DEF Inv, Safe, IntentsFirst, IntentOf
<1>5. ThreadsSeated'
  <2> SUFFICES ASSUME NEW t \in Threads PROVE SeatedAt(t, h[t])'
    BY DEF ThreadsSeated
  <2>1. h'[t] = IdleThread /\ gate' # t
    BY <1>1, ConstantsAssumption DEF Threads
  <2> QED
    BY <2>1, IdleTyped DEF SeatedAt
<1>6. MonitorTypes' /\ AgentTypes' /\ EngineInv'
  BY <1>1, IdleTyped DEF MonitorTypes, Inv, Safe, Types, agent, AgentTypes, EngineInv
<1> QED
  BY <1>2, <1>4, <1>5, <1>6 DEF Inv, Safe, Types

-----------------------------------------------------------------------------
(* The provider *)

LEMMA CallWritten ==
  ASSUME call \in Calls, NEW r \in Answers, call' = [call EXCEPT !.res = r]
  PROVE  /\ call' \in Calls /\ call'.cmd = call.cmd /\ call'.res = r
         /\ call'.late <=> call.late
         /\ call'.alive <=> call.alive
BY DEF Calls

\* What a call may answer.
Truth(c, r) ==
    /\ r = "wait" => c.act # "secret"
    /\ r \in Views => Fact(c.op, r) /\ c.act # "secret"
    /\ r = "no_operation" => NoRecord(c.op)
    /\ c.act = "prepare" /\ r \in {"code_conflict", "code_rejected"} => NoRecord(c.op)

OnlyCall == UNCHANGED <<op, late, h, gate, conn, pending, queue, wire, busy, job, out>>

\* The call gets its answer: the fence does not move.
LEMMA FenceProvided ==
  ASSUME Inv, call # None, OnlyCall, NEW r \in Answers \ {"todo"},
         call' = [call EXCEPT !.res = r]
  PROVE  /\ LinkTypes' /\ Live' \subseteq Live
         /\ ~InCall(call.cmd)'
         /\ call'.cmd = call.cmd /\ call'.res = r
         /\ Fence => Fence'
         /\ ~conn => ~call'.alive
<1>1. call \in Calls
  BY DEF Inv, Safe, Types, LinkTypes
<1>2. /\ call' \in Calls /\ call'.cmd = call.cmd /\ call'.res = r
      /\ call'.late <=> call.late
      /\ call'.alive <=> call.alive
  BY <1>1, CallWritten
<1>3. LinkTypes'
  BY <1>2 DEF OnlyCall, Inv, Safe, Types, LinkTypes
<1>4. Live' \subseteq Live
  BY <1>2, LiveMembers DEF OnlyCall, OnWire, InQueue, InJob, InCall
<1>5. Fence => Fence'
  BY <1>2 DEF OnlyCall, Fence, Awaits, Mine
<1> QED
  BY <1>2, <1>3, <1>4, <1>5 DEF InCall, Inv, ChannelInv

\* A true answer keeps the invariant.
LEMMA ProvideKeeps ==
  ASSUME Inv, call # None, OnlyCall, NEW r \in Answers \ {"todo"},
         call' = [call EXCEPT !.res = r],
         AgentTypes', EngineInv', EngineStable, Truth(call.cmd, r)'
  PROVE  Inv'
<1>1. /\ LinkTypes' /\ Live' \subseteq Live
      /\ call'.cmd = call.cmd /\ call'.res = r
      /\ Fence => Fence'
      /\ ~conn => ~call'.alive
  BY FenceProvided
<1>2. CallTrue'
  BY <1>1 DEF Truth, CallTrue
<1>3. ASSUME pending # None PROVE Waiting' /\ Fence' /\ OnlyPrepare' /\ AnswersTrue'
  BY <1>1, <1>3, WaiterKept, AnswersStay DEF OnlyCall
<1>4. ChannelInv'
  BY <1>1, <1>3 DEF OnlyCall, Inv, ChannelInv
<1> QED
  BY <1>1, <1>2, <1>4, SideKeeps DEF OnlyCall

\* What memory says of an operation is a fact about it.
LEMMA MemFact ==
  ASSUME EngineUse, NEW o \in Ops, mem[o] # "absent"
  PROVE  Fact(o, mem[o])
<1> USE DEF EngineUse
<1>1. up
  BY DEF EngineInv
<1>2. mem[o] \in {"rolled_back", "cancelled", "conflict", "confirmed"} => jrn[o] = mem[o]
  BY DEF EngineInv, Engine!TerminalStates
<1>3. mem[o] = "confirmed" /\ worker.op = o => worker.kind \notin {"apply", "verify"}
  BY DEF EngineInv, Engine!Unfinished, Engine!UnfinishedStates
<1> QED
  BY <1>1, <1>2, <1>3 DEF Fact, Final, Past, AfterConfirm

LEMMA StatesPlain ==
  ASSUME NEW s \in Engine!States
  PROVE  s \notin {"todo", "wait", "no_operation", "code_conflict", "code_rejected",
                   "code_unsure", "ok"}
         /\ s \in Answers /\ (s \in Views <=> s # "absent")
BY DEF Engine!States, Engine!UnfinishedStates, Engine!TerminalStates, Answers, Views

LEMMA CodesPlain ==
  /\ Codes \subseteq Answers \ {"todo", "wait"} /\ Codes \cap Views = {}
  /\ "wait" \in Answers \ {"todo"} /\ "wait" \notin Views \cup Codes
BY DEF Codes, Answers, Views, Engine!States, Engine!UnfinishedStates, Engine!TerminalStates

\* Actions that ask the engine nothing, or what it knows.
LEMMA LookupKeeps ==
  ASSUME Inv, \/ Secret \/ PrepareBusy \/ Missing \/ Known \/ Join \/ CancelRefused
              \/ Awaited \/ Refuse
              \/ \E code \in {"code_conflict", "code_rejected"} : PrepareRefused(code)
  PROVE  Inv'
<1> DEFINE c == call.cmd
           o == call.cmd.op
<1>1. OnlyCall /\ UNCHANGED agent /\ call # None
  BY DEF Secret, PrepareBusy, Missing, Known, Join, CancelRefused, Awaited, Refuse,
     PrepareRefused, ProviderStep, Unmoved, OnlyCall
<1>2. c \in Cmds /\ o \in Ops /\ c.act \in Acts
  BY <1>1 DEF Inv, Safe, Types, LinkTypes, Calls, Cmds
<1>3. EngineUse /\ EngineStable /\ AgentTypes' /\ EngineInv'
  BY <1>1, UnchangedStable DEF EngineUse, Inv, Safe, Types, agent, AgentTypes, EngineInv
<1>4. mem[o] \in Engine!States
  BY <1>2, <1>3 DEF EngineUse, AgentTypes
<1>5. PICK r \in Answers \ {"todo"} :
         /\ call' = [call EXCEPT !.res = r]
         /\ \/ r = "ok" \/ r = "code_unsure"
            \/ r = "wait" /\ c.act # "secret"
            \/ r = "code_conflict" /\ c.act = "cancel"
            \/ /\ r \in {"code_conflict", "code_rejected", "no_operation"}
               /\ up /\ mem[o] = "absent"
            \/ r = mem[o] /\ c.act # "secret"
  <2>1. CASE Secret
    BY <2>1, CodesPlain DEF Secret, Provide, Codes
  <2>2. CASE PrepareBusy \/ Refuse
    BY <2>2, CodesPlain DEF PrepareBusy, Refuse, Provide, Codes
  <2>3. CASE Missing
    BY <2>3, CodesPlain DEF Missing, Provide, ProviderStep, Codes
  <2>4. CASE Known
    BY <1>4, <2>4, StatesPlain DEF Known, Provide
  <2>5. CASE Join
    BY <2>5, CodesPlain DEF Join, Provide
  <2>6. CASE CancelRefused
    BY <2>6, CodesPlain DEF CancelRefused, Provide, Codes
  <2>7. CASE Awaited
    <3>1. c.act # "secret"
      BY <1>1, <2>7 DEF Awaited, Inv, CallTrue
    <3> QED
      BY <1>4, <2>7, <3>1, StatesPlain DEF Awaited, Provide
  <2>8. ASSUME NEW code \in {"code_conflict", "code_rejected"}, PrepareRefused(code)
        PROVE  \E r \in Answers \ {"todo"} :
                  /\ call' = [call EXCEPT !.res = r]
                  /\ r \in {"code_conflict", "code_rejected", "no_operation"}
                  /\ up /\ mem[o] = "absent"
    BY <2>8, CodesPlain DEF PrepareRefused, Provide, ProviderStep, Codes
  <2> QED
    BY <2>1, <2>2, <2>3, <2>4, <2>5, <2>6, <2>7, <2>8
<1>6. Truth(c, r)
  <2>1. CASE \/ r = "ok" \/ r = "code_unsure"
             \/ r = "wait" /\ c.act # "secret"
             \/ r = "code_conflict" /\ c.act = "cancel"
    BY <2>1, CodesPlain DEF Truth, Codes
  <2>2. CASE /\ r \in {"code_conflict", "code_rejected", "no_operation"}
             /\ up /\ mem[o] = "absent"
    <3>1. NoRecord(o)
      BY <1>2, <1>3, <2>2 DEF EngineUse, EngineInv, NoRecord
    <3> QED
      BY <2>2, <3>1, CodesPlain DEF Truth, Codes
  <2>3. CASE r = mem[o] /\ c.act # "secret"
    BY <1>2, <1>3, <1>4, <2>3, StatesPlain, MemFact DEF Truth
  <2> QED
    BY <1>5, <2>1, <2>2, <2>3
<1>7. Truth(c, r)'
  <2>1. call'.cmd = c
    BY <1>1, <1>5, FenceProvided
  <2> QED
    BY <1>1, <1>6, <2>1 DEF Truth, Fact, NoRecord, Final, Past, agent
<1> QED
  BY <1>1, <1>3, <1>5, <1>7, ProvideKeeps

\* The engine starts to work, and the call waits for its worker.
LEMMA StartsKeep ==
  ASSUME Inv, NEW ok \in BOOLEAN, Apply(ok) \/ Rollback(ok)
  PROVE  Inv'
<1>1. /\ OnlyCall /\ call # None /\ call.cmd.act # "secret"
      /\ call' = [call EXCEPT !.res = "wait"]
  BY DEF Apply, Rollback, ProviderStep, OnlyCall, Provide
<1>2. call.cmd.op \in Ops
  BY <1>1 DEF Inv, Safe, Types, LinkTypes, Calls, Cmds
<1>3. EngineGood
  <2>1. EngineUse
    BY DEF EngineUse, Inv, Safe, Types
  <2> QED
    BY <1>2, <2>1, PreparedGood, RollbackGood, NothingGood, StartGood DEF Apply, Rollback
<1>4. Truth(call.cmd, "wait")'
  BY <1>1, CodesPlain, FenceProvided DEF Truth, Codes
<1> QED
  BY <1>1, <1>3, <1>4, CodesPlain, ProvideKeeps DEF EngineGood

LEMMA PrepareKeeps ==
  ASSUME Inv, NEW ok \in BOOLEAN, Prepare(ok)
  PROVE  Inv'
<1> DEFINE c == call.cmd
           o == call.cmd.op
           r == mem'[call.cmd.op]
<1>1. /\ OnlyCall /\ call # None /\ c.act = "prepare" /\ call.res = "todo"
      /\ call' = [call EXCEPT !.res = r] /\ Engine!Prepare(o, ok)
  BY DEF Prepare, ProviderStep, OnlyCall, Provide
<1>2. o \in Ops /\ EngineUse
  BY <1>1 DEF Inv, Safe, Types, LinkTypes, Calls, Cmds, EngineUse
<1>3. /\ AgentTypes' /\ EngineInv'
      /\ \A p \in Ops \ {o} : Steady(p)
      /\ NoRecord(o) /\ r \in {"prepared", "outcome_unknown"}
  BY <1>1, <1>2, PrepareGood
<1>4. r \in Engine!States /\ r \in Views
  BY <1>3 DEF Engine!States, Engine!UnfinishedStates, Views
<1>5. c \in Live
  BY <1>1, LiveMembers DEF InCall
<1>6. r \in Answers \ {"todo"}
  BY <1>4, StatesPlain
<1> HIDE DEF r
<1>7. /\ LinkTypes' /\ Live' \subseteq Live /\ ~InCall(c)'
      /\ call'.cmd = c /\ call'.res = r
      /\ Fence => Fence'
      /\ ~conn => ~call'.alive
  BY <1>1, <1>6, FenceProvided
<1>8. Kept
  <2> SUFFICES ASSUME NEW p \in Ops
      PROVE  /\ Unborn(p) => Unborn(p)'
             /\ \A s \in EndStates : Final(p, s) => Final(p, s)'
             /\ Past(p) => Past(p)'
    BY DEF Kept
  <2>1. CASE p = o
    <3>1. LivePrepare(o)
      BY <1>1, <1>5 DEF LivePrepare
    <3>2. ~Unborn(o)
      BY <3>1 DEF Unborn
    <3>3. jrn[o] = "absent"
      BY <1>3 DEF NoRecord
    <3> QED
      BY <2>1, <3>2, <3>3 DEF Final, EndStates, Past, AfterConfirm
  <2>2. CASE p # o
    <3>1. Steady(p)
      BY <1>3, <2>2
    <3>2. ~LivePrepare(p) => ~LivePrepare(p)'
      BY <1>7 DEF LivePrepare
    <3> QED
      BY <3>1, <3>2 DEF Steady, Unborn
  <2> QED
    BY <2>1, <2>2
<1>9. RowsTrue' /\ IntentsFirst' /\ ThreadsSeated'
  BY <1>1, <1>7, <1>8, MonitorRests DEF OnlyCall, Inv, Safe
<1>10. CallTrue'
  <2>2. r \notin {"wait", "no_operation", "code_conflict", "code_rejected"}
    BY <1>3
  <2>3. call'.cmd.op = o /\ call'.cmd.act = "prepare" /\ call'.res = r
    BY <1>1, <1>7
  <2>4. Fact(call.cmd.op, call.res)'
    BY <1>3, <2>3 DEF Fact
  <2> QED
    BY <2>2, <2>3, <2>4 DEF CallTrue
<1>11. ASSUME pending # None PROVE Waiting' /\ Fence' /\ OnlyPrepare' /\ AnswersTrue'
  <2>1. /\ Waiting /\ Fence /\ OnlyPrepare /\ AnswersTrue /\ h[gate].op \in Ops
        /\ job = None
    BY <1>1, <1>11, WaiterKnown DEF Inv, ChannelInv
  <2>2. Waiting' /\ Fence'
    BY <1>1, <1>7, <2>1 DEF OnlyCall, Waiting
  <2>3. OnlyPrepare'
    <3> SUFFICES ASSUME h[gate].act = "prepare", NEW d \in Live', d.act = "prepare",
                        d.op = h[gate].op
                 PROVE  Awaits(d) /\ NoRecord(d.op)'
      BY <1>1 DEF OnlyCall, OnlyPrepare, Awaits
    <3>1. Awaits(d) /\ NoRecord(d.op) /\ d.op \in Ops
      BY <1>7, <2>1 DEF OnlyPrepare
    <3>2. ASSUME d.op = o PROVE FALSE
      <4>1. Awaits(c)
        BY <1>1, <1>5, <2>1, <3>2 DEF OnlyPrepare
      <4>2. wire = <<>> /\ queue = None
        BY <1>1, <2>1, <4>1 DEF Fence
      <4>3. OnWire(d)' \/ InQueue(d)' \/ InJob(d)' \/ InCall(d)'
        BY LiveMembers
      <4>4. InCall(d)'
        BY <1>1, <2>1, <4>2, <4>3 DEF OnlyCall, OnWire, InQueue, InJob
      <4> QED
        BY <1>7, <1>6, <4>4 DEF InCall
    <3>3. NoRecord(d.op) => NoRecord(d.op)'
      BY <1>3, <3>1, <3>2 DEF Steady
    <3> QED
      BY <3>1, <3>3
  <2>4. AnswersTrue'
    <3>1. SUFFICES ASSUME NEW i \in 1..Len(out), NEW a, a = out[i], a.id = pending
                   PROVE  AnswerTrue(a)'
      BY <1>1, AnswersFrom DEF OnlyCall
    <3>2. AnswerTrue(a)
      BY <2>1, <3>1 DEF AnswersTrue
    <3>3. a.val \notin Views \cup {"no_operation"}
      BY <1>5, <3>2 DEF AnswerTrue
    <3>4. Unborn(h[gate].op) => Unborn(h[gate].op)'
      BY <1>1, <1>8, <2>1 DEF OnlyCall, Kept
    <3> QED
      BY <1>1, <3>2, <3>3, <3>4 DEF OnlyCall, AnswerTrue, Unborn, NoRecord, LivePrepare
  <2> QED
    BY <2>2, <2>3, <2>4
<1>12. ChannelInv'
  BY <1>1, <1>7, <1>11 DEF OnlyCall, Inv, ChannelInv
<1>13. Types'
  BY <1>1, <1>3, <1>7 DEF OnlyCall, Inv, Safe, Types, MonitorTypes
<1> QED
  BY <1>3, <1>9, <1>10, <1>12, <1>13 DEF Inv, Safe

\* The provider returns; its result is offered unless it is late.
LEMMA ReturnsKeep ==
  ASSUME Inv, Returns
  PROVE  Inv'
<1> DEFINE c == call.cmd
<1>1. PICK v \in {call.res, "code_unsure"} :
         /\ call # None /\ call.res \notin {"todo", "wait"} /\ call' = None
         /\ Link!Offer(call.alive /\ ~call.late, c, v)
         /\ UNCHANGED <<op, late, h, gate, agent, conn, pending, queue, wire, busy, job>>
  BY DEF Returns, Link!CallReturns, Link!AgentOnly
<1>2. LinkTypes /\ job = None /\ busy /\ CallTrue
  BY <1>1 DEF Inv, Safe, Types, ChannelInv
<1>3. c \in Cmds /\ call \in Calls /\ v \in Engine!States \cup Codes
  BY <1>1, <1>2 DEF LinkTypes, Calls, Answers, Codes
<1>4. /\ out' \in Seq(Outs) /\ Len(out') <= ResultCap
      /\ \A i \in 1..Len(out') :
               \/ i \in 1..Len(out) /\ out'[i] = out[i]
               \/ call.alive /\ ~call.late /\ out'[i] = [id |-> c.id, val |-> v]
  <2>1. CASE call.alive /\ ~call.late
    <3>1. Link!Offer(call.alive, c, v)
      BY <1>1, <2>1 DEF Link!Offer
    <3>2. /\ out' \in Seq(Outs) /\ Len(out') <= ResultCap
          /\ \A i \in 1..Len(out') :
                \/ i \in 1..Len(out) /\ out'[i] = out[i]
                \/ out'[i] = [id |-> c.id, val |-> v]
      BY <1>2, <1>3, <3>1, OfferKeeps
    <3> QED
      BY <2>1, <3>2
  <2>2. CASE ~(call.alive /\ ~call.late)
    BY <1>1, <1>2, <2>2 DEF Link!Offer, LinkTypes
  <2> QED
    BY <2>1, <2>2
<1>5. LinkTypes'
  BY <1>1, <1>2, <1>4 DEF LinkTypes
<1>6. Live' \subseteq Live
  BY <1>1, LiveMembers DEF OnWire, InQueue, InJob, InCall
<1>7. CallTrue'
  BY <1>1 DEF CallTrue
<1>8. ASSUME pending # None PROVE Fence' /\ AnswersTrue'
  <2>1. /\ Fence /\ AnswersTrue
        /\ \A d : Mine(d) => Mine(d)'
        /\ \A r : AnswerTrue(r) => AnswerTrue(r)'
    BY <1>1, <1>6, <1>8, WaiterKept, UnchangedStable
  <2>2. \A d : Awaits(d)' <=> Awaits(d)
    BY <1>1 DEF Awaits
  <2>3. \A i \in 1..Len(out') : out'[i].id = pending =>
            \/ i \in 1..Len(out) /\ out'[i] = out[i] /\ out[i].id = pending
            \/ Awaits(c) /\ out'[i].val = v
    BY <1>4 DEF Awaits
  <2>4. Awaits(c) => wire = <<>> /\ queue = None /\ Mine(c)
    BY <1>1, <2>1 DEF Fence
  <2>5. (queue # None \/ \E i \in 1..Len(wire) : Awaits(wire[i])) =>
            ~Awaits(c) /\ \A i \in 1..Len(out) : out[i].id # pending
    BY <1>1, <2>1 DEF Fence
  <2>6. Fence'
    BY <1>1, <1>2, <2>1, <2>2, <2>3, <2>4, <2>5 DEF Fence
  <2>7. AnswersTrue'
    <3>1. SUFFICES ASSUME NEW i \in 1..Len(out'), NEW r, r = out'[i], r.id = pending
                   PROVE  AnswerTrue(r)'
      BY <1>1, AnswersFrom
    <3>2. CASE i \in 1..Len(out) /\ out'[i] = out[i]
      BY <2>1, <3>1, <3>2 DEF AnswersTrue
    <3>3. CASE Awaits(c) /\ r.val = v
      <4>1. Live' = {}
        BY <1>1, <1>2, <2>4, <3>3, LiveMembers DEF OnWire, InQueue, InJob, InCall
      <4>2. c.op = h[gate].op /\ c.act = Sent(h[gate].act)
        BY <2>4, <3>3 DEF Mine
      <4>3. CASE v = "code_unsure"
        BY <3>3, <4>3, CodesPlain DEF AnswerTrue, Codes
      <4>4. CASE v = call.res
        <5>1. /\ v \in Views => Fact(h[gate].op, v) /\ h[gate].act # "secret"
              /\ v = "no_operation" => NoRecord(h[gate].op)
              /\ h[gate].act = "prepare" /\ v \in {"code_conflict", "code_rejected"}
                    => NoRecord(h[gate].op)
          <6>1. /\ v \in Views => Fact(c.op, v) /\ c.act # "secret"
                /\ v = "no_operation" => NoRecord(c.op)
                /\ c.act = "prepare" /\ v \in {"code_conflict", "code_rejected"}
                      => NoRecord(c.op)
            BY <1>1, <1>2, <4>4 DEF CallTrue
          <6>2. /\ h[gate].act = "secret" => c.act = "secret"
                /\ h[gate].act = "prepare" => c.act = "prepare"
            BY <4>2 DEF Sent
          <6> HIDE DEF c
          <6> QED
            BY <4>2, <6>1, <6>2
        <5>2. ~LivePrepare(h[gate].op)'
          BY <4>1 DEF LivePrepare
        <5> QED
          BY <1>1, <3>3, <4>1, <5>1, <5>2
          DEF AnswerTrue, Unborn, Fact, NoRecord, Final, Past, agent
      <4> QED
        BY <1>1, <4>3, <4>4
    <3> QED
      BY <2>3, <3>1, <3>2, <3>3
  <2> QED
    BY <2>6, <2>7
<1>9. ~conn => queue' = None /\ wire' = <<>> /\ out' = <<>>
  BY <1>1 DEF Inv, ChannelInv, Link!Offer
<1> QED
  BY <1>1, <1>2, <1>5, <1>6, <1>7, <1>8, <1>9, ChannelKeeps

LEMMA ProviderKeeps == ASSUME Inv, Provider \/ Refuse PROVE Inv'
BY LookupKeeps, StartsKeep, PrepareKeeps, ReturnsKeep DEF Provider

-----------------------------------------------------------------------------
(* The threads: what a step of one leaves true of the rest *)

\* Only t moves, and with the node in its hand if the node changes hands.
Moves(t) ==
    /\ h' \in [Threads -> ThreadStates]
    /\ \A u \in Threads \ {t} : h'[u] = h[u]
    /\ gate' \in Threads \cup {None}
    /\ \A u \in Threads \ {t} : gate' = u <=> gate = u

\* The channel keeps what it carries; nobody waits, or the waiter is another.
Apart(t) ==
    /\ UNCHANGED <<late, agent, conn, queue, wire, busy, job, call>>
    /\ \/ UNCHANGED <<pending, out>> /\ h[t].pc # "wait"
       \/ /\ pending' = None
          /\ UNCHANGED out \/ (out # <<>> /\ out' = Tail(out))

\* The first result leaves the channel.
LEMMA TakesOne ==
  ASSUME LinkTypes, out # <<>>, out' = Tail(out)
  PROVE  /\ out' \in Seq(Outs) /\ Head(out) \in Outs /\ Head(out) = out[1]
         /\ Len(out) >= 1 /\ Len(out') <= ResultCap
         /\ \A i \in 1..Len(out') : i + 1 \in 1..Len(out) /\ out'[i] = out[i + 1]
<1>1. out \in Seq(Outs) /\ Len(out) <= ResultCap
  BY DEF LinkTypes
<1>2. /\ out' \in Seq(Outs) /\ Head(out) \in Outs /\ Head(out) = out[1]
      /\ Len(out') = Len(out) - 1
  BY <1>1, HeadTailProperties
<1>3. Len(out) \in Nat /\ Len(out) >= 1
  BY <1>1, EmptySeq, LenProperties
<1>4. \A i \in 1..Len(out') : i + 1 \in 1..Len(out) /\ out'[i] = out[i + 1]
  BY <1>1, <1>2, <1>3, HeadTailProperties
<1>5. Len(out') <= ResultCap
  BY <1>1, <1>2, <1>3, ConstantsAssumption
<1> QED
  BY <1>2, <1>3, <1>4, <1>5

\* What a step of a thread leaves: the agent, the channel, the other waiter.
LEMMA ApartKeeps ==
  ASSUME Inv, NEW t \in Threads, Moves(t), Apart(t)
  PROVE  Live' \subseteq Live /\ LinkTypes' /\ ChannelInv' /\ CallTrue' /\ Kept
         /\ AgentTypes' /\ EngineInv' /\ h' \in [Threads -> ThreadStates]
         /\ late' \in [Ops -> BOOLEAN] /\ gate' \in Threads \cup {None}
<1> USE DEF Apart
<1>1. LinkTypes /\ AgentTypes /\ EngineInv /\ late \in [Ops -> BOOLEAN]
  BY DEF Inv, Safe, Types, MonitorTypes
<1>2. LinkTypes' /\ AgentTypes' /\ EngineInv' /\ late' \in [Ops -> BOOLEAN]
  <2>1. out' \in Seq(Outs) /\ Len(out') <= ResultCap
    <3>1. CASE out # <<>> /\ out' = Tail(out)
      BY <1>1, <3>1, TakesOne
    <3> QED
      BY <1>1, <3>1 DEF LinkTypes
  <2> QED
    BY <1>1, <2>1 DEF LinkTypes, AgentTypes, EngineInv, agent
<1>3. Live' \subseteq Live
  <2>1. ASSUME NEW c PROVE /\ OnWire(c)' => OnWire(c)
                           /\ InJob(c)' => InJob(c)
                           /\ InCall(c)' => InCall(c)
    BY DEF OnWire, InJob, InCall
  <2>2. ASSUME NEW c, InQueue(c)' PROVE InQueue(c)
    <3>1. queue # None /\ queue \in Cmds /\ queue.id = pending' /\ c = queue
      BY <1>1, <2>2 DEF InQueue, LinkTypes
    <3>2. pending' # None
      BY <3>1, ConstantsAssumption DEF Cmds
    <3> QED
      BY <3>1, <3>2 DEF InQueue
  <2> QED
    BY <2>1, <2>2, LiveMembers
<1>4. EngineStable /\ Kept
  BY <1>3, UnchangedStable, StableKept
<1>5. CallTrue'
  BY <1>1, <1>4, CallKept DEF Inv
<1>6. ASSUME pending' # None PROVE Waiting' /\ Fence' /\ OnlyPrepare' /\ AnswersTrue'
  <2>1. /\ gate \in Threads /\ gate # t /\ gate' = gate /\ h'[gate'] = h[gate]
        /\ h[gate].op \in Ops /\ pending' = pending /\ out' = out
        /\ Waiting /\ Fence /\ OnlyPrepare /\ AnswersTrue
    BY <1>6, WaiterKnown DEF Moves, Inv, ChannelInv
  <2>2. Waiting' /\ Fence'
    BY <2>1 DEF Waiting, Fence, Awaits, Mine
  <2>3. OnlyPrepare'
    BY <1>3, <1>4, <2>1 DEF OnlyPrepare, EngineStable, Steady, Awaits
  <2>4. ASSUME NEW r, AnswerTrue(r) PROVE AnswerTrue(r)'
    <3>1. /\ \A v : Fact(h[gate].op, v) => Fact(h[gate].op, v)'
          /\ NoRecord(h[gate].op) => NoRecord(h[gate].op)'
          /\ Unborn(h[gate].op) => Unborn(h[gate].op)'
      BY <1>4, <2>1, FactKept DEF EngineStable, Steady, Kept
    <3> QED
      BY <1>3, <2>1, <2>4, <3>1 DEF AnswerTrue, Fact, NoRecord, Unborn
  <2>5. AnswersTrue'
    BY <2>1, <2>4, AnswersFrom DEF AnswersTrue
  <2> QED
    BY <2>1, <2>2, <2>3, <2>5
<1>7. ChannelInv'
  BY <1>6 DEF ChannelInv, Inv
<1> QED
  BY <1>2, <1>3, <1>4, <1>5, <1>7 DEF Moves

\* A step of a thread that leaves the rows.
LEMMA SeatKeeps ==
  ASSUME Inv, NEW t \in Threads, Moves(t), Apart(t), UNCHANGED op,
         NEW s, s = h'[t], SeatedAt(t, s)'
  PROVE  Inv'
<1>1. /\ Live' \subseteq Live /\ LinkTypes' /\ ChannelInv' /\ CallTrue' /\ Kept
      /\ AgentTypes' /\ EngineInv' /\ MonitorTypes'
  BY ApartKeeps DEF Inv, Safe, Types, MonitorTypes
<1>2. RowsTrue' /\ IntentsFirst'
  BY <1>1, RowsKept DEF Inv, Safe, IntentsFirst, IntentOf
<1>3. ASSUME NEW u \in Threads PROVE SeatedAt(u, h[u])'
  <2>1. CASE u = t
    BY <2>1
  <2>2. CASE u # t
    <3>1. SeatedAt(u, h[u]) /\ h'[u] = h[u] /\ (gate' = u <=> gate = u)
      BY <2>2 DEF Inv, Safe, ThreadsSeated, Moves
    <3> DEFINE q == h[u]
    <3>2. SeatedAt(u, q) /\ h'[u] = q
      BY <3>1
    <3>3. q.pc # "idle" => /\ (Begins(q) => Unborn(q.op)')
                           /\ RecordAllowed(q)' /\ SettleAllowed(q)'
      BY <1>1, <3>2, FactKept
      DEF SeatedAt, RecordAllowed, SettleAllowed, Kept
    <3> QED
      BY <3>1, <3>3 DEF SeatedAt, CallAllowed
  <2> QED
    BY <2>1, <2>2
<1> QED
  BY <1>1, <1>2, <1>3 DEF Inv, Safe, Types, ThreadsSeated

\* A step of the thread that has the node, or finds it free, that moves a row.
LEMMA RowKeeps ==
  ASSUME Inv, NEW t \in Threads, Moves(t), Apart(t), gate \in {t, None},
         NEW o \in Ops, NEW r \in Rows, op' = [op EXCEPT ![o] = r],
         r.state # "absent",
         op[o].state = "absent" \/ r.ver > op[o].ver,
         RowTrue(o)',
         \A c \in Live : c.op = o => IntentOf(c)',
         NEW s, s = h'[t], SeatedAt(t, s)'
  PROVE  Inv'
<1>1. /\ Live' \subseteq Live /\ LinkTypes' /\ ChannelInv' /\ CallTrue' /\ Kept
      /\ AgentTypes' /\ EngineInv' /\ op \in [Ops -> Rows]
      /\ RowsTrue /\ IntentsFirst /\ ThreadsSeated
  BY ApartKeeps DEF Inv, Safe, Types, MonitorTypes
<1>2. op'[o] = r /\ \A p \in Ops \ {o} : op'[p] = op[p]
  BY <1>1
<1>3. MonitorTypes'
  BY <1>1, ApartKeeps DEF MonitorTypes
<1>4. RowsTrue'
  BY <1>1, <1>2, RowKept DEF RowsTrue
<1>5. IntentsFirst'
  <2> SUFFICES ASSUME NEW c \in Live' PROVE IntentOf(c)'
    BY DEF IntentsFirst
  <2>1. c \in Live /\ c.op \in Ops /\ IntentOf(c)
    BY <1>1, LiveTyped DEF Cmds, IntentsFirst, Inv, Safe, Types
  <2>2. CASE c.op # o
    BY <1>2, <2>1, <2>2 DEF IntentOf
  <2>3. CASE c.op = o
    BY <2>1, <2>3
  <2> QED
    BY <2>2, <2>3
<1>6. ASSUME NEW u \in Threads PROVE SeatedAt(u, h[u])'
  <2>1. CASE u = t
    BY <2>1
  <2>2. CASE u # t
    <3>0. PICK q : q = h[u]
      OBVIOUS
    <3>1. /\ SeatedAt(u, q) /\ h'[u] = q /\ gate # u /\ gate' # u
          /\ q.pc \in {"idle", "read"}
      <4>1. u # None
        BY ConstantsAssumption DEF Threads
      <4>2. SeatedAt(u, q) /\ h'[u] = q /\ gate # u /\ (gate' = u <=> gate = u)
        BY <1>1, <2>2, <3>0, <4>1 DEF ThreadsSeated, Moves
      <4> QED
        BY <4>2 DEF SeatedAt
    <3>2. CASE q.pc = "idle"
      BY <3>1, <3>2 DEF SeatedAt
    <3>3. CASE q.pc = "read"
      <4>1. /\ q.op \in Ops /\ op[q.op].state # "absent" /\ q.act = "query"
            /\ q.snap.ver <= op[q.op].ver
            /\ q.snap.ver = op[q.op].ver => q.snap = op[q.op]
            /\ q.snap.dig <=> q.snap.view # "none"
            /\ q.next # "recovered"
        BY <3>1, <3>3 DEF SeatedAt
      <4>2. q.snap.ver \in Nat /\ op[q.op].ver \in Nat /\ r.ver \in Nat
        <5>1. q \in ThreadStates
          BY <3>0 DEF Inv, Safe, Types, MonitorTypes
        <5> QED
          BY <1>1, <4>1, <5>1 DEF ThreadStates, Rows
      <4>3. /\ op'[q.op].state # "absent"
            /\ q.snap.ver <= op'[q.op].ver
            /\ q.snap.ver = op'[q.op].ver => q.snap = op'[q.op]
        <5>1. CASE q.op # o
          BY <1>2, <4>1, <5>1
        <5>2. CASE q.op = o
          <6>1. r.ver > q.snap.ver
            BY <4>1, <4>2, <5>2
          <6> QED
            BY <1>2, <4>2, <5>2, <6>1
        <5> QED
          BY <5>1, <5>2
      <4>4. /\ ~Begins(q) /\ Drafting(q)
            /\ CallAllowed(q)' /\ MarkAllowed(q) /\ RecordAllowed(q)' /\ SettleAllowed(q)'
        BY <3>3, <4>1
        DEF Begins, Drafting, CallAllowed, MarkAllowed, RecordAllowed, SettleAllowed
      <4> QED
        BY <3>1, <3>3, <4>1, <4>3, <4>4 DEF SeatedAt
    <3> QED
      BY <3>1, <3>2, <3>3
  <2> QED
    BY <2>1, <2>2
<1> QED
  BY <1>1, <1>3, <1>4, <1>5, <1>6 DEF Inv, Safe, Types, ThreadsSeated

-----------------------------------------------------------------------------
(* The threads: their steps *)

Fields(s, l, o, k, a, v, n, i) ==
    /\ s \in ThreadStates
    /\ s.pc = l /\ s.op = o /\ s.snap = k /\ s.act = a /\ s.view = v
    /\ s.next = n /\ s.id = i

Nexts == RowStates \cup {"none", "more", "recovered"}

\* A thread's state changes in one of these ways.
LEMMA ThreadSet ==
  ASSUME MonitorTypes, NEW t \in Threads, NEW s \in ThreadStates,
         h' = [h EXCEPT ![t] = s], gate' \in {gate, t}, gate \in {None, t} \/ gate' = gate
  PROVE  Moves(t) /\ h'[t] = s
BY ConstantsAssumption DEF MonitorTypes, Moves, Threads

LEMMA Starts ==
  ASSUME NEW l \in Pcs, NEW o \in Ops, NEW k \in Rows,
         NEW a \in Acts \cup {"preflight", "none"}, NEW n \in Nexts,
         NEW s, s = [IdleThread EXCEPT !.pc = l, !.op = o, !.snap = k, !.act = a, !.next = n]
  PROVE  Fields(s, l, o, k, a, "none", n, None)
BY DEF Fields, ThreadStates, IdleThread, Nexts

\* The two forms of a new request.
LEMMA Begin ==
  ASSUME NEW l \in Pcs, NEW o \in Ops, NEW k \in Rows,
         NEW a \in Acts \cup {"preflight", "none"},
         NEW s, s = [IdleThread EXCEPT !.pc = l, !.op = o, !.snap = k, !.act = a]
  PROVE  Fields(s, l, o, k, a, "none", "none", None)
BY DEF Fields, ThreadStates, IdleThread

LEMMA Ends ==
  ASSUME MonitorTypes, NEW t \in Threads, End(t)
  PROVE  Moves(t) /\ h'[t] = IdleThread /\ gate' # t
<1>1. h' = [h EXCEPT ![t] = IdleThread] /\ gate' = IF gate = t THEN None ELSE gate
  BY DEF End
<1>2. \A u \in Threads : u # None
  BY ConstantsAssumption DEF Threads
<1>3. h \in [Threads -> ThreadStates] /\ gate \in Threads \cup {None}
  BY DEF MonitorTypes
<1>4. h' \in [Threads -> ThreadStates] /\ h'[t] = IdleThread
  BY <1>1, <1>3, IdleTyped
<1>5. \A u \in Threads \ {t} : h'[u] = h[u]
  BY <1>1, <1>3
<1> QED
  BY <1>1, <1>2, <1>3, <1>4, <1>5 DEF Moves

\* The forms of a step inside a request, field by field.
LEMMA Sets ==
  ASSUME MonitorTypes, NEW t \in Threads, NEW s \in ThreadStates,
         h' = [h EXCEPT ![t] = s], UNCHANGED gate
  PROVE  Moves(t) /\ h'[t] = s
BY DEF MonitorTypes, Moves

LEMMA GoesTo ==
  ASSUME MonitorTypes, NEW t \in Threads, NEW q, q = h[t], UNCHANGED gate,
         NEW l \in Pcs,
         h' = [h EXCEPT ![t].pc = l]
  PROVE  Moves(t) /\ Fields(h'[t], l, q.op, q.snap, q.act, q.view, q.next, q.id)
<1>1. q \in ThreadStates /\ h \in [Threads -> ThreadStates]
  BY DEF MonitorTypes
<1>2. PICK s : s = [q EXCEPT !.pc = l]
  OBVIOUS
<1>3. Fields(s, l, q.op, q.snap, q.act, q.view, q.next, q.id)
  BY <1>1, <1>2 DEF Fields, ThreadStates, Nexts
<1>4. h' = [h EXCEPT ![t] = s]
  BY <1>1, <1>2
<1> QED
  BY <1>3, <1>4, Sets DEF Fields

LEMMA GoesNext ==
  ASSUME MonitorTypes, NEW t \in Threads, NEW q, q = h[t], UNCHANGED gate,
         NEW l \in Pcs, NEW n \in Nexts,
         h' = [h EXCEPT ![t].pc = l, ![t].next = n]
  PROVE  Moves(t) /\ Fields(h'[t], l, q.op, q.snap, q.act, q.view, n, q.id)
<1>1. q \in ThreadStates /\ h \in [Threads -> ThreadStates]
  BY DEF MonitorTypes
<1>2. PICK s : s = [q EXCEPT !.pc = l, !.next = n]
  OBVIOUS
<1>3. Fields(s, l, q.op, q.snap, q.act, q.view, n, q.id)
  BY <1>1, <1>2 DEF Fields, ThreadStates, Nexts
<1>4. h' = [h EXCEPT ![t] = s]
  BY <1>1, <1>2
<1> QED
  BY <1>3, <1>4, Sets DEF Fields

LEMMA GoesSnap ==
  ASSUME MonitorTypes, NEW t \in Threads, NEW q, q = h[t], UNCHANGED gate,
         NEW l \in Pcs, NEW k \in Rows,
         h' = [h EXCEPT ![t].pc = l, ![t].snap = k]
  PROVE  Moves(t) /\ Fields(h'[t], l, q.op, k, q.act, q.view, q.next, q.id)
<1>1. q \in ThreadStates /\ h \in [Threads -> ThreadStates]
  BY DEF MonitorTypes
<1>2. PICK s : s = [q EXCEPT !.pc = l, !.snap = k]
  OBVIOUS
<1>3. Fields(s, l, q.op, k, q.act, q.view, q.next, q.id)
  BY <1>1, <1>2 DEF Fields, ThreadStates, Nexts
<1>4. h' = [h EXCEPT ![t] = s]
  BY <1>1, <1>2
<1> QED
  BY <1>3, <1>4, Sets DEF Fields

LEMMA GoesSent ==
  ASSUME MonitorTypes, NEW t \in Threads, NEW q, q = h[t], UNCHANGED gate,
         NEW l \in Pcs, NEW a \in Acts, NEW k \in Rows,
         h' = [h EXCEPT ![t].pc = l, ![t].act = a, ![t].snap = k]
  PROVE  Moves(t) /\ Fields(h'[t], l, q.op, k, a, q.view, q.next, q.id)
<1>1. q \in ThreadStates /\ h \in [Threads -> ThreadStates]
  BY DEF MonitorTypes
<1>2. PICK s : s = [q EXCEPT !.pc = l, !.act = a, !.snap = k]
  OBVIOUS
<1>3. Fields(s, l, q.op, k, a, q.view, q.next, q.id)
  BY <1>1, <1>2 DEF Fields, ThreadStates, Nexts
<1>4. h' = [h EXCEPT ![t] = s]
  BY <1>1, <1>2
<1> QED
  BY <1>3, <1>4, Sets DEF Fields

LEMMA GoesMark ==
  ASSUME MonitorTypes, NEW t \in Threads, NEW q, q = h[t], UNCHANGED gate,
         NEW l \in Pcs, NEW a \in Acts, NEW n \in Nexts, NEW k \in Rows,
         h' = [h EXCEPT ![t].pc = l, ![t].act = a, ![t].next = n, ![t].snap = k]
  PROVE  Moves(t) /\ Fields(h'[t], l, q.op, k, a, q.view, n, q.id)
<1>1. q \in ThreadStates /\ h \in [Threads -> ThreadStates]
  BY DEF MonitorTypes
<1>2. PICK s : s = [q EXCEPT !.pc = l, !.act = a, !.next = n, !.snap = k]
  OBVIOUS
<1>3. Fields(s, l, q.op, k, a, q.view, n, q.id)
  BY <1>1, <1>2 DEF Fields, ThreadStates, Nexts
<1>4. h' = [h EXCEPT ![t] = s]
  BY <1>1, <1>2
<1> QED
  BY <1>3, <1>4, Sets DEF Fields

LEMMA GoesOn ==
  ASSUME MonitorTypes, NEW t \in Threads, NEW q, q = h[t], UNCHANGED gate,
         NEW k \in Rows, NEW n \in Nexts,
         h' = [h EXCEPT ![t].snap = k, ![t].next = n]
  PROVE  Moves(t) /\ Fields(h'[t], q.pc, q.op, k, q.act, q.view, n, q.id)
<1>1. q \in ThreadStates /\ h \in [Threads -> ThreadStates]
  BY DEF MonitorTypes
<1>2. PICK s : s = [q EXCEPT !.snap = k, !.next = n]
  OBVIOUS
<1>3. Fields(s, q.pc, q.op, k, q.act, q.view, n, q.id)
  BY <1>1, <1>2 DEF Fields, ThreadStates, Nexts
<1>4. h' = [h EXCEPT ![t] = s]
  BY <1>1, <1>2
<1> QED
  BY <1>3, <1>4, Sets DEF Fields

LEMMA GoesLearnt ==
  ASSUME MonitorTypes, NEW t \in Threads, NEW q, q = h[t], UNCHANGED gate,
         NEW l \in Pcs, NEW n \in Nexts,
         h' = [h EXCEPT ![t].pc = l, ![t].next = n, ![t].id = None]
  PROVE  Moves(t) /\ Fields(h'[t], l, q.op, q.snap, q.act, q.view, n, None)
<1>1. q \in ThreadStates /\ h \in [Threads -> ThreadStates]
  BY DEF MonitorTypes
<1>2. PICK s : s = [q EXCEPT !.pc = l, !.next = n, !.id = None]
  OBVIOUS
<1>3. Fields(s, l, q.op, q.snap, q.act, q.view, n, None)
  BY <1>1, <1>2 DEF Fields, ThreadStates, Nexts
<1>4. h' = [h EXCEPT ![t] = s]
  BY <1>1, <1>2
<1> QED
  BY <1>3, <1>4, Sets DEF Fields

LEMMA GoesSeen ==
  ASSUME MonitorTypes, NEW t \in Threads, NEW q, q = h[t], UNCHANGED gate,
         NEW l \in Pcs, NEW v \in Views,
         h' = [h EXCEPT ![t].pc = l, ![t].view = v, ![t].id = None]
  PROVE  Moves(t) /\ Fields(h'[t], l, q.op, q.snap, q.act, v, q.next, None)
<1>1. q \in ThreadStates /\ h \in [Threads -> ThreadStates]
  BY DEF MonitorTypes
<1>2. PICK s : s = [q EXCEPT !.pc = l, !.view = v, !.id = None]
  OBVIOUS
<1>3. Fields(s, l, q.op, q.snap, q.act, v, q.next, None)
  BY <1>1, <1>2 DEF Fields, ThreadStates, Nexts
<1>4. h' = [h EXCEPT ![t] = s]
  BY <1>1, <1>2
<1> QED
  BY <1>3, <1>4, Sets DEF Fields

LEMMA GoesWait ==
  ASSUME MonitorTypes, NEW t \in Threads, NEW q, q = h[t], UNCHANGED gate,
         NEW l \in Pcs, NEW i \in Ids,
         h' = [h EXCEPT ![t].pc = l, ![t].id = i]
  PROVE  Moves(t) /\ Fields(h'[t], l, q.op, q.snap, q.act, q.view, q.next, i)
<1>1. q \in ThreadStates /\ h \in [Threads -> ThreadStates]
  BY DEF MonitorTypes
<1>2. PICK s : s = [q EXCEPT !.pc = l, !.id = i]
  OBVIOUS
<1>3. Fields(s, l, q.op, q.snap, q.act, q.view, q.next, i)
  BY <1>1, <1>2 DEF Fields, ThreadStates, Nexts
<1>4. h' = [h EXCEPT ![t] = s]
  BY <1>1, <1>2
<1> QED
  BY <1>3, <1>4, Sets DEF Fields

LEMMA StandsApart ==
  ASSUME MonitorStep, NEW t, h[t].pc # "wait" PROVE Apart(t)
BY DEF MonitorStep, Apart, link

\* A thread lets go and leaves the rows.
LEMMA EndKeeps ==
  ASSUME Inv, NEW t \in Threads, End(t), Apart(t), UNCHANGED op
  PROVE  Inv'
<1>1. Moves(t) /\ h'[t] = IdleThread /\ gate' # t
  BY Ends DEF Inv, Safe, Types
<1>2. PICK s : s = h'[t]
  OBVIOUS
<1>3. SeatedAt(t, s)'
  BY <1>1, <1>2, IdleSeated
<1> QED
  BY <1>1, <1>2, <1>3, SeatKeeps

\* The row is read before the node is acquired.
LEMMA ReadKeeps == ASSUME Inv, NEW t \in Threads, NEW o \in Ops, Read(t, o) PROVE Inv'
<1>1. PICK s : s = [IdleThread EXCEPT
               !.pc = "read", !.op = o, !.snap = op[o], !.act = "query"]
  OBVIOUS
<1>2. /\ h[t].pc = "idle" /\ op[o].state # "absent"
      /\ h' = [h EXCEPT ![t] = s] /\ UNCHANGED <<op, gate>> /\ MonitorStep
  BY <1>1 DEF Read
<1>3. MonitorTypes /\ SeatedAt(t, h[t]) /\ RowTrue(o) /\ op[o] \in Rows
  BY DEF Inv, Safe, Types, MonitorTypes, ThreadsSeated, RowsTrue
<1>4. Fields(s, "read", o, op[o], "query", "none", "none", None)
  BY <1>1, <1>3, Begin DEF Pcs, Acts
<1>5. Moves(t) /\ h'[t] = s
  BY <1>2, <1>3, <1>4, Sets DEF Fields
<1>6. gate # t
  BY <1>2, <1>3 DEF SeatedAt
<1>7. SeatedAt(t, s)'
  BY <1>2, <1>3, <1>4, <1>6
  DEF SeatedAt, Fields, RowTrue, Rows, Begins, Drafting, CallAllowed, MarkAllowed,
      RecordAllowed, SettleAllowed, Acts
<1> QED
  BY <1>2, <1>5, <1>7, StandsApart, SeatKeeps

\* The node is acquired, or is not free.
LEMMA EnterKeeps == ASSUME Inv, NEW t \in Threads, Enter(t) PROVE Inv'
<1>1. h[t].pc = "read" /\ UNCHANGED op /\ Apart(t)
  BY StandsApart DEF Enter
<1>2. CASE End(t)
  BY <1>1, <1>2, EndKeeps
<1>3. CASE Acquire(t) /\ h' = [h EXCEPT ![t].pc = "call"]
  <2>1. PICK q : q = h[t]
    OBVIOUS
  <2>2. PICK s : s = [q EXCEPT !.pc = "call"]
    OBVIOUS
  <2>3. MonitorTypes /\ SeatedAt(t, q) /\ q \in ThreadStates /\ h \in [Threads -> ThreadStates]
    BY <2>1 DEF Inv, Safe, Types, MonitorTypes, ThreadsSeated
  <2>4. Fields(s, "call", q.op, q.snap, q.act, q.view, q.next, q.id)
    BY <2>2, <2>3 DEF Fields, ThreadStates, Pcs
  <2>5. h' = [h EXCEPT ![t] = s]
    BY <1>3, <2>1, <2>2, <2>3
  <2>6. Moves(t) /\ h'[t] = s /\ gate' = t
    BY <1>3, <2>3, <2>4, <2>5, ThreadSet DEF Acquire, Fields
  <2>7. SeatedAt(t, s)'
    BY <1>1, <2>1, <2>3, <2>4, <2>6
    DEF SeatedAt, Fields, Begins, Drafting, CallAllowed, MarkAllowed,
        RecordAllowed, SettleAllowed, Intents
  <2> QED
    BY <1>1, <2>6, <2>7, SeatKeeps
<1> QED
  BY <1>2, <1>3 DEF Enter

\* An action is checked against the row with the node in hand.
LEMMA ActionKeeps ==
  ASSUME Inv, NEW t \in Threads, NEW o \in Ops, NEW a \in LaterActs \ {"query"},
         Action(t, o, a)
  PROVE  Inv'
<1>1. h[t].pc = "idle" /\ UNCHANGED op /\ Apart(t) /\ gate = None /\ gate' = t
  BY StandsApart DEF Action, Acquire
<1>2. /\ MonitorTypes /\ RowTrue(o) /\ op[o] \in Rows
      /\ a \in {"apply", "rollback", "cancel"}
  BY ConstantsAssumption DEF Inv, Safe, Types, MonitorTypes, RowsTrue
<1>3. CASE Admits(a, op[o]) /\ h' = [h EXCEPT ![t] = [IdleThread EXCEPT
                     !.pc = "mark", !.op = o, !.snap = op[o], !.act = a,
                     !.next = ActionTarget[a]]]
  <2>1. PICK s : s = [IdleThread EXCEPT !.pc = "mark", !.op = o, !.snap = op[o], !.act = a,
                                        !.next = ActionTarget[a]]
    OBVIOUS
  <2>2. PICK n : n = ActionTarget[a]
    OBVIOUS
  <2>3. /\ a = "apply" => n = "applying"
        /\ a = "rollback" => n = "rolling_back"
        /\ a = "cancel" => n = "outcome_unknown"
        /\ n \in Nexts
    BY <1>2, <2>2 DEF ActionTarget, Nexts, RowStates, ActiveStates
  <2>4. Fields(s, "mark", o, op[o], a, "none", n, None)
    BY <1>2, <2>1, <2>2, <2>3, Starts DEF Pcs, Acts
  <2>5. Moves(t) /\ h'[t] = s
    BY <1>1, <1>2, <1>3, <2>1, <2>4, ThreadSet DEF Fields
  <2>6. /\ a = "apply" => op[o].state = "prepared" /\ op[o].dig
        /\ a = "rollback" => /\ op[o].state \in {"rollback_failed", "outcome_unknown"}
                             /\ op[o].dig
        /\ op[o].state # "absent"
    <3>1. CASE a = "apply"
      BY <1>2, <1>3, <3>1 DEF Admits, RowTrue
    <3>2. CASE a = "rollback"
      BY <1>2, <1>3, <3>2 DEF Admits, RowTrue
    <3>3. CASE a = "cancel"
      BY <1>2, <1>3, <3>3 DEF Admits, RowTrue
    <3> QED
      BY <1>2, <3>1, <3>2, <3>3
  <2>7. SeatedAt(t, s)'
    BY <1>1, <1>2, <2>3, <2>4, <2>6
    DEF SeatedAt, Fields, RowTrue, Rows, Begins, Drafting, CallAllowed, MarkAllowed,
        RecordAllowed, SettleAllowed, Acts
  <2> QED
    BY <1>1, <2>5, <2>7, SeatKeeps
<1>4. CASE /\ op[o].state = "confirmed"
           /\ h' = [h EXCEPT ![t] = [IdleThread EXCEPT
                     !.pc = "call", !.op = o, !.snap = op[o], !.act = "preflight"]]
  <2>1. PICK s : s = [IdleThread EXCEPT !.pc = "call", !.op = o, !.snap = op[o],
                                        !.act = "preflight"]
    OBVIOUS
  <2>2. Fields(s, "call", o, op[o], "preflight", "none", "none", None)
    BY <1>2, <2>1, Begin DEF Pcs
  <2>3. Moves(t) /\ h'[t] = s
    BY <1>1, <1>2, <1>4, <2>1, <2>2, ThreadSet DEF Fields
  <2>4. SeatedAt(t, s)'
    BY <1>1, <1>2, <1>4, <2>2
    DEF SeatedAt, Fields, RowTrue, Rows, Begins, Drafting, CallAllowed, MarkAllowed,
        RecordAllowed, SettleAllowed, Intents
  <2> QED
    BY <1>1, <2>3, <2>4, SeatKeeps
<1> QED
  BY <1>3, <1>4 DEF Action

\* A new operation: there is no record of it and nothing under way.
LEMMA CreateKeeps ==
  ASSUME Inv, NEW t \in Threads, NEW o \in Ops, NEW first \in FirstActs, NEW res \in Results,
         Create(t, o, first, res)
  PROVE  Inv'
<1>1. PICK r : r = Row("draft")
  OBVIOUS
<1>2. /\ r \in Rows /\ r.state = "draft" /\ r.ver = 1 /\ r.view = "none" /\ r.dig = FALSE
  BY <1>1 DEF Row, Rows, RowStates, ActiveStates
<1>3. /\ h[t].pc = "idle" /\ Apart(t) /\ gate = None
      /\ op[o].state = "absent" /\ op' = [op EXCEPT ![o] = r]
  BY <1>1, StandsApart DEF Create, Acquire
<1>4. /\ MonitorTypes /\ RowTrue(o) /\ op \in [Ops -> Rows] /\ SeatedAt(t, h[t])
      /\ first \in {"secret", "prepare"} /\ UNCHANGED <<link, agent>>
  BY ConstantsAssumption
  DEF Inv, Safe, Types, MonitorTypes, RowsTrue, ThreadsSeated, Create, MonitorStep
<1>5. op'[o] = r
  BY <1>3, <1>4
<1>6. Live' = Live /\ (Unborn(o) => Unborn(o)')
  <2>1. Live' = Live
    BY <1>4 DEF Live, link
  <2> QED
    BY <1>4, <2>1 DEF Unborn, NoRecord, LivePrepare, agent
<1>7. Unborn(o) /\ Unborn(o)'
  BY <1>3, <1>4, <1>6 DEF RowTrue
<1>8. RowTrue(o)'
  BY <1>2, <1>5, <1>7 DEF RowTrue
<1>9. ASSUME NEW c \in Live, c.op = o PROVE IntentOf(c)'
  <2>1. IntentOf(c)
    BY DEF Inv, Safe, IntentsFirst
  <2>2. c.act # "prepare"
    BY <1>7, <1>9 DEF Unborn, LivePrepare
  <2> QED
    BY <1>3, <1>9, <2>1, <2>2 DEF IntentOf, Intents
<1>10. CASE /\ gate' = t
            /\ h' = [h EXCEPT ![t] = [IdleThread EXCEPT
                     !.pc = "call", !.op = o, !.snap = Row("draft"), !.act = first]]
  <2>1. PICK s : s = [IdleThread EXCEPT !.pc = "call", !.op = o, !.snap = r, !.act = first]
    OBVIOUS
  <2>2. Fields(s, "call", o, r, first, "none", "none", None)
    BY <1>2, <1>4, <2>1, Begin DEF Pcs, Acts
  <2>3. Moves(t) /\ h'[t] = s
    BY <1>1, <1>3, <1>4, <1>10, <2>1, <2>2, ThreadSet DEF Fields
  <2>4. SeatedAt(t, s)'
    BY <1>2, <1>4, <1>5, <1>7, <1>10, <2>2
    DEF SeatedAt, Fields, Begins, Drafting, CallAllowed, MarkAllowed,
        RecordAllowed, SettleAllowed, Acts, Intents
  <2> QED
    BY <1>2, <1>3, <1>8, <1>9, <2>3, <2>4, RowKeeps
<1>11. CASE UNCHANGED <<gate, h>>
  <2>1. PICK s : s = h[t]
    OBVIOUS
  <2>2. Moves(t) /\ h'[t] = s /\ SeatedAt(t, s)'
    BY <1>3, <1>4, <1>11, <2>1 DEF Moves, SeatedAt, MonitorTypes
  <2> QED
    BY <1>2, <1>3, <1>8, <1>9, <2>2, RowKeeps
<1> QED
  BY <1>10, <1>11 DEF Create, Acquire

-----------------------------------------------------------------------------
(* Without an answer *)

\* A thread that stops waiting settles, lets go, or says that it does not know.
LEMMA NoAnswerKeeps ==
  ASSUME Inv, NEW t \in Threads, NEW sent \in BOOLEAN, NoAnswer(t, sent), Apart(t),
         UNCHANGED op, h[t].pc \in {"call", "wait"}, ~sent => h[t].pc = "call"
  PROVE  Inv'
<1>1. PICK q : q = h[t]
  OBVIOUS
<1>2. MonitorTypes /\ SeatedAt(t, q) /\ Kept /\ q.pc \in {"call", "wait"} /\ gate = t
      /\ Live' \subseteq Live
  <2>1. /\ MonitorTypes /\ SeatedAt(t, q) /\ q.pc \in {"call", "wait"}
    BY <1>1 DEF Inv, Safe, Types, ThreadsSeated
  <2>2. gate = t
    BY <2>1 DEF SeatedAt
  <2>3. ASSUME ~End(t) PROVE Moves(t)
    <3>1. \/ h' = [h EXCEPT ![t].pc = "settle", ![t].next = "rejected"] /\ UNCHANGED gate
          \/ h' = [h EXCEPT ![t].pc = "unknown"] /\ UNCHANGED gate
      BY <2>3 DEF NoAnswer, Goto
    <3> QED
      BY <1>1, <2>1, <3>1, GoesTo, GoesNext DEF Pcs, Nexts, RowStates
  <2>4. Moves(t)
    BY <2>1, <2>3, Ends
  <2> QED
    BY <2>1, <2>2, <2>4, ApartKeeps
<1>3. CASE End(t)
  BY <1>3, EndKeeps
<1>4. CASE /\ h' = [h EXCEPT ![t].pc = "settle", ![t].next = "rejected"] /\ UNCHANGED gate
           /\ q.act = "secret" \/ (q.act = "prepare" /\ q.pc = "call")
  <2>1. PICK s : s = h'[t]
    OBVIOUS
  <2>2. Moves(t) /\ Fields(s, "settle", q.op, q.snap, q.act, q.view, "rejected", q.id)
    BY <1>1, <1>2, <1>4, <2>1, GoesNext DEF Pcs, Nexts, RowStates
  <2>3. Begins(q) /\ q.op \in Ops
    BY <1>2, <1>4 DEF Begins, SeatedAt
  <2>4. Unborn(q.op)' /\ Drafting(q)
    BY <1>2, <2>3 DEF SeatedAt, Kept
  <2>5. SeatedAt(t, s)'
    BY <1>2, <1>4, <2>2, <2>4
    DEF SeatedAt, Fields, Begins, Drafting, CallAllowed, MarkAllowed,
        RecordAllowed, SettleAllowed
  <2> QED
    BY <2>1, <2>2, <2>5, SeatKeeps
<1>5. CASE /\ h' = [h EXCEPT ![t].pc = "unknown"] /\ UNCHANGED gate
           /\ q.act # "secret"
  <2>1. PICK s : s = h'[t]
    OBVIOUS
  <2>2. Moves(t) /\ Fields(s, "unknown", q.op, q.snap, q.act, q.view, q.next, q.id)
    BY <1>1, <1>2, <1>5, <2>1, GoesTo DEF Pcs
  <2>3. SeatedAt(t, s)'
    BY <1>2, <1>5, <2>2
    DEF SeatedAt, Fields, Begins, Drafting, CallAllowed, MarkAllowed,
        RecordAllowed, SettleAllowed
  <2> QED
    BY <2>1, <2>2, <2>3, SeatKeeps
<1> QED
  BY <1>1, <1>2, <1>3, <1>4, <1>5 DEF NoAnswer, Goto, SeatedAt

\* Nothing was sent, or the caller does not wait any longer.
LEMMA FruitlessKeeps ==
  ASSUME Inv, NEW t \in Threads, NotSent(t) \/ PauseEnds(t) \/ GiveUp(t)
  PROVE  Inv'
<1>1. CASE NotSent(t)
  <2>1. Apart(t) /\ UNCHANGED op
    BY <1>1 DEF NotSent, CallStep, Apart, link
  <2> QED
    BY <1>1, <2>1, NoAnswerKeeps DEF NotSent
<1>2. CASE PauseEnds(t)
  <2>1. Apart(t) /\ UNCHANGED op
    BY <1>2 DEF PauseEnds, CallStep, Apart, link
  <2> QED
    BY <1>2, <2>1, NoAnswerKeeps DEF PauseEnds
<1>3. CASE GiveUp(t)
  <2>1. h[t].pc = "wait" /\ NoAnswer(t, TRUE) /\ UNCHANGED op
    BY <1>3 DEF GiveUp, CallStep
  <2>2. pending # None => pending = h[t].id
    <3>1. gate = t
      BY <2>1 DEF Inv, Safe, ThreadsSeated, SeatedAt
    <3> QED
      BY <3>1, WaiterKnown
  <2>3. Apart(t)
    BY <1>3, <2>2 DEF GiveUp, CallStep, Link!Abandon, Apart
  <2> QED
    BY <2>1, <2>3, NoAnswerKeeps
<1> QED
  BY <1>1, <1>2, <1>3

-----------------------------------------------------------------------------
(* Steps that move a row *)

\* The row o is written with its successor r.
Written(o, r, next, v) ==
    /\ r \in Rows /\ op' = [op EXCEPT ![o] = r]
    /\ r.state = next /\ r.ver = op[o].ver + 1
    /\ r.view = IF v = "none" THEN op[o].view ELSE v
    /\ r.dig <=> (op[o].dig \/ v # "none")

\* A transition is refused, is lost, or writes the successor of the row it read.
LEMMA TransitionCases ==
  ASSUME MonitorTypes, NEW o \in Ops, NEW snap, NEW next \in RowStates,
         NEW v \in Views \cup {"none"}, NEW code, NEW res \in Results,
         Transition(o, snap, next, v, code, res),
         snap.ver = op[o].ver => snap = op[o]
  PROVE  \/ UNCHANGED op /\ res = "lost"
         \/ /\ res # "lost" /\ Legal(o, snap, next, v, code) /\ snap = op[o]
            /\ \E r \in Rows : Written(o, r, next, v)
<1>1. CASE ~Legal(o, snap, next, v, code) \/ res = "lost"
  BY <1>1 DEF Transition
<1>2. CASE Legal(o, snap, next, v, code) /\ res # "lost"
  <2>1. op \in [Ops -> Rows] /\ op[o] \in Rows
    BY DEF MonitorTypes
  <2>2. op' = [op EXCEPT ![o] = Moved(op[o], next, v)]
    BY <1>2 DEF Transition
  <2>3. PICK r : r = Moved(op[o], next, v)
    OBVIOUS
  <2>4. /\ r \in Rows /\ r.state = next /\ r.ver = op[o].ver + 1
        /\ r.view = IF v = "none" THEN op[o].view ELSE v
        /\ r.dig <=> (op[o].dig \/ v # "none")
    <3>1. PICK w : w = IF v = "none" THEN op[o].view ELSE v
      OBVIOUS
    <3>2. PICK b \in BOOLEAN : b = (op[o].dig \/ v # "none")
      OBVIOUS
    <3>3. r = [state |-> next, ver |-> op[o].ver + 1, view |-> w, dig |-> b]
      BY <2>3, <3>1, <3>2 DEF Moved
    <3>4. w \in Views \cup {"none"} /\ op[o].ver + 1 \in Nat
      BY <2>1, <3>1 DEF Rows
    <3> QED
      BY <3>1, <3>2, <3>3, <3>4 DEF Rows
  <2>5. Written(o, r, next, v) /\ snap = op[o]
    BY <1>2, <2>2, <2>3, <2>4 DEF Written, Legal
  <2> QED
    BY <1>2, <2>4, <2>5
<1> QED
  BY <1>1, <1>2

\* What has to be true of a row that is written.
LEMMA WriteKeeps ==
  ASSUME Inv, NEW t \in Threads, Moves(t), Apart(t), gate = t,
         NEW o \in Ops, op[o].state # "absent",
         NEW r \in Rows, NEW next, NEW v, Written(o, r, next, v), next # "absent",
         RowTrue(o)',
         \A c \in Live : c.op = o => IntentOf(c)',
         NEW s, s = h'[t], SeatedAt(t, s)'
  PROVE  Inv'
<1>1. op[o] \in Rows
  BY DEF Inv, Safe, Types, MonitorTypes
<1>2. /\ op' = [op EXCEPT ![o] = r] /\ r.state # "absent" /\ r.ver > op[o].ver
  BY <1>1 DEF Written, Rows
<1> QED
  BY <1>2, RowKeeps

LEMMA WrittenRow ==
  ASSUME MonitorTypes, NEW o \in Ops, NEW r, NEW next, NEW v, Written(o, r, next, v)
  PROVE  op'[o] = r /\ op[o] \in Rows /\ op[o].ver \in Nat /\ r.ver > op[o].ver
BY DEF Written, MonitorTypes, Rows

\* The intent: every command of the operation that may still run fits it.
LEMMA MarkKeeps ==
  ASSUME Inv, NEW t \in Threads, NEW res \in Results, Mark(t, res) PROVE Inv'
<1>1. PICK q : q = h[t]
  OBVIOUS
<1>2. /\ q.pc = "mark" /\ Transition(q.op, q.snap, q.next, "none", q.next, res)
      /\ IF res = "ok" THEN GotoWith(t, "call") ELSE End(t)
      /\ Apart(t) /\ UNCHANGED <<link, agent>>
  BY <1>1, StandsApart DEF Mark, MonitorStep
<1>3. MonitorTypes /\ SeatedAt(t, q) /\ q \in ThreadStates /\ IntentsFirst /\ RowsTrue
  BY <1>1 DEF Inv, Safe, Types, MonitorTypes, ThreadsSeated
<1>4. PICK o : o = q.op
  OBVIOUS
<1>5. /\ o \in Ops /\ op[o].state # "absent" /\ gate = t /\ MarkAllowed(q)
      /\ q.snap.ver = op[o].ver => q.snap = op[o]
      /\ RowTrue(o)
  BY <1>2, <1>3, <1>4 DEF SeatedAt, RowsTrue
<1>6. /\ q.next \in {"applying", "rolling_back", "outcome_unknown"}
      /\ q.next \in RowStates
  BY <1>2, <1>5 DEF MarkAllowed, RowStates, ActiveStates
<1>7. CASE UNCHANGED op /\ res = "lost"
  BY <1>2, <1>7, EndKeeps
<1>8. ASSUME res # "lost", Legal(o, q.snap, q.next, "none", q.next), q.snap = op[o],
             NEW r \in Rows, Written(o, r, q.next, "none")
      PROVE  Inv'
  <2>1. op'[o] = r /\ r.state = q.next
    BY <1>3, <1>5, <1>8, WrittenRow DEF Written
  <2>2. /\ r.view = op[o].view
        /\ r.dig <=> op[o].dig
    BY <1>8 DEF Written
  <2>3. RowTrue(o)'
    BY <1>5, <1>6, <2>1, <2>2 DEF RowTrue
  <2>4. ASSUME NEW c \in Live, c.op = o PROVE IntentOf(c)'
    <3>1. IntentOf(c)
      BY <1>3 DEF IntentsFirst
    <3>2. c.act = "prepare" => ~op'[o].dig
      BY <2>1, <2>2, <2>4, <3>1 DEF IntentOf
    <3>3. c.act \in DOMAIN Intents => op'[o].state \in Intents[c.act]
      BY <1>2, <1>5, <1>8, <2>1, <2>4, <3>1 DEF IntentOf, Intents, MarkAllowed
    <3> QED
      BY <2>4, <3>2, <3>3 DEF IntentOf
  <2>5. CASE res = "ok"
    <3>1. h' = [h EXCEPT ![t].pc = "call", ![t].snap = r] /\ UNCHANGED gate
      BY <1>1, <1>2, <1>4, <2>1, <2>5 DEF GotoWith
    <3>2. PICK s : s = h'[t]
      OBVIOUS
    <3>3. Moves(t) /\ Fields(s, "call", q.op, r, q.act, q.view, q.next, q.id)
      BY <1>1, <1>3, <3>1, <3>2, GoesSnap DEF Pcs
    <3>4. SeatedAt(t, s)'
      <4>1. q.act \in {"apply", "rollback", "cancel"} /\ q.next # "recovered"
        BY <1>2, <1>5, <1>6 DEF MarkAllowed
      <4>2. CallAllowed(s)'
        BY <1>2, <1>4, <1>5, <2>1, <3>3 DEF CallAllowed, MarkAllowed, Fields, Intents
      <4>3. r.ver \in Nat /\ r.state # "absent" /\ (r.dig <=> r.view # "none")
        BY <1>5, <1>6, <2>1, <2>2 DEF Rows, RowTrue
      <4>4. gate' = t /\ s.pc = "call" /\ s.op = o /\ s.snap = r /\ s.act = q.act
            /\ s.next = q.next
        BY <1>4, <1>5, <3>1, <3>3 DEF Fields
      <4>5. ~Begins(s) /\ Drafting(s) /\ MarkAllowed(s) /\ RecordAllowed(s)' /\ SettleAllowed(s)'
        BY <4>1, <4>4 DEF Begins, Drafting, MarkAllowed, RecordAllowed, SettleAllowed
      <4> QED
        BY <1>5, <2>1, <4>1, <4>2, <4>3, <4>4, <4>5 DEF SeatedAt, Acts
    <3> QED
      BY <1>2, <1>5, <1>6, <1>8, <2>3, <2>4, <3>2, <3>3, <3>4, WriteKeeps
  <2>6. CASE res # "ok"
    <3>1. Moves(t) /\ h'[t] = IdleThread /\ gate' # t
      BY <1>2, <1>3, <2>6, Ends
    <3>2. PICK s : s = IdleThread
      OBVIOUS
    <3>3. SeatedAt(t, s)'
      BY <3>1, <3>2, IdleSeated
    <3> QED
      BY <1>2, <1>5, <1>6, <1>8, <2>3, <2>4, <3>1, <3>2, <3>3, WriteKeeps
  <2> QED
    BY <2>5, <2>6
<1> QED
  BY <1>2, <1>3, <1>4, <1>5, <1>6, <1>7, <1>8, TransitionCases

\* The row is written and the thread lets go.
LEMMA WriteEnds ==
  ASSUME Inv, NEW t \in Threads, End(t), Apart(t), gate = t,
         NEW o \in Ops, op[o].state # "absent",
         NEW r \in Rows, NEW next, NEW v, Written(o, r, next, v), next # "absent",
         RowTrue(o)',
         \A c \in Live : c.op = o => IntentOf(c)'
  PROVE  Inv'
<1>1. Moves(t) /\ h'[t] = IdleThread /\ gate' # t
  BY Ends DEF Inv, Safe, Types
<1>2. PICK s : s = IdleThread
  OBVIOUS
<1>3. SeatedAt(t, s)'
  BY <1>1, <1>2, IdleSeated
<1> QED
  BY <1>1, <1>2, <1>3, WriteKeeps

\* An outcome can become unknown whatever is on its way.
LEMMA UnknownFits ==
  ASSUME Inv, NEW o \in Ops, NEW r \in Rows, Written(o, r, "outcome_unknown", "none")
  PROVE  RowTrue(o)' /\ \A c \in Live : c.op = o => IntentOf(c)'
<1>1. /\ op'[o] = r /\ r.state = "outcome_unknown" /\ r.view = op[o].view
      /\ r.dig <=> op[o].dig
  BY WrittenRow DEF Written, Inv, Safe, Types
<1>2. RowTrue(o) /\ IntentsFirst
  BY DEF Inv, Safe, RowsTrue
<1>3. RowTrue(o)'
  BY <1>1, <1>2 DEF RowTrue
<1> QED
  BY <1>1, <1>2, <1>3 DEF IntentsFirst, IntentOf, Intents

\* The secret is stored: the row remains a draft.
LEMMA StoredKeeps ==
  ASSUME Inv, NEW t \in Threads, NEW res \in Results, Stored(t, res) PROVE Inv'
<1>1. PICK q : q = h[t]
  OBVIOUS
<1>2. /\ q.pc = "stored" /\ Transition(q.op, q.snap, "draft", "none", "secret_stored", res)
      /\ res # "ok" => End(t)
      /\ Apart(t) /\ UNCHANGED <<link, agent>>
  BY <1>1, StandsApart DEF Stored, MonitorStep
<1>3. MonitorTypes /\ SeatedAt(t, q) /\ q \in ThreadStates /\ IntentsFirst /\ RowsTrue
  BY <1>1 DEF Inv, Safe, Types, MonitorTypes, ThreadsSeated
<1>4. PICK o : o = q.op
  OBVIOUS
<1>5. /\ o \in Ops /\ op[o].state # "absent" /\ gate = t /\ q.act = "secret"
      /\ q.snap.ver = op[o].ver => q.snap = op[o]
      /\ RowTrue(o) /\ Unborn(o) /\ q.snap.state = "draft" /\ q.next # "recovered"
      /\ "draft" \in RowStates
  BY <1>2, <1>3, <1>4
  DEF SeatedAt, RowsTrue, Begins, Drafting, RowStates, ActiveStates
<1>6. CASE UNCHANGED op /\ res = "lost"
  BY <1>2, <1>6, EndKeeps
<1>7. ASSUME q.snap = op[o], NEW r \in Rows, Written(o, r, "draft", "none")
      PROVE  Inv'
  <2>1. /\ op'[o] = r /\ r.state = "draft" /\ r.view = op[o].view /\ r.ver \in Nat
        /\ r.dig <=> op[o].dig
    BY <1>3, <1>5, <1>7, WrittenRow DEF Written, Rows
  <2>2. RowTrue(o)'
    BY <1>5, <1>7, <2>1 DEF RowTrue
  <2>3. \A c \in Live : c.op = o => IntentOf(c)'
    BY <1>3, <1>5, <1>7, <2>1 DEF IntentOf, IntentsFirst
  <2>4. CASE res = "ok"
    <3>1. h' = [h EXCEPT ![t].pc = "call", ![t].act = "prepare", ![t].snap = r]
          /\ UNCHANGED gate
      BY <1>1, <1>4, <2>1, <2>4 DEF Stored
    <3>2. PICK s : s = h'[t]
      OBVIOUS
    <3>3. Moves(t) /\ Fields(s, "call", q.op, r, "prepare", q.view, q.next, q.id)
      BY <1>1, <1>3, <3>1, <3>2, GoesSent DEF Pcs, Acts
    <3>4. Unborn(o)'
      BY <1>2, <1>5 DEF Unborn, NoRecord, LivePrepare, Live, link, agent
    <3>5. r.dig <=> r.view # "none"
      BY <1>5, <2>1 DEF RowTrue
    <3>6. ~r.dig
      BY <1>5, <1>7, <2>1 DEF RowTrue
    <3>7. SeatedAt(t, s)'
      BY <1>4, <1>5, <2>1, <3>1, <3>3, <3>4, <3>5, <3>6
      DEF SeatedAt, Fields, Begins, Drafting, CallAllowed, MarkAllowed,
          RecordAllowed, SettleAllowed, Acts, Intents
    <3> QED
      BY <1>2, <1>5, <1>7, <2>2, <2>3, <3>2, <3>3, <3>7, WriteKeeps
  <2>5. CASE res # "ok"
    BY <1>2, <1>5, <1>7, <2>2, <2>3, <2>5, WriteEnds
  <2> QED
    BY <2>4, <2>5
<1> QED
  BY <1>2, <1>3, <1>4, <1>5, <1>6, <1>7, TransitionCases

\* A thread that says next that it does not know.
LEMMA UnsureSeated ==
  ASSUME MonitorTypes, NEW t \in Threads, NEW q, q = h[t], SeatedAt(t, q), gate = t,
         h' = [h EXCEPT ![t].pc = "unknown"], UNCHANGED gate,
         op'[q.op].state # "absent",
         op' = op \/ op'[q.op].ver > op[q.op].ver,
         op'[q.op].ver \in Nat,
         NEW s, s = h'[t]
  PROVE  Moves(t) /\ SeatedAt(t, s)'
<1>1. Moves(t) /\ Fields(s, "unknown", q.op, q.snap, q.act, q.view, q.next, q.id)
  BY GoesTo DEF Pcs
<1>2. /\ q.op \in Ops /\ q.act \in Acts \cup {"preflight"}
      /\ q.snap.ver <= op[q.op].ver
      /\ q.snap.ver = op[q.op].ver => q.snap = op[q.op]
      /\ q.snap.dig <=> q.snap.view # "none"
  BY ConstantsAssumption DEF SeatedAt, Threads
<1>3. q.snap.ver \in Nat /\ op[q.op].ver \in Nat
  <2>1. q \in ThreadStates
    BY DEF MonitorTypes
  <2> QED
    BY <1>2, <2>1 DEF MonitorTypes, ThreadStates, Rows
<1>4. /\ q.snap.ver <= op'[q.op].ver
      /\ q.snap.ver = op'[q.op].ver => q.snap = op'[q.op]
  BY <1>2, <1>3
<1>5. /\ ~Begins(s) /\ Drafting(s)
      /\ CallAllowed(s)' /\ MarkAllowed(s) /\ RecordAllowed(s)' /\ SettleAllowed(s)'
  BY <1>1
  DEF Fields, Begins, Drafting, CallAllowed, MarkAllowed, RecordAllowed, SettleAllowed
<1>6. /\ s.pc = "unknown" /\ s.op = q.op /\ s.snap = q.snap /\ s.act = q.act
  BY <1>1 DEF Fields
<1> QED
  BY <1>1, <1>2, <1>4, <1>5, <1>6 DEF SeatedAt

\* The row is written, or is not, and the thread says next that it does not know.
LEMMA UnsureKeeps ==
  ASSUME Inv, NEW t \in Threads, Goto(t, "unknown"), Apart(t), gate = t,
         NEW o, o = h[t].op,
         \/ UNCHANGED op
         \/ /\ \E r \in Rows, next \in RowStates \ {"absent"} :
                  \E v : Written(o, r, next, v)
            /\ RowTrue(o)'
            /\ \A c \in Live : c.op = o => IntentOf(c)'
  PROVE  Inv'
<1>1. PICK q : q = h[t]
  OBVIOUS
<1>2. MonitorTypes /\ SeatedAt(t, q) /\ t # None
  BY <1>1, ConstantsAssumption DEF Inv, Safe, Types, ThreadsSeated, Threads
<1>3. q.op \in Ops /\ op[q.op].state # "absent" /\ op[q.op].ver \in Nat
  BY <1>2 DEF SeatedAt, MonitorTypes, Rows
<1>4. PICK s : s = h'[t]
  OBVIOUS
<1>5. h' = [h EXCEPT ![t].pc = "unknown"] /\ UNCHANGED gate
  BY DEF Goto
<1>6. CASE UNCHANGED op
  <2>1. Moves(t) /\ SeatedAt(t, s)'
    BY <1>1, <1>2, <1>3, <1>4, <1>5, <1>6, UnsureSeated
  <2> QED
    BY <1>4, <1>6, <2>1, SeatKeeps
<1>7. ASSUME NEW r \in Rows, NEW next \in RowStates \ {"absent"}, NEW v,
             Written(q.op, r, next, v), RowTrue(q.op)',
             \A c \in Live : c.op = q.op => IntentOf(c)'
      PROVE  Inv'
  <2>1. op'[q.op] = r /\ r.ver > op[q.op].ver
    BY <1>2, <1>3, <1>7, WrittenRow
  <2>2. r.state = next /\ r.ver \in Nat
    BY <1>7 DEF Written, Rows
  <2>3. Moves(t) /\ SeatedAt(t, s)'
    BY <1>1, <1>2, <1>3, <1>4, <1>5, <2>1, <2>2, UnsureSeated
  <2> QED
    BY <1>3, <1>4, <1>7, <2>3, WriteKeeps
<1> QED
  BY <1>1, <1>6, <1>7

\* An end without an observation, of an operation the agent does not know.
LEMMA SettleKeeps ==
  ASSUME Inv, NEW t \in Threads, NEW res \in Results, Settle(t, res) PROVE Inv'
<1>1. PICK q : q = h[t]
  OBVIOUS
<1>2. /\ q.pc = "settle" /\ Transition(q.op, q.snap, q.next, "none", q.next, res)
      /\ End(t) \/ (q.act = "prepare" /\ Goto(t, "unknown"))
      /\ Apart(t) /\ UNCHANGED <<link, agent>>
  BY <1>1, StandsApart DEF Settle, MonitorStep
<1>3. MonitorTypes /\ SeatedAt(t, q) /\ q \in ThreadStates /\ IntentsFirst /\ RowsTrue
  BY <1>1 DEF Inv, Safe, Types, MonitorTypes, ThreadsSeated
<1>4. PICK o : o = q.op
  OBVIOUS
<1>5. /\ o \in Ops /\ op[o].state # "absent" /\ gate = t /\ SettleAllowed(q)
      /\ q.snap.ver = op[o].ver => q.snap = op[o]
      /\ RowTrue(o)
  BY <1>2, <1>3, <1>4 DEF SeatedAt, RowsTrue
<1>6. q.next \in {"outcome_unknown", "rejected", "conflict", "cancelled"}
      /\ q.next \in RowStates /\ q.next # "absent"
  BY <1>2, <1>5 DEF SettleAllowed, RowStates, ActiveStates
<1>7. CASE UNCHANGED op
  BY <1>1, <1>2, <1>5, <1>7, EndKeeps, UnsureKeeps
<1>8. ASSUME q.snap = op[o], NEW r \in Rows, Written(o, r, q.next, "none")
      PROVE  Inv'
  <2>1. RowTrue(o)' /\ \A c \in Live : c.op = o => IntentOf(c)'
    <3>1. CASE q.next = "outcome_unknown"
      BY <1>5, <1>8, <3>1, UnknownFits
    <3>2. CASE q.next # "outcome_unknown"
      <4>1. /\ Unborn(o) /\ ~op[o].dig
            /\ op[o].state = "draft" \/ Live = {}
            /\ q.next \in {"rejected", "conflict", "cancelled"}
        BY <1>2, <1>4, <1>5, <1>8, <3>2 DEF SettleAllowed
      <4>2. /\ op'[o] = r /\ r.state = q.next /\ r.view = op[o].view
            /\ r.dig <=> op[o].dig
        BY <1>3, <1>5, <1>8, WrittenRow DEF Written
      <4>3. Unborn(o)'
        BY <1>2, <4>1 DEF Unborn, NoRecord, LivePrepare, Live, link, agent
      <4>4. RowTrue(o)'
        BY <1>5, <4>1, <4>2, <4>3 DEF RowTrue
      <4>5. ASSUME NEW c \in Live, c.op = o PROVE IntentOf(c)'
        <5>1. op[o].state = "draft" /\ IntentOf(c) /\ c.act # "prepare"
          BY <1>3, <4>1, <4>5 DEF Unborn, LivePrepare, IntentsFirst
        <5> QED
          BY <4>5, <5>1 DEF IntentOf, Intents
      <4> QED
        BY <4>4, <4>5
    <3> QED
      BY <3>1, <3>2
  <2>2. CASE End(t)
    BY <1>2, <1>5, <1>6, <1>8, <2>1, <2>2, WriteEnds
  <2>3. CASE q.act = "prepare" /\ Goto(t, "unknown")
    BY <1>1, <1>2, <1>4, <1>5, <1>6, <1>8, <2>1, <2>3, UnsureKeeps
  <2> QED
    BY <1>2, <2>2, <2>3
<1> QED
  BY <1>2, <1>3, <1>4, <1>5, <1>6, <1>7, <1>8, TransitionCases

\* configUnknown.
LEMMA UnknownKeeps ==
  ASSUME Inv, NEW t \in Threads, NEW res \in Results, Unknown(t, res) PROVE Inv'
<1>1. PICK q : q = h[t]
  OBVIOUS
<1>2. /\ q.pc = "unknown" /\ End(t) /\ Apart(t)
      /\ UNCHANGED op \/ Transition(q.op, q.snap, "outcome_unknown", "none",
                                    "outcome_unknown", res)
  BY <1>1, StandsApart DEF Unknown
<1>3. MonitorTypes /\ SeatedAt(t, q)
  BY <1>1 DEF Inv, Safe, Types, ThreadsSeated
<1>4. PICK o : o = q.op
  OBVIOUS
<1>5. /\ o \in Ops /\ op[o].state # "absent" /\ gate = t
      /\ q.snap.ver = op[o].ver => q.snap = op[o]
      /\ "outcome_unknown" \in RowStates
  BY <1>2, <1>3, <1>4 DEF SeatedAt, RowStates, ActiveStates
<1>6. CASE UNCHANGED op
  BY <1>2, <1>6, EndKeeps
<1>7. ASSUME NEW r \in Rows, Written(o, r, "outcome_unknown", "none") PROVE Inv'
  BY <1>2, <1>5, <1>7, UnknownFits, WriteEnds
<1> QED
  BY <1>2, <1>3, <1>4, <1>5, <1>6, <1>7, TransitionCases

LEMMA ViewsAreStates ==
  /\ Views \subseteq RowStates \ {"absent"}
  /\ Views \cap {"none", "absent", "draft", "validated", "rejected", "failed"} = {}
BY DEF Views, RowStates, ActiveStates, Engine!States, Engine!TerminalStates,
       Engine!UnfinishedStates

\* recordConfigResult, one transition: what it writes.
LEMMA StepToCases ==
  ASSUME NEW row, NEW v, NEW expired
  PROVE  StepTo(row, v, expired) \in {v, "validated", "verifying", "rolling_back",
                                      "outcome_unknown"}
BY DEF StepTo

\* What is written of an observation is true.
LEMMA RecordFits ==
  ASSUME Inv, UNCHANGED <<agent, link>>, NEW o \in Ops, NEW v \in Views, Fact(o, v),
         Live = {},
         NEW next \in {v, "validated", "verifying", "rolling_back", "outcome_unknown"},
         NEW shown \in {v, "none"}, shown = "none" => next = "outcome_unknown",
         NEW r \in Rows, Written(o, r, next, shown)
  PROVE  RowTrue(o)' /\ \A c \in Live : c.op = o => IntentOf(c)'
<1>1. /\ op'[o] = r /\ r.state = next
      /\ r.view = IF shown = "none" THEN op[o].view ELSE shown
      /\ r.dig <=> (op[o].dig \/ shown # "none")
  BY WrittenRow DEF Written, Inv, Safe, Types
<1>2. RowTrue(o)
  BY DEF Inv, Safe, RowsTrue
<1>3. Fact(o, v)'
  BY DEF Fact, Final, Past, agent
<1>4. v \notin {"none", "absent", "draft", "validated", "rejected", "failed"}
  BY ViewsAreStates
<1>5. r.dig <=> r.view # "none"
  BY <1>1, <1>2, <1>4 DEF RowTrue
<1>6. r.state \notin {"absent", "draft", "rejected", "failed"}
  BY <1>1, <1>4
<1>7. r.state \in {"rolled_back", "confirmed", "conflict", "cancelled"} => r.state = v /\ r.dig
  BY <1>1
<1>8. RowTrue(o)'
  BY <1>1, <1>3, <1>5, <1>6, <1>7 DEF RowTrue, Fact
<1> QED
  BY <1>8

\* The preflight of a rollback goes on, or the thread is done.
LEMMA PreflightSeated ==
  ASSUME MonitorTypes, NEW t \in Threads, NEW q, q = h[t], q.op \in Ops, gate = t,
         NEW row \in Rows, row = op'[q.op], row.state = "confirmed", row.dig,
         row.dig <=> row.view # "none",
         h' = [h EXCEPT ![t].pc = "mark", ![t].act = "rollback",
                        ![t].next = "rolling_back", ![t].snap = row],
         UNCHANGED gate, NEW s, s = h'[t]
  PROVE  Moves(t) /\ SeatedAt(t, s)'
<1>1. Moves(t) /\ Fields(s, "mark", q.op, row, "rollback", q.view, "rolling_back", q.id)
  <2>1. "mark" \in Pcs /\ "rollback" \in Acts /\ "rolling_back" \in Nexts
    BY DEF Pcs, Acts, Nexts, RowStates, ActiveStates
  <2> QED
    BY <2>1, GoesMark
<1>2. row.ver \in Nat
  BY DEF Rows
<1> QED
  BY <1>1, <1>2
  DEF SeatedAt, Fields, Begins, Drafting, CallAllowed, MarkAllowed, RecordAllowed,
      SettleAllowed, Acts

LEMMA SameRecordKeeps ==
  ASSUME Inv, NEW t \in Threads, h[t].pc = "record", Apart(t), UNCHANGED op,
         h[t].snap.view = h[t].view, Recorded(t, h[t].snap)
  PROVE  Inv'
<1>1. PICK q : q = h[t]
  OBVIOUS
<1>2. MonitorTypes /\ SeatedAt(t, q) /\ q \in ThreadStates
  BY <1>1 DEF Inv, Safe, Types, MonitorTypes, ThreadsSeated
<1>3. CASE End(t)
  BY <1>3, EndKeeps
<1>4. CASE /\ q.snap.state = "confirmed"
           /\ h' = [h EXCEPT ![t].pc = "mark", ![t].act = "rollback",
                             ![t].next = "rolling_back", ![t].snap = q.snap]
           /\ UNCHANGED gate
  <2>1. /\ q.op \in Ops /\ gate = t /\ q.view \in Views
        /\ q.snap.ver <= op[q.op].ver
        /\ q.snap.ver = op[q.op].ver => q.snap = op[q.op]
        /\ q.snap.dig <=> q.snap.view # "none"
    BY <1>1, <1>2 DEF SeatedAt, RecordAllowed
  <2>2. q.snap.dig /\ q.snap \in Rows
    BY <1>1, <1>2, <2>1, ViewsAreStates DEF ThreadStates
  <2>3. PICK s : s = h'[t]
    OBVIOUS
  <2>4. Moves(t) /\ Fields(s, "mark", q.op, q.snap, "rollback", q.view, "rolling_back", q.id)
    BY <1>1, <1>2, <1>4, <2>2, <2>3, GoesMark DEF Pcs, Acts, Nexts, RowStates, ActiveStates
  <2>5. op[q.op].state # "absent"
    BY <1>1, <1>2 DEF SeatedAt
  <2>6. SeatedAt(t, s)'
    BY <1>4, <2>1, <2>2, <2>4, <2>5
    DEF SeatedAt, Fields, Begins, Drafting, CallAllowed, MarkAllowed, RecordAllowed,
        SettleAllowed, Acts
  <2> QED
    BY <2>3, <2>4, <2>6, SeatKeeps
<1> QED
  BY <1>1, <1>3, <1>4 DEF Recorded

\* recordConfigResult, each transition of its loop.
LEMMA RecordKeeps ==
  ASSUME Inv, NEW t \in Threads, NEW res \in Results, Record(t, res) PROVE Inv'
<1>1. PICK q : q = h[t]
  OBVIOUS
<1>2. PICK o : o = q.op
  OBVIOUS
<1>3. PICK next : next = IF q.next = "recovered" THEN q.snap.state
                         ELSE StepTo(q.snap, q.view, late[o])
  OBVIOUS
<1>4. PICK shown : shown = IF next = "outcome_unknown" /\ ~q.snap.dig /\ q.snap.state # next
                           THEN "none" ELSE q.view
  OBVIOUS
<1>5. h[t].pc = "record" /\ Apart(t) /\ UNCHANGED <<link, agent>>
  BY StandsApart DEF Record, MonitorStep
<1>6. /\ MonitorTypes /\ SeatedAt(t, q) /\ q \in ThreadStates /\ q.snap \in Rows
      /\ IntentsFirst /\ RowsTrue
  BY <1>1 DEF Inv, Safe, Types, MonitorTypes, ThreadsSeated, ThreadStates
<1>7. /\ o \in Ops /\ op[o].state # "absent" /\ gate = t /\ RecordAllowed(q)
      /\ q.snap.ver = op[o].ver => q.snap = op[o]
      /\ q.act \in Acts \cup {"preflight"}
      /\ RowTrue(o)
  <2>1. /\ o \in Ops /\ op[o].state # "absent" /\ gate = t /\ RecordAllowed(q)
        /\ q.snap.ver = op[o].ver => q.snap = op[o]
        /\ q.act \in Acts \cup {"preflight"}
    BY <1>1, <1>2, <1>5, <1>6 DEF SeatedAt
  <2> QED
    BY <1>6, <2>1 DEF RowsTrue
<1>8. /\ q.view \in Views /\ Fact(o, q.view) /\ Live = {}
      /\ q.next = "recovered" => q.snap.state = "outcome_unknown"
  BY <1>1, <1>2, <1>5, <1>7 DEF RecordAllowed
<1>9. /\ next \in {q.view, "validated", "verifying", "rolling_back", "outcome_unknown"}
      /\ shown \in {q.view, "none"} /\ (shown = "none" => next = "outcome_unknown")
  BY <1>3, <1>4, <1>8, StepToCases, ViewsAreStates
<1>10. next \in RowStates /\ next # "absent" /\ shown \in Views \cup {"none"}
  BY <1>8, <1>9, ViewsAreStates DEF RowStates, ActiveStates
<1>11. CASE SameFacts(o, q.snap, q.view) /\ Recorded(t, q.snap) /\ UNCHANGED op
  BY <1>1, <1>5, <1>11, SameRecordKeeps DEF SameFacts
<1>12. CASE /\ Transition(o, q.snap, next, shown, "recorded", res)
            /\ IF res # "ok" THEN NotRecorded(t)
               ELSE IF q.next = "recovered" \/ next = q.view THEN Recorded(t, op'[o])
               ELSE /\ h' = [h EXCEPT ![t].snap = op'[o],
                              ![t].next = IF next = "outcome_unknown" /\ Expired(o, q.view)
                                          THEN "recovered" ELSE "more"]
                    /\ UNCHANGED gate
  <2>1. CASE UNCHANGED op /\ res = "lost"
    <3>1. End(t) \/ Goto(t, "unknown")
      BY <1>12, <2>1 DEF NotRecorded
    <3> QED
      BY <1>1, <1>2, <1>5, <1>7, <2>1, <3>1, EndKeeps, UnsureKeeps
  <2>2. ASSUME q.snap = op[o], NEW r \in Rows, Written(o, r, next, shown) PROVE Inv'
    <3>1. RowTrue(o)' /\ \A c \in Live : c.op = o => IntentOf(c)'
      BY <1>5, <1>7, <1>8, <1>9, <2>2, RecordFits
    <3>2. op'[o] = r /\ r.state = next /\ (r.dig <=> r.view # "none") /\ r.ver \in Nat
          /\ (r.state = "confirmed" => r.dig)
      <4>1. op'[o] = r
        BY <1>6, <1>7, <2>2, WrittenRow
      <4>2. r.state = next /\ r.ver \in Nat
        BY <2>2 DEF Written, Rows
      <4> QED
        BY <3>1, <4>1, <4>2 DEF RowTrue
    <3>3. CASE End(t)
      BY <1>5, <1>7, <1>10, <2>2, <3>1, <3>3, WriteEnds
    <3>4. CASE Goto(t, "unknown")
      BY <1>1, <1>2, <1>5, <1>7, <1>10, <2>2, <3>1, <3>4, UnsureKeeps
    <3>5. CASE /\ r.state = "confirmed"
               /\ h' = [h EXCEPT ![t].pc = "mark", ![t].act = "rollback",
                                 ![t].next = "rolling_back", ![t].snap = r]
               /\ UNCHANGED gate
      <4>1. PICK s : s = h'[t]
        OBVIOUS
      <4>2. Moves(t) /\ SeatedAt(t, s)'
        BY <1>1, <1>2, <1>6, <1>7, <3>2, <3>5, <4>1, PreflightSeated
      <4> QED
        BY <1>5, <1>7, <1>10, <2>2, <3>1, <4>1, <4>2, WriteKeeps
    <3>6. ASSUME NEW n \in {"recovered", "more"},
                 n = "recovered" => next = "outcome_unknown",
                 h' = [h EXCEPT ![t].snap = r, ![t].next = n], UNCHANGED gate
          PROVE  Inv'
      <4>1. PICK s : s = h'[t]
        OBVIOUS
      <4>2. n \in Nexts
        BY DEF Nexts
      <4>3. Moves(t) /\ Fields(s, "record", q.op, r, q.act, q.view, n, q.id)
        BY <1>1, <1>5, <1>6, <3>6, <4>1, <4>2, GoesOn
      <4>4. Live' = {} /\ Fact(o, q.view)'
        <5>1. Live' = Live
          BY <1>5 DEF Live, link
        <5> QED
          BY <1>5, <1>8, <5>1 DEF agent, Fact, Final, Past
      <4>5. RecordAllowed(s)'
        BY <1>2, <1>8, <3>2, <3>6, <4>3, <4>4 DEF RecordAllowed, Fields
      <4>6. /\ ~Begins(s) /\ Drafting(s) /\ CallAllowed(s)' /\ MarkAllowed(s)
            /\ SettleAllowed(s)'
        BY <1>7, <4>3
        DEF Fields, Begins, Drafting, CallAllowed, MarkAllowed, SettleAllowed
      <4>7. SeatedAt(t, s)'
        BY <1>2, <1>7, <1>10, <3>2, <3>6, <4>3, <4>5, <4>6 DEF SeatedAt, Fields
      <4> QED
        BY <1>5, <1>7, <1>10, <2>2, <3>1, <4>1, <4>3, <4>7, WriteKeeps
    <3>7. CASE res # "ok"
      BY <1>12, <3>3, <3>4, <3>7 DEF NotRecorded
    <3>8. CASE res = "ok" /\ (q.next = "recovered" \/ next = q.view)
      BY <1>12, <3>2, <3>3, <3>5, <3>8 DEF Recorded
    <3>9. CASE res = "ok" /\ ~(q.next = "recovered" \/ next = q.view)
      <4>1. PICK n : n = IF next = "outcome_unknown" /\ Expired(o, q.view)
                         THEN "recovered" ELSE "more"
        OBVIOUS
      <4>2. h' = [h EXCEPT ![t].snap = r, ![t].next = n] /\ UNCHANGED gate
        BY <1>12, <3>2, <3>9, <4>1
      <4>3. n \in {"recovered", "more"} /\ (n = "recovered" => next = "outcome_unknown")
        BY <4>1
      <4> QED
        BY <3>6, <4>2, <4>3
    <3> QED
      BY <3>7, <3>8, <3>9
  <2> QED
    BY <1>6, <1>7, <1>10, <1>12, <2>1, <2>2, TransitionCases
<1> QED
  BY <1>1, <1>2, <1>3, <1>4, <1>11, <1>12 DEF Record

-----------------------------------------------------------------------------
(* Commands and their answers *)

\* Nothing carries a fresh ID.
LEMMA FreshId ==
  ASSUME Link!HasFresh
  PROVE  /\ Link!Fresh \in Ids /\ Link!Fresh # pending
         /\ \A i \in 1..Len(wire) : wire[i].id # Link!Fresh
         /\ \A i \in 1..Len(out) : out[i].id # Link!Fresh
         /\ job # None => job.cmd.id # Link!Fresh
         /\ call # None => call.cmd.id # Link!Fresh
<1>1. PICK f : f = Link!Fresh
  OBVIOUS
<1>2. f \in Ids /\ f \notin Link!Carried
  BY <1>1 DEF Link!Fresh, Link!HasFresh
<1>3. f # pending /\ f \notin Link!UnderWay
  BY <1>2 DEF Link!Carried
<1>4. /\ \A i \in 1..Len(wire) : wire[i].id # f
      /\ \A i \in 1..Len(out) : out[i].id # f
  BY <1>3 DEF Link!UnderWay
<1>5. /\ job # None => job.cmd.id # f
      /\ call # None => call.cmd.id # f
  BY <1>3 DEF Link!UnderWay
<1> QED
  BY <1>1, <1>2, <1>3, <1>4, <1>5

\* The one step that adds a command: its intent is in the row already.
LEMMA SubmitKeeps == ASSUME Inv, NEW t \in Threads, Submit(t) PROVE Inv'
<1>1. PICK q : q = h[t]
  OBVIOUS
<1>2. PICK f : f = Link!Fresh
  OBVIOUS
<1>3. PICK d : d = [id |-> f, op |-> q.op, act |-> Sent(q.act)]
  OBVIOUS
<1>4. PICK o : o = q.op
  OBVIOUS
<1>5. /\ q.pc = "call" /\ conn /\ pending = None /\ queue = None /\ Link!HasFresh
      /\ pending' = f /\ queue' = d
      /\ UNCHANGED <<conn, wire, busy, job, call, out>>
      /\ h' = [h EXCEPT ![t].pc = "wait", ![t].id = f]
      /\ UNCHANGED <<op, late, gate, agent>>
  BY <1>1, <1>2, <1>3 DEF Submit, Link!Submit, Link!Free, CallStep, Cmd, Sent
<1>6. /\ f \in Ids /\ f # None
      /\ \A i \in 1..Len(wire) : wire[i].id # f
      /\ \A i \in 1..Len(out) : out[i].id # f
      /\ job # None => job.cmd.id # f
      /\ call # None => call.cmd.id # f
  BY <1>2, <1>5, FreshId, ConstantsAssumption
<1>7. /\ Types /\ EngineInv /\ RowsTrue /\ IntentsFirst /\ SeatedAt(t, q) /\ ChannelInv
      /\ CallTrue
  BY <1>1 DEF Inv, Safe, ThreadsSeated
<1>8. /\ o \in Ops /\ q.act \in Acts \cup {"preflight"} /\ gate = t /\ op[o].state # "absent"
      /\ CallAllowed(q) /\ Drafting(q) /\ RowTrue(o)
      /\ q.act \in {"secret", "prepare"} => Unborn(o)
  <2>1. /\ o \in Ops /\ q.act \in Acts \cup {"preflight"} /\ gate = t
        /\ op[o].state # "absent" /\ CallAllowed(q) /\ Drafting(q)
        /\ Begins(q) => Unborn(o)
    BY <1>4, <1>5, <1>7 DEF SeatedAt
  <2> QED
    BY <1>5, <1>7, <2>1 DEF Begins, RowsTrue
<1>9. d \in Cmds /\ d.id = f /\ d.op = o /\ d.act = Sent(q.act)
  BY <1>3, <1>4, <1>6, <1>8 DEF Cmds, Sent, Acts
<1>10. PICK s : s = h'[t]
  OBVIOUS
<1>11. Moves(t) /\ Fields(s, "wait", q.op, q.snap, q.act, q.view, q.next, f)
  BY <1>1, <1>5, <1>6, <1>7, <1>10, GoesWait DEF Types, Pcs
<1>12. Live' \subseteq Live \cup {d} /\ UNCHANGED <<mem, jrn, up, worker>>
  BY <1>5, LiveMembers DEF OnWire, InQueue, InJob, InCall, agent
<1>13. d.act = "prepare" => q.act = "prepare" /\ op[o].state = "draft" /\ ~op[o].dig
  BY <1>4, <1>5, <1>8, <1>9 DEF Sent, CallAllowed, RowTrue
<1>14. ASSUME NEW p \in Ops, Unborn(p), p = o => d.act # "prepare" PROVE Unborn(p)'
  BY <1>9, <1>12, <1>14 DEF Unborn, NoRecord, LivePrepare
<1>15. \A p \in Ops : /\ \A e : Final(p, e) => Final(p, e)'
                      /\ Past(p) => Past(p)'
                      /\ NoRecord(p) => NoRecord(p)'
  BY <1>12 DEF Final, Past, NoRecord
<1>16. RowsTrue'
  <2> SUFFICES ASSUME NEW p \in Ops PROVE RowTrue(p)'
    BY DEF RowsTrue
  <2>1. RowTrue(p) /\ op'[p] = op[p]
    BY <1>5, <1>7 DEF RowsTrue
  <2>2. op[p].state \in {"absent", "rejected", "conflict", "cancelled"}
            => (Unborn(p) => Unborn(p)')
    BY <1>13, <1>14
  <2> QED
    BY <1>15, <2>1, <2>2 DEF RowTrue
<1>17. IntentsFirst'
  <2> SUFFICES ASSUME NEW c \in Live' PROVE IntentOf(c)'
    BY DEF IntentsFirst
  <2>1. CASE c \in Live
    BY <1>5, <1>7, <2>1 DEF IntentsFirst, IntentOf
  <2>2. CASE c = d
    <3>1. c.act \in DOMAIN Intents => op[c.op].state \in Intents[c.act]
      BY <1>4, <1>5, <1>8, <1>9, <1>13, <2>2 DEF CallAllowed, Sent, Intents
    <3> QED
      BY <1>5, <1>9, <1>13, <2>2, <3>1 DEF IntentOf
  <2> QED
    BY <1>12, <2>1, <2>2
<1>18. SeatedAt(t, s)'
  <2>1. Begins(s) => Unborn(o)'
    <3>1. Begins(s) => s.act = "secret"
      BY <1>11 DEF Begins, Fields
    <3> QED
      BY <1>8, <1>9, <1>11, <1>14, <3>1 DEF Fields, Sent
  <2>2. /\ Drafting(s) /\ CallAllowed(s)' /\ MarkAllowed(s) /\ RecordAllowed(s)'
        /\ SettleAllowed(s)'
    BY <1>5, <1>8, <1>11
    DEF Fields, Drafting, CallAllowed, MarkAllowed, RecordAllowed, SettleAllowed
  <2>3. s.pc = "wait" /\ s.op = o /\ s.snap = q.snap /\ s.act = q.act /\ s.next = q.next
    BY <1>4, <1>11 DEF Fields
  <2> QED
    BY <1>4, <1>5, <1>7, <1>8, <2>1, <2>2, <2>3 DEF SeatedAt
<1>19. ThreadsSeated'
  <2> SUFFICES ASSUME NEW u \in Threads PROVE SeatedAt(u, h[u])'
    BY DEF ThreadsSeated
  <2>1. CASE u = t
    BY <1>10, <1>18, <2>1
  <2>2. CASE u # t
    <3>1. PICK z : z = h[u]
      OBVIOUS
    <3>2. SeatedAt(u, z) /\ h'[u] = z /\ gate # u /\ z.pc \in {"idle", "read"}
      <4>1. SeatedAt(u, z) /\ h'[u] = z /\ gate # u
        BY <1>8, <1>11, <2>2, <3>1 DEF Inv, Safe, ThreadsSeated, Moves
      <4> QED
        BY <4>1 DEF SeatedAt
    <3>3. z.pc = "read" => z.act = "query"
      BY <3>2 DEF SeatedAt
    <3>4. z.pc = "read" => /\ ~Begins(z) /\ CallAllowed(z)' /\ RecordAllowed(z)'
                           /\ SettleAllowed(z)'
      BY <3>3 DEF Begins, CallAllowed, RecordAllowed, SettleAllowed
    <3> QED
      BY <1>5, <3>2, <3>4 DEF SeatedAt
  <2> QED
    BY <2>1, <2>2
<1>20. h'[gate'] = s /\ s.pc = "wait" /\ s.id = f /\ s.op = o /\ s.act = q.act
  BY <1>4, <1>5, <1>8, <1>10, <1>11 DEF Fields
<1>21. Waiting' /\ Fence'
  <2>1. Waiting'
    BY <1>5, <1>8, <1>20 DEF Waiting
  <2>2. Fence'
    BY <1>5, <1>6, <1>9, <1>20 DEF Fence, Awaits, Mine
  <2> QED
    BY <2>1, <2>2
<1>22. OnlyPrepare'
  <2> SUFFICES ASSUME s.act = "prepare", NEW c \in Live', c.act = "prepare", c.op = o
               PROVE  c.id = f /\ NoRecord(o)'
    BY <1>5, <1>20 DEF OnlyPrepare, Awaits
  <2>1. Unborn(o)
    BY <1>8, <1>20
  <2>2. c = d
    BY <1>12, <2>1 DEF Unborn, LivePrepare
  <2> QED
    BY <1>8, <1>9, <1>15, <2>1, <2>2 DEF Unborn
<1>23. AnswersTrue'
  BY <1>5, <1>6 DEF AnswersTrue
<1>24. ChannelInv'
  BY <1>5, <1>7, <1>21, <1>22, <1>23 DEF ChannelInv
<1>25. CallTrue'
  BY <1>5, <1>7, CallKept, UnchangedStable DEF Types
<1>26. Types' /\ EngineInv'
  <2>1. MonitorTypes'
    BY <1>5, <1>7, <1>11 DEF Types, MonitorTypes, Moves
  <2>2. LinkTypes' /\ AgentTypes' /\ EngineInv'
    BY <1>5, <1>6, <1>7, <1>9, <1>12 DEF Types, LinkTypes, AgentTypes, EngineInv
  <2> QED
    BY <2>1, <2>2 DEF Types
<1> QED
  BY <1>16, <1>17, <1>19, <1>24, <1>25, <1>26 DEF Inv, Safe

\* A result nobody waits for is ignored.
LEMMA IgnoredKeeps ==
  ASSUME Inv, out # <<>>, out' = Tail(out), pending # Head(out).id,
         UNCHANGED <<op, late, h, gate, agent, conn, pending, queue, wire, busy, job, call>>
  PROVE  Inv'
<1>1. LinkTypes
  BY DEF Inv, Safe, Types
<1>2. /\ out' \in Seq(Outs) /\ Len(out') <= ResultCap
      /\ \A i \in 1..Len(out') : i + 1 \in 1..Len(out) /\ out'[i] = out[i + 1]
  BY <1>1, TakesOne
<1>3. LinkTypes'
  BY <1>1, <1>2 DEF LinkTypes
<1>4. Live' = Live
  BY DEF Live
<1>5. CallTrue'
  BY <1>1, CallKept, UnchangedStable DEF Inv
<1>6. ~conn => out = <<>>
  BY DEF Inv, ChannelInv
<1>7. ASSUME pending # None PROVE Fence' /\ AnswersTrue'
  <2>1. /\ Fence /\ AnswersTrue
        /\ \A d : Mine(d) => Mine(d)'
        /\ \A r : AnswerTrue(r) => AnswerTrue(r)'
    BY <1>4, <1>7, WaiterKept, UnchangedStable
  <2>2. \A d : Awaits(d)' <=> Awaits(d)
    BY DEF Awaits
  <2>3. Fence'
    BY <1>2, <2>1, <2>2 DEF Fence
  <2>4. AnswersTrue'
    <3>1. SUFFICES ASSUME NEW i \in 1..Len(out'), NEW r, r = out'[i], r.id = pending
                   PROVE  AnswerTrue(r)'
      BY AnswersFrom
    <3>2. i + 1 \in 1..Len(out) /\ r = out[i + 1]
      BY <1>2, <3>1
    <3> QED
      BY <2>1, <3>1, <3>2 DEF AnswersTrue
  <2> QED
    BY <2>3, <2>4
<1>8. (job # None \/ call # None) => busy /\ (job = None \/ call = None)
  BY DEF Inv, ChannelInv
<1>9. ~conn => /\ queue = None /\ wire = <<>>
               /\ job # None => ~job.alive
               /\ call # None => ~call.alive
  BY DEF Inv, ChannelInv
<1> QED
  BY <1>3, <1>4, <1>5, <1>6, <1>7, <1>8, <1>9, ChannelKeeps

\* The answer reaches its thread.
LEMMA AnsweredKeeps ==
  ASSUME Inv, NEW t \in Threads, out # <<>>, out' = Tail(out), pending' = None,
         pending = Head(out).id, h[t].pc = "wait",
         UNCHANGED <<op, late, agent, conn, queue, wire, busy, job, call>>,
         Answered(t, Head(out).val)
  PROVE  Inv'
<1>1. PICK q : q = h[t]
  OBVIOUS
<1>2. PICK r : r = Head(out)
  OBVIOUS
<1>3. PICK v : v = r.val
  OBVIOUS
<1>4. /\ MonitorTypes /\ LinkTypes /\ SeatedAt(t, q) /\ q \in ThreadStates /\ q.pc = "wait"
  BY <1>1 DEF Inv, Safe, Types, MonitorTypes, ThreadsSeated
<1>5. r \in Outs /\ r = out[1] /\ 1 \in 1..Len(out) /\ v \in Engine!States \cup Codes
  <2>1. Len(out) \in Nat
    BY <1>4, LenProperties DEF LinkTypes
  <2> QED
    BY <1>2, <1>3, <1>4, <2>1, TakesOne DEF Outs
<1>6. pending # None /\ gate = t
  BY <1>2, <1>4, <1>5, ConstantsAssumption DEF Outs, SeatedAt
<1>7. AnswerTrue(r) /\ Apart(t)
  BY <1>2, <1>5, <1>6 DEF Inv, ChannelInv, AnswersTrue, Apart
<1>8. PICK o : o = q.op
  OBVIOUS
<1>9. PICK a : a = q.act
  OBVIOUS
<1>10. /\ v \in Views => Fact(o, v) /\ a # "secret" /\ Live = {}
       /\ v = "no_operation" => NoRecord(o) /\ Live = {}
       /\ a = "prepare" /\ v \in {"code_conflict", "code_rejected"} => Unborn(o)
  BY <1>1, <1>3, <1>6, <1>7, <1>8, <1>9 DEF AnswerTrue
<1>11. /\ o \in Ops /\ op[o].state # "absent" /\ a \in Acts \cup {"preflight"}
       /\ q.next # "recovered" /\ Drafting(q)
       /\ a = "secret" => Unborn(o)
       /\ q.snap.ver <= op[o].ver
       /\ q.snap.ver = op[o].ver => q.snap = op[o]
       /\ q.snap.dig <=> q.snap.view # "none"
  BY <1>4, <1>8, <1>9 DEF SeatedAt, Begins
<1>12. IsView(v) <=> v \in Views
  BY DEF IsView, Views
<1>13. PICK s : s = h'[t]
  OBVIOUS
<1>14. Moves(t) => Kept /\ Live' \subseteq Live
  BY <1>7, ApartKeeps
<1>15. ASSUME NEW l \in {"stored", "settle", "unknown"}, NEW n \in Nexts,
              h' = [h EXCEPT ![t].pc = l, ![t].next = n, ![t].id = None], UNCHANGED gate
       PROVE  Moves(t) /\ Fields(s, l, o, q.snap, a, q.view, n, None)
  BY <1>1, <1>4, <1>8, <1>9, <1>13, <1>15, GoesLearnt DEF Pcs
<1>16. ASSUME NEW l \in {"stored", "settle", "unknown"}, NEW n \in Nexts \ {"recovered"},
              h' = [h EXCEPT ![t].pc = l, ![t].next = n, ![t].id = None], UNCHANGED gate,
              l = "stored" => a = "secret",
              l = "settle" =>
                 \/ n = "outcome_unknown" /\ a # "secret"
                 \/ /\ n \in {"rejected", "conflict", "cancelled"}
                    /\ Unborn(o) /\ ~q.snap.dig
                    /\ q.snap.state = "draft" \/ Live = {}
       PROVE  Inv'
  <2>1. Moves(t) /\ Fields(s, l, o, q.snap, a, q.view, n, None)
    BY <1>15, <1>16
  <2>2. /\ s.pc = l /\ s.op = o /\ s.snap = q.snap /\ s.act = a /\ s.next = n
    BY <2>1 DEF Fields
  <2>3. Unborn(o) => Unborn(o)'
    BY <1>11, <1>14, <2>1 DEF Kept
  <2>4. Drafting(s)
    BY <1>4, <1>9, <1>11, <2>2 DEF Drafting
  <2>5. Begins(s) => Unborn(o)'
    BY <1>11, <1>16, <2>2, <2>3 DEF Begins
  <2>6. SettleAllowed(s)'
    BY <1>14, <1>16, <2>1, <2>2, <2>3 DEF SettleAllowed
  <2>7. CallAllowed(s)' /\ MarkAllowed(s) /\ RecordAllowed(s)'
    BY <2>2 DEF CallAllowed, MarkAllowed, RecordAllowed
  <2>8. SeatedAt(t, s)'
    BY <1>6, <1>11, <1>16, <2>2, <2>4, <2>5, <2>6, <2>7 DEF SeatedAt
  <2> QED
    BY <1>7, <1>13, <2>1, <2>8, SeatKeeps
<1>17. /\ {"draft", "rejected", "conflict", "cancelled", "outcome_unknown", "none"}
             \subseteq Nexts \ {"recovered"}
       /\ a \in {"secret", "prepare"} => q.snap.state = "draft" /\ ~q.snap.dig
  BY <1>4, <1>9, <1>11 DEF Nexts, RowStates, ActiveStates, Drafting
<1>18. CASE a = "secret"
  <2>1. \/ /\ h' = [h EXCEPT ![t].pc = "stored", ![t].next = "draft", ![t].id = None]
           /\ UNCHANGED gate
        \/ /\ h' = [h EXCEPT ![t].pc = "settle", ![t].next = "rejected", ![t].id = None]
           /\ UNCHANGED gate
    BY <1>1, <1>2, <1>3, <1>9, <1>10, <1>12, <1>18 DEF Answered
  <2> QED
    BY <1>11, <1>16, <1>17, <1>18, <2>1
<1>19. CASE a # "secret" /\ v \in Views
  <2>1. h' = [h EXCEPT ![t].pc = "record", ![t].view = v, ![t].id = None] /\ UNCHANGED gate
    BY <1>1, <1>2, <1>3, <1>9, <1>12, <1>19 DEF Answered
  <2>2. Moves(t) /\ Fields(s, "record", o, q.snap, a, v, q.next, None)
    BY <1>1, <1>4, <1>8, <1>9, <1>13, <1>19, <2>1, GoesSeen DEF Pcs
  <2>3. /\ s.pc = "record" /\ s.op = o /\ s.snap = q.snap /\ s.act = a /\ s.next = q.next
        /\ s.view = v
    BY <2>2 DEF Fields
  <2>4. Live' = {} /\ Fact(o, v)'
    BY <1>10, <1>11, <1>14, <1>19, <2>2, FactKept
  <2>5. RecordAllowed(s)'
    BY <1>11, <1>19, <2>3, <2>4 DEF RecordAllowed
  <2>6. /\ ~Begins(s) /\ Drafting(s) /\ CallAllowed(s)' /\ MarkAllowed(s) /\ SettleAllowed(s)'
    BY <2>3 DEF Begins, Drafting, CallAllowed, MarkAllowed, SettleAllowed
  <2>7. SeatedAt(t, s)'
    BY <1>6, <1>11, <2>1, <2>3, <2>5, <2>6 DEF SeatedAt
  <2> QED
    BY <1>7, <1>13, <2>2, <2>7, SeatKeeps
<1>20. CASE a = "prepare" /\ v \notin Views
  <2>1. PICK n : n = PrepareFailureState(v)
    OBVIOUS
  <2>2. \/ v = "code_conflict" /\ n = "conflict"
        \/ v = "code_rejected" /\ n = "rejected"
        \/ n = "outcome_unknown"
    BY <2>1 DEF PrepareFailureState
  <2>3. h' = [h EXCEPT ![t].pc = "settle", ![t].next = n, ![t].id = None] /\ UNCHANGED gate
    BY <1>1, <1>2, <1>3, <1>9, <1>12, <1>20, <2>1 DEF Answered
  <2> QED
    BY <1>10, <1>16, <1>17, <1>20, <2>2, <2>3
<1>21. CASE a \in {"query", "preflight"} /\ v \notin Views
  <2>1. \/ End(t)
        \/ /\ v = "no_operation" /\ Unprepared(q.snap)
           /\ h' = [h EXCEPT ![t].pc = "settle", ![t].next = "cancelled", ![t].id = None]
           /\ UNCHANGED gate
    BY <1>1, <1>2, <1>3, <1>9, <1>12, <1>21 DEF Answered
  <2>2. CASE End(t)
    BY <1>7, <2>2, EndKeeps
  <2>3. CASE /\ v = "no_operation" /\ Unprepared(q.snap)
             /\ h' = [h EXCEPT ![t].pc = "settle", ![t].next = "cancelled", ![t].id = None]
             /\ UNCHANGED gate
    <3>1. Unborn(o) /\ Live = {} /\ ~q.snap.dig
      BY <1>10, <2>3 DEF Unborn, LivePrepare, Unprepared
    <3> QED
      BY <1>16, <1>17, <2>3, <3>1
  <2> QED
    BY <2>1, <2>2, <2>3
<1>22. CASE a \in {"apply", "rollback", "cancel"} /\ v \notin Views
  <2>1. h' = [h EXCEPT ![t].pc = "unknown", ![t].next = "none", ![t].id = None]
        /\ UNCHANGED gate
    BY <1>1, <1>2, <1>3, <1>9, <1>12, <1>22 DEF Answered
  <2> QED
    BY <1>16, <1>17, <2>1
<1> QED
  BY <1>11, <1>18, <1>19, <1>20, <1>21, <1>22 DEF Acts

\* acceptConfigResult.
LEMMA DeliverKeeps == ASSUME Inv, Deliver PROVE Inv'
<1>1. /\ out # <<>> /\ out' = Tail(out)
      /\ pending' = IF Head(out).id = pending THEN None ELSE pending
      /\ UNCHANGED <<op, late, agent, conn, queue, wire, busy, job, call>>
  BY DEF Deliver, Link!Accept, CallStep
<1>2. CASE pending = Head(out).id
  <2>1. PICK t \in Threads : h[t].pc = "wait" /\ Answered(t, Head(out).val)
    BY <1>2 DEF Deliver
  <2> QED
    BY <1>1, <1>2, <2>1, AnsweredKeeps
<1>3. CASE pending # Head(out).id
  BY <1>1, <1>3, IgnoredKeeps DEF Deliver
<1> QED
  BY <1>2, <1>3

-----------------------------------------------------------------------------
(* The system *)

LEMMA ThreadKeeps ==
  ASSUME Inv, NEW t \in Threads, ThreadStep(t) \/ Requested(t) PROVE Inv'
<1>1. ASSUME NEW res \in Results,
             \/ Mark(t, res) \/ Stored(t, res) \/ Settle(t, res)
             \/ Unknown(t, res) \/ Record(t, res)
      PROVE  Inv'
  BY <1>1, MarkKeeps, StoredKeeps, SettleKeeps, UnknownKeeps, RecordKeeps
<1>2. CASE Enter(t) \/ Submit(t) \/ NotSent(t) \/ PauseEnds(t) \/ GiveUp(t)
  BY <1>2, EnterKeeps, SubmitKeeps, FruitlessKeeps
<1>3. CASE Requested(t)
  BY <1>3, ReadKeeps, ActionKeeps, CreateKeeps DEF Requested
<1> QED
  BY <1>1, <1>2, <1>3 DEF ThreadStep

\* At the beginning there is nothing to be wrong about.
LEMMA InitHolds == Init => Inv
<1> SUFFICES ASSUME Init PROVE Inv
  OBVIOUS
<1>1. /\ op = [o \in Ops |-> NoRow] /\ late = [o \in Ops |-> FALSE]
      /\ h = [t \in Threads |-> IdleThread] /\ gate = None
      /\ conn = FALSE /\ pending = None /\ queue = None /\ wire = <<>> /\ out = <<>>
      /\ busy = FALSE /\ job = None /\ call = None
      /\ up = FALSE /\ mem = [o \in Ops |-> "absent"] /\ jrn = [o \in Ops |-> "absent"]
      /\ worker = Engine!NoWorker
  BY DEF Init, Link!Init, Engine!Init
<1>2. NoRow \in Rows /\ NoRow.state = "absent" /\ NoRow.view = "none" /\ NoRow.dig = FALSE
  BY DEF NoRow, Row, Rows, RowStates
<1>3. Live = {}
  BY <1>1, EmptySeq DEF Live
<1>4. MonitorTypes
  BY <1>1, <1>2, IdleTyped DEF MonitorTypes
<1>5. LinkTypes
  <2>1. wire \in Seq(Cmds) /\ out \in Seq(Outs) /\ Len(out) <= ResultCap
    BY <1>1, EmptySeq, ConstantsAssumption
  <2> QED
    BY <1>1, <2>1 DEF LinkTypes
<1>6. AgentTypes /\ EngineInv
  BY <1>1 DEF AgentTypes, EngineInv, Engine!States, Engine!Workers, Engine!NoWorker,
              Engine!TerminalStates
<1>7. ASSUME NEW o \in Ops PROVE RowTrue(o)
  BY <1>1, <1>2, <1>3 DEF RowTrue, Unborn, NoRecord, LivePrepare
<1>8. ASSUME NEW t \in Threads PROVE SeatedAt(t, h[t])
  <2>1. h[t].pc = "idle" /\ gate # t
    BY <1>1, IdleTyped, ConstantsAssumption DEF Threads
  <2> QED
    BY <2>1 DEF SeatedAt
<1>9. IntentsFirst /\ ChannelInv /\ CallTrue
  BY <1>1, <1>3 DEF IntentsFirst, ChannelInv, CallTrue
<1> QED
  BY <1>4, <1>5, <1>6, <1>7, <1>8, <1>9 DEF Inv, Safe, Types, RowsTrue, ThreadsSeated

LEMMA StutterKeeps == ASSUME Inv, UNCHANGED vars PROVE Inv'
<1>1. Live' = Live
  BY DEF vars, Live
<1>2. EngineStable /\ AgentTypes' /\ EngineInv'
  <2>1. UNCHANGED agent
    BY DEF vars, agent
  <2> QED
    BY <2>1, UnchangedStable DEF agent, Inv, Safe, Types, AgentTypes, EngineInv
<1>3. EngineGood
  BY <1>2 DEF EngineGood
<1> QED
  BY <1>3, EngineOnlyKeeps DEF vars, link, Inv, Safe, Types, MonitorTypes

LEMMA NextKeeps == ASSUME Inv, [Next]_vars PROVE Inv'
<1>1. CASE \E t \in Threads : ThreadStep(t) \/ Requested(t)
  BY <1>1, ThreadKeeps
<1>2. CASE Deliver
  BY <1>2, DeliverKeeps
<1>3. CASE Provider \/ Refuse
  BY <1>3, ProviderKeeps
<1>4. CASE SendStep \/ DispatchStep \/ JobStep \/ TransportFails \/ Connect
  BY <1>4, ChannelStepsKeep
<1>5. CASE \/ EngineWorks \/ EngineOpens \/ (\E ok \in BOOLEAN : EngineRecords(ok))
           \/ \E o \in Ops : Late(o)
  BY <1>5, EngineStepsKeep
<1>6. CASE AgentDies \/ MonitorDies
  BY <1>6, AgentDiesKeeps, MonitorDiesKeeps
<1>7. CASE UNCHANGED vars
  BY <1>7, StutterKeeps
<1> QED
  BY <1>1, <1>2, <1>3, <1>4, <1>5, <1>6, <1>7 DEF Next

\* The invariant of the whole system: types, the rows true of the agent, the
\* intent before the command, one holder of the node, the answers under way
\* true.
THEOREM Inductive == Spec => []Inv
<1>1. Init => Inv
  BY InitHolds
<1>2. Inv /\ [Next]_vars => Inv'
  BY NextKeeps
<1> QED
  BY <1>1, <1>2, PTL DEF Spec

-----------------------------------------------------------------------------
(* What the invariant says *)

LEMMA TypesOf == Inv => TypeOK
<1> SUFFICES ASSUME Inv PROVE TypeOK
  OBVIOUS
<1>1. MonitorTypes /\ LinkTypes /\ AgentTypes /\ ThreadsSeated /\ ChannelInv
  BY DEF Inv, Safe, Types
<1>2. /\ op \in [Ops -> [state : RowStates, ver : Nat, dig : BOOLEAN,
                         view : (Engine!States \ {"absent"}) \cup {"none"}]]
      /\ late \in [Ops -> BOOLEAN]
  BY <1>1 DEF MonitorTypes, Rows, Views
<1>3. ASSUME NEW t \in Threads
      PROVE  /\ h[t].pc \in {"idle", "read", "call", "wait", "mark", "record",
                             "stored", "settle", "unknown"}
             /\ h[t].op \in Ops \cup {None} /\ h[t].id \in Ids \cup {None}
             /\ h[t].act \in Acts \cup {"preflight", "none"}
             /\ gate = t <=> h[t].pc \notin {"idle", "read"}
  <2>1. h[t] \in ThreadStates /\ SeatedAt(t, h[t])
    BY <1>1 DEF MonitorTypes, ThreadsSeated
  <2> QED
    BY <2>1 DEF ThreadStates, Pcs, SeatedAt
<1>4. \A i \in 1..Len(wire) : wire[i] \in Cmds
  BY <1>1, ElementOfSeq DEF LinkTypes
<1>5. \A i \in 1..Len(out) : /\ out[i].id \in Ids
                             /\ out[i].val \in Engine!States \cup Codes
  <2>1. \A i \in 1..Len(out) : out[i] \in Outs
    BY <1>1, ElementOfSeq DEF LinkTypes
  <2> QED
    BY <2>1 DEF Outs
<1>6. (job # None \/ call # None) => busy /\ (job = None \/ call = None)
  BY <1>1 DEF ChannelInv
<1> QED
  BY <1>1, <1>2, <1>3, <1>4, <1>5, <1>6 DEF LinkTypes, AgentTypes, TypeOK

\* Every variable holds what the code can put there, a thread is at work if and
\* only if it holds the node (configCoordinator.nodes), and the agent has at
\* most one job or call, behind s.configBusy.
THEOREM TypesHold == Spec => []TypeOK
BY Inductive, TypesOf, PTL

\* actionConfigOperation and createConfigOperation write the row before the
\* command: whatever may still run at the agent is covered by the record.
THEOREM IntentsPrecede == Spec => []IntentFirst
<1>1. Inv => IntentFirst
  BY DEF Inv, Safe, IntentsFirst, IntentOf, IntentFirst
<1> QED
  BY <1>1, Inductive, PTL

\* An operation that the monitor ended without facts (configNotSent, a refused
\* prepare, "operation_not_found") has left no record at the agent.
THEOREM EndedIsGone == Spec => []EndedHasNoWork
<1>1. Inv => EndedHasNoWork
  BY DEF Inv, Safe, RowsTrue, RowTrue, Unborn, NoRecord, EndedHasNoWork
<1> QED
  BY <1>1, Inductive, PTL

\* recordConfigResult infers no outcome: an end that rests on an observation is
\* the one in the journal, and "confirmed" is said only of what was confirmed.
THEOREM OutcomesAreTrue == Spec => []OutcomeIsJournalled
<1>1. ASSUME Inv PROVE OutcomeIsJournalled
  <2> SUFFICES ASSUME NEW o \in Ops
      PROVE  /\ op[o].state \in {"rolled_back", "cancelled", "conflict"}
                /\ op[o].view # "none" => jrn[o] = op[o].state
             /\ op[o].state = "confirmed" =>
                   jrn[o] \notin {"absent", "prepared", "applying", "verifying",
                                  "cancelled", "conflict"}
    BY DEF OutcomeIsJournalled
  <2>1. RowTrue(o)
    BY <1>1 DEF Inv, Safe, RowsTrue
  <2> QED
    BY <2>1 DEF RowTrue, Final, Past, AfterConfirm
<1> QED
  BY <1>1, Inductive, PTL

\* What the agent has not finished holds the slot of the node at the monitor,
\* or is the undo of a confirmed operation.
THEOREM SlotIsHeld == Spec => []UnfinishedHoldsSlot
<1>1. ASSUME Inv PROVE UnfinishedHoldsSlot
  <2> SUFFICES ASSUME NEW o \in Ops, ~Active(op[o].state), op[o].state # "confirmed"
      PROVE  ~Engine!Unfinished(mem[o]) /\ ~Engine!Unfinished(jrn[o])
    BY DEF UnfinishedHoldsSlot
  <2>1. RowTrue(o) /\ op[o].state \in RowStates /\ EngineInv
    BY <1>1 DEF Inv, Safe, RowsTrue, Types, MonitorTypes, Rows
  <2>2. op[o].state \in {"absent", "rejected", "conflict", "cancelled", "rolled_back"}
    BY <2>1 DEF RowTrue, RowStates, Active
  <2>3. CASE NoRecord(o)
    BY <2>3 DEF NoRecord, Engine!Unfinished, Engine!UnfinishedStates
  <2>4. CASE Final(o, op[o].state) /\ op[o].state \in EndStates
    BY <2>1, <2>4 DEF Final, EndStates, EngineInv, Engine!Unfinished, Engine!UnfinishedStates
  <2> QED
    BY <2>1, <2>2, <2>3, <2>4 DEF RowTrue, Unborn, EndStates
<1> QED
  BY <1>1, Inductive, PTL
===============================================================================
