------------------------- MODULE ManagedEngineProofs -------------------------
(***************************************************************************)
(* Theorems about ManagedEngine for every number of operations, versions,  *)
(* faults, crashes and drifts, in three parts:                             *)
(*                                                                         *)
(*   - the gate: types, and that at most one operation is unfinished;      *)
(*   - the records: what they say is true of the disk, of the snapshots    *)
(*     and of the journal a restart will read, whatever failed;            *)
(*   - the outcomes: what the Store and the runtime hold when the engine   *)
(*     says so, while an operation is unfinished and when an outcome is    *)
(*     recorded.                                                           *)
(***************************************************************************)
EXTENDS ManagedEngine, TLAPS

\* The transaction gate: an operation that is unfinished in memory is the
\* active one.
GateHeld == \A o \in Ops : Unfinished(rec[o]) => active = o

\* Memory knows of every operation that is unfinished on disk.
GateCovers == \A o \in Ops : Unfinished(jrn[o]) => Unfinished(rec[o])

\* Whoever works on an operation, other than deleting its snapshots, holds
\* the gate for it.
LeaseHeld == pc \notin {"idle", "g_old", "g_new"} => active = Op

DownIsIdle == proc = "down" => pc = "idle"

IInv == /\ TypeOK
        /\ SingleUnfinished
        /\ proc # "down" => GateHeld /\ GateCovers
        /\ LeaseHeld
        /\ DownIsIdle

\* A record whose state is replaced is a record.
LEMMA StateTyped ==
  ASSUME NEW r \in Records, NEW s \in States
  PROVE  /\ [r EXCEPT !.state = s] \in Records
         /\ [r EXCEPT !.state = s].state = s
BY DEF Records

\* SetState touches one operation, and leaves it unfinished in memory whenever
\* it may be unfinished on disk (engine.go, state).
LEMMA SetStateEffect ==
  ASSUME TypeOK, NEW o \in Ops, NEW r \in Records, NEW s \in States,
         NEW res \in Results, SetState(o, r, s, res)
  PROVE  /\ jrn' \in [Ops -> Records]
         /\ rec' \in [Ops -> Records]
         /\ active' \in Ops \cup {None}
         /\ faults' \in Nat
         /\ \A p \in Ops \ {o} : jrn'[p] = jrn[p] /\ rec'[p] = rec[p]
         /\ Unfinished(jrn'[o]) => Unfinished(rec'[o])
         /\ \/ active' \in {active, o}
            \/ active' = None /\ active = o /\ ~Running /\ ~Unfinished(rec'[o])
<1> DEFINE w == [r EXCEPT !.state = s]
<1>1. w \in Records /\ w.state = s
  BY StateTyped
<1>2. /\ [w EXCEPT !.state = "outcome_unknown"] \in Records
      /\ [w EXCEPT !.state = "outcome_unknown"].state = "outcome_unknown"
  BY <1>1, StateTyped DEF States, UnfinishedStates
<1>3. jrn \in [Ops -> Records] /\ rec \in [Ops -> Records] /\ faults \in Nat
      /\ active \in Ops \cup {None}
  BY DEF TypeOK
<1> HIDE DEF w
<1>4. /\ jrn' = IF res = "lost" THEN jrn ELSE [jrn EXCEPT ![o] = w]
      /\ rec' = [rec EXCEPT ![o] = IF res = "ok" THEN w
                                   ELSE [w EXCEPT !.state = "outcome_unknown"]]
      /\ active' = IF res # "ok" THEN o
                   ELSE IF Terminal(w) /\ ~Running /\ active = o THEN None
                   ELSE active
      /\ faults' = IF res = "ok" THEN faults ELSE faults + 1
  BY DEF SetState, WriteJournal, Disk, w
<1>5. jrn' \in [Ops -> Records] /\ rec' \in [Ops -> Records] /\ faults' \in Nat
      /\ active' \in Ops \cup {None}
  BY <1>1, <1>2, <1>3, <1>4
<1>6. \A p \in Ops \ {o} : jrn'[p] = jrn[p] /\ rec'[p] = rec[p]
  BY <1>3, <1>4
<1>7. Unfinished(jrn'[o]) => Unfinished(rec'[o])
  BY <1>1, <1>2, <1>3, <1>4 DEF Unfinished, UnfinishedStates, Results
<1>8. \/ active' \in {active, o}
      \/ active' = None /\ active = o /\ ~Running /\ ~Unfinished(rec'[o])
  BY <1>1, <1>2, <1>3, <1>4 DEF Unfinished, Terminal, UnfinishedStates, TerminalStates
<1> QED
  BY <1>5, <1>6, <1>7, <1>8

\* If the gate is held for o, SetState on o keeps the gate and its coverage,
\* and a running worker keeps its lease.
LEMMA SetStateGate ==
  ASSUME TypeOK, GateHeld, GateCovers,
         NEW o \in Ops, NEW r \in Records, NEW s \in States,
         NEW res \in Results, SetState(o, r, s, res), active = o
  PROVE  /\ GateHeld'
         /\ GateCovers'
         /\ Running \/ s \notin TerminalStates => active' = o
         /\ active' \in {o, None}
<1>1. /\ \A p \in Ops \ {o} : jrn'[p] = jrn[p] /\ rec'[p] = rec[p]
      /\ Unfinished(jrn'[o]) => Unfinished(rec'[o])
      /\ \/ active' \in {active, o}
         \/ active' = None /\ active = o /\ ~Running /\ ~Unfinished(rec'[o])
  BY SetStateEffect
<1>2. GateCovers'
  BY <1>1 DEF GateCovers, Unfinished
<1>3. GateHeld'
  BY <1>1 DEF GateHeld, Unfinished
<1>4. s \notin TerminalStates => active' = o
  BY StateTyped DEF SetState, Terminal
<1> QED
  BY <1>1, <1>2, <1>3, <1>4

\* The gate leaves room for one unfinished journal.
LEMMA GateImpliesSingle ==
  ASSUME GateHeld, GateCovers PROVE SingleUnfinished
BY DEF GateHeld, GateCovers, SingleUnfinished

\* The invariant holds before the engine is opened for the first time.
THEOREM InitIInv == Init => IInv
<1> SUFFICES ASSUME Init PROVE IInv
  OBVIOUS
<1>1. Absent \in Records
  BY ConstantsAssumption DEF Absent, Records, States, TerminalStates, UnfinishedStates
<1>2. TypeOK
  BY <1>1, ConstantsAssumption DEF Init, TypeOK, NoFiles, NoJob, Jobs, NoRet, Pcs
<1>3. \A o \in Ops : ~Unfinished(jrn[o])
  BY DEF Init, Absent, Unfinished, UnfinishedStates
<1> QED
  BY <1>2, <1>3 DEF Init, IInv, SingleUnfinished, LeaseHeld, DownIsIdle

-----------------------------------------------------------------------------
(* One step per action *)

\* PowerOff forgets everything but the disk.
LEMMA PowerOffIInv ==
  ASSUME IInv, PowerOff, SingleUnfinished',
         store' \in Versions, jrn' \in [Ops -> Records], file' = file, late' = late,
         faults' \in Nat, crashes' \in Nat, drifts' \in Nat
  PROVE  IInv'
<1>1. Absent \in Records
  BY ConstantsAssumption DEF Absent, Records, States, TerminalStates, UnfinishedStates
<1>2. TypeOK'
  BY <1>1, ConstantsAssumption
     DEF IInv, TypeOK, PowerOff, Idle, Finish, Goto, NoJob, Jobs, NoRet, Pcs
<1> QED
  BY <1>2 DEF IInv, PowerOff, Idle, Goto, LeaseHeld, DownIsIdle

\* A kill keeps the invariant: memory forgets everything (PowerOff).
LEMMA CrashIInv == IInv /\ Crash => IInv'
<1> SUFFICES ASSUME IInv, Crash PROVE IInv'
  OBVIOUS
<1>1. SingleUnfinished'
  BY DEF IInv, Crash, durable, SingleUnfinished, Unfinished
<1>2. /\ store' \in Versions /\ jrn' \in [Ops -> Records] /\ file' = file /\ late' = late
      /\ faults' \in Nat /\ crashes' \in Nat /\ drifts' \in Nat
  BY DEF IInv, TypeOK, Crash, durable
<1> QED
  BY <1>1, <1>2, PowerOffIInv DEF Crash

\* Steps that leave the records, the journal, the gate and the lease alone.
LEMMA QuietIInv ==
  ASSUME IInv, TypeOK', UNCHANGED <<jrn, rec, active, job>>,
         proc' # "down", proc # "down",
         pc' \in {"idle", "g_old", "g_new"} \/ pc \notin {"idle", "g_old", "g_new"}
  PROVE  IInv'
BY DEF IInv, SingleUnfinished, GateHeld, GateCovers, LeaseHeld, DownIsIdle,
       Unfinished, Op

\* Open, clean or with a recovery, takes up what the journal says (load).
LEMMA OpenIInv ==
  ASSUME IInv,
         \/ OpenClean \/ \E o \in Ops : OpenRecover(o)
  PROVE  IInv'
<1>1. CASE OpenClean
  <2>1. TypeOK'
    BY <1>1 DEF IInv, TypeOK, OpenClean, durable, thread, bounds
  <2> QED
    BY <1>1, <2>1 DEF IInv, OpenClean, durable, thread, SingleUnfinished, GateHeld,
       GateCovers, LeaseHeld, DownIsIdle, Unfinished
<1>2. ASSUME NEW o \in Ops, OpenRecover(o) PROVE IInv'
  <2>1. Absent \in Records
    BY ConstantsAssumption DEF Absent, Records, States, TerminalStates, UnfinishedStates
  <2>2. TypeOK'
    BY <1>2, <2>1 DEF IInv, TypeOK, OpenRecover, durable, bounds, Goto, Jobs, Pcs,
       HandlerLocked
  <2> QED
    BY <1>2, <2>2 DEF IInv, OpenRecover, durable, SingleUnfinished, GateHeld,
       GateCovers, LeaseHeld, DownIsIdle, Unfinished, Goto, Op
<1> QED
  BY <1>1, <1>2

\* A step that records a state of the operation the gate is held for.
LEMMA SetStateIInv ==
  ASSUME IInv, TypeOK', proc # "down", proc' # "down",
         NEW o \in Ops, NEW r \in Records, NEW s \in States, NEW res \in Results,
         SetState(o, r, s, res), active = o,
         \/ pc' \in {"idle", "g_old", "g_new"}
         \/ (Running \/ s \notin TerminalStates) /\ job'.op = o
  PROVE  IInv'
<1>1. /\ GateHeld' /\ GateCovers'
      /\ Running \/ s \notin TerminalStates => active' = o
  BY SetStateGate DEF IInv
<1>2. SingleUnfinished'
  BY <1>1 DEF GateHeld, GateCovers, SingleUnfinished
<1> QED
  BY <1>1, <1>2 DEF IInv, LeaseHeld, DownIsIdle, Op

\* The worker's program counters, none of which is a handler's.
LEMMA WorkerPcsBusy ==
  /\ WorkerPcs \cap {"idle", "g_old", "g_new"} = {}
  /\ {"a_check", "a_apply", "a_verify", "r_check", "r_apply", "r_verify", "u_check",
      "a_checked", "a_applied", "a_verified", "r_checked", "r_applied", "r_verified",
      "u_checked", "a_write", "a_save", "a_unknown", "r_begin", "r_write", "r_save",
      "r_failed", "r_start", "exit"} = WorkerPcs
BY DEF WorkerPcs, HookPcs, ApplyHooks, RollbackHooks, ReturnPcs, ApplyReturns,
       RollbackReturns, WorkerLocked

\* What every step of the worker may rely on.
LEMMA WorkerFacts ==
  ASSUME IInv, pc \notin {"idle", "g_old", "g_new"}
  PROVE  /\ Op \in Ops /\ active = Op /\ proc # "down"
         /\ rec[Op] \in Records /\ GateHeld /\ GateCovers
BY DEF IInv, TypeOK, LeaseHeld, DownIsIdle, Op

\* Updates of single fields of a record keep its type.
LEMMA FieldsTyped ==
  ASSUME NEW r \in Records, NEW b \in BOOLEAN
  PROVE  /\ [r EXCEPT !.sp = b] \in Records /\ [r EXCEPT !.sp = b].state = r.state
         /\ [r EXCEPT !.ra = b] \in Records
         /\ [r EXCEPT !.ver = b] \in Records
         /\ [r EXCEPT !.exp = b] \in Records /\ [r EXCEPT !.exp = b].state = r.state
         /\ [r EXCEPT !.ra = FALSE, !.needs = FALSE, !.ver = TRUE] \in Records
         /\ [r EXCEPT !.state = "rolling_back", !.needs = TRUE, !.ra = FALSE,
                      !.ver = FALSE] \in Records
         /\ [r EXCEPT !.state = "rolling_back", !.needs = TRUE, !.ra = FALSE,
                      !.ver = FALSE].state = "rolling_back"
BY DEF Records, States, UnfinishedStates

\* Terminal and unfinished states are states, and none is both (terminal).
LEMMA StatesKnown ==
  /\ TerminalStates \subseteq States /\ UnfinishedStates \subseteq States
  /\ TerminalStates \cap UnfinishedStates = {}
BY DEF States, TerminalStates, UnfinishedStates

\* A phase starts with an empty result and a context of its own.
LEMMA PhaseTyped ==
  ASSUME NEW l, EnterApplyPhase(l) \/ EnterRollbackPhase(l)
  PROVE  /\ pc' = l
         /\ ret' = NoRet
         /\ ctx' \in {"live", "done", "recorded"}
<1>1. CASE EnterApplyPhase(l)
  <2>1. ctx' \in {"live", "done"}
    BY <1>1 DEF EnterApplyPhase
  <2> QED
    BY <1>1, <2>1 DEF EnterApplyPhase, Goto
<1>2. CASE EnterRollbackPhase(l)
  BY <1>2 DEF EnterRollbackPhase, Finish, Goto
<1> QED
  BY <1>1, <1>2

\* A step of a worker that types what it changes keeps every type.
LEMMA WorkerTypeOK ==
  ASSUME TypeOK, WorkerFrame,
         store' \in Versions, file' = file,
         jrn' \in [Ops -> Records], rec' \in [Ops -> Records],
         active' \in Ops \cup {None}, faults' \in Nat, cur' \in Versions,
         pc' \in WorkerPcs, job' \in Jobs, job'.op \in Ops,
         \/ UNCHANGED <<ctx, ret>>
         \/ ctx' \in {"live", "done", "recorded"} /\ ret' = NoRet
  PROVE  TypeOK'
<1>1. pc' \in Pcs
  BY DEF Pcs
<1>2. ctx' \in {"live", "done", "recorded"} /\ ret' \in [err : BOOLEAN, cancelled : BOOLEAN]
  <2>1. NoRet \in [err : BOOLEAN, cancelled : BOOLEAN]
    BY DEF NoRet
  <2> QED
    BY <2>1 DEF TypeOK
<1>3. UNCHANGED <<late, runtime, proc, abort, gate, crashes, drifts>>
  BY DEF WorkerFrame
<1>4. /\ late' \in [Ops -> BOOLEAN]
      /\ runtime' \in Versions \cup {Mixed, None}
      /\ proc' \in {"down", "opening", "open", "attached", "closing"}
      /\ abort' \in BOOLEAN /\ gate' \in BOOLEAN
      /\ crashes' \in Nat /\ drifts' \in Nat
      /\ file' \in [Ops -> [old : Versions \cup {None}, new : Versions \cup {None}]]
  BY <1>3 DEF TypeOK
<1> QED
  BY <1>1, <1>2, <1>4 DEF TypeOK

\* A worker step leaves the context alone or starts another phase.
PhaseStep == \/ UNCHANGED <<ctx, ret>>
             \/ ctx' \in {"live", "done", "recorded"} /\ ret' = NoRet

\* A worker step that records a state of its operation.
LEMMA WorkerRecords ==
  ASSUME IInv, pc \in WorkerPcs, WorkerFrame, UNCHANGED <<store, file, job>>,
         NEW r \in Records, NEW s \in States, NEW res \in Results,
         SetState(Op, r, s, res), pc' \in WorkerPcs, cur' \in Versions, PhaseStep
  PROVE  IInv'
<1>1. /\ Op \in Ops /\ active = Op /\ proc # "down" /\ TypeOK /\ Running
      /\ job \in Jobs
  BY WorkerPcsBusy, WorkerFacts DEF IInv, TypeOK, Running
<1>2. TypeOK'
  <2>1. /\ jrn' \in [Ops -> Records] /\ rec' \in [Ops -> Records]
        /\ active' \in Ops \cup {None} /\ faults' \in Nat
    BY <1>1, SetStateEffect
  <2> QED
    BY <1>1, <2>1, WorkerTypeOK DEF PhaseStep, TypeOK, Op
<1> QED
  BY <1>1, <1>2, SetStateIInv DEF WorkerFrame, Op

\* A worker step that records nothing.
LEMMA WorkerMoves ==
  ASSUME IInv, pc \in WorkerPcs, WorkerFrame,
         UNCHANGED <<store, file, job, jrn, rec, active, faults>>,
         pc' \in WorkerPcs, cur' \in Versions, PhaseStep
  PROVE  IInv'
<1>1. Op \in Ops /\ proc # "down" /\ TypeOK /\ job \in Jobs
  BY WorkerPcsBusy, WorkerFacts DEF IInv, TypeOK
<1>2. TypeOK'
  BY <1>1, WorkerTypeOK DEF PhaseStep, TypeOK, Op
<1> QED
  BY <1>1, <1>2, QuietIInv, WorkerPcsBusy DEF WorkerFrame

\* A worker step that saves the record it holds, or changes facts of it.
LEMMA WorkerSaves ==
  ASSUME IInv, pc \in WorkerPcs, WorkerFrame, UNCHANGED <<file, job, active>>,
         NEW r \in Records, r.state = rec[Op].state,
         rec' = [rec EXCEPT ![Op] = r],
         jrn' = jrn \/ jrn' = [jrn EXCEPT ![Op] = r],
         store' \in Versions, faults' \in Nat,
         pc' \in WorkerPcs, cur' \in Versions, PhaseStep
  PROVE  IInv'
<1>1. /\ Op \in Ops /\ active = Op /\ proc # "down" /\ TypeOK /\ job \in Jobs
      /\ GateHeld /\ GateCovers
  BY WorkerPcsBusy, WorkerFacts DEF IInv, TypeOK
<1>2. rec' \in [Ops -> Records] /\ jrn' \in [Ops -> Records]
  BY <1>1 DEF TypeOK
<1>3. TypeOK'
  BY <1>1, <1>2, WorkerTypeOK DEF PhaseStep, TypeOK, Op
<1>4. GateHeld' /\ GateCovers'
  BY <1>1 DEF GateHeld, GateCovers, Unfinished, TypeOK
<1>5. SingleUnfinished'
  BY <1>4 DEF GateHeld, GateCovers, SingleUnfinished
<1> QED
  BY <1>1, <1>3, <1>4, <1>5 DEF IInv, LeaseHeld, DownIsIdle, WorkerFrame, Op

-----------------------------------------------------------------------------
(* The apply worker *)

\* applyWorker after Check: refuse, cancel or go on.
LEMMA ApplyCheckedIInv ==
  ASSUME IInv, NEW res \in Results, ApplyChecked(res) PROVE IInv'
<1>1. /\ pc = "a_checked" /\ WorkerFrame /\ UNCHANGED <<store, file, job, cur>>
      /\ Finish /\ pc' \in {"exit", "a_write"}
  BY DEF ApplyChecked, Goto
<1>2. /\ pc \in WorkerPcs /\ pc' \in WorkerPcs /\ cur' \in Versions /\ PhaseStep
      /\ rec[Op] \in Records
  BY <1>1, WorkerPcsBusy, WorkerFacts DEF PhaseStep, Finish, IInv, TypeOK
<1>3. CASE ret.err \/ late[Op] \/ abort
  <2>1. PICK s \in {"cancelled", "conflict"} : SetState(Op, rec[Op], s, res)
    BY <1>3 DEF ApplyChecked
  <2> QED
    BY <1>1, <1>2, <2>1, StatesKnown, WorkerRecords DEF TerminalStates
<1>4. CASE ~(ret.err \/ late[Op] \/ abort)
  <2>1. UNCHANGED <<jrn, rec, active, faults>>
    BY <1>4 DEF ApplyChecked
  <2> QED
    BY <1>1, <1>2, <2>1, WorkerMoves
<1> QED
  BY <1>3, <1>4

\* applyWorker replaces the Store, or finds it drifted.
LEMMA ApplyWriteIInv ==
  ASSUME IInv, NEW res \in Results, ApplyWrite(res) PROVE IInv'
<1>1. /\ pc = "a_write" /\ WorkerFrame /\ UNCHANGED <<file, job, ctx, ret, cur>>
  BY DEF ApplyWrite
<1>2. /\ pc \in WorkerPcs /\ cur' \in Versions /\ PhaseStep /\ rec[Op] \in Records
      /\ Op \in Ops
  BY <1>1, WorkerPcsBusy, WorkerFacts DEF PhaseStep, IInv, TypeOK
<1>3. CASE store # rec[Op].old
  <2>1. /\ SetState(Op, rec[Op], "conflict", res) /\ store' = store /\ pc' = "exit"
    BY <1>3 DEF ApplyWrite, Goto
  <2> QED
    BY <1>1, <1>2, <2>1, StatesKnown, WorkerPcsBusy, WorkerRecords DEF TerminalStates
<1>4. CASE store = rec[Op].old
  <2>1. /\ store' = IF res = "lost" THEN store ELSE rec[Op].new
        /\ rec' = IF res = "ok" THEN [rec EXCEPT ![Op].sp = TRUE] ELSE rec
        /\ pc' \in {"a_save", "a_unknown"} /\ UNCHANGED <<jrn, active>>
        /\ faults' \in Nat
    BY <1>4 DEF ApplyWrite, Goto, Disk, IInv, TypeOK
  <2>2. store' \in Versions
    BY <1>2, <2>1 DEF IInv, TypeOK, Records
  <2>3. PICK r \in Records : r.state = rec[Op].state /\ rec' = [rec EXCEPT ![Op] = r]
    <3>1. rec = [rec EXCEPT ![Op] = rec[Op]]
      BY DEF IInv, TypeOK
    <3> DEFINE w == [rec[Op] EXCEPT !.sp = TRUE]
    <3>2. w \in Records /\ w.state = rec[Op].state
      BY <1>2, FieldsTyped
    <3>3. rec' = [rec EXCEPT ![Op] = w] \/ rec' = rec
      BY <2>1
    <3> HIDE DEF w
    <3> QED
      BY <1>2, <3>1, <3>2, <3>3
  <2> QED
    BY <1>1, <1>2, <2>1, <2>2, <2>3, WorkerPcsBusy, WorkerSaves
<1> QED
  BY <1>3, <1>4

\* applyWorker records that the Store is written.
LEMMA ApplySaveIInv ==
  ASSUME IInv, NEW res \in Results, ApplySave(res) PROVE IInv'
<1>1. /\ pc = "a_save" /\ WorkerFrame /\ UNCHANGED <<store, file, active, job, cur>>
      /\ Save(Op, rec[Op], res)
  BY DEF ApplySave
<1>2. /\ pc \in WorkerPcs /\ cur' \in Versions /\ store' \in Versions
      /\ rec[Op] \in Records /\ Op \in Ops
  BY <1>1, WorkerPcsBusy, WorkerFacts DEF IInv, TypeOK
<1>3. PhaseStep /\ pc' \in {"a_apply", "a_unknown"}
  <2>1. EnterApplyPhase("a_apply") \/ (Goto("a_unknown") /\ UNCHANGED <<ctx, ret>>)
    BY DEF ApplySave
  <2> QED
    BY <2>1, PhaseTyped DEF PhaseStep, Goto
<1>4. /\ rec' = [rec EXCEPT ![Op] = rec[Op]]
      /\ jrn' = jrn \/ jrn' = [jrn EXCEPT ![Op] = rec[Op]]
      /\ faults' \in Nat
  BY <1>1 DEF Save, WriteJournal, Disk, IInv, TypeOK
<1> QED
  BY <1>1, <1>2, <1>3, <1>4, WorkerPcsBusy, WorkerSaves

\* applyWorker records an unknown outcome.
LEMMA ApplyUnknownIInv ==
  ASSUME IInv, NEW res \in Results, ApplyUnknown(res) PROVE IInv'
<1>1. /\ pc = "a_unknown" /\ pc' = "r_start" /\ WorkerFrame
      /\ UNCHANGED <<store, file, job, ctx, ret, cur>>
      /\ SetState(Op, rec[Op], "outcome_unknown", res)
  BY DEF ApplyUnknown, Goto
<1>2. /\ cur' \in Versions /\ PhaseStep /\ rec[Op] \in Records
  BY <1>1, WorkerPcsBusy, WorkerFacts DEF PhaseStep, IInv, TypeOK
<1> QED
  BY <1>1, <1>2, StatesKnown, WorkerPcsBusy, WorkerRecords DEF UnfinishedStates

\* applyWorker after Apply: verify, or give up.
LEMMA ApplyAppliedIInv ==
  ASSUME IInv, NEW res \in Results, ApplyApplied(res) PROVE IInv'
<1>1. /\ pc = "a_applied" /\ WorkerFrame /\ UNCHANGED <<store, file, job, cur>>
  BY DEF ApplyApplied
<1>2. pc \in WorkerPcs /\ cur' \in Versions /\ rec[Op] \in Records
  BY <1>1, WorkerPcsBusy, WorkerFacts DEF IInv, TypeOK
<1>3. CASE ret.err \/ ret.cancelled \/ abort
  <2>1. pc' = "a_unknown" /\ Finish /\ UNCHANGED <<jrn, rec, active, faults>>
    BY <1>3 DEF ApplyApplied, Goto
  <2> QED
    BY <1>1, <1>2, <2>1, WorkerPcsBusy, WorkerMoves DEF PhaseStep, Finish
<1>4. CASE ~(ret.err \/ ret.cancelled \/ abort)
  <2>1. /\ SetState(Op, [rec[Op] EXCEPT !.ra = TRUE], "verifying", res)
        /\ EnterApplyPhase("a_verify") \/ (Goto("r_start") /\ Finish)
    BY <1>4 DEF ApplyApplied
  <2>2. PhaseStep /\ pc' \in {"a_verify", "r_start"}
    BY <2>1, PhaseTyped DEF PhaseStep, Goto, Finish
  <2>3. [rec[Op] EXCEPT !.ra = TRUE] \in Records /\ "verifying" \in States
    BY <1>2, FieldsTyped, StatesKnown DEF UnfinishedStates
  <2> QED
    BY <1>1, <1>2, <2>1, <2>2, <2>3, WorkerPcsBusy, WorkerRecords
<1> QED
  BY <1>3, <1>4

\* applyWorker after Verify: confirm, or give up.
LEMMA ApplyVerifiedIInv ==
  ASSUME IInv, NEW res \in Results, ApplyVerified(res) PROVE IInv'
<1>1. /\ pc = "a_verified" /\ WorkerFrame /\ UNCHANGED <<store, file, job, cur>>
      /\ Finish
  BY DEF ApplyVerified
<1>2. pc \in WorkerPcs /\ cur' \in Versions /\ rec[Op] \in Records /\ PhaseStep
  BY <1>1, WorkerPcsBusy, WorkerFacts DEF IInv, TypeOK, PhaseStep, Finish
<1>3. CASE ret.err \/ ret.cancelled \/ abort \/ store # rec[Op].new
  <2>1. pc' = "a_unknown" /\ UNCHANGED <<jrn, rec, active, faults>>
    BY <1>3 DEF ApplyVerified, Goto
  <2> QED
    BY <1>1, <1>2, <2>1, WorkerPcsBusy, WorkerMoves
<1>4. CASE ~(ret.err \/ ret.cancelled \/ abort \/ store # rec[Op].new)
  <2>1. /\ SetState(Op, [rec[Op] EXCEPT !.ver = TRUE], "confirmed", res)
        /\ pc' \in {"exit", "r_start"}
    BY <1>4 DEF ApplyVerified, Goto
  <2>2. [rec[Op] EXCEPT !.ver = TRUE] \in Records /\ "confirmed" \in States
    BY <1>2, FieldsTyped, StatesKnown DEF TerminalStates
  <2> QED
    BY <1>1, <1>2, <2>1, <2>2, WorkerPcsBusy, WorkerRecords
<1> QED
  BY <1>3, <1>4

-----------------------------------------------------------------------------
(* The rollback worker *)

\* rollbackWorker begins.
LEMMA RollbackStartIInv == ASSUME IInv, RollbackStart PROVE IInv'
<1>1. /\ pc = "r_start" /\ EnterRollbackPhase("r_check") /\ WorkerFrame
      /\ UNCHANGED <<store, file, jrn, rec, active, faults, cur>>
      /\ job' = [job EXCEPT !.kind = IF @ = "apply" THEN "rollback" ELSE @]
  BY DEF RollbackStart, durable, memory, bounds, WorkerFrame
<1>2. /\ pc \in WorkerPcs /\ proc # "down" /\ TypeOK /\ Op \in Ops
      /\ pc' = "r_check" /\ PhaseStep
  BY <1>1, WorkerPcsBusy, WorkerFacts, PhaseTyped DEF IInv, PhaseStep
<1>3. job' \in Jobs /\ job'.op = job.op
  BY <1>1, <1>2 DEF TypeOK, Jobs
<1>4. TypeOK'
  BY <1>1, <1>2, <1>3, WorkerTypeOK, WorkerPcsBusy DEF PhaseStep, TypeOK, Op
<1> QED
  BY <1>1, <1>2, <1>3, <1>4
     DEF IInv, SingleUnfinished, GateHeld, GateCovers, LeaseHeld, DownIsIdle, Unfinished,
         Op, WorkerFrame

\* rollbackWorker after Check.
LEMMA RollbackCheckedIInv ==
  ASSUME IInv, NEW res \in Results, RollbackChecked(res) PROVE IInv'
<1>1. /\ pc = "r_checked" /\ WorkerFrame /\ UNCHANGED <<store, file, job, cur>>
      /\ Finish
  BY DEF RollbackChecked
<1>2. pc \in WorkerPcs /\ cur' \in Versions /\ rec[Op] \in Records /\ PhaseStep
  BY <1>1, WorkerPcsBusy, WorkerFacts DEF IInv, TypeOK, PhaseStep, Finish
<1>3. CASE ret.err
  <2>1. SetState(Op, rec[Op], "rollback_failed", res) /\ pc' = "exit"
    BY <1>3 DEF RollbackChecked, Goto
  <2> QED
    BY <1>1, <1>2, <2>1, StatesKnown, WorkerPcsBusy, WorkerRecords DEF UnfinishedStates
<1>4. CASE ~ret.err
  <2>1. pc' = "r_begin" /\ UNCHANGED <<jrn, rec, active, faults>>
    BY <1>4 DEF RollbackChecked, Goto
  <2> QED
    BY <1>1, <1>2, <2>1, WorkerPcsBusy, WorkerMoves
<1> QED
  BY <1>3, <1>4

\* rollbackConfirmed after its preflight.
LEMMA UndoCheckedIInv == ASSUME IInv, UndoChecked PROVE IInv'
<1>1. /\ pc = "u_checked" /\ pc' \in {"exit", "r_begin"} /\ Finish /\ WorkerFrame
      /\ UNCHANGED <<store, file, job, jrn, rec, active, faults, cur>>
  BY DEF UndoChecked, Goto, durable, memory, bounds, WorkerFrame
<1>2. cur' \in Versions /\ PhaseStep
  BY <1>1 DEF IInv, TypeOK, PhaseStep, Finish
<1> QED
  BY <1>1, <1>2, WorkerPcsBusy, WorkerMoves

\* rollbackAfterCheck records its intent.
LEMMA RollbackBeginIInv ==
  ASSUME IInv, NEW res \in Results, RollbackBegin(res) PROVE IInv'
<1>1. /\ pc = "r_begin" /\ pc' \in {"exit", "r_write"} /\ WorkerFrame
      /\ UNCHANGED <<store, file, job, ctx, ret>> /\ cur' = store
  BY DEF RollbackBegin, Goto
<1>2. pc \in WorkerPcs /\ cur' \in Versions /\ rec[Op] \in Records /\ PhaseStep
  BY <1>1, WorkerPcsBusy, WorkerFacts DEF IInv, TypeOK, PhaseStep
<1>3. /\ [rec[Op] EXCEPT !.ver = FALSE] \in Records
      /\ "rolling_back" \in States /\ "rollback_failed" \in States
  BY <1>2, FieldsTyped, StatesKnown DEF UnfinishedStates
<1>4. \/ SetState(Op, [rec[Op] EXCEPT !.ver = FALSE], "rolling_back", res)
      \/ SetState(Op, rec[Op], "rollback_failed", res)
      \/ UNCHANGED <<jrn, rec, active, faults>>
  BY DEF RollbackBegin
<1>5. CASE UNCHANGED <<jrn, rec, active, faults>>
  BY <1>1, <1>2, <1>5, WorkerPcsBusy, WorkerMoves
<1>6. CASE SetState(Op, [rec[Op] EXCEPT !.ver = FALSE], "rolling_back", res)
  BY <1>1, <1>2, <1>3, <1>6, WorkerPcsBusy, WorkerRecords
<1>7. CASE SetState(Op, rec[Op], "rollback_failed", res)
  BY <1>1, <1>2, <1>3, <1>7, WorkerPcsBusy, WorkerRecords
<1> QED
  BY <1>4, <1>5, <1>6, <1>7

\* rollbackAfterCheck restores the Store.
LEMMA RollbackWriteIInv ==
  ASSUME IInv, NEW res \in Results, RollbackWrite(res) PROVE IInv'
<1>1. /\ pc = "r_write" /\ pc' \in {"r_save", "r_failed"} /\ WorkerFrame
      /\ UNCHANGED <<file, jrn, active, job, ctx, ret, cur>>
      /\ store' = IF res = "lost" THEN store ELSE rec[Op].old
      /\ rec' = IF res = "ok" THEN [rec EXCEPT ![Op].sp = FALSE] ELSE rec
      /\ faults' \in Nat
  BY DEF RollbackWrite, Goto, Disk, IInv, TypeOK
<1>2. /\ pc \in WorkerPcs /\ cur' \in Versions /\ rec[Op] \in Records /\ PhaseStep
      /\ Op \in Ops
  BY <1>1, WorkerPcsBusy, WorkerFacts DEF IInv, TypeOK, PhaseStep
<1>3. store' \in Versions
  BY <1>1, <1>2 DEF IInv, TypeOK, Records
<1>4. PICK r \in Records : r.state = rec[Op].state /\ rec' = [rec EXCEPT ![Op] = r]
  <2>1. rec = [rec EXCEPT ![Op] = rec[Op]]
    BY DEF IInv, TypeOK
  <2> DEFINE w == [rec[Op] EXCEPT !.sp = FALSE]
  <2>2. w \in Records /\ w.state = rec[Op].state
    BY <1>2, FieldsTyped
  <2>3. rec' = [rec EXCEPT ![Op] = w] \/ rec' = rec
    BY <1>1
  <2> HIDE DEF w
  <2> QED
    BY <1>2, <2>1, <2>2, <2>3
<1> QED
  BY <1>1, <1>2, <1>3, <1>4, WorkerPcsBusy, WorkerSaves

\* The cancelled intent: the journal never says more than memory does.
LEMMA RollbackConflictIInv ==
  ASSUME IInv, NEW res \in Results, RollbackConflict(res) PROVE IInv'
<1>1. /\ pc = "r_write" /\ pc' = "exit" /\ WorkerFrame
      /\ UNCHANGED <<store, file, job, ctx, ret, cur>>
  BY DEF RollbackConflict, Goto
<1>2. /\ pc \in WorkerPcs /\ cur' \in Versions /\ rec[Op] \in Records /\ PhaseStep
      /\ Op \in Ops /\ active = Op /\ proc # "down" /\ GateHeld /\ GateCovers
      /\ job \in Jobs /\ job.orig \in Records
  BY <1>1, WorkerPcsBusy, WorkerFacts DEF IInv, TypeOK, PhaseStep, Jobs
<1>3. CASE job.kind # "undo"
  <2>1. SetState(Op, rec[Op], "rollback_failed", res)
    BY <1>3 DEF RollbackConflict
  <2> QED
    BY <1>1, <1>2, <2>1, StatesKnown, WorkerPcsBusy, WorkerRecords DEF UnfinishedStates
<1>4. CASE job.kind = "undo"
  <2> DEFINE q == [job.orig EXCEPT !.state = "outcome_unknown", !.ver = FALSE]
  <2>1. /\ jrn' = IF res = "lost" THEN jrn ELSE [jrn EXCEPT ![Op] = job.orig]
        /\ rec' = [rec EXCEPT ![Op] = IF res = "ok" THEN job.orig ELSE q]
        /\ active' = active
        /\ faults' \in Nat
    BY <1>4 DEF RollbackConflict, WriteJournal, Disk, IInv, TypeOK
  <2>2. q \in Records /\ q.state = "outcome_unknown"
    BY <1>2 DEF Records, States, UnfinishedStates
  <2> HIDE DEF q
  <2>3. rec' \in [Ops -> Records] /\ jrn' \in [Ops -> Records]
    BY <1>2, <2>1, <2>2 DEF IInv, TypeOK
  <2>4. TypeOK'
    BY <1>1, <1>2, <2>1, <2>3, WorkerPcsBusy, WorkerTypeOK DEF PhaseStep, IInv, TypeOK, Op
  <2>5. Unfinished(jrn'[Op]) => Unfinished(rec'[Op])
    BY <1>2, <2>1, <2>2 DEF IInv, TypeOK, Unfinished, UnfinishedStates, Results
  <2>6. \A p \in Ops \ {Op} : jrn'[p] = jrn[p] /\ rec'[p] = rec[p]
    BY <1>2, <2>1 DEF IInv, TypeOK
  <2>7. GateHeld' /\ GateCovers'
    BY <1>2, <2>1, <2>5, <2>6 DEF GateHeld, GateCovers, Unfinished
  <2> QED
    BY <1>1, <1>2, <2>1, <2>4, <2>7
       DEF IInv, SingleUnfinished, GateHeld, GateCovers, LeaseHeld, DownIsIdle,
           WorkerFrame, Op
<1> QED
  BY <1>3, <1>4

\* rollbackAfterCheck could not restore the Store.
LEMMA RollbackFailedIInv ==
  ASSUME IInv, NEW res \in Results, RollbackFailed(res) PROVE IInv'
<1>1. /\ pc = "r_failed" /\ pc' = "exit" /\ WorkerFrame
      /\ UNCHANGED <<store, file, job, ctx, ret, cur>>
      /\ SetState(Op, rec[Op], "rollback_failed", res)
  BY DEF RollbackFailed, Goto
<1>2. /\ cur' \in Versions /\ PhaseStep /\ rec[Op] \in Records
  BY <1>1, WorkerPcsBusy, WorkerFacts DEF PhaseStep, IInv, TypeOK
<1> QED
  BY <1>1, <1>2, StatesKnown, WorkerPcsBusy, WorkerRecords DEF UnfinishedStates

\* rollbackAfterCheck records that the Store is restored.
LEMMA RollbackSaveIInv ==
  ASSUME IInv, NEW res \in Results, RollbackSave(res) PROVE IInv'
<1>1. /\ pc = "r_save" /\ WorkerFrame /\ UNCHANGED <<store, file, active, job, cur>>
      /\ Save(Op, rec[Op], res)
      /\ EnterRollbackPhase(IF job.kind = "recovery" THEN "r_verify" ELSE "r_apply")
  BY DEF RollbackSave
<1>2. /\ pc \in WorkerPcs /\ cur' \in Versions /\ store' \in Versions
      /\ rec[Op] \in Records /\ Op \in Ops
  BY <1>1, WorkerPcsBusy, WorkerFacts DEF IInv, TypeOK
<1>3. PhaseStep /\ pc' \in {"r_apply", "r_verify"}
  BY <1>1, PhaseTyped DEF PhaseStep
<1>4. /\ rec' = [rec EXCEPT ![Op] = rec[Op]]
      /\ jrn' = jrn \/ jrn' = [jrn EXCEPT ![Op] = rec[Op]]
      /\ faults' \in Nat
  BY <1>1 DEF Save, WriteJournal, Disk, IInv, TypeOK
<1> QED
  BY <1>1, <1>2, <1>3, <1>4, WorkerPcsBusy, WorkerSaves

\* rollbackAfterCheck after Apply of the old version.
LEMMA RollbackAppliedIInv ==
  ASSUME IInv, NEW res \in Results, RollbackApplied(res) PROVE IInv'
<1>1. /\ pc = "r_applied" /\ WorkerFrame /\ UNCHANGED <<store, file, job, cur>>
  BY DEF RollbackApplied
<1>2. pc \in WorkerPcs /\ cur' \in Versions /\ rec[Op] \in Records
  BY <1>1, WorkerPcsBusy, WorkerFacts DEF IInv, TypeOK
<1>3. CASE ret.err
  <2>1. SetState(Op, rec[Op], "rollback_failed", res) /\ pc' = "exit" /\ Finish
    BY <1>3 DEF RollbackApplied, Goto
  <2> QED
    BY <1>1, <1>2, <2>1, StatesKnown, WorkerPcsBusy, WorkerRecords
       DEF UnfinishedStates, PhaseStep, Finish
<1>4. CASE ~ret.err
  <2>1. EnterRollbackPhase("r_verify") /\ UNCHANGED <<jrn, rec, active, faults>>
    BY <1>4 DEF RollbackApplied
  <2>2. PhaseStep /\ pc' = "r_verify"
    BY <2>1, PhaseTyped DEF PhaseStep
  <2> QED
    BY <1>1, <1>2, <2>1, <2>2, WorkerPcsBusy, WorkerMoves
<1> QED
  BY <1>3, <1>4

\* rollbackAfterCheck after Verify of the old version.
LEMMA RollbackVerifiedIInv ==
  ASSUME IInv, NEW res \in Results, RollbackVerified(res) PROVE IInv'
<1>1. /\ pc = "r_verified" /\ pc' = "exit" /\ Finish /\ WorkerFrame
      /\ UNCHANGED <<store, file, job, cur>>
  BY DEF RollbackVerified, Goto
<1>2. /\ pc \in WorkerPcs /\ cur' \in Versions /\ rec[Op] \in Records /\ PhaseStep
  BY <1>1, WorkerPcsBusy, WorkerFacts DEF PhaseStep, IInv, TypeOK, Finish
<1> DEFINE w == [rec[Op] EXCEPT !.ra = FALSE, !.needs = FALSE, !.ver = TRUE]
<1>3. w \in Records /\ "rollback_failed" \in States /\ "rolled_back" \in States
  BY <1>2, FieldsTyped, StatesKnown DEF UnfinishedStates, TerminalStates
<1>4. \/ SetState(Op, rec[Op], "rollback_failed", res)
      \/ SetState(Op, w, "rolled_back", res)
  BY DEF RollbackVerified
<1> HIDE DEF w
<1>5. CASE SetState(Op, rec[Op], "rollback_failed", res)
  BY <1>1, <1>2, <1>3, <1>5, WorkerPcsBusy, WorkerRecords
<1>6. CASE SetState(Op, w, "rolled_back", res)
  BY <1>1, <1>2, <1>3, <1>6, WorkerPcsBusy, WorkerRecords
<1> QED
  BY <1>4, <1>5, <1>6

\* The end of a worker: the gate opens only over a terminal record (launch).
LEMMA WorkerExitIInv == ASSUME IInv, WorkerExit PROVE IInv'
<1>1. /\ pc = "exit" /\ UNCHANGED <<store, file, jrn, late, faults, crashes, drifts>>
  BY DEF WorkerExit, durable, bounds
<1>2. /\ Op \in Ops /\ active = Op /\ proc # "down" /\ GateHeld /\ GateCovers /\ TypeOK
      /\ SingleUnfinished
  BY <1>1, WorkerPcsBusy, WorkerFacts DEF IInv
<1>3. CASE proc = "closing"
  <2>1. PowerOff
    BY <1>3 DEF WorkerExit
  <2>2. SingleUnfinished'
    BY <1>1, <1>2 DEF SingleUnfinished, Unfinished
  <2> QED
    BY <1>1, <1>2, <2>1, <2>2, PowerOffIInv DEF TypeOK
<1>4. CASE proc # "closing"
  <2>1. /\ active' = IF Terminal(rec[Op]) THEN None ELSE active
        /\ Idle /\ UNCHANGED <<proc, rec, abort, gate, runtime>>
    BY <1>4 DEF WorkerExit
  <2>2. TypeOK'
    <3>1. NoJob \in Jobs
      BY ConstantsAssumption
         DEF NoJob, Jobs, Absent, Records, States, TerminalStates, UnfinishedStates
    <3> QED
      BY <1>1, <1>2, <2>1, <3>1, ConstantsAssumption
         DEF TypeOK, Idle, Finish, Goto, NoRet, Pcs
  <2>3. GateHeld'
    BY <1>2, <2>1, StatesKnown DEF GateHeld, Terminal, Unfinished
  <2> QED
    BY <1>1, <1>2, <2>1, <2>2, <2>3
       DEF IInv, SingleUnfinished, GateCovers, Unfinished, LeaseHeld, DownIsIdle,
           Idle, Goto
<1> QED
  BY <1>3, <1>4

-----------------------------------------------------------------------------
(* Start and stop of the process *)

\* Whoever holds the gate may write the one journal that is unfinished.
LEMMA WriteKeepsSingle ==
  ASSUME TypeOK, GateHeld, GateCovers, NEW o \in Ops, active = o, NEW r \in Records,
         jrn' = jrn \/ jrn' = [jrn EXCEPT ![o] = r]
  PROVE  SingleUnfinished' /\ jrn' \in [Ops -> Records]
<1>1. \A p \in Ops \ {o} : ~Unfinished(jrn'[p])
  BY DEF TypeOK, GateHeld, GateCovers, Unfinished
<1>2. jrn' \in [Ops -> Records]
  BY DEF TypeOK
<1> QED
  BY <1>1, <1>2 DEF SingleUnfinished

\* Open journals its intent to recover.
LEMMA OpenSaveIInv ==
  ASSUME IInv, NEW res \in Results, OpenSave(res) PROVE IInv'
<1> DEFINE i == [rec[Op] EXCEPT !.state = "rolling_back", !.needs = TRUE,
                                !.ra = FALSE, !.ver = FALSE]
<1>1. /\ pc = "o_save" /\ UNCHANGED <<store, file, late, crashes, drifts>>
      /\ Disk(res) /\ WriteJournal(Op, i, res)
  BY DEF OpenSave, Save
<1>2. /\ Op \in Ops /\ active = Op /\ proc # "down" /\ rec[Op] \in Records
      /\ GateHeld /\ GateCovers /\ TypeOK
  BY <1>1, WorkerFacts DEF IInv
<1>3. i \in Records /\ i.state = "rolling_back"
  BY <1>2, FieldsTyped
<1> HIDE DEF i
<1>4. faults' \in Nat /\ (jrn' = jrn \/ jrn' = [jrn EXCEPT ![Op] = i])
  BY <1>1, <1>2 DEF Disk, WriteJournal, TypeOK
<1>5. SingleUnfinished' /\ jrn' \in [Ops -> Records]
  BY <1>2, <1>3, <1>4, WriteKeepsSingle
<1>6. CASE res = "ok"
  <2>1. /\ rec' = [rec EXCEPT ![Op] = i] /\ pc' = "o_write"
        /\ UNCHANGED <<proc, active, abort, gate, runtime, job, ctx, ret, cur>>
    BY <1>6 DEF OpenSave, Save, Goto, i
  <2>2. TypeOK'
    BY <1>1, <1>2, <1>3, <1>4, <1>5, <2>1 DEF TypeOK, Pcs, HandlerLocked
  <2>3. GateHeld'
    BY <1>2, <2>1 DEF GateHeld, Unfinished, TypeOK
  <2>4. GateCovers'
    BY <1>2, <1>3, <1>4, <2>1 DEF GateCovers, Unfinished, UnfinishedStates, TypeOK
  <2> QED
    BY <1>2, <1>5, <2>1, <2>2, <2>3, <2>4 DEF IInv, LeaseHeld, DownIsIdle, Op
<1>7. CASE res # "ok"
  <2>1. PowerOff
    BY <1>7 DEF OpenSave
  <2> QED
    BY <1>1, <1>2, <1>4, <1>5, <2>1, PowerOffIInv DEF TypeOK
<1> QED
  BY <1>6, <1>7

\* Open restores the Store.
LEMMA OpenWriteIInv ==
  ASSUME IInv, NEW res \in Results, OpenWrite(res) PROVE IInv'
<1>1. pc = "o_write" /\ UNCHANGED <<file, jrn, late, crashes, drifts>>
  BY DEF OpenWrite
<1>2. /\ Op \in Ops /\ active = Op /\ proc # "down" /\ rec[Op] \in Records
      /\ rec[Op].old \in Versions /\ TypeOK
  BY <1>1, WorkerFacts DEF IInv, Records
<1>3. store' \in Versions /\ faults' \in Nat
  BY <1>2 DEF OpenWrite, Disk, TypeOK
<1>4. SingleUnfinished'
  BY <1>1 DEF IInv, SingleUnfinished, Unfinished
<1>5. \/ PowerOff
      \/ /\ pc' = "o_saved"
         /\ UNCHANGED <<proc, rec, active, abort, gate, runtime, job, ctx, ret, cur>>
  BY DEF OpenWrite, Goto
<1>6. CASE PowerOff
  BY <1>1, <1>2, <1>3, <1>4, <1>6, PowerOffIInv DEF TypeOK
<1>7. CASE /\ pc' = "o_saved"
           /\ UNCHANGED <<proc, rec, active, abort, gate, runtime, job, ctx, ret, cur>>
  <2>1. TypeOK'
    BY <1>1, <1>2, <1>3, <1>7 DEF TypeOK, Pcs, HandlerLocked
  <2> QED
    BY <1>1, <1>2, <1>7, <2>1, QuietIInv
<1> QED
  BY <1>5, <1>6, <1>7

\* Open records that the Store is restored.
LEMMA OpenSavedIInv ==
  ASSUME IInv, NEW res \in Results, OpenSaved(res) PROVE IInv'
<1> DEFINE d == [rec[Op] EXCEPT !.sp = FALSE]
<1>1. /\ pc = "o_saved" /\ UNCHANGED <<store, file, late, crashes, drifts>>
      /\ Disk(res) /\ WriteJournal(Op, d, res)
  BY DEF OpenSaved, Save
<1>2. /\ Op \in Ops /\ active = Op /\ proc # "down" /\ rec[Op] \in Records
      /\ GateHeld /\ GateCovers /\ TypeOK
  BY <1>1, WorkerFacts DEF IInv
<1>3. d \in Records /\ d.state = rec[Op].state
  BY <1>2, FieldsTyped
<1> HIDE DEF d
<1>4. faults' \in Nat /\ (jrn' = jrn \/ jrn' = [jrn EXCEPT ![Op] = d])
  BY <1>1, <1>2 DEF Disk, WriteJournal, TypeOK
<1>5. SingleUnfinished' /\ jrn' \in [Ops -> Records]
  BY <1>2, <1>3, <1>4, WriteKeepsSingle
<1>6. CASE res = "ok"
  <2>1. /\ rec' = [rec EXCEPT ![Op] = d] /\ proc' = "open" /\ Idle
        /\ UNCHANGED <<active, abort, gate, runtime>>
    BY <1>6 DEF OpenSaved, Save, d
  <2>2. NoJob \in Jobs
    BY ConstantsAssumption
       DEF NoJob, Jobs, Absent, Records, States, TerminalStates, UnfinishedStates
  <2>3. TypeOK'
    BY <1>1, <1>2, <1>3, <1>4, <1>5, <2>1, <2>2, ConstantsAssumption
       DEF TypeOK, Pcs, Idle, Finish, Goto, NoRet
  <2>4. GateHeld'
    BY <1>2, <2>1 DEF GateHeld, Unfinished, TypeOK
  <2>5. GateCovers'
    BY <1>2, <1>3, <1>4, <2>1 DEF GateCovers, Unfinished, TypeOK
  <2> QED
    BY <1>5, <2>1, <2>3, <2>4, <2>5 DEF IInv, LeaseHeld, DownIsIdle, Idle, Goto
<1>7. CASE res # "ok"
  <2>1. PowerOff
    BY <1>7 DEF OpenSaved
  <2> QED
    BY <1>1, <1>2, <1>4, <1>5, <2>1, PowerOffIInv DEF TypeOK
<1> QED
  BY <1>6, <1>7

\* A worker is launched for the operation that holds the gate.
LEMMA LaunchTyped ==
  ASSUME TypeOK, NEW o \in Ops, NEW l \in WorkerPcs,
         NEW k \in {"apply", "rollback", "recovery", "undo"}, Launch(o, k, l)
  PROVE  /\ pc' = l /\ pc' \in Pcs /\ job' \in Jobs /\ job'.op = o
         /\ abort' \in BOOLEAN
BY DEF Launch, Goto, Jobs, Pcs, TypeOK

\* AttachRuntime launches the recovery that Open began.
LEMMA AttachIInv ==
  ASSUME IInv, NativeLoad \/ AttachRuntime PROVE IInv'
<1>1. TypeOK /\ store \in Versions
  BY DEF IInv, TypeOK
<1>2. CASE NativeLoad
  <2>1. TypeOK'
    BY <1>1, <1>2 DEF TypeOK, NativeLoad, durable, memory, thread, bounds
  <2> QED
    BY <1>2, <2>1 DEF IInv, NativeLoad, durable, memory, thread, SingleUnfinished,
       GateHeld, GateCovers, LeaseHeld, DownIsIdle, Unfinished, Op
<1>3. CASE AttachRuntime
  <2>1. /\ proc = "open" /\ proc' = "attached" /\ pc \notin LockedPcs
        /\ UNCHANGED <<store, file, jrn, late, runtime, rec, active, gate, ctx, ret,
                       cur, faults, crashes, drifts>>
    BY <1>3 DEF AttachRuntime, LockFree, durable, bounds
  <2>2. \/ active \in Ops /\ Launch(active, "recovery", "r_start")
        \/ UNCHANGED <<pc, job, abort>>
    BY <1>1, <1>3 DEF AttachRuntime, TypeOK
  <2>3. CASE UNCHANGED <<pc, job, abort>>
    <3>1. TypeOK'
      BY <1>1, <2>1, <2>3 DEF TypeOK
    <3> QED
      BY <2>1, <2>3, <3>1, QuietIInv
  <2>4. CASE active \in Ops /\ Launch(active, "recovery", "r_start")
    <3>1. /\ pc' = "r_start" /\ pc' \in Pcs /\ job' \in Jobs /\ job'.op = active
          /\ abort' \in BOOLEAN
      BY <1>1, <2>4, LaunchTyped, WorkerPcsBusy
    <3>2. TypeOK'
      BY <1>1, <2>1, <2>4, <3>1 DEF TypeOK
    <3> QED
      BY <2>1, <3>1, <3>2 DEF IInv, SingleUnfinished, GateHeld, GateCovers, LeaseHeld,
         DownIsIdle, Unfinished, Op
  <2> QED
    BY <2>2, <2>3, <2>4
<1> QED
  BY <1>2, <1>3

\* Close without a worker.
LEMMA CloseIdleIInv ==
  ASSUME IInv, NEW res \in Results, CloseIdle(res) PROVE IInv'
<1>1. /\ UNCHANGED <<store, file, late, crashes, drifts>> /\ PowerOff /\ TypeOK
      /\ GateHeld /\ GateCovers
  BY DEF CloseIdle, IInv, Serving
<1>2. CASE UNCHANGED <<jrn, faults>>
  <2>1. SingleUnfinished'
    BY <1>2 DEF IInv, SingleUnfinished, Unfinished
  <2> QED
    BY <1>1, <1>2, <2>1, PowerOffIInv DEF TypeOK
<1>3. CASE /\ active # None /\ Disk(res)
           /\ WriteJournal(active, [rec[active] EXCEPT !.state = "cancelled"], res)
  <2> DEFINE c == [rec[active] EXCEPT !.state = "cancelled"]
  <2>1. active \in Ops /\ rec[active] \in Records
    BY <1>1, <1>3 DEF TypeOK
  <2>2. c \in Records
    BY <2>1, StateTyped, StatesKnown DEF TerminalStates
  <2>3. faults' \in Nat /\ (jrn' = jrn \/ jrn' = [jrn EXCEPT ![active] = c])
    BY <1>1, <1>3 DEF Disk, WriteJournal, TypeOK
  <2> HIDE DEF c
  <2>4. SingleUnfinished' /\ jrn' \in [Ops -> Records]
    BY <1>1, <2>1, <2>2, <2>3, WriteKeepsSingle
  <2> QED
    BY <1>1, <2>3, <2>4, PowerOffIInv DEF TypeOK
<1> QED
  BY <1>2, <1>3 DEF CloseIdle

\* A context only becomes done.
LEMMA CloseRunningIInv ==
  ASSUME IInv, NEW res \in Results, CloseRunning(res) PROVE IInv'
<1>1. /\ proc' = "closing" /\ abort' = TRUE /\ pc \in WorkerPcs
      /\ UNCHANGED <<store, file, late, runtime, gate, pc, job, ret, cur, crashes, drifts>>
  BY DEF CloseRunning, Running
<1>2. /\ Op \in Ops /\ active = Op /\ proc # "down" /\ rec[Op] \in Records /\ TypeOK
      /\ Running
  BY <1>1, WorkerPcsBusy, WorkerFacts DEF IInv, Running
<1>3. ctx' \in {"live", "done", "recorded"}
  <2>1. ctx' = "done" \/ ctx' = ctx
    BY DEF CloseRunning
  <2> QED
    BY <1>2, <2>1 DEF TypeOK
<1>4. CASE SetState(active, rec[active], "outcome_unknown", res)
  <2>1. SetState(Op, rec[Op], "outcome_unknown", res) /\ "outcome_unknown" \in States
    BY <1>2, <1>4, StatesKnown DEF UnfinishedStates
  <2>2. /\ jrn' \in [Ops -> Records] /\ rec' \in [Ops -> Records]
        /\ active' \in Ops \cup {None} /\ faults' \in Nat
    BY <1>2, <2>1, SetStateEffect
  <2>3. TypeOK'
    BY <1>1, <1>2, <1>3, <2>2 DEF TypeOK
  <2> QED
    BY <1>1, <1>2, <2>1, <2>3, SetStateIInv DEF Op
<1>5. CASE UNCHANGED <<jrn, rec, active, faults>>
  <2>1. TypeOK'
    BY <1>1, <1>2, <1>3, <1>5 DEF TypeOK
  <2> QED
    BY <1>1, <1>2, <1>5, <2>1, QuietIInv, WorkerPcsBusy
<1> QED
  BY <1>4, <1>5 DEF CloseRunning

-----------------------------------------------------------------------------
(* Prepare *)

\* Prepare reserves the ID and the gate.
LEMMA PrepareIInv ==
  ASSUME IInv, NEW o \in Ops, NEW v \in Versions, Prepare(o, v) PROVE IInv'
<1> DEFINE n == [Absent EXCEPT !.state = "prepared", !.old = store, !.new = v]
<1>1. /\ rec' = [rec EXCEPT ![o] = n] /\ active' = o /\ active = None /\ pc' = "p_old"
      /\ job' = [op |-> o, kind |-> "none", orig |-> Absent]
      /\ UNCHANGED <<store, file, jrn, late, runtime, proc, abort, gate, ctx, ret, cur,
                     faults, crashes, drifts>>
      /\ proc # "down"
  BY DEF Prepare, Goto, durable, bounds, Serving
<1>2. TypeOK /\ GateHeld /\ GateCovers /\ SingleUnfinished
  BY <1>1 DEF IInv
<1>3. Absent \in Records
  BY ConstantsAssumption DEF Absent, Records, States, TerminalStates, UnfinishedStates
<1>4. n \in Records /\ n.state = "prepared"
  BY <1>2, <1>3 DEF Records, States, UnfinishedStates, TypeOK
<1> HIDE DEF n
<1>5. TypeOK'
  BY <1>1, <1>2, <1>3, <1>4 DEF TypeOK, Jobs, Pcs, HandlerLocked
<1>6. \A p \in Ops : ~Unfinished(rec[p])
  BY <1>1, <1>2, ConstantsAssumption DEF GateHeld
<1>7. GateHeld' /\ GateCovers'
  BY <1>1, <1>2, <1>6 DEF GateHeld, GateCovers, Unfinished, TypeOK
<1> QED
  BY <1>1, <1>2, <1>5, <1>7 DEF IInv, SingleUnfinished, Unfinished, LeaseHeld,
     DownIsIdle, Op

\* A preparation that failed is an unknown outcome that keeps the gate.
LEMMA PrepareFailedIInv ==
  ASSUME IInv, pc \in {"p_old", "p_new", "p_journal"}, PrepareFailed,
         NEW r \in Records, jrn' = jrn \/ jrn' = [jrn EXCEPT ![Op] = r],
         file' \in [Ops -> [old : Versions \cup {None}, new : Versions \cup {None}]],
         faults' \in Nat,
         UNCHANGED <<store, late, runtime, proc, active, abort, gate, crashes, drifts>>
  PROVE  IInv'
<1>1. /\ Op \in Ops /\ active = Op /\ proc # "down" /\ rec[Op] \in Records
      /\ GateHeld /\ GateCovers /\ TypeOK
  BY WorkerFacts DEF IInv
<1> DEFINE u == [rec[Op] EXCEPT !.state = "outcome_unknown"]
<1>2. u \in Records /\ u.state = "outcome_unknown"
  BY <1>1, StateTyped, StatesKnown DEF UnfinishedStates
<1>3. rec' = [rec EXCEPT ![Op] = u] /\ Idle
  BY <1>1 DEF PrepareFailed, TypeOK
<1> HIDE DEF u
<1>4. SingleUnfinished' /\ jrn' \in [Ops -> Records]
  BY <1>1, WriteKeepsSingle
<1>5. NoJob \in Jobs
  BY ConstantsAssumption
     DEF NoJob, Jobs, Absent, Records, States, TerminalStates, UnfinishedStates
<1>6. TypeOK'
  BY <1>1, <1>2, <1>3, <1>4, <1>5, ConstantsAssumption
     DEF TypeOK, Pcs, Idle, Finish, Goto, NoRet
<1>7. GateHeld' /\ GateCovers'
  BY <1>1, <1>2, <1>3 DEF GateHeld, GateCovers, Unfinished, UnfinishedStates, TypeOK
<1> QED
  BY <1>3, <1>4, <1>6, <1>7 DEF IInv, LeaseHeld, DownIsIdle, Idle, Goto

\* Either snapshot: the content is one of the record's versions.
LEMMA PrepareSnapshotIInv ==
  ASSUME IInv, NEW res \in Results, PrepareOld(res) \/ PrepareNew(res) PROVE IInv'
<1>1. PICK at \in {"p_old", "p_new"}, next \in {"p_new", "p_journal"},
           which \in {"old", "new"}, c \in {rec[Op].old, rec[Op].new} :
         PrepareSnapshot(at, next, which, c, res)
  BY DEF PrepareOld, PrepareNew
<1>2. pc \in {"p_old", "p_new"}
  BY <1>1 DEF PrepareSnapshot
<1>3. /\ Op \in Ops /\ active = Op /\ proc # "down" /\ rec[Op] \in Records
      /\ c \in Versions /\ TypeOK
  BY <1>1, <1>2, WorkerFacts DEF IInv, Records
<1>4. /\ file' \in [Ops -> [old : Versions \cup {None}, new : Versions \cup {None}]]
      /\ faults' \in Nat
      /\ UNCHANGED <<store, jrn, late, runtime, proc, active, abort, gate, crashes, drifts>>
  <2>1. faults' \in Nat
    BY <1>1, <1>3 DEF PrepareSnapshot, Disk, TypeOK
  <2>2. /\ file' = file \/ file' = [file EXCEPT ![Op][which] = c]
        /\ UNCHANGED <<store, jrn, late, runtime, proc, active, abort, gate, crashes, drifts>>
    BY <1>1 DEF PrepareSnapshot
  <2>3. [file[Op] EXCEPT ![which] = c]
           \in [old : Versions \cup {None}, new : Versions \cup {None}]
    BY <1>3 DEF TypeOK
  <2> QED
    BY <1>3, <2>1, <2>2, <2>3 DEF TypeOK
<1>5. CASE PrepareFailed
  BY <1>2, <1>3, <1>4, <1>5, PrepareFailedIInv
<1>6. CASE Goto(next) /\ UNCHANGED <<rec, job, ctx, ret, cur>>
  <2>1. TypeOK'
    BY <1>1, <1>3, <1>4, <1>6 DEF TypeOK, Goto, Pcs, HandlerLocked, Op
  <2> QED
    BY <1>2, <1>3, <1>4, <1>6, <2>1, QuietIInv
<1> QED
  BY <1>1, <1>5, <1>6 DEF PrepareSnapshot

\* Prepare writes the journal.
LEMMA PrepareJournalIInv ==
  ASSUME IInv, NEW res \in Results, PrepareJournal(res) PROVE IInv'
<1>1. /\ pc = "p_journal"
      /\ UNCHANGED <<store, file, late, runtime, proc, active, abort, gate, crashes, drifts>>
  BY DEF PrepareJournal
<1>2. /\ Op \in Ops /\ active = Op /\ proc # "down" /\ rec[Op] \in Records
      /\ GateHeld /\ GateCovers /\ TypeOK
  BY <1>1, WorkerFacts DEF IInv
<1>3. faults' \in Nat /\ (jrn' = jrn \/ jrn' = [jrn EXCEPT ![Op] = rec[Op]])
  BY <1>2 DEF PrepareJournal, Disk, WriteJournal, TypeOK
<1>4. SingleUnfinished' /\ jrn' \in [Ops -> Records]
  BY <1>2, <1>3, WriteKeepsSingle
<1>5. CASE PrepareFailed
  <2>1. file' \in [Ops -> [old : Versions \cup {None}, new : Versions \cup {None}]]
    BY <1>1, <1>2 DEF TypeOK
  <2> QED
    BY <1>1, <1>2, <1>3, <1>5, <2>1, PrepareFailedIInv
<1>6. CASE Idle /\ UNCHANGED rec
  <2>1. NoJob \in Jobs
    BY ConstantsAssumption
       DEF NoJob, Jobs, Absent, Records, States, TerminalStates, UnfinishedStates
  <2>2. TypeOK'
    BY <1>1, <1>2, <1>3, <1>4, <1>6, <2>1, ConstantsAssumption
       DEF TypeOK, Pcs, Idle, Finish, Goto, NoRet
  <2>3. GateHeld'
    BY <1>1, <1>2, <1>6 DEF GateHeld, Unfinished
  <2>4. GateCovers'
    <3>1. \A p \in Ops : jrn'[p] \in {jrn[p], rec[p]}
      BY <1>2, <1>3 DEF TypeOK
    <3> QED
      BY <1>2, <1>6, <3>1 DEF GateCovers, Unfinished
  <2> QED
    BY <2>3, <2>4, <1>4, <1>6, <2>2, <2>3 DEF IInv, LeaseHeld, DownIsIdle, Idle, Goto
<1> QED
  BY <1>5, <1>6 DEF PrepareJournal

-----------------------------------------------------------------------------
(* Apply, Rollback and the deadline of a preparation *)

\* While e.mu is free the thread is idle or a running worker.
LEMMA FreeLocks ==
  ASSUME TypeOK, LockFree
  PROVE  pc = "idle" \/ Running
BY DEF TypeOK, LockFree, Pcs, LockedPcs, Running

\* A handler that records a state of an unfinished operation, and no more.
LEMMA HandlerRecords ==
  ASSUME IInv, LockFree, Serving, NEW o \in Ops, Unfinished(rec[o]),
         NEW s \in States, NEW res \in Results, SetState(o, rec[o], s, res),
         Frame, UNCHANGED <<abort, pc, job, ctx, ret>>
  PROVE  IInv'
<1>1. /\ TypeOK /\ GateHeld /\ proc # "down" /\ rec[o] \in Records /\ active = o
      /\ pc = "idle" \/ (Running /\ active = Op)
  BY FreeLocks, WorkerPcsBusy DEF IInv, Serving, GateHeld, TypeOK, LeaseHeld, Running
<1>2. /\ jrn' \in [Ops -> Records] /\ rec' \in [Ops -> Records]
      /\ active' \in Ops \cup {None} /\ faults' \in Nat
  BY <1>1, SetStateEffect
<1>3. TypeOK'
  BY <1>1, <1>2 DEF TypeOK, Frame
<1> QED
  BY <1>1, <1>3, SetStateIInv DEF Frame, Op

\* A handler that records the state of an operation and launches its worker.
LEMMA HandlerLaunches ==
  ASSUME IInv, Serving, NEW o \in Ops, Unfinished(rec[o]),
         NEW s \in States \ TerminalStates, SetState(o, rec[o], s, "ok"),
         NEW k \in {"apply", "rollback", "recovery", "undo"}, NEW l \in WorkerPcs,
         Launch(o, k, l), Frame, UNCHANGED <<ctx, ret>>
  PROVE  IInv'
<1>1. /\ TypeOK /\ GateHeld /\ proc # "down" /\ rec[o] \in Records /\ active = o
      /\ "ok" \in Results
  BY DEF IInv, Serving, GateHeld, TypeOK, Results
<1>2. /\ jrn' \in [Ops -> Records] /\ rec' \in [Ops -> Records]
      /\ active' \in Ops \cup {None} /\ faults' \in Nat
  BY <1>1, SetStateEffect
<1>3. /\ pc' = l /\ pc' \in Pcs /\ job' \in Jobs /\ job'.op = o
      /\ abort' \in BOOLEAN
  BY <1>1, LaunchTyped
<1>4. TypeOK'
  BY <1>1, <1>2, <1>3 DEF TypeOK, Frame
<1> QED
  BY <1>1, <1>3, <1>4, SetStateIInv DEF Frame

\* The handlers that only end a preparation (expirePrepared, Apply refused, Rollback).
LEMMA PreparedIInv ==
  ASSUME IInv, NEW o \in Ops, NEW res \in Results,
         ExpirePrepared(o, res) \/ ApplyRefused(o, res) \/ RollbackPrepared(o, res)
  PROVE  IInv'
<1>1. /\ LockFree /\ Serving /\ Unfinished(rec[o])
      /\ Frame /\ UNCHANGED <<abort, pc, job, ctx, ret>>
  BY DEF ExpirePrepared, ApplyRefused, RollbackPrepared, Serving, Unfinished,
         UnfinishedStates
<1>2. PICK s \in {"cancelled", "conflict"} : SetState(o, rec[o], s, res)
  BY DEF ExpirePrepared, ApplyRefused, RollbackPrepared
<1> QED
  BY <1>1, <1>2, HandlerRecords, StatesKnown DEF TerminalStates

\* Apply launches a worker, or ends the preparation.
LEMMA ApplyIInv ==
  ASSUME IInv, NEW o \in Ops, NEW res \in Results, Apply(o, res) PROVE IInv'
<1>1. /\ LockFree /\ Serving /\ Unfinished(rec[o]) /\ Frame /\ UNCHANGED <<ctx, ret>>
      /\ SetState(o, rec[o], "applying", res)
  BY DEF Apply, Serving, Unfinished, UnfinishedStates
<1>2. "applying" \in States \ TerminalStates /\ "a_check" \in WorkerPcs
  BY StatesKnown, WorkerPcsBusy DEF UnfinishedStates
<1>3. CASE res = "ok"
  <2>1. Launch(o, "apply", "a_check")
    BY <1>3 DEF Apply
  <2> QED
    BY <1>1, <1>2, <1>3, <2>1, HandlerLaunches
<1>4. CASE res # "ok"
  BY <1>1, <1>2, <1>4, HandlerRecords DEF Apply
<1> QED
  BY <1>3, <1>4

\* Rollback of an operation nobody works on.
LEMMA RollbackUnfinishedIInv ==
  ASSUME IInv, NEW o \in Ops, NEW res \in Results, RollbackUnfinished(o, res)
  PROVE  IInv'
<1>1. /\ LockFree /\ Serving /\ Unfinished(rec[o]) /\ Frame /\ UNCHANGED <<ctx, ret>>
  BY DEF RollbackUnfinished
<1>2. /\ "rolling_back" \in States \ TerminalStates /\ "r_start" \in WorkerPcs
      /\ "rollback_failed" \in States
  BY StatesKnown, WorkerPcsBusy DEF UnfinishedStates
<1>3. CASE SetState(o, rec[o], "rolling_back", res) /\ res = "ok"
  <2>1. \/ Launch(o, "rollback", "r_start")
        \/ UNCHANGED <<jrn, active, faults, abort, pc, job>>
    BY <1>3 DEF RollbackUnfinished
  <2>2. CASE Launch(o, "rollback", "r_start")
    BY <1>1, <1>2, <1>3, <2>2, HandlerLaunches
  <2> QED
    BY <1>1, <1>2, <1>3, <2>1, <2>2, HandlerRecords
<1>4. CASE SetState(o, rec[o], "rolling_back", res) /\ UNCHANGED <<abort, pc, job>>
  BY <1>1, <1>2, <1>4, HandlerRecords
<1>5. CASE /\ rec' = [rec EXCEPT ![o].state = "rollback_failed"]
           /\ UNCHANGED <<jrn, active, faults, abort, pc, job>>
  <2>1. TypeOK /\ GateHeld /\ GateCovers /\ proc # "down" /\ rec[o] \in Records
    BY <1>1 DEF IInv, Serving, TypeOK
  <2> DEFINE u == [rec[o] EXCEPT !.state = "rollback_failed"]
  <2>2. u \in Records /\ u.state = "rollback_failed"
    BY <1>2, <2>1, StateTyped
  <2>3. rec' = [rec EXCEPT ![o] = u]
    BY <1>5, <2>1 DEF TypeOK
  <2> HIDE DEF u
  <2>4. TypeOK'
    BY <1>1, <1>5, <2>1, <2>2, <2>3 DEF TypeOK, Frame
  <2>5. \A p \in Ops : Unfinished(rec'[p]) <=> Unfinished(rec[p])
    BY <1>1, <2>1, <2>2, <2>3 DEF TypeOK, Unfinished, UnfinishedStates
  <2> QED
    BY <1>1, <1>5, <2>1, <2>4, <2>5
       DEF IInv, SingleUnfinished, GateHeld, GateCovers, Unfinished, LeaseHeld,
           DownIsIdle, Frame, Op
<1> QED
  BY <1>3, <1>4, <1>5 DEF RollbackUnfinished

\* Rollback joins the worker of the operation.
LEMMA RollbackRunningIInv ==
  ASSUME IInv, NEW o \in Ops, RollbackRunning(o) PROVE IInv'
<1>1. /\ abort' = TRUE /\ proc # "down" /\ pc \in WorkerPcs
      /\ ctx' = "done" \/ ctx' = ctx
      /\ UNCHANGED <<store, file, jrn, late, runtime, proc, rec, active, gate, pc, job,
                     ret, cur, faults, crashes, drifts>>
  BY DEF RollbackRunning, Running, durable, bounds, Serving
<1>2. TypeOK'
  BY <1>1 DEF IInv, TypeOK
<1> QED
  BY <1>1, <1>2, QuietIInv, WorkerPcsBusy

\* The undo of a confirmed operation takes a gate that nobody holds.
LEMMA RollbackConfirmedIInv ==
  ASSUME IInv, NEW o \in Ops, RollbackConfirmed(o) PROVE IInv'
<1>1. /\ proc # "down" /\ active = None /\ active' = o /\ Launch(o, "undo", "u_check")
      /\ UNCHANGED <<store, file, jrn, late, runtime, proc, rec, gate, ctx, ret, cur,
                     faults, crashes, drifts>>
  BY DEF RollbackConfirmed, durable, bounds
<1>2. TypeOK /\ GateHeld
  BY <1>1 DEF IInv
<1>3. /\ pc' = "u_check" /\ pc' \in Pcs /\ job' \in Jobs /\ job'.op = o
      /\ abort' \in BOOLEAN
  BY <1>1, <1>2, LaunchTyped, WorkerPcsBusy
<1>4. TypeOK'
  BY <1>1, <1>2, <1>3 DEF TypeOK
<1>5. \A p \in Ops : ~Unfinished(rec[p])
  BY <1>1, <1>2, ConstantsAssumption DEF GateHeld
<1> QED
  BY <1>1, <1>3, <1>4, <1>5
     DEF IInv, SingleUnfinished, GateHeld, GateCovers, Unfinished, LeaseHeld,
         DownIsIdle, Op

-----------------------------------------------------------------------------
(* Hooks, the watcher, time and outside writers *)

\* A native hook returns.
LEMMA HookReturnsIInv ==
  ASSUME IInv, HookReturns PROVE IInv'
<1>1. /\ pc \in HookPcs
      /\ UNCHANGED <<store, file, jrn, late, proc, rec, active, abort, gate, job, ctx,
                     cur, faults, crashes, drifts>>
  BY DEF HookReturns, CheckReturns, VerifyReturns, ApplyHookReturns, HookPcs, ApplyHooks,
         RollbackHooks, durable, memory, bounds
<1>2. runtime' \in Versions \cup {Mixed, None}
  BY DEF HookReturns, CheckReturns, VerifyReturns, ApplyHookReturns, IInv, TypeOK
<1>3. PICK e \in BOOLEAN : Returns(e)
  BY DEF HookReturns, CheckReturns, VerifyReturns, ApplyHookReturns, CtxDone
<1>4. pc' \in WorkerPcs /\ pc \in WorkerPcs
  BY <1>1, <1>3, WorkerPcsBusy
     DEF Returns, Goto, AfterHook, HookPcs, ApplyHooks, RollbackHooks
<1>5. ret' \in [err : BOOLEAN, cancelled : BOOLEAN]
  BY <1>3 DEF Returns, CtxDone
<1>6. proc # "down" /\ Op \in Ops
  BY <1>4, WorkerPcsBusy, WorkerFacts
<1>7. TypeOK'
  BY <1>1, <1>2, <1>4, <1>5, <1>6 DEF IInv, TypeOK, Pcs, Op
<1> QED
  BY <1>1, <1>4, <1>6, <1>7, QuietIInv, WorkerPcsBusy

\* The watcher of a phase records uncertainty.
LEMMA WatcherIInv ==
  ASSUME IInv, NEW res \in Results, Watcher(res) PROVE IInv'
<1>1. /\ pc \in HookPcs \cup ReturnPcs /\ ctx' = "recorded" /\ Frame
      /\ SetState(Op, rec[Op], "outcome_unknown", res) /\ UNCHANGED <<abort, pc, job, ret>>
  BY DEF Watcher
<1>2. pc \in WorkerPcs
  BY <1>1 DEF WorkerPcs
<1>3. /\ Op \in Ops /\ active = Op /\ proc # "down" /\ rec[Op] \in Records /\ TypeOK
      /\ Running /\ "outcome_unknown" \in States
  BY <1>2, WorkerPcsBusy, WorkerFacts, StatesKnown DEF IInv, Running, UnfinishedStates
<1>4. /\ jrn' \in [Ops -> Records] /\ rec' \in [Ops -> Records]
      /\ active' \in Ops \cup {None} /\ faults' \in Nat
  BY <1>1, <1>3, SetStateEffect
<1>5. TypeOK'
  BY <1>1, <1>3, <1>4 DEF TypeOK, Frame
<1> QED
  BY <1>1, <1>3, <1>5, SetStateIInv DEF Frame, Op

\* Time passes, a phase runs out of its budget, an outsider writes the Store.
LEMMA WorldIInv ==
  ASSUME IInv,
         \/ RollbackTimeout
         \/ \E o \in Ops : DeadlinePasses(o)
         \/ \E v \in Versions : Drift(v)
  PROVE  IInv'
<1>1. UNCHANGED <<file, jrn, rec, active, job, pc, proc, abort, gate, runtime, ret, cur,
                  faults, crashes>>
  BY DEF RollbackTimeout, DeadlinePasses, Drift, durable, memory, thread, bounds
<1>2. /\ store' \in Versions /\ drifts' \in Nat
      /\ late' \in [Ops -> BOOLEAN]
  <2>1. store' \in Versions /\ drifts' \in Nat
    BY DEF RollbackTimeout, DeadlinePasses, Drift, durable, bounds, IInv, TypeOK
  <2>2. late' = late \/ \E o \in Ops : late' = [late EXCEPT ![o] = TRUE]
    BY DEF RollbackTimeout, DeadlinePasses, Drift
  <2>3. late \in [Ops -> BOOLEAN]
    BY DEF IInv, TypeOK
  <2> QED
    BY <2>1, <2>2, <2>3
<1>3. ctx' \in {"live", "done", "recorded"}
  BY DEF RollbackTimeout, DeadlinePasses, Drift, thread, IInv, TypeOK
<1>4. TypeOK'
  BY <1>1, <1>2, <1>3 DEF IInv, TypeOK
<1> QED
  BY <1>1, <1>4 DEF IInv, SingleUnfinished, GateHeld, GateCovers, LeaseHeld, DownIsIdle,
     Unfinished, Op

-----------------------------------------------------------------------------
(* PruneSnapshots *)

\* PruneSnapshots marks materials expired.
LEMMA PruneExpireIInv ==
  ASSUME IInv, NEW o \in Ops, NEW res \in Results, PruneExpire(o, res) PROVE IInv'
<1> DEFINE x == [rec[o] EXCEPT !.exp = TRUE]
<1>1. /\ proc # "down" /\ pc \notin WorkerPcs /\ LockFree
      /\ UNCHANGED <<store, file, late, runtime, proc, active, abort, ctx, ret, cur,
                     crashes, drifts>>
      /\ Save(o, x, res)
  BY DEF PruneExpire, PruneAllowed, Serving, Running
<1>2. TypeOK /\ rec[o] \in Records /\ SingleUnfinished /\ GateHeld /\ GateCovers
      /\ pc = "idle"
  BY <1>1, FreeLocks DEF IInv, TypeOK, Running
<1>3. x \in Records /\ x.state = rec[o].state /\ ~Unfinished(x)
  BY <1>2, FieldsTyped, StatesKnown DEF PruneExpire, PruneAllowed, Terminal, Unfinished
<1> HIDE DEF x
<1>4. /\ rec' = [rec EXCEPT ![o] = x] /\ faults' \in Nat
      /\ jrn' = jrn \/ jrn' = [jrn EXCEPT ![o] = x]
  BY <1>1, <1>2 DEF Save, Disk, WriteJournal, TypeOK
<1>5. /\ gate' \in BOOLEAN
      /\ \/ pc' = "g_old" /\ job' = [op |-> o, kind |-> "none", orig |-> Absent]
         \/ UNCHANGED <<pc, job>>
  BY <1>2 DEF PruneExpire, Pruning, Goto, TypeOK
<1>6. Absent \in Records
  BY ConstantsAssumption DEF Absent, Records, States, TerminalStates, UnfinishedStates
<1>7. TypeOK'
  <2>1. jrn' \in [Ops -> Records] /\ rec' \in [Ops -> Records]
    BY <1>2, <1>3, <1>4 DEF TypeOK
  <2>2. pc' \in Pcs /\ job' \in Jobs /\ (pc' # "idle" => job'.op \in Ops)
    BY <1>2, <1>5, <1>6 DEF TypeOK, Jobs, Pcs, HandlerLocked
  <2> QED
    BY <1>1, <1>2, <1>4, <1>5, <2>1, <2>2 DEF TypeOK
<1>8. \A p \in Ops : /\ Unfinished(rec'[p]) <=> Unfinished(rec[p])
                     /\ Unfinished(jrn'[p]) => Unfinished(jrn[p])
  BY <1>2, <1>3, <1>4 DEF TypeOK, Unfinished
<1> QED
  BY <1>1, <1>2, <1>5, <1>7, <1>8
     DEF IInv, SingleUnfinished, GateHeld, GateCovers, LeaseHeld, DownIsIdle

\* PruneSnapshots takes up an interrupted deletion.
LEMMA PruneResiduesIInv ==
  ASSUME IInv, NEW o \in Ops, PruneResidues(o) PROVE IInv'
<1>1. /\ proc # "down" /\ pc' = "g_old"
      /\ job' = [op |-> o, kind |-> "none", orig |-> Absent]
      /\ UNCHANGED <<store, file, jrn, late, runtime, proc, rec, active, abort, gate, ctx,
                     ret, cur, faults, crashes, drifts>>
  BY DEF PruneResidues, PruneAllowed, Serving, Pruning, Goto, durable, memory, bounds
<1>2. Absent \in Records
  BY ConstantsAssumption DEF Absent, Records, States, TerminalStates, UnfinishedStates
<1>3. TypeOK'
  BY <1>1, <1>2 DEF IInv, TypeOK, Jobs, Pcs, HandlerLocked
<1> QED
  BY <1>1, <1>3 DEF IInv, SingleUnfinished, GateHeld, GateCovers, Unfinished, LeaseHeld,
     DownIsIdle

\* PruneSnapshots deletes a snapshot.
LEMMA PruneDeleteIInv ==
  ASSUME IInv, NEW res \in Results, PruneOld(res) \/ PruneNew(res) PROVE IInv'
<1>1. PICK at \in {"g_old", "g_new"}, next \in {"g_new", "idle"}, which \in {"old", "new"} :
         PruneDelete(at, next, which, res)
  BY DEF PruneOld, PruneNew
<1>2. /\ pc \in {"g_old", "g_new"}
      /\ UNCHANGED <<store, jrn, late, runtime, proc, rec, active, abort, gate, crashes,
                     drifts>>
  BY <1>1 DEF PruneDelete, memory
<1>3. TypeOK /\ Op \in Ops /\ proc # "down"
  BY <1>2 DEF IInv, TypeOK, DownIsIdle, Op
<1>4. /\ file' \in [Ops -> [old : Versions \cup {None}, new : Versions \cup {None}]]
      /\ faults' \in Nat
  <2>1. faults' \in Nat
    BY <1>1, <1>3 DEF PruneDelete, Disk, TypeOK
  <2>2. file' = file \/ file' = [file EXCEPT ![Op][which] = None]
    BY <1>1 DEF PruneDelete
  <2>3. [file[Op] EXCEPT ![which] = None]
           \in [old : Versions \cup {None}, new : Versions \cup {None}]
    BY <1>3 DEF TypeOK
  <2> QED
    BY <1>3, <2>1, <2>2, <2>3 DEF TypeOK
<1>5. NoJob \in Jobs
  BY ConstantsAssumption
     DEF NoJob, Jobs, Absent, Records, States, TerminalStates, UnfinishedStates
<1>6. pc' \in {"g_new", "idle"} /\ TypeOK'
  <2>1. CASE Idle
    BY <1>2, <1>3, <1>4, <1>5, <2>1, ConstantsAssumption
       DEF TypeOK, Idle, Finish, Goto, NoRet, Pcs
  <2>2. CASE Goto("g_new") /\ UNCHANGED <<job, ctx, ret, cur>>
    BY <1>2, <1>3, <1>4, <2>2 DEF TypeOK, Goto, Pcs, HandlerLocked, Op
  <2> QED
    BY <1>1, <2>1, <2>2 DEF PruneDelete
<1> QED
  BY <1>2, <1>3, <1>6
     DEF IInv, SingleUnfinished, GateHeld, GateCovers, Unfinished, LeaseHeld, DownIsIdle

-----------------------------------------------------------------------------
(* The theorems *)

\* Every step of the engine keeps the invariant.
LEMMA NextIInv == IInv /\ [Next]_vars => IInv'
<1> SUFFICES ASSUME IInv, [Next]_vars PROVE IInv'
  OBVIOUS
<1>1. CASE UNCHANGED vars
  BY <1>1 DEF vars, IInv, TypeOK, SingleUnfinished, GateHeld, GateCovers, Unfinished,
     LeaseHeld, DownIsIdle, Op
<1>2. CASE Crash \/ OpenClean \/ NativeLoad \/ AttachRuntime \/ \E o \in Ops : OpenRecover(o)
  BY <1>2, CrashIInv, OpenIInv, AttachIInv
<1>3. ASSUME NEW res \in Results, OpenStep(res) PROVE IInv'
  BY <1>3, OpenSaveIInv, OpenWriteIInv, OpenSavedIInv DEF OpenStep
<1>4. ASSUME NEW res \in Results, HandlerStep(res) PROVE IInv'
  BY <1>4, PrepareSnapshotIInv, PrepareJournalIInv, PruneDeleteIInv DEF HandlerStep
<1>5. ASSUME NEW res \in Results, Watcher(res) PROVE IInv'
  BY <1>5, WatcherIInv
<1>6. CASE Requests
  <2>1. ASSUME NEW o \in Ops, NEW v \in Versions, Prepare(o, v) PROVE IInv'
    BY <2>1, PrepareIInv
  <2>2. ASSUME NEW o \in Ops, RollbackRunning(o) \/ RollbackConfirmed(o) \/ PruneResidues(o)
        PROVE IInv'
    BY <2>2, RollbackRunningIInv, RollbackConfirmedIInv, PruneResiduesIInv
  <2>3. ASSUME NEW o \in Ops, NEW res \in Results,
               \/ Apply(o, res) \/ ApplyRefused(o, res)
               \/ RollbackPrepared(o, res) \/ RollbackUnfinished(o, res)
               \/ PruneExpire(o, res)
        PROVE IInv'
    BY <2>3, ApplyIInv, PreparedIInv, RollbackUnfinishedIInv, PruneExpireIInv
  <2>4. ASSUME NEW res \in Results, CloseRunning(res) \/ CloseIdle(res) PROVE IInv'
    BY <2>4, CloseRunningIInv, CloseIdleIInv
  <2> QED
    BY <1>6, <2>1, <2>2, <2>3, <2>4 DEF Requests
<1>7. CASE HookReturns
  BY <1>7, HookReturnsIInv
<1>8. CASE Worker
  <2>1. CASE RollbackStart \/ UndoChecked \/ WorkerExit
    BY <2>1, RollbackStartIInv, UndoCheckedIInv, WorkerExitIInv
  <2>2. ASSUME NEW res \in Results, WorkerStep(res) PROVE IInv'
    BY <2>2, ApplyCheckedIInv, ApplyWriteIInv, ApplySaveIInv, ApplyUnknownIInv,
       ApplyAppliedIInv, ApplyVerifiedIInv, RollbackCheckedIInv, RollbackBeginIInv,
       RollbackWriteIInv, RollbackConflictIInv, RollbackFailedIInv, RollbackSaveIInv,
       RollbackAppliedIInv, RollbackVerifiedIInv
       DEF WorkerStep
  <2> QED
    BY <1>8, <2>1, <2>2 DEF Worker
<1>9. ASSUME NEW o \in Ops, NEW res \in Results, ExpirePrepared(o, res) PROVE IInv'
  BY <1>9, PreparedIInv
<1>10. CASE \/ RollbackTimeout
            \/ \E o \in Ops : DeadlinePasses(o)
            \/ \E v \in Versions : Drift(v)
  BY <1>10, WorldIInv
<1> QED
  BY <1>1, <1>2, <1>3, <1>4, <1>5, <1>6, <1>7, <1>8, <1>9, <1>10 DEF Next

\* The inductive invariant: the gate e.active covers everything unfinished, in
\* memory and in the journal, and whoever works holds it.
THEOREM Inductive == Spec => []IInv
<1>1. Init => IInv
  BY InitIInv
<1>2. IInv /\ [Next]_vars => IInv'
  BY NextIInv
<1> QED
  BY <1>1, <1>2, PTL DEF Spec

\* Every variable keeps its type, whatever fails.
THEOREM TypeCorrect == Spec => []TypeOK
<1>1. IInv => TypeOK
  BY DEF IInv
<1> QED
  BY <1>1, Inductive, PTL

\* However many operations, versions, failed writes and crashes there are, the
\* directory never holds two unfinished operations: Open never refuses it for
\* that reason (engine.go, load; the gate e.active).
THEOREM OneUnfinished == Spec => []SingleUnfinished
<1>1. IInv => SingleUnfinished
  BY DEF IInv
<1> QED
  BY <1>1, Inductive, PTL

-----------------------------------------------------------------------------
(***************************************************************************)
(* The records                                                             *)
(***************************************************************************)

-----------------------------------------------------------------------------
(* The inductive invariant.  DataInv relates memory, journal and snapshots;  *)
(* ControlInv says what holds of the operation of a thread at each of its    *)
(* program counters.                                                         *)

PrepPcs    == {"p_old", "p_new", "p_journal"}
OpenPcs    == {"o_save", "o_write", "o_saved"}
DeletePcs  == {"g_old", "g_new"}
ApplyPcs   == ApplyHooks \cup ApplyReturns \cup {"a_write", "a_save", "a_unknown"}
RestorePcs == {"r_save", "r_apply", "r_applied", "r_verify", "r_verified"}
RollbackPcs == {"r_check", "r_checked", "r_begin", "r_write", "r_failed"} \cup RestorePcs

\* An undo that has recorded nothing yet.
UndoLook == job.kind = "undo" /\ pc \in {"u_check", "u_checked", "r_begin"}

\* A record that Validate accepts, and that only a recovery owes the runtime.
Sane(r) == /\ r.state = "confirmed"   => r.sp /\ r.ra /\ r.ver
           /\ r.state = "rolled_back" => ~r.sp /\ ~r.ra /\ r.ver
           /\ r.exp => Terminal(r)
           /\ r.needs => r.state \notin {"absent", "prepared"}

AllSane == \A o \in Ops : Sane(rec[o]) /\ Sane(jrn[o])

\* What the journal knows memory knows, and it is about the same versions.
Follows(o) == Exists(jrn[o]) =>
                 /\ Exists(rec[o])
                 /\ rec[o].old = jrn[o].old /\ rec[o].new = jrn[o].new
                 /\ jrn[o].exp => rec[o].exp
AllFollow == proc # "down" => \A o \in Ops : Follows(o)

\* Materials stay until the journal says that they are expired.
Kept(o) == Exists(jrn[o]) => IF jrn[o].exp THEN ~jrn[o].needs
                                           ELSE SnapshotsOK(o, jrn[o])
AllKept == \A o \in Ops : Kept(o)

\* A preparation that was answered is in the journal, and so is a recovery.
PreparedKnown == proc # "down" =>
    \A o \in Ops : rec[o].state = "prepared" /\ ~(pc \in PrepPcs /\ Op = o)
                      => Exists(jrn[o])
NeedsKnown == \A o \in Ops : rec[o].needs => Exists(jrn[o])

DataInv == AllSane /\ AllFollow /\ AllKept /\ TerminalIsDurable
           /\ PreparedKnown /\ NeedsKnown

\* Prepare: the journal comes after both snapshots.
Reserved == pc \in PrepPcs =>
    /\ rec[Op].state = "prepared" /\ ~Exists(jrn[Op])
    /\ pc # "p_old" => file[Op].old = rec[Op].old
    /\ pc = "p_journal" => file[Op].new = rec[Op].new

\* Open recovers an operation that is unfinished and journalled.
Opening == pc \in OpenPcs =>
    Unfinished(rec[Op]) /\ Exists(jrn[Op]) /\ proc = "opening"

\* PruneSnapshots: the journal goes before the files.
Deleting == pc \in DeletePcs => Exists(jrn[Op]) /\ jrn[Op].exp

\* A worker has a journalled operation, unfinished until its last record.
Leased == pc \in WorkerPcs =>
    /\ proc \in {"attached", "closing"}
    /\ Exists(jrn[Op]) /\ rec[Op].state # "prepared"
    /\ pc # "exit" /\ ~UndoLook => Unfinished(rec[Op])

\* Without a worker only an unfinished operation holds the gate.
GateUsed == active # None /\ pc \notin WorkerPcs
                => proc # "down" /\ Unfinished(rec[active])

\* Which worker may be where.
KindsAt(l, kind) ==
    /\ l \notin WorkerPcs => kind = "none"
    /\ l \in WorkerPcs => kind # "none"
    /\ l \in ApplyPcs => kind = "apply"
    /\ l \in {"u_check", "u_checked"} => kind = "undo"
    /\ l \in {"r_start", "r_check", "r_checked"} => kind # "undo"
    /\ l \in RollbackPcs => kind # "apply"
KindsFit == KindsAt(pc, job.kind)

\* An undo remembers the confirmed record it started from.
Undoing == pc \in WorkerPcs /\ job.kind = "undo" =>
    /\ job.orig.state = "confirmed" /\ ~job.orig.exp /\ Sane(job.orig)
    /\ job.orig.old = rec[Op].old /\ job.orig.new = rec[Op].new
    /\ UndoLook => rec[Op] = job.orig /\ jrn[Op] = job.orig

\* The facts a record collects on its way.
FactsAt(l, r) ==
    /\ l \in {"a_save", "a_apply", "a_applied", "a_verify", "a_verified"} => r.sp
    /\ l \in {"a_verify", "a_verified"} => r.ra
    /\ l \in RestorePcs => ~r.sp
FactsCollected == FactsAt(pc, rec[Op])

ControlInv == Reserved /\ Opening /\ Deleting /\ Leased /\ GateUsed /\ KindsFit
              /\ Undoing /\ FactsCollected /\ RefusedUndoKeepsHistory

FInv == IInv /\ DataInv /\ ControlInv

-----------------------------------------------------------------------------
(* Records *)

\* Two records that agree on everything but the state.
Alike(w, r) == /\ w.old = r.old /\ w.new = r.new
               /\ w.sp <=> r.sp
               /\ w.ra <=> r.ra
               /\ w.ver <=> r.ver
               /\ w.needs <=> r.needs
               /\ w.exp <=> r.exp

LEMMA StateAlike ==
  ASSUME NEW r \in Records, NEW s \in States
  PROVE  /\ [r EXCEPT !.state = s] \in Records
         /\ [r EXCEPT !.state = s].state = s
         /\ Alike([r EXCEPT !.state = s], r)
BY DEF Records, Alike

\* What SetState leaves in memory and, perhaps, on disk (engine.go, state).
LEMMA SetStateRecords ==
  ASSUME TypeOK, NEW o \in Ops, NEW r \in Records, NEW s \in States,
         NEW res \in Results, SetState(o, r, s, res)
  PROVE  \E u, w \in Records :
            /\ Alike(u, r) /\ Alike(w, r)
            /\ w.state = s
            /\ u.state = IF res = "ok" THEN s ELSE "outcome_unknown"
            /\ res = "ok" => u = w
            /\ rec' = [rec EXCEPT ![o] = u]
            /\ \/ jrn' = [jrn EXCEPT ![o] = w]
               \/ res # "ok" /\ jrn' = jrn
<1> DEFINE w == [r EXCEPT !.state = s]
           v == [w EXCEPT !.state = "outcome_unknown"]
<1>1. w \in Records /\ w.state = s /\ Alike(w, r)
  BY StateAlike
<1>2. v \in Records /\ v.state = "outcome_unknown" /\ Alike(v, w)
  BY <1>1, StateAlike DEF States, UnfinishedStates
<1>3. Alike(v, r)
  BY <1>1, <1>2 DEF Alike
<1>4. /\ rec' = [rec EXCEPT ![o] = IF res = "ok" THEN w ELSE v]
      /\ jrn' = IF res = "lost" THEN jrn ELSE [jrn EXCEPT ![o] = w]
  BY DEF SetState, WriteJournal
<1> HIDE DEF w, v
<1>5. CASE res = "ok"
  BY <1>1, <1>4, <1>5
<1>6. CASE res # "ok"
  BY <1>1, <1>2, <1>3, <1>4, <1>6
<1> QED
  BY <1>5, <1>6

\* A fact recorded with a state.
LEMMA FactsAlike ==
  ASSUME NEW r \in Records, NEW b \in BOOLEAN
  PROVE  /\ [r EXCEPT !.sp = b] \in Records
         /\ [r EXCEPT !.sp = b].state = r.state
         /\ [r EXCEPT !.sp = b].sp <=> b
         /\ [r EXCEPT !.sp = b].old = r.old /\ [r EXCEPT !.sp = b].new = r.new
         /\ [r EXCEPT !.sp = b].ra <=> r.ra
         /\ [r EXCEPT !.sp = b].exp <=> r.exp
         /\ [r EXCEPT !.sp = b].needs <=> r.needs
BY DEF Records

-----------------------------------------------------------------------------
(* Steps that change the records of one operation *)

\* The record a step leaves for o is sane, about the same versions, not
\* expired, and in the journal if it is terminal.
UpdateOK(o, u, w) ==
    /\ Sane(u) /\ Sane(w) /\ Exists(u) /\ Exists(w)
    /\ ~u.exp /\ ~w.exp /\ ~rec[o].exp
    /\ u.old = rec[o].old /\ u.new = rec[o].new
    /\ w.old = rec[o].old /\ w.new = rec[o].new
    /\ Exists(jrn[o]) \/ (SnapshotsOK(o, rec[o]) /\ ~u.needs)

LEMMA UpdateData ==
  ASSUME FInv, proc # "down", pc \notin PrepPcs, NEW o \in Ops,
         NEW u \in Records, NEW w \in Records,
         rec' = [rec EXCEPT ![o] = u],
         \/ jrn' = [jrn EXCEPT ![o] = w] /\ (Terminal(u) => u = w)
         \/ jrn' = jrn /\ Exists(jrn[o]) /\ ~Terminal(u)
         \/ jrn' = jrn /\ ~Terminal(u) /\ u.state # "prepared" /\ ~u.needs,
         UpdateOK(o, u, w), file' = file, gate' = gate
  PROVE  DataInv'
<1>1. /\ rec'[o] = u /\ \A p \in Ops \ {o} : rec'[p] = rec[p] /\ jrn'[p] = jrn[p]
      /\ jrn'[o] = w \/ jrn'[o] = jrn[o]
  BY DEF FInv, IInv, TypeOK
<1>2. Exists(jrn[o]) => ~jrn[o].exp /\ SnapshotsOK(o, jrn[o])
  BY DEF FInv, DataInv, AllFollow, Follows, AllKept, Kept, UpdateOK
<1>3. Exists(jrn[o]) => jrn[o].old = rec[o].old /\ jrn[o].new = rec[o].new
  BY DEF FInv, DataInv, AllFollow, Follows
<1>4. AllSane'
  BY <1>1 DEF FInv, DataInv, AllSane, UpdateOK
<1>5. AllFollow'
  <2>1. Follows(o)'
    BY <1>1, <1>2, <1>3 DEF Follows, UpdateOK
  <2>2. ASSUME NEW p \in Ops \ {o} PROVE Follows(p)'
    BY <1>1 DEF Follows, FInv, DataInv, AllFollow
  <2> QED
    BY <2>1, <2>2 DEF AllFollow
<1>6. AllKept'
  <2>1. Kept(o)'
    BY <1>1, <1>2, <1>3 DEF Kept, UpdateOK, SnapshotsOK
  <2>2. ASSUME NEW p \in Ops \ {o} PROVE Kept(p)'
    BY <1>1 DEF Kept, SnapshotsOK, FInv, DataInv, AllKept
  <2> QED
    BY <2>1, <2>2 DEF AllKept
<1>7. TerminalIsDurable'
  <2>1. Terminal(rec'[o]) => jrn'[o] = rec'[o]
    BY <1>1 DEF FInv, IInv, TypeOK, Terminal
  <2> QED
    BY <1>1, <2>1 DEF TerminalIsDurable, FInv, DataInv, Terminal
<1>8. PreparedKnown'
  <2>1. rec'[o].state = "prepared" => Exists(jrn'[o])
    BY <1>1 DEF UpdateOK, Exists, FInv, IInv, TypeOK
  <2> QED
    BY <1>1, <2>1 DEF PreparedKnown, FInv, DataInv, Exists
<1>9. NeedsKnown'
  <2>1. rec'[o].needs => Exists(jrn'[o])
    BY <1>1 DEF UpdateOK, Exists, FInv, IInv, TypeOK
  <2> QED
    BY <1>1, <2>1 DEF NeedsKnown, FInv, DataInv, Exists
<1> QED
  BY <1>4, <1>5, <1>6, <1>7, <1>8, <1>9 DEF DataInv

\* SetState on an operation whose materials are there.
LEMMA SetStateData ==
  ASSUME FInv, proc # "down", pc \notin PrepPcs, NEW o \in Ops,
         NEW r \in Records, NEW s \in States \ {"absent", "prepared"},
         NEW res \in Results, SetState(o, r, s, res),
         r.old = rec[o].old, r.new = rec[o].new, ~r.exp, ~rec[o].exp,
         Exists(jrn[o]) \/ (SnapshotsOK(o, rec[o]) /\ ~r.needs),
         s = "confirmed" => r.sp /\ r.ra /\ r.ver,
         s = "rolled_back" => ~r.sp /\ ~r.ra /\ r.ver,
         file' = file, gate' = gate
  PROVE  /\ DataInv'
         /\ \E u \in Records :
               /\ rec' = [rec EXCEPT ![o] = u] /\ Alike(u, r)
               /\ u.state = IF res = "ok" THEN s ELSE "outcome_unknown"
         /\ Exists(jrn[o]) \/ res = "ok" => Exists(jrn'[o])
<1>1. PICK u \in Records, w \in Records :
            /\ Alike(u, r) /\ Alike(w, r)
            /\ w.state = s
            /\ u.state = IF res = "ok" THEN s ELSE "outcome_unknown"
            /\ res = "ok" => u = w
            /\ rec' = [rec EXCEPT ![o] = u]
            /\ \/ jrn' = [jrn EXCEPT ![o] = w]
               \/ res # "ok" /\ jrn' = jrn
  BY SetStateRecords DEF FInv, IInv
<1>2. Sane(u) /\ Sane(w)
  BY <1>1 DEF Sane, Alike
<1>3. UpdateOK(o, u, w)
  BY <1>1, <1>2 DEF UpdateOK, Alike, Exists
<1>4. res # "ok" => ~Terminal(u) /\ u.state # "prepared"
  BY <1>1 DEF Terminal, TerminalStates
<1>5. ~Exists(jrn[o]) => ~u.needs
  BY <1>1, <1>3 DEF UpdateOK
<1>6. DataInv'
  BY <1>1, <1>3, <1>4, <1>5, UpdateData
<1>7. Exists(jrn[o]) \/ res = "ok" => Exists(jrn'[o])
  BY <1>1 DEF Exists, FInv, IInv, TypeOK
<1> QED
  BY <1>1, <1>6, <1>7

-----------------------------------------------------------------------------
(* Steps by what they do to threads *)

LEMMA PcsKnown ==
  /\ WorkerPcs \cap (PrepPcs \cup OpenPcs \cup DeletePcs \cup {"idle"}) = {}
  /\ PrepPcs \cup OpenPcs \cup DeletePcs = HandlerLocked
  /\ PrepPcs \cap OpenPcs = {} /\ PrepPcs \cap DeletePcs = {} /\ OpenPcs \cap DeletePcs = {}
  /\ "idle" \notin HandlerLocked
  /\ ApplyPcs \subseteq WorkerPcs /\ RestorePcs \subseteq WorkerPcs
  /\ HandlerLocked \subseteq LockedPcs
BY DEF WorkerPcs, HookPcs, ApplyHooks, RollbackHooks, ReturnPcs, ApplyReturns,
       RollbackReturns, WorkerLocked, HandlerLocked, LockedPcs, PrepPcs, OpenPcs,
       DeletePcs, ApplyPcs, RestorePcs

\* A handler that takes e.mu finds nobody inside it.
LEMMA LockFreePcs ==
  ASSUME TypeOK, LockFree
  PROVE  /\ pc \notin PrepPcs /\ pc \notin OpenPcs /\ pc \notin DeletePcs
         /\ ~Running => pc = "idle"
BY PcsKnown DEF TypeOK, LockFree, Running, Pcs

\* Steps that leave the records and the snapshots alone.
LEMMA QuietData ==
  ASSUME FInv, UNCHANGED <<file, jrn, rec, gate>>,
         proc # "down" \/ proc' = proc,
         pc \notin PrepPcs \/ UNCHANGED <<pc, job>>
  PROVE  DataInv'
<1>1. AllSane' /\ NeedsKnown'
  BY DEF FInv, DataInv, AllSane, NeedsKnown
<1>2. AllFollow' /\ TerminalIsDurable'
  BY DEF FInv, DataInv, AllFollow, Follows, TerminalIsDurable
<1>3. AllKept'
  BY DEF FInv, DataInv, AllKept, Kept, SnapshotsOK
<1>4. PreparedKnown'
  BY DEF FInv, DataInv, PreparedKnown, Op
<1> QED
  BY <1>1, <1>2, <1>3, <1>4 DEF DataInv

\* Steps of the world around a thread.
LEMMA QuietControl ==
  ASSUME FInv, UNCHANGED <<file, jrn, rec, active, pc, job>>,
         \/ proc' = proc
         \/ proc # "down" /\ proc' \in {"attached", "closing"} /\ pc \notin OpenPcs
  PROVE  ControlInv'
<1>1. Reserved' /\ Opening' /\ Deleting' /\ Leased' /\ GateUsed' /\ Undoing'
  BY DEF FInv, ControlInv, Reserved, Opening, Deleting, Leased, GateUsed, Undoing,
         UndoLook, Op, Exists, Unfinished
<1>2. KindsFit' /\ FactsCollected' /\ RefusedUndoKeepsHistory'
  BY DEF FInv, ControlInv, KindsFit, FactsCollected, RefusedUndoKeepsHistory, Op,
         Terminal
<1> QED
  BY <1>1, <1>2 DEF ControlInv

\* Nobody works.
LEMMA IdleControl ==
  ASSUME pc' = "idle", job'.kind = "none", GateUsed'
  PROVE  ControlInv'
BY PcsKnown DEF ControlInv, Reserved, Opening, Deleting, Leased, KindsFit, KindsAt,
       Undoing, FactsCollected, FactsAt, RefusedUndoKeepsHistory, PrepPcs, OpenPcs,
       DeletePcs, RestorePcs, ApplyPcs

\* A worker goes on.
LEMMA WorkerControl ==
  ASSUME FInv, pc \in WorkerPcs, pc' \in WorkerPcs,
         proc' = proc \/ proc' = "closing",
         job'.op = Op, job'.orig = job.orig,
         job'.kind = job.kind \/ job'.kind # "undo",
         rec'[Op].old = rec[Op].old, rec'[Op].new = rec[Op].new,
         Exists(jrn'[Op]), rec'[Op].state # "prepared", ~UndoLook',
         pc' # "exit" => Unfinished(rec'[Op]),
         RefusedUndoKeepsHistory',
         KindsAt(pc', job'.kind), FactsAt(pc', rec'[Op])
  PROVE  ControlInv'
<1>1. Reserved' /\ Opening' /\ Deleting' /\ GateUsed'
  BY PcsKnown DEF Reserved, Opening, Deleting, GateUsed
<1>2. Leased' /\ KindsFit' /\ FactsCollected'
  BY DEF FInv, ControlInv, Leased, KindsFit, FactsCollected, Op, Exists, Unfinished
<1>3. Undoing'
  BY DEF FInv, ControlInv, Undoing, Op
<1> QED
  BY <1>1, <1>2, <1>3 DEF ControlInv

\* What FInv says of a worker at work.
LEMMA WorkerKnows ==
  ASSUME FInv, pc \in WorkerPcs
  PROVE  /\ Op \in Ops /\ active = Op /\ proc # "down" /\ pc \notin PrepPcs
         /\ TypeOK /\ rec[Op] \in Records /\ jrn[Op] \in Records
         /\ rec[Op].old \in Versions /\ rec[Op].new \in Versions
         /\ job \in Jobs
         /\ Exists(jrn[Op]) /\ Exists(rec[Op]) /\ rec[Op].state # "prepared"
         /\ KindsAt(pc, job.kind) /\ FactsAt(pc, rec[Op])
         /\ pc # "exit" => ~rec[Op].exp
         /\ pc # "exit" /\ ~UndoLook => Unfinished(rec[Op])
<1>1. /\ Op \in Ops /\ active = Op /\ proc # "down" /\ TypeOK /\ rec[Op] \in Records
      /\ jrn[Op] \in Records /\ job \in Jobs
  BY WorkerPcsBusy, WorkerFacts DEF FInv, IInv, TypeOK
<1>2. /\ Exists(jrn[Op]) /\ rec[Op].state # "prepared" /\ KindsAt(pc, job.kind)
      /\ FactsAt(pc, rec[Op])
      /\ pc # "exit" /\ ~UndoLook => Unfinished(rec[Op])
  BY DEF FInv, ControlInv, Leased, KindsFit, FactsCollected
<1>3. Exists(rec[Op])
  BY <1>1, <1>2 DEF FInv, DataInv, AllFollow, Follows
<1>4. ASSUME pc # "exit" PROVE ~rec[Op].exp
  <2>1. CASE UndoLook
    BY <2>1 DEF UndoLook, FInv, ControlInv, Undoing
  <2>2. CASE ~UndoLook
    BY <1>1, <1>2, <1>4, <2>2, StatesKnown
       DEF FInv, DataInv, AllSane, Sane, Terminal, Unfinished
  <2> QED
    BY <2>1, <2>2
<1> QED
  BY <1>1, <1>2, <1>3, <1>4, PcsKnown DEF Records

\* A worker records a state of its operation and goes on.
LEMMA WorkerRecordsFacts ==
  ASSUME FInv, pc \in WorkerPcs \ {"exit"}, WorkerFrame, UNCHANGED <<file, job>>,
         pc' \in WorkerPcs, ~UndoLook',
         NEW r \in Records, NEW s \in States \ {"absent", "prepared"},
         NEW res \in Results, SetState(Op, r, s, res),
         r.old = rec[Op].old, r.new = rec[Op].new, ~r.exp,
         s = "confirmed" => r.sp /\ r.ra /\ r.ver,
         s = "rolled_back" => ~r.sp /\ ~r.ra /\ r.ver,
         pc' # "exit" => s \in UnfinishedStates \/ res # "ok",
         pc' = "exit" /\ job.kind = "undo" => s \in UnfinishedStates \cup {"rolled_back"},
         KindsAt(pc', job.kind), FactsAt(pc', r)
  PROVE  DataInv' /\ ControlInv'
<1>1. /\ Op \in Ops /\ active = Op /\ proc # "down" /\ pc \notin PrepPcs
      /\ TypeOK /\ Exists(jrn[Op]) /\ ~rec[Op].exp
  BY WorkerKnows
<1>2. /\ DataInv' /\ Exists(jrn'[Op])
      /\ \E u \in Records :
               /\ rec' = [rec EXCEPT ![Op] = u] /\ Alike(u, r)
               /\ u.state = IF res = "ok" THEN s ELSE "outcome_unknown"
  BY <1>1, SetStateData DEF WorkerFrame
<1>3. PICK u \in Records :
               /\ rec' = [rec EXCEPT ![Op] = u] /\ Alike(u, r)
               /\ u.state = IF res = "ok" THEN s ELSE "outcome_unknown"
  BY <1>2
<1>4. rec'[Op] = u
  BY <1>1, <1>3 DEF TypeOK
<1>5. u.old = rec[Op].old /\ u.new = rec[Op].new /\ FactsAt(pc', u)
  BY <1>3 DEF Alike, FactsAt
<1>6. u.state # "prepared" /\ (pc' # "exit" => Unfinished(u))
  BY <1>3 DEF Unfinished, UnfinishedStates
<1>7. RefusedUndoKeepsHistory'
  <2>1. pc' = "exit" /\ job.kind = "undo" => ~Terminal(u) \/ u.state = "rolled_back"
    BY <1>3, StatesKnown DEF Terminal, UnfinishedStates, TerminalStates
  <2> QED
    BY <1>4, <2>1 DEF RefusedUndoKeepsHistory, Op, Terminal
<1> QED
  BY <1>2, <1>4, <1>5, <1>6, <1>7, WorkerControl DEF Op, WorkerFrame

\* A worker goes on and leaves the records alone.
LEMMA WorkerMovesFacts ==
  ASSUME FInv, pc \in WorkerPcs, UNCHANGED <<file, job, jrn, rec, gate, proc>>,
         pc' \in WorkerPcs, ~UndoLook',
         pc' # "exit" => Unfinished(rec[Op]),
         pc' = "exit" /\ job.kind = "undo" => UndoLook,
         KindsAt(pc', job.kind), FactsAt(pc', rec[Op])
  PROVE  DataInv' /\ ControlInv'
<1>1. proc # "down" /\ pc \notin PrepPcs /\ rec[Op].state # "prepared" /\ Exists(jrn[Op])
  BY WorkerKnows
<1>2. DataInv'
  BY <1>1, QuietData
<1>3. RefusedUndoKeepsHistory'
  <2>1. pc' = "exit" /\ job.kind = "undo" => rec[Op] = job.orig /\ jrn[Op] = job.orig
    BY DEF FInv, ControlInv, Undoing, UndoLook
  <2> QED
    BY <2>1 DEF RefusedUndoKeepsHistory, Op
<1> QED
  BY <1>1, <1>2, <1>3, WorkerControl DEF Op

\* A worker changes a fact of its unfinished record, or saves the record.
LEMMA WorkerSavesFacts ==
  ASSUME FInv, pc \in WorkerPcs \ {"exit"}, WorkerFrame, UNCHANGED <<file, job>>,
         pc' \in WorkerPcs \ {"exit"}, ~UndoLook, ~UndoLook',
         NEW u \in Records, rec' = [rec EXCEPT ![Op] = u],
         jrn' = jrn \/ jrn' = [jrn EXCEPT ![Op] = u],
         u.state = rec[Op].state, u.old = rec[Op].old, u.new = rec[Op].new, ~u.exp,
         KindsAt(pc', job.kind), FactsAt(pc', u)
  PROVE  DataInv' /\ ControlInv'
<1>1. /\ Op \in Ops /\ active = Op /\ proc # "down" /\ pc \notin PrepPcs
      /\ TypeOK /\ Exists(jrn[Op]) /\ ~rec[Op].exp /\ Unfinished(rec[Op])
      /\ rec[Op].state # "prepared"
  BY WorkerKnows
<1>2. ~Terminal(u) /\ Exists(u) /\ Unfinished(u) /\ u.state # "prepared"
  BY <1>1, StatesKnown DEF Terminal, Unfinished, Exists, UnfinishedStates
<1>3. Sane(u)
  BY <1>2 DEF Sane, Terminal, TerminalStates, Exists
<1>4. UpdateOK(Op, u, u)
  BY <1>1, <1>2, <1>3 DEF UpdateOK
<1>5. DataInv'
  BY <1>1, <1>2, <1>4, UpdateData DEF WorkerFrame
<1>6. rec'[Op] = u /\ Exists(jrn'[Op])
  BY <1>1, <1>2 DEF TypeOK, Exists
<1>7. RefusedUndoKeepsHistory'
  BY DEF RefusedUndoKeepsHistory
<1> QED
  BY <1>2, <1>5, <1>6, <1>7, WorkerControl DEF Op, WorkerFrame

-----------------------------------------------------------------------------
(* The apply worker *)

\* applyWorker after Check.
LEMMA ApplyCheckedFacts ==
  ASSUME FInv, NEW res \in Results, ApplyChecked(res) PROVE DataInv' /\ ControlInv'
<1>1. /\ pc = "a_checked" /\ WorkerFrame /\ UNCHANGED <<store, file, job, cur>>
      /\ pc' \in {"exit", "a_write"} /\ UNCHANGED <<gate, proc>>
  BY DEF ApplyChecked, Goto, WorkerFrame
<1>2. /\ pc \in WorkerPcs \ {"exit"} /\ pc' \in WorkerPcs /\ pc \in ApplyPcs
  BY <1>1, WorkerPcsBusy DEF ApplyPcs, ApplyReturns
<1>3. /\ job.kind = "apply" /\ rec[Op] \in Records /\ ~rec[Op].exp
      /\ KindsAt(pc', job.kind) /\ Unfinished(rec[Op])
      /\ ~UndoLook /\ ~UndoLook' /\ FactsAt(pc', rec[Op])
  BY <1>1, <1>2, WorkerKnows
     DEF KindsAt, UndoLook, FactsAt, RollbackPcs, RestorePcs
<1>4. CASE ret.err \/ late[Op] \/ abort
  <2>1. PICK s \in {"cancelled", "conflict"} : SetState(Op, rec[Op], s, res)
    BY <1>4 DEF ApplyChecked
  <2>2. pc' = "exit"
    BY <1>4 DEF ApplyChecked, Goto
  <2> QED
    BY <1>1, <1>2, <1>3, <2>1, <2>2, StatesKnown, WorkerRecordsFacts DEF TerminalStates
<1>5. CASE ~(ret.err \/ late[Op] \/ abort)
  <2>1. UNCHANGED <<jrn, rec, active, faults>>
    BY <1>5 DEF ApplyChecked
  <2> QED
    BY <1>1, <1>2, <1>3, <2>1, WorkerMovesFacts
<1> QED
  BY <1>4, <1>5

\* applyWorker replaces the Store.
LEMMA ApplyWriteFacts ==
  ASSUME FInv, NEW res \in Results, ApplyWrite(res) PROVE DataInv' /\ ControlInv'
<1>1. /\ pc = "a_write" /\ WorkerFrame /\ UNCHANGED <<file, job, ctx, ret, cur>>
      /\ UNCHANGED <<gate, proc>> /\ pc' \in {"exit", "a_save", "a_unknown"}
  BY DEF ApplyWrite, WorkerFrame, Goto
<1>2. /\ pc \in WorkerPcs \ {"exit"} /\ pc' \in WorkerPcs /\ pc \in ApplyPcs
  BY <1>1, WorkerPcsBusy DEF ApplyPcs
<1>3. /\ job.kind = "apply" /\ rec[Op] \in Records /\ ~rec[Op].exp
      /\ KindsAt(pc', job.kind) /\ Unfinished(rec[Op])
      /\ ~UndoLook /\ ~UndoLook' /\ rec \in [Ops -> Records] /\ Op \in Ops
  BY <1>1, <1>2, WorkerKnows
     DEF KindsAt, UndoLook, RollbackPcs, RestorePcs, TypeOK
<1>4. CASE store # rec[Op].old
  <2>1. SetState(Op, rec[Op], "conflict", res) /\ pc' = "exit"
    BY <1>4 DEF ApplyWrite, Goto
  <2>2. FactsAt(pc', rec[Op])
    BY <2>1 DEF FactsAt, RestorePcs
  <2> QED
    BY <1>1, <1>2, <1>3, <2>1, <2>2, StatesKnown, WorkerRecordsFacts DEF TerminalStates
<1>5. CASE store = rec[Op].old
  <2>1. /\ rec' = IF res = "ok" THEN [rec EXCEPT ![Op].sp = TRUE] ELSE rec
        /\ pc' = IF res = "ok" THEN "a_save" ELSE "a_unknown"
        /\ UNCHANGED <<jrn, active>>
    BY <1>5 DEF ApplyWrite, Goto
  <2>2. CASE res = "ok"
    <3> DEFINE u == [rec[Op] EXCEPT !.sp = TRUE]
    <3>1. /\ u \in Records /\ u.state = rec[Op].state /\ u.sp /\ ~u.exp
          /\ u.old = rec[Op].old /\ u.new = rec[Op].new
      BY <1>3, FactsAlike
    <3>2. rec' = [rec EXCEPT ![Op] = u] /\ pc' = "a_save"
      BY <2>1, <2>2
    <3> HIDE DEF u
    <3>3. FactsAt(pc', u)
      BY <3>1, <3>2 DEF FactsAt, RestorePcs
    <3> QED
      BY <1>1, <1>2, <1>3, <2>1, <3>1, <3>2, <3>3, WorkerSavesFacts
  <2>3. CASE res # "ok"
    <3>1. rec' = rec /\ FactsAt(pc', rec[Op]) /\ pc' # "exit"
      BY <2>1, <2>3 DEF FactsAt, RestorePcs
    <3> QED
      BY <1>1, <1>2, <1>3, <2>1, <3>1, WorkerMovesFacts
  <2> QED
    BY <2>2, <2>3
<1> QED
  BY <1>4, <1>5

\* applyWorker saves the record of the written Store.
LEMMA ApplySaveFacts ==
  ASSUME FInv, NEW res \in Results, ApplySave(res) PROVE DataInv' /\ ControlInv'
<1>1. /\ pc = "a_save" /\ WorkerFrame /\ UNCHANGED <<store, file, active, job, cur>>
      /\ Save(Op, rec[Op], res)
  BY DEF ApplySave
<1>2. pc' \in {"a_apply", "a_unknown"}
  <2>1. EnterApplyPhase("a_apply") \/ Goto("a_unknown")
    BY DEF ApplySave
  <2> QED
    BY <2>1, PhaseTyped DEF Goto
<1>3. /\ pc \in WorkerPcs \ {"exit"} /\ pc' \in WorkerPcs \ {"exit"} /\ pc \in ApplyPcs
  BY <1>1, <1>2, WorkerPcsBusy DEF ApplyPcs
<1>4. /\ job.kind = "apply" /\ rec[Op] \in Records /\ ~rec[Op].exp
      /\ KindsAt(pc', job.kind) /\ FactsAt(pc', rec[Op])
      /\ ~UndoLook /\ ~UndoLook' /\ rec \in [Ops -> Records] /\ Op \in Ops
  BY <1>1, <1>2, <1>3, WorkerKnows
     DEF KindsAt, FactsAt, UndoLook, RollbackPcs, RestorePcs, TypeOK
<1>5. /\ rec' = [rec EXCEPT ![Op] = rec[Op]]
      /\ jrn' = jrn \/ jrn' = [jrn EXCEPT ![Op] = rec[Op]]
  BY <1>1 DEF Save, WriteJournal
<1> QED
  BY <1>1, <1>3, <1>4, <1>5, WorkerSavesFacts

\* applyWorker records an unknown outcome.
LEMMA ApplyUnknownFacts ==
  ASSUME FInv, NEW res \in Results, ApplyUnknown(res) PROVE DataInv' /\ ControlInv'
<1>1. /\ pc = "a_unknown" /\ pc' = "r_start" /\ WorkerFrame
      /\ UNCHANGED <<store, file, job, ctx, ret, cur>>
      /\ SetState(Op, rec[Op], "outcome_unknown", res)
  BY DEF ApplyUnknown, Goto
<1>2. pc \in WorkerPcs \ {"exit"} /\ pc' \in WorkerPcs /\ pc \in ApplyPcs
  BY <1>1, WorkerPcsBusy DEF ApplyPcs
<1>3. /\ job.kind = "apply" /\ rec[Op] \in Records /\ ~rec[Op].exp
      /\ KindsAt(pc', job.kind) /\ FactsAt(pc', rec[Op]) /\ ~UndoLook'
  BY <1>1, <1>2, WorkerKnows, WorkerPcsBusy
     DEF KindsAt, FactsAt, UndoLook, RollbackPcs, RestorePcs, ApplyPcs, ApplyHooks, ApplyReturns
<1> QED
  BY <1>1, <1>2, <1>3, StatesKnown, WorkerRecordsFacts DEF UnfinishedStates

\* Facts of an apply worker that hold wherever it goes.
LEMMA ApplyKnows ==
  ASSUME FInv, pc \in ApplyPcs,
         pc' \in ApplyPcs \cup {"r_start", "exit"}, UNCHANGED job
  PROVE  /\ pc \in WorkerPcs \ {"exit"} /\ pc' \in WorkerPcs
         /\ job.kind = "apply" /\ KindsAt(pc', job.kind)
         /\ rec[Op] \in Records /\ ~rec[Op].exp /\ Unfinished(rec[Op])
         /\ ~UndoLook /\ ~UndoLook'
         /\ FactsAt(pc, rec[Op])
<1>1. /\ pc \in WorkerPcs \ {"exit"} /\ pc' \in WorkerPcs
  BY WorkerPcsBusy DEF ApplyPcs, ApplyHooks, ApplyReturns
<1>2. job.kind = "apply" /\ KindsAt(pc', job.kind)
  BY <1>1, WorkerKnows DEF KindsAt, RollbackPcs, RestorePcs, ApplyPcs, ApplyHooks, ApplyReturns
<1> QED
  BY <1>1, <1>2, WorkerKnows DEF UndoLook

\* applyWorker after Apply.
LEMMA ApplyAppliedFacts ==
  ASSUME FInv, NEW res \in Results, ApplyApplied(res) PROVE DataInv' /\ ControlInv'
<1>1. /\ pc = "a_applied" /\ WorkerFrame /\ UNCHANGED <<store, file, job, cur>>
      /\ UNCHANGED <<gate, proc>>
  BY DEF ApplyApplied, WorkerFrame
<1>2. CASE ret.err \/ ret.cancelled \/ abort
  <2>1. pc' = "a_unknown" /\ UNCHANGED <<jrn, rec, active, faults>>
    BY <1>2 DEF ApplyApplied, Goto
  <2>2. pc \in ApplyPcs /\ pc' \in ApplyPcs /\ FactsAt(pc', rec[Op]) /\ pc' # "exit"
    BY <1>1, <2>1 DEF ApplyPcs, ApplyReturns, FactsAt, RestorePcs
  <2> QED
    BY <1>1, <2>1, <2>2, ApplyKnows, WorkerMovesFacts
<1>3. CASE ~(ret.err \/ ret.cancelled \/ abort)
  <2> DEFINE r == [rec[Op] EXCEPT !.ra = TRUE]
  <2>1. /\ SetState(Op, r, "verifying", res)
        /\ IF res = "ok" THEN EnterApplyPhase("a_verify") ELSE Goto("r_start")
    BY <1>3 DEF ApplyApplied
  <2>2. pc' = IF res = "ok" THEN "a_verify" ELSE "r_start"
    BY <2>1, PhaseTyped DEF Goto
  <2>3. pc \in ApplyPcs /\ pc' \in ApplyPcs \cup {"r_start", "exit"} /\ pc' # "exit"
    BY <1>1, <2>2 DEF ApplyPcs, ApplyReturns, ApplyHooks
  <2>4. /\ rec[Op] \in Records /\ FactsAt(pc, rec[Op]) /\ ~rec[Op].exp
    BY <1>1, <2>3, ApplyKnows
  <2>5. rec[Op].sp
    BY <1>1, <2>4 DEF FactsAt
  <2>6. /\ r \in Records /\ r.old = rec[Op].old /\ r.new = rec[Op].new /\ ~r.exp
        /\ r.ra /\ r.sp
    BY <2>4, <2>5 DEF Records
  <2> HIDE DEF r
  <2>7. FactsAt(pc', r)
    BY <2>2, <2>6 DEF FactsAt, RestorePcs
  <2>8. "verifying" \in UnfinishedStates /\ "verifying" \in States \ {"absent", "prepared"}
    BY StatesKnown DEF UnfinishedStates
  <2> QED
    BY <1>1, <2>1, <2>3, <2>6, <2>7, <2>8, ApplyKnows, WorkerRecordsFacts
<1> QED
  BY <1>2, <1>3

\* applyWorker after Verify: only a record with every fact is confirmed.
LEMMA ApplyVerifiedFacts ==
  ASSUME FInv, NEW res \in Results, ApplyVerified(res) PROVE DataInv' /\ ControlInv'
<1>1. /\ pc = "a_verified" /\ WorkerFrame /\ UNCHANGED <<store, file, job, cur>>
      /\ UNCHANGED <<gate, proc>>
  BY DEF ApplyVerified, WorkerFrame
<1>2. CASE ret.err \/ ret.cancelled \/ abort \/ store # rec[Op].new
  <2>1. pc' = "a_unknown" /\ UNCHANGED <<jrn, rec, active, faults>>
    BY <1>2 DEF ApplyVerified, Goto
  <2>2. pc \in ApplyPcs /\ pc' \in ApplyPcs /\ FactsAt(pc', rec[Op]) /\ pc' # "exit"
    BY <1>1, <2>1 DEF ApplyPcs, ApplyReturns, FactsAt, RestorePcs
  <2> QED
    BY <1>1, <2>1, <2>2, ApplyKnows, WorkerMovesFacts
<1>3. CASE ~(ret.err \/ ret.cancelled \/ abort \/ store # rec[Op].new)
  <2> DEFINE r == [rec[Op] EXCEPT !.ver = TRUE]
  <2>1. /\ SetState(Op, r, "confirmed", res)
        /\ pc' = IF res = "ok" THEN "exit" ELSE "r_start"
    BY <1>3 DEF ApplyVerified, Goto
  <2>3. pc \in ApplyPcs /\ pc' \in ApplyPcs \cup {"r_start", "exit"}
    BY <1>1, <2>1 DEF ApplyPcs, ApplyReturns, ApplyHooks
  <2>4. rec[Op] \in Records /\ FactsAt(pc, rec[Op]) /\ ~rec[Op].exp /\ job.kind = "apply"
    BY <1>1, <2>3, ApplyKnows
  <2>5. rec[Op].sp /\ rec[Op].ra
    BY <1>1, <2>4 DEF FactsAt
  <2>6. /\ r \in Records /\ r.old = rec[Op].old /\ r.new = rec[Op].new /\ ~r.exp
        /\ r.ver /\ r.ra /\ r.sp
    BY <2>4, <2>5 DEF Records
  <2> HIDE DEF r
  <2>7. FactsAt(pc', r)
    BY <2>1 DEF FactsAt, RestorePcs
  <2>8. "confirmed" \in States \ {"absent", "prepared"}
    BY StatesKnown DEF TerminalStates
  <2> QED
    BY <1>1, <2>1, <2>3, <2>4, <2>6, <2>7, <2>8, ApplyKnows, WorkerRecordsFacts
<1> QED
  BY <1>2, <1>3

-----------------------------------------------------------------------------
(* The rollback worker *)

\* Facts of a rollback worker that hold wherever it goes.
LEMMA RollbackKnows ==
  ASSUME FInv, pc \in RollbackPcs, pc' \in RollbackPcs \cup {"exit"}, UNCHANGED job
  PROVE  /\ pc \in WorkerPcs \ {"exit"} /\ pc' \in WorkerPcs
         /\ pc' \notin {"r_check", "r_checked"} \/ job.kind # "undo"
               => KindsAt(pc', job.kind)
         /\ rec[Op] \in Records /\ ~rec[Op].exp
         /\ pc # "r_begin" \/ job.kind # "undo" => ~UndoLook /\ Unfinished(rec[Op])
         /\ pc' # "r_begin" \/ job.kind # "undo" => ~UndoLook'
         /\ KindsAt(pc, job.kind) /\ FactsAt(pc, rec[Op])
<1>1. /\ pc \in WorkerPcs \ {"exit"} /\ pc' \in WorkerPcs
  BY WorkerPcsBusy DEF RollbackPcs, RestorePcs
<1>2. KindsAt(pc, job.kind)
  BY <1>1, WorkerKnows
<1>3. pc' \notin {"r_check", "r_checked"} \/ job.kind # "undo" => KindsAt(pc', job.kind)
  BY <1>1, <1>2
     DEF KindsAt, RollbackPcs, RestorePcs, ApplyPcs, ApplyHooks, ApplyReturns
<1>4. pc # "r_begin" \/ job.kind # "undo" => ~UndoLook
  BY DEF UndoLook, RollbackPcs, RestorePcs
<1>5. pc' # "r_begin" \/ job.kind # "undo" => ~UndoLook'
  BY DEF UndoLook, RollbackPcs, RestorePcs
<1> QED
  BY <1>1, <1>2, <1>3, <1>4, <1>5, WorkerKnows

\* rollbackWorker begins.
LEMMA RollbackStartFacts ==
  ASSUME FInv, RollbackStart PROVE DataInv' /\ ControlInv'
<1>1. /\ pc = "r_start" /\ pc' = "r_check"
      /\ UNCHANGED <<file, jrn, rec, gate, proc>>
      /\ job' = [job EXCEPT !.kind = IF @ = "apply" THEN "rollback" ELSE @]
  BY PhaseTyped DEF RollbackStart, durable, memory
<1>2. pc \in WorkerPcs /\ pc' \in WorkerPcs
  BY <1>1, WorkerPcsBusy
<1>3. /\ job \in Jobs /\ KindsAt(pc, job.kind) /\ Unfinished(rec[Op])
      /\ Exists(jrn[Op]) /\ rec[Op].state # "prepared" /\ proc # "down"
      /\ pc \notin PrepPcs
  BY <1>1, <1>2, WorkerKnows DEF UndoLook
<1>4. /\ job'.op = Op /\ job'.orig = job.orig
      /\ job'.kind = IF job.kind = "apply" THEN "rollback" ELSE job.kind
  BY <1>1, <1>3 DEF Jobs, Op
<1>5. /\ job'.kind # "none" /\ job'.kind # "apply" /\ job'.kind # "undo"
  BY <1>1, <1>2, <1>3, <1>4 DEF KindsAt
<1>8. KindsAt(pc', job'.kind) /\ ~UndoLook' /\ FactsAt(pc', rec[Op])
  BY <1>1, <1>2, <1>5 DEF KindsAt, UndoLook, FactsAt, RestorePcs, ApplyPcs,
     ApplyHooks, ApplyReturns
<1>6. DataInv'
  BY <1>1, <1>3, QuietData
<1>7. RefusedUndoKeepsHistory'
  BY <1>1 DEF RefusedUndoKeepsHistory
<1> QED
  BY <1>1, <1>2, <1>3, <1>4, <1>5, <1>6, <1>7, <1>8, WorkerControl

\* rollbackWorker after Check.
LEMMA RollbackCheckedFacts ==
  ASSUME FInv, NEW res \in Results, RollbackChecked(res) PROVE DataInv' /\ ControlInv'
<1>1. /\ pc = "r_checked" /\ WorkerFrame /\ UNCHANGED <<store, file, job, cur>>
      /\ UNCHANGED <<gate, proc>> /\ pc' = IF ret.err THEN "exit" ELSE "r_begin"
  BY DEF RollbackChecked, WorkerFrame, Goto
<1>2. /\ pc \in RollbackPcs /\ pc' \in RollbackPcs \cup {"exit"}
      /\ FactsAt(pc', rec[Op])
  BY <1>1 DEF RollbackPcs, FactsAt, RestorePcs
<1>3. job.kind # "undo" /\ KindsAt(pc', job.kind)
  BY <1>1, <1>2, RollbackKnows DEF KindsAt
<1>4. CASE ret.err
  <2>1. SetState(Op, rec[Op], "rollback_failed", res)
    BY <1>4 DEF RollbackChecked
  <2> QED
    BY <1>1, <1>2, <1>3, <2>1, RollbackKnows, StatesKnown, WorkerRecordsFacts
       DEF UnfinishedStates
<1>5. CASE ~ret.err
  <2>1. UNCHANGED <<jrn, rec, active, faults>>
    BY <1>5 DEF RollbackChecked
  <2> QED
    BY <1>1, <1>2, <1>3, <1>5, <2>1, RollbackKnows, WorkerMovesFacts
<1> QED
  BY <1>4, <1>5

\* The preflight of an undo.
LEMMA UndoCheckedFacts == ASSUME FInv, UndoChecked PROVE DataInv' /\ ControlInv'
<1>1. /\ pc = "u_checked" /\ UNCHANGED <<file, job, jrn, rec, gate, proc>>
      /\ pc' \in {"exit", "r_begin"}
  BY DEF UndoChecked, durable, memory, Goto
<1>2. pc \in WorkerPcs \ {"exit"} /\ pc' \in WorkerPcs
  BY <1>1, WorkerPcsBusy
<1>3. /\ job.kind = "undo" /\ UndoLook /\ KindsAt(pc', job.kind) /\ FactsAt(pc', rec[Op])
      /\ proc # "down" /\ pc \notin PrepPcs
  BY <1>1, <1>2, WorkerKnows
     DEF KindsAt, UndoLook, FactsAt, RestorePcs, ApplyPcs, ApplyHooks, ApplyReturns
<1>4. CASE pc' = "exit"
  <2>1. ~UndoLook'
    BY <1>4 DEF UndoLook
  <2> QED
    BY <1>1, <1>2, <1>3, <1>4, <2>1, WorkerMovesFacts
<1>5. CASE pc' = "r_begin"
  <2>1. DataInv'
    BY <1>1, <1>3, QuietData
  <2>2. Undoing'
    BY <1>1, <1>2, <1>3 DEF Undoing, FInv, ControlInv, Op
  <2>3. Leased' /\ KindsFit' /\ FactsCollected' /\ RefusedUndoKeepsHistory'
    BY <1>1, <1>2, <1>3, <1>5 DEF FInv, ControlInv, Leased, KindsFit, FactsCollected,
       RefusedUndoKeepsHistory, UndoLook, Op, Exists, Unfinished
  <2>4. Reserved' /\ Opening' /\ Deleting' /\ GateUsed'
    BY <1>2, PcsKnown DEF Reserved, Opening, Deleting, GateUsed
  <2> QED
    BY <2>1, <2>2, <2>3, <2>4 DEF ControlInv
<1> QED
  BY <1>1, <1>4, <1>5

\* rollbackAfterCheck up to the intent.
LEMMA RollbackBeginFacts ==
  ASSUME FInv, NEW res \in Results, RollbackBegin(res) PROVE DataInv' /\ ControlInv'
<1>1. /\ pc = "r_begin" /\ WorkerFrame /\ UNCHANGED <<store, file, job, ctx, ret>>
      /\ UNCHANGED <<gate, proc>>
  BY DEF RollbackBegin, WorkerFrame
<1>2. CASE store = rec[Op].new \/ (store = rec[Op].old /\ job.kind # "undo")
  <2> DEFINE r == [rec[Op] EXCEPT !.ver = FALSE]
  <2>1. /\ SetState(Op, r, "rolling_back", res)
        /\ pc' = IF res # "ok" /\ job.kind = "undo" THEN "exit" ELSE "r_write"
    BY <1>2 DEF RollbackBegin, Goto
  <2>2. pc \in RollbackPcs /\ pc' \in RollbackPcs \cup {"exit"} /\ pc' # "r_begin"
    BY <1>1, <2>1 DEF RollbackPcs
  <2>3. rec[Op] \in Records /\ ~rec[Op].exp
    BY <1>1, <2>2, RollbackKnows
  <2>4. r \in Records /\ r.old = rec[Op].old /\ r.new = rec[Op].new /\ ~r.exp
    BY <2>3 DEF Records
  <2> HIDE DEF r
  <2>5. FactsAt(pc', r)
    BY <2>1 DEF FactsAt, RestorePcs
  <2>6. "rolling_back" \in UnfinishedStates /\ "rolling_back" \in States \ {"absent", "prepared"}
    BY StatesKnown DEF UnfinishedStates
  <2>7. /\ pc \in WorkerPcs \ {"exit"} /\ pc' \in WorkerPcs /\ ~UndoLook'
        /\ KindsAt(pc', job.kind)
    BY <1>1, <2>1, <2>2, RollbackKnows
  <2> QED
    BY <1>1, <2>1, <2>4, <2>5, <2>6, <2>7, WorkerRecordsFacts
<1>3. CASE ~(store = rec[Op].new \/ (store = rec[Op].old /\ job.kind # "undo"))
  <2>1. /\ pc' = "exit"
        /\ IF job.kind = "undo" THEN UNCHANGED <<jrn, rec>>
                                ELSE SetState(Op, rec[Op], "rollback_failed", res)
    BY <1>3 DEF RollbackBegin, Goto
  <2>2. /\ pc \in RollbackPcs /\ pc' \in RollbackPcs \cup {"exit"} /\ pc' # "r_begin"
        /\ FactsAt(pc', rec[Op])
    BY <1>1, <2>1 DEF RollbackPcs, FactsAt, RestorePcs
  <2>3. CASE job.kind = "undo"
    <3>1. UndoLook
      BY <1>1, <2>3 DEF UndoLook
    <3>2. /\ pc \in WorkerPcs /\ pc' \in WorkerPcs /\ ~UndoLook' /\ KindsAt(pc', job.kind)
      BY <1>1, <2>1, <2>2, RollbackKnows
    <3> QED
      BY <1>1, <2>1, <2>2, <2>3, <3>1, <3>2, WorkerMovesFacts
  <2>4. CASE job.kind # "undo"
    <3>1. /\ pc \in WorkerPcs \ {"exit"} /\ pc' \in WorkerPcs /\ ~UndoLook'
          /\ KindsAt(pc', job.kind) /\ rec[Op] \in Records /\ ~rec[Op].exp
      BY <1>1, <2>1, <2>2, RollbackKnows
    <3>2. "rollback_failed" \in States \ {"absent", "prepared"}
      BY StatesKnown DEF UnfinishedStates
    <3> QED
      BY <1>1, <2>1, <2>2, <2>4, <3>1, <3>2, WorkerRecordsFacts
  <2> QED
    BY <2>3, <2>4
<1> QED
  BY <1>2, <1>3

\* The Store goes back to the old version.
LEMMA RollbackWriteFacts ==
  ASSUME FInv, NEW res \in Results, RollbackWrite(res) PROVE DataInv' /\ ControlInv'
<1>1. /\ pc = "r_write" /\ WorkerFrame
      /\ UNCHANGED <<file, jrn, active, job, ctx, ret, cur>>
      /\ rec' = IF res = "ok" THEN [rec EXCEPT ![Op].sp = FALSE] ELSE rec
      /\ pc' = IF res = "ok" THEN "r_save" ELSE "r_failed"
      /\ UNCHANGED <<gate, proc>>
  BY DEF RollbackWrite, WorkerFrame, Goto
<1>2. /\ pc \in RollbackPcs /\ pc' \in RollbackPcs \cup {"exit"}
      /\ pc # "r_begin" /\ pc' \notin {"r_begin", "r_check", "r_checked"}
  BY <1>1 DEF RollbackPcs, RestorePcs
<1>3. /\ pc \in WorkerPcs \ {"exit"} /\ pc' \in WorkerPcs \ {"exit"}
      /\ KindsAt(pc', job.kind) /\ rec[Op] \in Records /\ ~rec[Op].exp
      /\ ~UndoLook /\ ~UndoLook' /\ Unfinished(rec[Op])
  BY <1>1, <1>2, RollbackKnows
<1>4. CASE res = "ok"
  <2> DEFINE u == [rec[Op] EXCEPT !.sp = FALSE]
  <2>1. /\ u \in Records /\ u.state = rec[Op].state /\ ~u.sp /\ ~u.exp
        /\ u.old = rec[Op].old /\ u.new = rec[Op].new
    BY <1>3, FactsAlike
  <2>2. rec' = [rec EXCEPT ![Op] = u] /\ pc' = "r_save"
    BY <1>1, <1>4
  <2> HIDE DEF u
  <2>3. FactsAt(pc', u)
    BY <2>1, <2>2 DEF FactsAt
  <2> QED
    BY <1>1, <1>3, <2>1, <2>2, <2>3, WorkerSavesFacts
<1>5. CASE res # "ok"
  <2>1. rec' = rec /\ FactsAt(pc', rec[Op]) /\ pc' # "exit"
    BY <1>1, <1>5 DEF FactsAt, RestorePcs
  <2> QED
    BY <1>1, <1>3, <2>1, WorkerMovesFacts
<1> QED
  BY <1>4, <1>5

\* A lost compare-and-swap: an undo restores the confirmed record.
LEMMA RollbackConflictFacts ==
  ASSUME FInv, NEW res \in Results, RollbackConflict(res) PROVE DataInv' /\ ControlInv'
<1>1. /\ pc = "r_write" /\ WorkerFrame /\ UNCHANGED <<store, file, job, ctx, ret, cur>>
      /\ pc' = "exit" /\ UNCHANGED <<gate, proc>>
  BY DEF RollbackConflict, WorkerFrame, Goto
<1>2. /\ pc \in RollbackPcs /\ pc' \in RollbackPcs \cup {"exit"} /\ pc' # "r_begin"
      /\ FactsAt(pc', rec[Op])
  BY <1>1 DEF RollbackPcs, FactsAt, RestorePcs
<1>3. /\ pc \in WorkerPcs \ {"exit"} /\ pc' \in WorkerPcs
      /\ KindsAt(pc', job.kind) /\ rec[Op] \in Records /\ ~rec[Op].exp
      /\ ~UndoLook /\ ~UndoLook' /\ Unfinished(rec[Op])
  BY <1>1, <1>2, RollbackKnows
<1>4. CASE job.kind # "undo"
  <2>1. SetState(Op, rec[Op], "rollback_failed", res)
    BY <1>4 DEF RollbackConflict
  <2>2. "rollback_failed" \in States \ {"absent", "prepared"}
    BY StatesKnown DEF UnfinishedStates
  <2> QED
    BY <1>1, <1>2, <1>3, <1>4, <2>1, <2>2, WorkerRecordsFacts
<1>5. CASE job.kind = "undo"
  <2> DEFINE w == job.orig
             v == [w EXCEPT !.state = "outcome_unknown", !.ver = FALSE]
             u == IF res = "ok" THEN w ELSE v
  <2>1. /\ rec' = [rec EXCEPT ![Op] = u]
        /\ jrn' = IF res = "lost" THEN jrn ELSE [jrn EXCEPT ![Op] = w]
    BY <1>5 DEF RollbackConflict, WriteJournal
  <2>2. /\ w \in Records /\ w.state = "confirmed" /\ ~w.exp /\ Sane(w)
        /\ w.old = rec[Op].old /\ w.new = rec[Op].new
    BY <1>3, <1>5, WorkerKnows DEF FInv, ControlInv, Undoing, Jobs
  <2>3. /\ v \in Records /\ v.state = "outcome_unknown" /\ ~v.exp
        /\ v.old = w.old /\ v.new = w.new /\ (v.needs <=> w.needs)
    BY <2>2 DEF Records, States, UnfinishedStates
  <2> HIDE DEF w, v
  <2>4. Sane(v)
    BY <2>3 DEF Sane
  <2>5. u \in Records /\ Sane(u) /\ ~u.exp /\ Exists(u) /\ Exists(w)
        /\ u.old = rec[Op].old /\ u.new = rec[Op].new
        /\ u.state = IF res = "ok" THEN "confirmed" ELSE "outcome_unknown"
    BY <2>2, <2>3, <2>4 DEF Exists
  <2>6. (res = "ok" => u = w) /\ (res # "ok" => ~Terminal(u))
    BY <2>5 DEF Terminal, TerminalStates
  <2> HIDE DEF u
  <2>7. /\ Op \in Ops /\ proc # "down" /\ pc \notin PrepPcs /\ Exists(jrn[Op]) /\ TypeOK
    BY <1>3, WorkerKnows
  <2>8. UpdateOK(Op, u, w)
    BY <1>3, <2>2, <2>5, <2>7 DEF UpdateOK
  <2>9. DataInv'
    <3>1. CASE res = "lost"
      <4>1. jrn' = jrn /\ ~Terminal(u)
        BY <2>1, <2>6, <3>1
      <4> QED
        BY <1>1, <2>1, <2>2, <2>5, <2>7, <2>8, <4>1, UpdateData
    <3>2. CASE res # "lost"
      <4>1. jrn' = [jrn EXCEPT ![Op] = w] /\ (Terminal(u) => u = w)
        BY <2>1, <2>6, <3>2
      <4> QED
        BY <1>1, <2>1, <2>2, <2>5, <2>7, <2>8, <4>1, UpdateData
    <3> QED
      BY <3>1, <3>2
  <2>10. /\ rec'[Op] = u /\ (res = "ok" => jrn'[Op] = w) /\ Exists(jrn'[Op])
    BY <2>1, <2>5, <2>7 DEF TypeOK, Exists
  <2>11. RefusedUndoKeepsHistory'
    <3>1. Terminal(u) => rec'[Op] = w /\ jrn'[Op] = w
      BY <2>6, <2>10
    <3> QED
      BY <1>1, <2>10, <3>1 DEF RefusedUndoKeepsHistory, Op, w, Terminal
  <2>12. FactsAt(pc', u) /\ u.state # "prepared"
    BY <1>1, <2>5 DEF FactsAt, RestorePcs
  <2> QED
    BY <1>1, <1>3, <2>5, <2>9, <2>10, <2>11, <2>12, WorkerControl DEF Op
<1> QED
  BY <1>4, <1>5

\* The rollback gives up.
LEMMA RollbackFailedFacts ==
  ASSUME FInv, NEW res \in Results, RollbackFailed(res) PROVE DataInv' /\ ControlInv'
<1>1. /\ pc = "r_failed" /\ WorkerFrame /\ UNCHANGED <<store, file, job, ctx, ret, cur>>
      /\ pc' = "exit" /\ SetState(Op, rec[Op], "rollback_failed", res)
  BY DEF RollbackFailed, Goto
<1>2. /\ pc \in RollbackPcs /\ pc' \in RollbackPcs \cup {"exit"} /\ pc' # "r_begin"
      /\ FactsAt(pc', rec[Op])
  BY <1>1 DEF RollbackPcs, FactsAt, RestorePcs
<1>3. /\ pc \in WorkerPcs \ {"exit"} /\ pc' \in WorkerPcs /\ ~UndoLook'
      /\ KindsAt(pc', job.kind) /\ rec[Op] \in Records /\ ~rec[Op].exp
  BY <1>1, <1>2, RollbackKnows
<1>4. /\ "rollback_failed" \in States \ {"absent", "prepared"}
      /\ "rollback_failed" \in UnfinishedStates
  BY StatesKnown DEF UnfinishedStates
<1> QED
  BY <1>1, <1>2, <1>3, <1>4, WorkerRecordsFacts

\* The record of the restored Store is saved.
LEMMA RollbackSaveFacts ==
  ASSUME FInv, NEW res \in Results, RollbackSave(res) PROVE DataInv' /\ ControlInv'
<1>1. /\ pc = "r_save" /\ WorkerFrame /\ UNCHANGED <<store, file, active, job, cur>>
      /\ Save(Op, rec[Op], res)
  BY DEF RollbackSave
<1>2. pc' \in {"r_verify", "r_apply"}
  BY PhaseTyped DEF RollbackSave
<1>3. /\ pc \in RollbackPcs /\ pc' \in RollbackPcs \cup {"exit"}
      /\ pc # "r_begin" /\ pc' \notin {"r_begin", "r_check", "r_checked"}
  BY <1>1, <1>2 DEF RollbackPcs, RestorePcs
<1>4. /\ pc \in WorkerPcs \ {"exit"} /\ pc' \in WorkerPcs \ {"exit"}
      /\ KindsAt(pc', job.kind) /\ rec[Op] \in Records /\ ~rec[Op].exp
      /\ ~UndoLook /\ ~UndoLook' /\ FactsAt(pc, rec[Op])
  BY <1>1, <1>2, <1>3, RollbackKnows
<1>5. FactsAt(pc', rec[Op])
  BY <1>1, <1>2, <1>4 DEF FactsAt, RestorePcs
<1>6. /\ rec' = [rec EXCEPT ![Op] = rec[Op]]
      /\ jrn' = jrn \/ jrn' = [jrn EXCEPT ![Op] = rec[Op]]
  BY <1>1 DEF Save, WriteJournal
<1> QED
  BY <1>1, <1>4, <1>5, <1>6, WorkerSavesFacts

\* The rollback after Apply of the old version.
LEMMA RollbackAppliedFacts ==
  ASSUME FInv, NEW res \in Results, RollbackApplied(res) PROVE DataInv' /\ ControlInv'
<1>1. /\ pc = "r_applied" /\ WorkerFrame /\ UNCHANGED <<store, file, job, cur>>
      /\ UNCHANGED <<gate, proc>>
  BY DEF RollbackApplied, WorkerFrame
<1>2. pc' = IF ret.err THEN "exit" ELSE "r_verify"
  BY PhaseTyped DEF RollbackApplied, Goto
<1>3. /\ pc \in RollbackPcs /\ pc' \in RollbackPcs \cup {"exit"}
      /\ pc # "r_begin" /\ pc' \notin {"r_begin", "r_check", "r_checked"}
  BY <1>1, <1>2 DEF RollbackPcs, RestorePcs
<1>4. /\ pc \in WorkerPcs \ {"exit"} /\ pc' \in WorkerPcs
      /\ KindsAt(pc', job.kind) /\ rec[Op] \in Records /\ ~rec[Op].exp
      /\ ~UndoLook /\ ~UndoLook' /\ FactsAt(pc, rec[Op]) /\ Unfinished(rec[Op])
  BY <1>1, <1>2, <1>3, RollbackKnows
<1>5. FactsAt(pc', rec[Op])
  BY <1>1, <1>2, <1>4 DEF FactsAt, RestorePcs
<1>6. CASE ret.err
  <2>1. SetState(Op, rec[Op], "rollback_failed", res)
    BY <1>6 DEF RollbackApplied
  <2>2. /\ "rollback_failed" \in States \ {"absent", "prepared"}
        /\ "rollback_failed" \in UnfinishedStates
    BY StatesKnown DEF UnfinishedStates
  <2> QED
    BY <1>1, <1>4, <1>5, <2>1, <2>2, WorkerRecordsFacts
<1>7. CASE ~ret.err
  <2>1. UNCHANGED <<jrn, rec>> /\ pc' # "exit"
    BY <1>2, <1>7 DEF RollbackApplied
  <2> QED
    BY <1>1, <1>4, <1>5, <2>1, WorkerMovesFacts
<1> QED
  BY <1>6, <1>7

\* The rollback after Verify: only a record without candidate facts is
\* rolled back.
LEMMA RollbackVerifiedFacts ==
  ASSUME FInv, NEW res \in Results, RollbackVerified(res) PROVE DataInv' /\ ControlInv'
<1>1. /\ pc = "r_verified" /\ WorkerFrame /\ UNCHANGED <<store, file, job, cur>>
      /\ pc' = "exit" /\ UNCHANGED <<gate, proc>>
  BY DEF RollbackVerified, WorkerFrame, Goto
<1>3. /\ pc \in RollbackPcs /\ pc' \in RollbackPcs \cup {"exit"} /\ pc' # "r_begin"
  BY <1>1 DEF RollbackPcs, RestorePcs
<1>4. /\ pc \in WorkerPcs \ {"exit"} /\ pc' \in WorkerPcs
      /\ KindsAt(pc', job.kind) /\ rec[Op] \in Records /\ ~rec[Op].exp
      /\ ~UndoLook' /\ FactsAt(pc, rec[Op])
  BY <1>1, <1>3, RollbackKnows
<1>5. \A r : FactsAt(pc', r)
  BY <1>1 DEF FactsAt, RestorePcs
<1>6. CASE ret.cancelled \/ ret.err \/ store # rec[Op].old
  <2>1. SetState(Op, rec[Op], "rollback_failed", res)
    BY <1>6 DEF RollbackVerified
  <2>2. /\ "rollback_failed" \in States \ {"absent", "prepared"}
        /\ "rollback_failed" \in UnfinishedStates
    BY StatesKnown DEF UnfinishedStates
  <2> QED
    BY <1>1, <1>4, <1>5, <2>1, <2>2, WorkerRecordsFacts
<1>7. CASE ~(ret.cancelled \/ ret.err \/ store # rec[Op].old)
  <2> DEFINE r == [rec[Op] EXCEPT !.ra = FALSE, !.needs = FALSE, !.ver = TRUE]
  <2>1. SetState(Op, r, "rolled_back", res)
    BY <1>7 DEF RollbackVerified
  <2>2. ~rec[Op].sp
    BY <1>1, <1>4 DEF FactsAt, RestorePcs
  <2>3. /\ r \in Records /\ r.old = rec[Op].old /\ r.new = rec[Op].new /\ ~r.exp
        /\ ~r.sp /\ ~r.ra /\ r.ver
    BY <1>4, <2>2 DEF Records
  <2> HIDE DEF r
  <2>4. "rolled_back" \in States \ {"absent", "prepared"}
    BY StatesKnown DEF TerminalStates
  <2> QED
    BY <1>1, <1>4, <1>5, <2>1, <2>3, <2>4, WorkerRecordsFacts
<1> QED
  BY <1>6, <1>7

-----------------------------------------------------------------------------
(* Start and stop *)

LEMMA AbsentSane == Sane(Absent) /\ ~Exists(Absent) /\ Absent.state # "prepared"
                    /\ ~Terminal(Absent) /\ ~Absent.needs
BY DEF Sane, Exists, Terminal, Absent, TerminalStates

\* PowerOff leaves what the disk says, as long as that is sound.
LEMMA PowerOffFacts ==
  ASSUME PowerOff, file' = file,
         \A o \in Ops : Sane(jrn'[o]), AllKept'
  PROVE  DataInv' /\ ControlInv'
<1>1. /\ proc' = "down" /\ pc' = "idle" /\ job' = NoJob
      /\ rec' = [o \in Ops |-> Absent] /\ active' = None
  BY DEF PowerOff, Idle, Goto
<1>2. AllSane' /\ NeedsKnown'
  <2>1. \A o \in Ops : rec'[o] = Absent
    BY <1>1
  <2>2. \A o \in Ops : Sane(rec'[o]) /\ ~rec'[o].needs
    BY <2>1, AbsentSane
  <2> QED
    BY <2>2 DEF AllSane, NeedsKnown
<1>3. AllFollow' /\ TerminalIsDurable' /\ PreparedKnown' /\ GateUsed'
  BY <1>1 DEF AllFollow, TerminalIsDurable, PreparedKnown, GateUsed
<1>4. job'.kind = "none"
  BY <1>1 DEF NoJob
<1> QED
  BY <1>1, <1>2, <1>3, <1>4, IdleControl DEF DataInv

\* The disk stays sound when it does not change.
LEMMA DiskSame ==
  ASSUME FInv, UNCHANGED <<file, jrn>>
  PROVE  (\A o \in Ops : Sane(jrn'[o])) /\ AllKept'
BY DEF FInv, DataInv, AllSane, AllKept, Kept, SnapshotsOK

\* The disk stays sound when a sound record about the same versions is
\* written over one that is there and not expired.
LEMMA DiskRewritten ==
  ASSUME FInv, file' = file, NEW o \in Ops, NEW w \in Records,
         jrn' = jrn \/ jrn' = [jrn EXCEPT ![o] = w],
         Sane(w), ~w.exp, Exists(jrn[o]), ~jrn[o].exp,
         w.old = jrn[o].old, w.new = jrn[o].new
  PROVE  (\A p \in Ops : Sane(jrn'[p])) /\ AllKept'
<1>1. CASE jrn' = jrn
  BY <1>1, DiskSame
<1>2. CASE jrn' = [jrn EXCEPT ![o] = w]
  <2>1. jrn'[o] = w /\ \A p \in Ops \ {o} : jrn'[p] = jrn[p]
    BY <1>2 DEF FInv, IInv, TypeOK
  <2>2. \A p \in Ops : Sane(jrn'[p])
    BY <2>1 DEF FInv, DataInv, AllSane
  <2>3. SnapshotsOK(o, jrn[o])
    BY DEF FInv, DataInv, AllKept, Kept
  <2>4. Kept(o)'
    BY <2>1, <2>3 DEF Kept, SnapshotsOK
  <2>5. ASSUME NEW p \in Ops \ {o} PROVE Kept(p)'
    BY <2>1 DEF FInv, DataInv, AllKept, Kept, SnapshotsOK
  <2> QED
    BY <2>2, <2>4, <2>5 DEF AllKept
<1> QED
  BY <1>1, <1>2

LEMMA CrashFacts == ASSUME FInv, Crash PROVE DataInv' /\ ControlInv'
<1>1. PowerOff /\ UNCHANGED <<file, jrn>>
  BY DEF Crash, durable
<1> QED
  BY <1>1, PowerOffFacts, DiskSame

\* Open takes up what the journal says (load).
LEMMA OpenFacts ==
  ASSUME FInv, OpenClean \/ \E o \in Ops : OpenRecover(o)
  PROVE  DataInv' /\ ControlInv'
<1>1. rec' = jrn /\ UNCHANGED <<file, jrn>> /\ proc = "down"
  BY DEF OpenClean, OpenRecover, durable
<1>2. DataInv'
  <2>1. AllSane' /\ NeedsKnown'
    BY <1>1 DEF FInv, DataInv, AllSane, NeedsKnown, Sane, Exists
  <2>2. AllFollow' /\ TerminalIsDurable' /\ PreparedKnown'
    BY <1>1 DEF AllFollow, Follows, TerminalIsDurable, PreparedKnown, Exists
  <2>3. AllKept'
    BY <1>1, DiskSame
  <2> QED
    BY <2>1, <2>2, <2>3 DEF DataInv
<1>3. CASE OpenClean
  <2>1. pc = "idle" /\ pc' = "idle" /\ job' = job /\ active' = active
    BY <1>1, <1>3 DEF OpenClean, thread, FInv, IInv, DownIsIdle
  <2>2. pc \notin WorkerPcs
    BY <2>1, PcsKnown
  <2>3. job.kind = "none" /\ active = None
    BY <1>1, <2>2 DEF FInv, ControlInv, KindsFit, KindsAt, GateUsed
  <2> QED
    BY <1>2, <2>1, <2>3, IdleControl DEF GateUsed
<1>4. ASSUME NEW o \in Ops, OpenRecover(o) PROVE ControlInv'
  <2>1. /\ pc' = "o_save" /\ proc' = "opening" /\ active' = o
        /\ job' = [op |-> o, kind |-> "none", orig |-> Absent]
        /\ Unfinished(jrn[o])
    BY <1>4 DEF OpenRecover, Goto
  <2>2. pc' \in OpenPcs /\ pc' \notin WorkerPcs \cup PrepPcs \cup DeletePcs
    BY <2>1, PcsKnown DEF OpenPcs
  <2>3. Unfinished(rec'[o]) /\ Exists(jrn'[o])
    BY <1>1, <2>1 DEF Unfinished, Exists, UnfinishedStates
  <2>4. Opening' /\ GateUsed'
    BY <2>1, <2>3 DEF Opening, GateUsed, Op, Unfinished, Exists
  <2>5. Reserved' /\ Deleting' /\ Leased' /\ Undoing'
    BY <2>2 DEF Reserved, Deleting, Leased, Undoing
  <2>6. KindsFit' /\ FactsCollected' /\ RefusedUndoKeepsHistory'
    BY <2>1, <2>2, PcsKnown DEF KindsFit, KindsAt, FactsCollected, FactsAt,
       RefusedUndoKeepsHistory, RestorePcs, RollbackPcs
  <2> QED
    BY <2>4, <2>5, <2>6 DEF ControlInv
<1> QED
  BY <1>2, <1>3, <1>4

\* What FInv says of a recovery inside Open.
LEMMA OpenKnows ==
  ASSUME FInv, pc \in OpenPcs
  PROVE  /\ Op \in Ops /\ proc # "down" /\ rec[Op] \in Records /\ TypeOK
         /\ Unfinished(rec[Op]) /\ Exists(jrn[Op]) /\ ~rec[Op].exp /\ ~jrn[Op].exp
         /\ rec[Op].old = jrn[Op].old /\ rec[Op].new = jrn[Op].new
         /\ job.kind = "none" /\ proc = "opening" /\ pc \notin PrepPcs
<1>1. pc \notin {"idle", "g_old", "g_new"} /\ pc \notin WorkerPcs /\ pc \notin PrepPcs
  BY PcsKnown DEF OpenPcs, PrepPcs
<1>2. Op \in Ops /\ proc # "down" /\ rec[Op] \in Records /\ TypeOK
  BY <1>1, WorkerFacts DEF FInv, IInv
<1>3. Unfinished(rec[Op]) /\ Exists(jrn[Op]) /\ job.kind = "none" /\ proc = "opening"
  BY <1>1 DEF FInv, ControlInv, Opening, KindsFit, KindsAt
<1>4. ~rec[Op].exp
  BY <1>2, <1>3, StatesKnown DEF FInv, DataInv, AllSane, Sane, Terminal, Unfinished
<1> QED
  BY <1>1, <1>2, <1>3, <1>4 DEF FInv, DataInv, AllFollow, Follows

\* Open goes on: both records of the operation become r, still unfinished.
LEMMA OpenGoesOn ==
  ASSUME FInv, pc \in OpenPcs, UNCHANGED <<file, gate>>,
         NEW r \in Records, Unfinished(r), Sane(r), ~r.exp,
         r.old = rec[Op].old, r.new = rec[Op].new,
         \/ rec' = [rec EXCEPT ![Op] = r] /\ jrn' = [jrn EXCEPT ![Op] = r]
         \/ UNCHANGED <<rec, jrn>>,
         \/ pc' \in OpenPcs /\ UNCHANGED <<proc, job>>
         \/ pc' = "idle" /\ proc' # "down" /\ job'.kind = "none",
         active' = active
  PROVE  DataInv' /\ ControlInv'
<1>1. /\ Op \in Ops /\ proc # "down" /\ rec[Op] \in Records /\ TypeOK
      /\ Unfinished(rec[Op]) /\ Exists(jrn[Op]) /\ ~rec[Op].exp
      /\ job.kind = "none" /\ proc = "opening" /\ pc \notin PrepPcs
  BY OpenKnows
<1>2. active = Op
  BY DEF FInv, IInv, LeaseHeld, OpenPcs
<1>3. Exists(r) /\ ~Terminal(r)
  BY StatesKnown DEF Exists, Terminal, Unfinished, UnfinishedStates
<1>5. UpdateOK(Op, r, r)
  BY <1>1, <1>3 DEF UpdateOK
<1>6. DataInv'
  BY <1>1, <1>3, <1>5, UpdateData, QuietData
<1>7. Unfinished(rec'[Op]) /\ Exists(jrn'[Op])
  BY <1>1, <1>3 DEF TypeOK, Exists, Unfinished
<1>8. CASE pc' = "idle" /\ proc' # "down" /\ job'.kind = "none"
  <2>1. GateUsed'
    BY <1>2, <1>7, <1>8 DEF GateUsed, Unfinished
  <2> QED
    BY <1>6, <1>8, <2>1, IdleControl
<1>9. CASE pc' \in OpenPcs /\ UNCHANGED <<proc, job>>
  <2>1. pc' \notin WorkerPcs \cup PrepPcs \cup DeletePcs
    BY <1>9, PcsKnown
  <2>2. Opening' /\ GateUsed'
    BY <1>1, <1>2, <1>7, <1>9 DEF Opening, GateUsed, Op, Unfinished, Exists
  <2>3. Reserved' /\ Deleting' /\ Leased' /\ Undoing'
    BY <2>1 DEF Reserved, Deleting, Leased, Undoing
  <2>4. KindsFit' /\ FactsCollected' /\ RefusedUndoKeepsHistory'
    BY <1>1, <1>9, <2>1, PcsKnown, WorkerPcsBusy DEF KindsFit, KindsAt, FactsCollected,
       FactsAt, RefusedUndoKeepsHistory, RestorePcs, RollbackPcs
  <2> QED
    BY <1>6, <2>2, <2>3, <2>4 DEF ControlInv
<1> QED
  BY <1>8, <1>9

\* The three writes of Open.
LEMMA OpenSaveFacts ==
  ASSUME FInv, NEW res \in Results, OpenSave(res) PROVE DataInv' /\ ControlInv'
<1> DEFINE r == [rec[Op] EXCEPT !.state = "rolling_back", !.needs = TRUE,
                                !.ra = FALSE, !.ver = FALSE]
<1>1. pc \in OpenPcs /\ UNCHANGED <<store, file>>
  BY DEF OpenSave, OpenPcs
<1>2. /\ Op \in Ops /\ rec[Op] \in Records /\ ~rec[Op].exp
      /\ Exists(jrn[Op]) /\ ~jrn[Op].exp
      /\ rec[Op].old = jrn[Op].old /\ rec[Op].new = jrn[Op].new
  BY <1>1, OpenKnows
<1>3. /\ r \in Records /\ r.state = "rolling_back" /\ ~r.exp
      /\ r.old = rec[Op].old /\ r.new = rec[Op].new
  BY <1>2 DEF Records, States, UnfinishedStates
<1>4. CASE res = "ok"
  <2>1. /\ Save(Op, r, res) /\ pc' = "o_write"
        /\ UNCHANGED <<proc, active, gate, job>>
    BY <1>4 DEF OpenSave, Goto
  <2>2. rec' = [rec EXCEPT ![Op] = r] /\ jrn' = [jrn EXCEPT ![Op] = r] /\ pc' \in OpenPcs
    BY <1>4, <2>1 DEF Save, WriteJournal, OpenPcs
  <2> HIDE DEF r
  <2>3. Unfinished(r) /\ Sane(r)
    BY <1>3 DEF Unfinished, UnfinishedStates, Sane
  <2> QED
    BY <1>1, <1>3, <2>1, <2>2, <2>3, OpenGoesOn
<1>5. CASE res # "ok"
  <2>1. WriteJournal(Op, r, res) /\ PowerOff
    BY <1>5 DEF OpenSave
  <2>2. jrn' = jrn \/ jrn' = [jrn EXCEPT ![Op] = r]
    BY <2>1 DEF WriteJournal
  <2> HIDE DEF r
  <2>3. Sane(r)
    BY <1>3 DEF Sane
  <2> QED
    BY <1>1, <1>2, <1>3, <2>1, <2>2, <2>3, DiskRewritten, PowerOffFacts
<1> QED
  BY <1>4, <1>5

LEMMA OpenWriteFacts ==
  ASSUME FInv, NEW res \in Results, OpenWrite(res) PROVE DataInv' /\ ControlInv'
<1>1. pc \in OpenPcs /\ UNCHANGED <<file, jrn>>
  BY DEF OpenWrite, OpenPcs
<1>2. CASE PowerOff
  BY <1>1, <1>2, PowerOffFacts, DiskSame
<1>3. CASE Goto("o_saved") /\ UNCHANGED <<proc, rec, active, abort, gate, runtime,
                                          job, ctx, ret, cur>>
  <2>1. pc' \in OpenPcs /\ pc' # "o_save"
    BY <1>3 DEF OpenPcs, Goto
  <2>2. proc # "down" /\ pc \notin PrepPcs
    BY <1>1, OpenKnows
  <2>3. DataInv'
    BY <1>1, <1>3, <2>2, QuietData
  <2>4. pc' \notin WorkerPcs \cup PrepPcs \cup DeletePcs
    BY <2>1, PcsKnown
  <2>5. Opening' /\ GateUsed'
    BY <1>1, <1>3, PcsKnown DEF FInv, ControlInv, Opening, GateUsed, Op, Unfinished, Exists
  <2>6. Reserved' /\ Deleting' /\ Leased' /\ Undoing'
    BY <2>4 DEF Reserved, Deleting, Leased, Undoing
  <2>7. job'.kind = "none"
    BY <1>1, <1>3, OpenKnows
  <2>8. KindsFit' /\ FactsCollected' /\ RefusedUndoKeepsHistory'
    BY <2>4, <2>7, PcsKnown, WorkerPcsBusy DEF KindsFit, KindsAt, FactsCollected,
       FactsAt, RefusedUndoKeepsHistory, RestorePcs, RollbackPcs
  <2> QED
    BY <2>3, <2>5, <2>6, <2>8 DEF ControlInv
<1> QED
  BY <1>2, <1>3 DEF OpenWrite

LEMMA OpenSavedFacts ==
  ASSUME FInv, NEW res \in Results, OpenSaved(res) PROVE DataInv' /\ ControlInv'
<1> DEFINE r == [rec[Op] EXCEPT !.sp = FALSE]
<1>1. pc \in OpenPcs /\ UNCHANGED <<store, file>>
  BY DEF OpenSaved, OpenPcs
<1>2. /\ Op \in Ops /\ rec[Op] \in Records /\ ~rec[Op].exp /\ Unfinished(rec[Op])
      /\ Exists(jrn[Op]) /\ ~jrn[Op].exp
      /\ rec[Op].old = jrn[Op].old /\ rec[Op].new = jrn[Op].new
  BY <1>1, OpenKnows
<1>3. /\ r \in Records /\ r.state = rec[Op].state /\ ~r.exp
      /\ r.old = rec[Op].old /\ r.new = rec[Op].new /\ (r.needs <=> rec[Op].needs)
  BY <1>2, FactsAlike
<1> HIDE DEF r
<1>4. Unfinished(r) /\ ~Terminal(r) /\ Exists(r)
  BY <1>2, <1>3, StatesKnown DEF Unfinished, Terminal, Exists, UnfinishedStates
<1>5. Sane(r)
  <2>1. Sane(rec[Op])
    BY <1>2 DEF FInv, DataInv, AllSane
  <2> QED
    BY <1>3, <1>4, <2>1 DEF Sane, Terminal, TerminalStates
<1>6. CASE res = "ok"
  <2>1. /\ Save(Op, r, res) /\ proc' = "open" /\ Idle /\ UNCHANGED <<active, gate>>
    BY <1>6 DEF OpenSaved, r
  <2>2. /\ rec' = [rec EXCEPT ![Op] = r] /\ jrn' = [jrn EXCEPT ![Op] = r]
        /\ pc' = "idle" /\ job'.kind = "none"
    BY <1>6, <2>1 DEF Save, WriteJournal, Idle, Goto, NoJob
  <2> QED
    BY <1>1, <1>3, <1>4, <1>5, <2>1, <2>2, OpenGoesOn
<1>7. CASE res # "ok"
  <2>1. WriteJournal(Op, r, res) /\ PowerOff
    BY <1>7 DEF OpenSaved, r
  <2>2. jrn' = jrn \/ jrn' = [jrn EXCEPT ![Op] = r]
    BY <2>1 DEF WriteJournal
  <2> QED
    BY <1>1, <1>2, <1>3, <1>5, <2>1, <2>2, DiskRewritten, PowerOffFacts
<1> QED
  BY <1>6, <1>7

-----------------------------------------------------------------------------
(* The world around a worker *)

\* The native loader, a deadline, a timeout and an outside writer.
LEMMA AmbientFacts ==
  ASSUME FInv,
         \/ NativeLoad \/ \E o \in Ops : DeadlinePasses(o)
         \/ RollbackTimeout \/ \E v \in Versions : Drift(v)
  PROVE  DataInv' /\ ControlInv'
<1>1. UNCHANGED <<file, jrn, rec, gate, active, pc, job, proc>>
  BY DEF NativeLoad, DeadlinePasses, RollbackTimeout, Drift, durable, memory, thread
<1> QED
  BY <1>1, QuietData, QuietControl

\* A hook returns: the worker is where it was, with a result.
LEMMA HookFacts ==
  ASSUME FInv, HookReturns PROVE DataInv' /\ ControlInv'
<1>1. /\ pc \in HookPcs /\ pc' = AfterHook[pc]
      /\ UNCHANGED <<file, jrn, rec, gate, active, job, proc>>
  BY DEF HookReturns, CheckReturns, ApplyHookReturns, VerifyReturns, Returns, Goto,
         durable, memory, HookPcs, ApplyHooks, RollbackHooks
<1>2. /\ pc \in WorkerPcs \ {"exit"} /\ pc' \in WorkerPcs \ {"exit"}
      /\ pc' # "r_begin"
      /\ pc = "u_check" <=> pc' = "u_checked"
  BY <1>1, WorkerPcsBusy
     DEF AfterHook, HookPcs, ApplyHooks, RollbackHooks
<1>3. DataInv'
  BY <1>1, <1>2, WorkerKnows, QuietData
<1>4. /\ Exists(jrn[Op]) /\ rec[Op].state # "prepared" /\ KindsAt(pc, job.kind)
      /\ FactsAt(pc, rec[Op])
      /\ pc # "exit" /\ ~UndoLook => Unfinished(rec[Op])
  BY <1>2, WorkerKnows
<1>5. KindsAt(pc', job.kind)
  BY <1>1, <1>2, <1>4
     DEF KindsAt, AfterHook, HookPcs, ApplyHooks, RollbackHooks, ApplyReturns, ApplyPcs,
         RollbackPcs, RestorePcs
<1>6. FactsAt(pc', rec[Op])
  BY <1>1, <1>4 DEF FactsAt, AfterHook, HookPcs, ApplyHooks, RollbackHooks, RestorePcs
<1>7. UndoLook <=> UndoLook'
  BY <1>1, <1>2
     DEF UndoLook, AfterHook, HookPcs, ApplyHooks, RollbackHooks
<1>8. Leased' /\ KindsFit' /\ FactsCollected' /\ RefusedUndoKeepsHistory' /\ Undoing'
  BY <1>1, <1>2, <1>4, <1>5, <1>6, <1>7 DEF FInv, ControlInv, Leased, KindsFit,
     FactsCollected, RefusedUndoKeepsHistory, Undoing, Op, Exists, Unfinished
<1>9. Reserved' /\ Opening' /\ Deleting' /\ GateUsed'
  BY <1>2, PcsKnown DEF Reserved, Opening, Deleting, GateUsed
<1> QED
  BY <1>3, <1>8, <1>9 DEF ControlInv

\* A record of an unfinished operation is made uncertain while its worker is
\* somewhere (the watcher of phaseContext, Close).
LEMMA DoubtFacts ==
  ASSUME FInv, pc \in WorkerPcs, Unfinished(rec[Op]), NEW res \in Results,
         SetState(Op, rec[Op], "outcome_unknown", res),
         UNCHANGED <<file, gate, pc, job>>, proc' = proc \/ proc' = "closing"
  PROVE  DataInv' /\ ControlInv'
<1>1. /\ Op \in Ops /\ proc # "down" /\ pc \notin PrepPcs /\ rec[Op] \in Records
      /\ TypeOK /\ Exists(jrn[Op]) /\ KindsAt(pc, job.kind) /\ FactsAt(pc, rec[Op])
  BY WorkerKnows
<1>2. ~rec[Op].exp
  BY <1>1, StatesKnown DEF FInv, DataInv, AllSane, Sane, Terminal, Unfinished
<1>3. ~UndoLook
  BY DEF FInv, ControlInv, Undoing, UndoLook, Unfinished, UnfinishedStates
<1>4. /\ "outcome_unknown" \in States \ {"absent", "prepared"}
      /\ "outcome_unknown" \in UnfinishedStates /\ "outcome_unknown" \notin TerminalStates
  BY StatesKnown DEF UnfinishedStates
<1>5. /\ DataInv' /\ Exists(jrn'[Op])
      /\ \E u \in Records :
               /\ rec' = [rec EXCEPT ![Op] = u] /\ Alike(u, rec[Op])
               /\ u.state = IF res = "ok" THEN "outcome_unknown" ELSE "outcome_unknown"
  BY <1>1, <1>2, <1>4, SetStateData
<1>6. PICK u \in Records :
               /\ rec' = [rec EXCEPT ![Op] = u] /\ Alike(u, rec[Op])
               /\ u.state = "outcome_unknown"
  BY <1>5
<1>7. rec'[Op] = u
  BY <1>1, <1>6 DEF TypeOK
<1>8. u.old = rec[Op].old /\ u.new = rec[Op].new /\ FactsAt(pc', u)
  BY <1>1, <1>6 DEF Alike, FactsAt
<1>9. u.state # "prepared" /\ Unfinished(u) /\ ~Terminal(u)
  BY <1>4, <1>6 DEF Unfinished, Terminal
<1>10. RefusedUndoKeepsHistory' /\ ~UndoLook'
  BY <1>3, <1>7, <1>9 DEF RefusedUndoKeepsHistory, UndoLook, Op, Terminal
<1> QED
  BY <1>1, <1>5, <1>7, <1>8, <1>9, <1>10, WorkerControl DEF Op

LEMMA WatcherFacts ==
  ASSUME FInv, NEW res \in Results, Watcher(res) PROVE DataInv' /\ ControlInv'
<1>1. /\ pc \in (HookPcs \cup ReturnPcs) \ {"u_check", "u_checked"}
      /\ SetState(Op, rec[Op], "outcome_unknown", res)
      /\ UNCHANGED <<file, gate, pc, job, proc>>
  BY DEF Watcher, Frame
<1>2. /\ pc \in WorkerPcs \ {"exit"} /\ pc \notin {"u_check", "u_checked", "r_begin"}
  BY <1>1, WorkerPcsBusy DEF HookPcs, ReturnPcs, ApplyHooks, RollbackHooks, ApplyReturns,
     RollbackReturns
<1>3. Unfinished(rec[Op])
  BY <1>2, WorkerKnows DEF UndoLook
<1> QED
  BY <1>1, <1>2, <1>3, DoubtFacts

LEMMA CloseRunningFacts ==
  ASSUME FInv, NEW res \in Results, CloseRunning(res) PROVE DataInv' /\ ControlInv'
<1>1. /\ pc \in WorkerPcs /\ UNCHANGED <<file, gate, pc, job>> /\ proc' = "closing"
  BY DEF CloseRunning, Running
<1>2. active = Op /\ proc # "down"
  BY <1>1, WorkerKnows
<1>3. CASE Unfinished(rec[active])
  BY <1>1, <1>2, <1>3, DoubtFacts DEF CloseRunning
<1>4. CASE ~Unfinished(rec[active])
  <2>1. UNCHANGED <<jrn, rec, active>>
    BY <1>4 DEF CloseRunning
  <2>2. pc \notin OpenPcs
    BY <1>1, PcsKnown
  <2> QED
    BY <1>1, <1>2, <2>1, <2>2, QuietData, QuietControl
<1> QED
  BY <1>3, <1>4

\* Rollback cancels the hook of a running worker, nothing else.
LEMMA RollbackRunningFacts ==
  ASSUME FInv, NEW o \in Ops, RollbackRunning(o) PROVE DataInv' /\ ControlInv'
<1>1. UNCHANGED <<file, jrn, rec, gate, active, pc, job, proc>>
  BY DEF RollbackRunning, durable
<1> QED
  BY <1>1, QuietData, QuietControl

\* The end of a worker, of a served or of a closing engine.
LEMMA WorkerExitFacts ==
  ASSUME FInv, WorkerExit PROVE DataInv' /\ ControlInv'
<1>1. pc = "exit" /\ UNCHANGED <<file, jrn>> /\ pc \in WorkerPcs
  BY WorkerPcsBusy DEF WorkerExit, durable
<1>2. CASE proc = "closing"
  BY <1>1, <1>2, PowerOffFacts, DiskSame DEF WorkerExit
<1>3. CASE proc # "closing"
  <2>1. /\ active' = IF Terminal(rec[Op]) THEN None ELSE active
        /\ pc' = "idle" /\ job'.kind = "none"
        /\ UNCHANGED <<proc, rec, gate>>
    BY <1>3 DEF WorkerExit, Idle, Goto, NoJob
  <2>2. /\ active = Op /\ proc # "down" /\ pc \notin PrepPcs /\ Exists(rec[Op])
        /\ rec[Op] \in Records
    BY <1>1, WorkerKnows
  <2>3. Terminal(rec[Op]) \/ Unfinished(rec[Op])
    BY <2>2 DEF Terminal, Unfinished, Exists, Records, States
  <2>4. GateUsed'
    BY <2>1, <2>2, <2>3 DEF GateUsed, Unfinished
  <2> QED
    BY <1>1, <2>1, <2>2, <2>4, QuietData, IdleControl
<1> QED
  BY <1>2, <1>3

-----------------------------------------------------------------------------
(* Requests *)

\* A handler that launches a worker for an unfinished, journalled operation.
LEMMA LaunchControl ==
  ASSUME NEW o, pc' \in {"a_check", "r_start"}, job'.op = o,
         job'.kind \notin {"none", "undo"},
         pc' = "a_check" => job'.kind = "apply",
         Exists(jrn'[o]), Unfinished(rec'[o]), rec'[o].state # "prepared",
         proc' = "attached"
  PROVE  ControlInv'
<1>1. pc' \in WorkerPcs /\ ~UndoLook' /\ pc' # "exit"
  BY WorkerPcsBusy DEF UndoLook
<1>2. KindsFit' /\ FactsCollected'
  BY <1>1 DEF KindsFit, KindsAt, FactsCollected, FactsAt, RestorePcs, RollbackPcs,
     ApplyPcs, ApplyHooks, ApplyReturns
<1>3. Leased' /\ Undoing' /\ RefusedUndoKeepsHistory'
  BY <1>1 DEF Leased, Undoing, RefusedUndoKeepsHistory, Op, Exists, Unfinished
<1>4. Reserved' /\ Opening' /\ Deleting' /\ GateUsed'
  BY <1>1, PcsKnown DEF Reserved, Opening, Deleting, GateUsed
<1> QED
  BY <1>2, <1>3, <1>4 DEF ControlInv

\* AttachRuntime: only a recovery owes the runtime a verification.
LEMMA AttachRuntimeFacts ==
  ASSUME FInv, AttachRuntime PROVE DataInv' /\ ControlInv'
<1>1. /\ proc # "down" /\ proc' = "attached" /\ LockFree
      /\ UNCHANGED <<file, jrn, rec, gate, active>>
  BY DEF AttachRuntime, durable
<1>2. TypeOK /\ pc \notin PrepPcs /\ pc \notin OpenPcs
  BY <1>1, LockFreePcs DEF FInv, IInv
<1>3. DataInv'
  BY <1>1, <1>2, QuietData
<1>4. CASE active # None /\ rec[active].needs
  <2>1. /\ pc' = "r_start"
        /\ job' = [op |-> active, kind |-> "recovery", orig |-> rec[active]]
    BY <1>4 DEF AttachRuntime, Launch, Goto
  <2>2. active \in Ops
    BY <1>2, <1>4 DEF TypeOK
  <2>3. Exists(jrn[active]) /\ rec[active].state \notin {"absent", "prepared"}
    BY <1>4, <2>2 DEF FInv, DataInv, NeedsKnown, AllSane, Sane
  <2>4. Unfinished(rec[active])
    <3>1. pc \notin WorkerPcs
      BY DEF AttachRuntime, FInv, ControlInv, Leased
    <3> QED
      BY <1>4, <3>1 DEF FInv, ControlInv, GateUsed
  <2> QED
    BY <1>1, <1>3, <2>1, <2>3, <2>4, LaunchControl DEF Exists, Unfinished
<1>5. CASE ~(active # None /\ rec[active].needs)
  <2>1. UNCHANGED <<pc, job>>
    BY <1>5 DEF AttachRuntime
  <2> QED
    BY <1>1, <1>2, <1>3, <2>1, QuietControl
<1> QED
  BY <1>4, <1>5

\* Close without a worker cancels an operation nobody applied.
LEMMA CloseIdleFacts ==
  ASSUME FInv, NEW res \in Results, CloseIdle(res) PROVE DataInv' /\ ControlInv'
<1>1. /\ PowerOff /\ file' = file /\ proc # "down" /\ pc \notin PrepPcs /\ TypeOK
  BY LockFreePcs DEF CloseIdle, Serving, FInv, IInv
<1>2. CASE active # None /\ rec[active].state = "prepared"
  <2> DEFINE w == [rec[active] EXCEPT !.state = "cancelled"]
  <2>1. active \in Ops /\ rec[active] \in Records
    BY <1>1, <1>2 DEF TypeOK
  <2>2. Exists(jrn[active])
    BY <1>1, <1>2, <2>1 DEF FInv, DataInv, PreparedKnown
  <2>3. Sane(rec[active]) /\ ~rec[active].exp /\ ~rec[active].needs
    BY <1>2, <2>1 DEF FInv, DataInv, AllSane, Sane, Terminal, TerminalStates
  <2>4. /\ w \in Records /\ w.state = "cancelled" /\ Alike(w, rec[active])
    BY <2>1, StatesKnown, StateAlike DEF TerminalStates
  <2>5. jrn' = jrn \/ jrn' = [jrn EXCEPT ![active] = w]
    BY <1>2 DEF CloseIdle, WriteJournal
  <2> HIDE DEF w
  <2>6. Sane(w) /\ ~w.exp
    BY <2>3, <2>4 DEF Sane, Alike
  <2>7. /\ rec[active].old = jrn[active].old /\ rec[active].new = jrn[active].new
        /\ ~jrn[active].exp
    BY <1>1, <2>1, <2>2, <2>3 DEF FInv, DataInv, AllFollow, Follows
  <2> QED
    BY <1>1, <2>1, <2>2, <2>4, <2>5, <2>6, <2>7, DiskRewritten, PowerOffFacts DEF Alike
<1>3. CASE ~(active # None /\ rec[active].state = "prepared")
  <2>1. jrn' = jrn
    BY <1>3 DEF CloseIdle
  <2> QED
    BY <1>1, <2>1, DiskSame, PowerOffFacts
<1> QED
  BY <1>2, <1>3

\* What a handler finds that takes up a preparation.
LEMMA PreparedFree ==
  ASSUME FInv, LockFree, proc # "down", NEW o \in Ops, rec[o].state = "prepared"
  PROVE  /\ pc = "idle" /\ ~Running /\ active = o /\ pc \notin PrepPcs
         /\ rec[o] \in Records /\ Exists(jrn[o]) /\ ~rec[o].exp /\ TypeOK
         /\ job.kind = "none"
<1>1. TypeOK /\ rec[o] \in Records /\ active = o /\ pc \notin PrepPcs
  BY LockFreePcs DEF FInv, IInv, TypeOK, GateHeld, Unfinished, UnfinishedStates
<1>2. pc \notin WorkerPcs
  BY <1>1, WorkerKnows
<1>3. pc = "idle"
  BY <1>1, <1>2, LockFreePcs DEF Running
<1>4. Exists(jrn[o]) /\ ~rec[o].exp
  BY <1>1 DEF FInv, DataInv, PreparedKnown, AllSane, Sane, Terminal, TerminalStates
<1>5. job.kind = "none"
  BY <1>2 DEF FInv, ControlInv, KindsFit, KindsAt
<1> QED
  BY <1>1, <1>2, <1>3, <1>4, <1>5 DEF Running

\* A preparation ends without a worker: its deadline, a refused Apply, a
\* Rollback before Apply.
LEMMA PreparedEndsFacts ==
  ASSUME FInv, LockFree, proc # "down", NEW o \in Ops, rec[o].state = "prepared",
         NEW s \in {"cancelled", "conflict"}, NEW res \in Results,
         SetState(o, rec[o], s, res),
         UNCHANGED <<file, gate, proc, pc, job>>
  PROVE  DataInv' /\ ControlInv'
<1>1. /\ pc = "idle" /\ ~Running /\ active = o /\ pc \notin PrepPcs
      /\ rec[o] \in Records /\ Exists(jrn[o]) /\ ~rec[o].exp /\ TypeOK
      /\ job.kind = "none"
  BY PreparedFree
<1>2. s \in States \ {"absent", "prepared"} /\ s \in TerminalStates
  BY StatesKnown DEF TerminalStates
<1>3. /\ DataInv'
      /\ \E u \in Records :
               /\ rec' = [rec EXCEPT ![o] = u] /\ Alike(u, rec[o])
               /\ u.state = IF res = "ok" THEN s ELSE "outcome_unknown"
  BY <1>1, <1>2, SetStateData
<1>4. active' = IF res # "ok" THEN o ELSE None
  <2> DEFINE w == [rec[o] EXCEPT !.state = s]
  <2>1. w.state = s
    BY <1>1, <1>2, StateAlike
  <2>2. active' = IF res # "ok" THEN o
                  ELSE IF Terminal(w) /\ ~Running /\ active = o THEN None ELSE active
    BY DEF SetState
  <2> QED
    BY <1>1, <1>2, <2>1, <2>2 DEF Terminal
<1>5. res # "ok" => Unfinished(rec'[o])
  BY <1>1, <1>3 DEF TypeOK, Unfinished, UnfinishedStates
<1>6. GateUsed'
  BY <1>4, <1>5 DEF GateUsed, Unfinished
<1> QED
  BY <1>1, <1>3, <1>6, IdleControl

LEMMA EndingsFacts ==
  ASSUME FInv, NEW o \in Ops, NEW res \in Results,
         ExpirePrepared(o, res) \/ ApplyRefused(o, res) \/ RollbackPrepared(o, res)
  PROVE  DataInv' /\ ControlInv'
<1>1. /\ LockFree /\ proc # "down" /\ rec[o].state = "prepared"
      /\ UNCHANGED <<file, gate, proc, pc, job>>
  BY DEF ExpirePrepared, ApplyRefused, RollbackPrepared, Serving, Frame
<1>2. PICK s \in {"cancelled", "conflict"} : SetState(o, rec[o], s, res)
  BY DEF ExpirePrepared, ApplyRefused, RollbackPrepared
<1> QED
  BY <1>1, <1>2, PreparedEndsFacts

\* Apply: a preparation is journalled as applying before the worker starts.
LEMMA ApplyFacts ==
  ASSUME FInv, NEW o \in Ops, NEW res \in Results, Apply(o, res)
  PROVE  DataInv' /\ ControlInv'
<1>1. /\ LockFree /\ proc = "attached" /\ proc' = proc /\ rec[o].state = "prepared"
      /\ SetState(o, rec[o], "applying", res) /\ UNCHANGED <<file, gate>>
  BY DEF Apply, Frame
<1>2. /\ pc = "idle" /\ active = o /\ pc \notin PrepPcs
      /\ rec[o] \in Records /\ Exists(jrn[o]) /\ ~rec[o].exp /\ TypeOK
      /\ job.kind = "none"
  BY <1>1, PreparedFree
<1>3. /\ "applying" \in States \ {"absent", "prepared"}
      /\ "applying" \in UnfinishedStates /\ "applying" \notin TerminalStates
      /\ "outcome_unknown" \in UnfinishedStates
  BY StatesKnown DEF UnfinishedStates
<1>4. /\ DataInv' /\ Exists(jrn'[o])
      /\ \E u \in Records :
               /\ rec' = [rec EXCEPT ![o] = u] /\ Alike(u, rec[o])
               /\ u.state = IF res = "ok" THEN "applying" ELSE "outcome_unknown"
  BY <1>1, <1>2, <1>3, SetStateData
<1>5. Unfinished(rec'[o]) /\ rec'[o].state # "prepared"
  BY <1>2, <1>3, <1>4 DEF TypeOK, Unfinished
<1>6. CASE res = "ok"
  <2>1. /\ pc' = "a_check"
        /\ job' = [op |-> o, kind |-> "apply", orig |-> rec[o]]
    BY <1>6 DEF Apply, Launch, Goto
  <2> QED
    BY <1>1, <1>4, <1>5, <2>1, LaunchControl
<1>7. CASE res # "ok"
  <2>1. UNCHANGED <<pc, job>> /\ active' = o
    BY <1>7 DEF Apply, SetState
  <2>2. GateUsed'
    BY <1>1, <1>5, <2>1 DEF GateUsed, Unfinished
  <2> QED
    BY <1>2, <1>4, <2>1, <2>2, IdleControl
<1> QED
  BY <1>6, <1>7

\* Rollback of a confirmed operation: the undo starts from what the journal
\* says.
LEMMA RollbackConfirmedFacts ==
  ASSUME FInv, NEW o \in Ops, RollbackConfirmed(o) PROVE DataInv' /\ ControlInv'
<1>1. /\ LockFree /\ proc = "attached" /\ ~gate /\ rec[o].state = "confirmed" /\ ~rec[o].exp
      /\ UNCHANGED <<file, jrn, rec, gate, proc>> /\ active' = o
      /\ pc' = "u_check" /\ job' = [op |-> o, kind |-> "undo", orig |-> rec[o]]
  BY DEF RollbackConfirmed, Launch, Goto, durable
<1>2. pc \notin PrepPcs /\ TypeOK
  BY <1>1, LockFreePcs DEF FInv, IInv
<1>3. DataInv'
  BY <1>1, <1>2, QuietData
<1>4. jrn[o] = rec[o] /\ Sane(rec[o])
  BY <1>1 DEF FInv, DataInv, TerminalIsDurable, AllSane, Terminal, TerminalStates
<1>5. pc' \in WorkerPcs
  BY <1>1, WorkerPcsBusy
<1>6. Leased' /\ Undoing'
  BY <1>1, <1>4 DEF Leased, Undoing, UndoLook, Op, Exists
<1>7. KindsFit' /\ FactsCollected' /\ RefusedUndoKeepsHistory'
  BY <1>1, <1>5 DEF KindsFit, KindsAt, FactsCollected, FactsAt, RestorePcs, RollbackPcs,
     ApplyPcs, ApplyHooks, ApplyReturns, RefusedUndoKeepsHistory
<1>8. Reserved' /\ Opening' /\ Deleting' /\ GateUsed'
  BY <1>5, PcsKnown DEF Reserved, Opening, Deleting, GateUsed
<1> QED
  BY <1>3, <1>6, <1>7, <1>8 DEF ControlInv

\* Rollback of every other unfinished operation.
LEMMA RollbackUnfinishedFacts ==
  ASSUME FInv, NEW o \in Ops, NEW res \in Results, RollbackUnfinished(o, res)
  PROVE  DataInv' /\ ControlInv'
<1>1. /\ LockFree /\ proc # "down" /\ ~Running /\ Unfinished(rec[o])
      /\ rec[o].state # "prepared" /\ UNCHANGED <<file, gate, proc>>
  BY DEF RollbackUnfinished, Serving, Frame
<1>2. /\ TypeOK /\ pc = "idle" /\ pc \notin PrepPcs /\ rec[o] \in Records /\ active = o
      /\ rec \in [Ops -> Records]
  BY <1>1, LockFreePcs DEF FInv, IInv, TypeOK, GateHeld
<1>3. job.kind = "none"
  BY <1>2, PcsKnown DEF FInv, ControlInv, KindsFit, KindsAt
<1>4. Sane(rec[o]) /\ ~rec[o].exp
  BY <1>1, StatesKnown DEF FInv, DataInv, AllSane, Sane, Terminal, Unfinished
<1>5. CASE ~SnapshotsOK(o, rec[o]) /\ ~Exists(jrn[o])
  <2> DEFINE u == [rec[o] EXCEPT !.state = "rollback_failed"]
  <2>1. rec' = [rec EXCEPT ![o] = u] /\ UNCHANGED <<jrn, active, pc, job>>
    BY <1>5 DEF RollbackUnfinished
  <2>2. u \in Records /\ u.state = "rollback_failed" /\ Alike(u, rec[o])
    BY <1>2, StatesKnown, StateAlike DEF UnfinishedStates
  <2> HIDE DEF u
  <2>3. ~Terminal(u) /\ Exists(u) /\ Unfinished(u)
    BY <2>2 DEF Terminal, TerminalStates, Exists, Unfinished, UnfinishedStates
  <2>4. rec'[o] = u /\ ~rec[o].needs /\ ~u.needs /\ ~u.exp
    BY <1>2, <1>4, <1>5, <2>1, <2>2 DEF FInv, DataInv, NeedsKnown, Alike
  <2>5. Sane(u)
    BY <2>2, <2>4 DEF Sane
  <2>6. /\ rec'[o] = u /\ \A p \in Ops \ {o} : rec'[p] = rec[p]
        /\ file' = file /\ jrn' = jrn
    BY <1>1, <1>2, <2>1, <2>4
  <2>7. AllSane' /\ NeedsKnown'
    BY <2>4, <2>5, <2>6 DEF FInv, DataInv, AllSane, NeedsKnown
  <2>8. AllFollow'
    <3>1. ASSUME NEW p \in Ops \ {o} PROVE Follows(p)'
      BY <1>1, <2>6 DEF FInv, DataInv, AllFollow, Follows
    <3>2. Follows(o)'
      BY <1>5, <2>6 DEF Follows
    <3> QED
      BY <3>1, <3>2 DEF AllFollow
  <2>9. TerminalIsDurable'
    BY <1>1, <2>3, <2>6 DEF FInv, DataInv, TerminalIsDurable, Terminal
  <2>10. PreparedKnown'
    BY <1>1, <1>2, <2>2, <2>6 DEF FInv, DataInv, PreparedKnown
  <2>11. AllKept'
    BY <2>6, DiskSame
  <2>12. GateUsed'
    BY <1>1, <1>2, <2>1, <2>3, <2>4 DEF GateUsed, Unfinished
  <2> QED
    BY <1>2, <1>3, <2>1, <2>7, <2>8, <2>9, <2>10, <2>11, <2>12, IdleControl DEF DataInv
<1>6. CASE ~(~SnapshotsOK(o, rec[o]) /\ ~Exists(jrn[o]))
  <2>1. proc = "attached" /\ SetState(o, rec[o], "rolling_back", res)
    BY <1>6 DEF RollbackUnfinished
  <2>2. /\ "rolling_back" \in States \ {"absent", "prepared"}
        /\ "rolling_back" \in UnfinishedStates /\ "outcome_unknown" \in UnfinishedStates
    BY StatesKnown DEF UnfinishedStates
  <2>3. Exists(jrn[o]) \/ (SnapshotsOK(o, rec[o]) /\ ~rec[o].needs)
    BY <1>6 DEF FInv, DataInv, NeedsKnown
  <2>4. /\ DataInv' /\ (res = "ok" => Exists(jrn'[o]))
        /\ \E u \in Records :
               /\ rec' = [rec EXCEPT ![o] = u] /\ Alike(u, rec[o])
               /\ u.state = IF res = "ok" THEN "rolling_back" ELSE "outcome_unknown"
    BY <1>1, <1>2, <1>4, <2>1, <2>2, <2>3, SetStateData
  <2>5. Unfinished(rec'[o]) /\ rec'[o].state # "prepared"
    BY <1>2, <2>2, <2>4 DEF Unfinished
  <2>6. CASE res = "ok"
    <3>1. /\ pc' = "r_start"
          /\ job' = [op |-> o, kind |-> "rollback", orig |-> rec[o]]
      BY <1>6, <2>6 DEF RollbackUnfinished, Launch, Goto
    <3> QED
      BY <1>1, <2>1, <2>4, <2>5, <2>6, <3>1, LaunchControl
  <2>7. CASE res # "ok"
    <3>1. UNCHANGED <<pc, job>> /\ active' = o
      BY <1>6, <2>1, <2>7 DEF RollbackUnfinished, SetState
    <3>2. GateUsed'
      BY <1>1, <2>5, <3>1 DEF GateUsed, Unfinished
    <3> QED
      BY <1>2, <1>3, <2>4, <3>1, <3>2, IdleControl
  <2> QED
    BY <2>6, <2>7
<1> QED
  BY <1>5, <1>6

-----------------------------------------------------------------------------
(* Prepare *)

\* Prepare reserves an ID that no journal knows.
LEMMA PrepareFacts ==
  ASSUME FInv, NEW o \in Ops, NEW v \in Versions, Prepare(o, v)
  PROVE  DataInv' /\ ControlInv'
<1> DEFINE u == [Absent EXCEPT !.state = "prepared", !.old = store, !.new = v]
<1>1. /\ LockFree /\ proc # "down" /\ ~Exists(rec[o]) /\ ~Running
      /\ rec' = [rec EXCEPT ![o] = u] /\ active' = o
      /\ pc' = "p_old" /\ job' = [op |-> o, kind |-> "none", orig |-> Absent]
      /\ UNCHANGED <<file, jrn, proc, gate>>
  BY DEF Prepare, Serving, Goto, durable
<1>2. /\ TypeOK /\ rec \in [Ops -> Records] /\ pc \notin PrepPcs
  BY <1>1, LockFreePcs DEF FInv, IInv, TypeOK
<1>3. u.state = "prepared" /\ ~u.needs /\ ~u.exp
  BY DEF Absent
<1> HIDE DEF u
<1>4. rec'[o] = u /\ \A p \in Ops \ {o} : rec'[p] = rec[p]
  BY <1>1, <1>2
<1>5. ~Exists(jrn[o])
  BY <1>1 DEF FInv, DataInv, AllFollow, Follows
<1>6. Sane(u) /\ ~Terminal(u) /\ Unfinished(u)
  BY <1>3 DEF Sane, Terminal, TerminalStates, Unfinished, UnfinishedStates
<1>7. AllSane' /\ NeedsKnown'
  BY <1>1, <1>3, <1>4, <1>6 DEF FInv, DataInv, AllSane, NeedsKnown
<1>8. AllFollow'
  <2>1. ASSUME NEW p \in Ops \ {o} PROVE Follows(p)'
    BY <1>1, <1>4 DEF FInv, DataInv, AllFollow, Follows
  <2>2. Follows(o)'
    BY <1>1, <1>5 DEF Follows
  <2> QED
    BY <2>1, <2>2 DEF AllFollow
<1>9. TerminalIsDurable' /\ AllKept'
  BY <1>1, <1>4, <1>6, DiskSame DEF FInv, DataInv, TerminalIsDurable, Terminal
<1>10. pc' \in PrepPcs /\ pc' \notin WorkerPcs \cup OpenPcs \cup DeletePcs
  BY <1>1, PcsKnown DEF PrepPcs
<1>11. PreparedKnown'
  BY <1>1, <1>2, <1>4, <1>10 DEF FInv, DataInv, PreparedKnown, Op
<1>12. Reserved' /\ GateUsed'
  BY <1>1, <1>3, <1>4, <1>5, <1>6 DEF Reserved, GateUsed, Op, Exists, Unfinished
<1>13. Opening' /\ Deleting' /\ Leased' /\ Undoing'
  BY <1>10 DEF Opening, Deleting, Leased, Undoing
<1>14. KindsFit' /\ FactsCollected' /\ RefusedUndoKeepsHistory'
  BY <1>1, <1>10, PcsKnown DEF KindsFit, KindsAt, FactsCollected, FactsAt, RestorePcs,
     RollbackPcs, RefusedUndoKeepsHistory
<1> QED
  BY <1>7, <1>8, <1>9, <1>11, <1>12, <1>13, <1>14 DEF DataInv, ControlInv

\* What a handler of Prepare works on.
LEMMA PrepareKnows ==
  ASSUME FInv, pc \in PrepPcs
  PROVE  /\ Op \in Ops /\ proc # "down" /\ active = Op /\ TypeOK
         /\ rec[Op] \in Records /\ rec[Op].state = "prepared" /\ ~Exists(jrn[Op])
         /\ job.kind = "none" /\ Sane(rec[Op]) /\ ~rec[Op].exp /\ ~rec[Op].needs
         /\ pc \notin WorkerPcs
<1>1. pc \notin {"idle", "g_old", "g_new"} /\ pc \notin WorkerPcs
  BY PcsKnown DEF OpenPcs, PrepPcs
<1>2. Op \in Ops /\ proc # "down" /\ rec[Op] \in Records /\ TypeOK /\ active = Op
  BY <1>1, WorkerFacts DEF FInv, IInv
<1>3. rec[Op].state = "prepared" /\ ~Exists(jrn[Op]) /\ job.kind = "none"
  BY <1>1 DEF FInv, ControlInv, Reserved, KindsFit, KindsAt
<1> QED
  BY <1>1, <1>2, <1>3
     DEF FInv, DataInv, AllSane, Sane, Terminal, TerminalStates

\* A step of Prepare: the reservation keeps its versions, and the journal is
\* written only over complete snapshots.
LEMMA PrepareStep ==
  ASSUME FInv, pc \in PrepPcs, UNCHANGED <<proc, gate, active>>,
         NEW u \in Records, rec' = [rec EXCEPT ![Op] = u], Alike(u, rec[Op]),
         u.state \in {"prepared", "outcome_unknown"},
         \A p \in Ops \ {Op} : file'[p] = file[p],
         \/ jrn' = jrn
         \/ /\ jrn' = [jrn EXCEPT ![Op] = rec[Op]]
            /\ file'[Op].old = rec[Op].old /\ file'[Op].new = rec[Op].new,
         \/ u.state # "prepared"
         \/ Exists(jrn'[Op])
         \/ pc' \in PrepPcs /\ job' = job
  PROVE  DataInv' /\ GateUsed'
<1>1. /\ Op \in Ops /\ proc # "down" /\ active = Op /\ TypeOK
      /\ rec[Op] \in Records /\ rec[Op].state = "prepared" /\ ~Exists(jrn[Op])
      /\ job.kind = "none" /\ Sane(rec[Op]) /\ ~rec[Op].exp /\ ~rec[Op].needs
  BY PrepareKnows
<1>2. /\ rec'[Op] = u
      /\ \A p \in Ops \ {Op} : rec'[p] = rec[p] /\ jrn'[p] = jrn[p]
      /\ jrn'[Op] = jrn[Op] \/ (jrn'[Op] = rec[Op] /\ file'[Op].old = rec[Op].old
                                                  /\ file'[Op].new = rec[Op].new)
  BY <1>1 DEF TypeOK
<1>3. Sane(u) /\ ~Terminal(u) /\ Unfinished(u) /\ Exists(u) /\ ~u.needs
  BY <1>1 DEF Sane, Terminal, TerminalStates, Unfinished, UnfinishedStates, Exists, Alike
<1>4. AllSane' /\ NeedsKnown'
  BY <1>1, <1>2, <1>3 DEF FInv, DataInv, AllSane, NeedsKnown
<1>5. AllFollow'
  <2>1. ASSUME NEW p \in Ops, p # Op PROVE Follows(p)'
    BY <1>1, <1>2, <2>1 DEF FInv, DataInv, AllFollow, Follows
  <2>2. ASSUME NEW p \in Ops, p = Op PROVE Follows(p)'
    BY <1>1, <1>2, <1>3, <2>2 DEF Follows, Exists, Alike
  <2> QED
    BY <2>1, <2>2 DEF AllFollow
<1>6. AllKept'
  <2>1. ASSUME NEW p \in Ops, p # Op PROVE Kept(p)'
    BY <1>2, <2>1 DEF FInv, DataInv, AllKept, Kept, SnapshotsOK
  <2>2. ASSUME NEW p \in Ops, p = Op PROVE Kept(p)'
    BY <1>1, <1>2, <2>2 DEF Kept, SnapshotsOK
  <2> QED
    BY <2>1, <2>2 DEF AllKept
<1>7. TerminalIsDurable'
  BY <1>1, <1>2, <1>3 DEF FInv, DataInv, TerminalIsDurable, Terminal
<1>8. PreparedKnown'
  <2>1. ASSUME NEW p \in Ops, p # Op, rec'[p].state = "prepared" PROVE Exists(jrn'[p])
    BY <1>1, <1>2, <2>1 DEF FInv, DataInv, PreparedKnown, Exists
  <2>2. u.state # "prepared" \/ Exists(jrn'[Op]) \/ (pc' \in PrepPcs /\ job'.op = Op)
    BY DEF Op
  <2> QED
    BY <1>2, <2>1, <2>2 DEF PreparedKnown, Op, Exists
<1>9. GateUsed'
  BY <1>1, <1>2, <1>3 DEF GateUsed, Unfinished
<1> QED
  BY <1>4, <1>5, <1>6, <1>7, <1>8, <1>9 DEF DataInv

\* A write of Prepare that failed: the ID stays reserved, nobody works.
LEMMA PrepareFailedFacts ==
  ASSUME FInv, pc \in PrepPcs, UNCHANGED <<proc, gate, active>>, PrepareFailed,
         \A p \in Ops \ {Op} : file'[p] = file[p],
         \/ jrn' = jrn
         \/ /\ jrn' = [jrn EXCEPT ![Op] = rec[Op]]
            /\ file'[Op].old = rec[Op].old /\ file'[Op].new = rec[Op].new
  PROVE  DataInv' /\ ControlInv'
<1> DEFINE u == [rec[Op] EXCEPT !.state = "outcome_unknown"]
<1>1. rec[Op] \in Records
  BY PrepareKnows
<1>2. u \in Records /\ u.state = "outcome_unknown" /\ Alike(u, rec[Op])
  BY <1>1, StatesKnown, StateAlike DEF UnfinishedStates
<1>3. rec' = [rec EXCEPT ![Op] = u] /\ pc' = "idle" /\ job'.kind = "none"
  BY DEF PrepareFailed, Idle, Goto, NoJob
<1> HIDE DEF u
<1>4. DataInv' /\ GateUsed'
  BY <1>2, <1>3, PrepareStep
<1> QED
  BY <1>3, <1>4, IdleControl

\* A write of Prepare that went well and is not the last.
LEMMA PrepareWentOn ==
  ASSUME FInv, pc \in PrepPcs, UNCHANGED <<proc, gate, active, rec, jrn, job>>,
         \A p \in Ops \ {Op} : file'[p] = file[p],
         pc' \in {"p_new", "p_journal"},
         file'[Op].old = rec[Op].old,
         pc' = "p_journal" => file'[Op].new = rec[Op].new
  PROVE  DataInv' /\ ControlInv'
<1>1. /\ Op \in Ops /\ rec[Op] \in Records /\ rec[Op].state = "prepared"
      /\ ~Exists(jrn[Op]) /\ job.kind = "none" /\ TypeOK
  BY PrepareKnows
<1>2. pc' \in PrepPcs /\ pc' \notin WorkerPcs \cup OpenPcs \cup DeletePcs
  BY PcsKnown DEF PrepPcs
<1>3. rec' = [rec EXCEPT ![Op] = rec[Op]] /\ Alike(rec[Op], rec[Op])
  BY <1>1 DEF TypeOK, Alike
<1>4. DataInv' /\ GateUsed'
  BY <1>1, <1>2, <1>3, PrepareStep
<1>5. Reserved'
  BY <1>1 DEF Reserved, Op, Exists
<1>6. Opening' /\ Deleting' /\ Leased' /\ Undoing'
  BY <1>2 DEF Opening, Deleting, Leased, Undoing
<1>7. KindsFit' /\ FactsCollected' /\ RefusedUndoKeepsHistory'
  BY <1>1, <1>2, PcsKnown DEF KindsFit, KindsAt, FactsCollected, FactsAt, RestorePcs,
     RollbackPcs, RefusedUndoKeepsHistory
<1> QED
  BY <1>4, <1>5, <1>6, <1>7 DEF ControlInv

LEMMA PrepareOldFacts ==
  ASSUME FInv, NEW res \in Results, PrepareOld(res) PROVE DataInv' /\ ControlInv'
<1>1. /\ pc = "p_old" /\ UNCHANGED <<proc, gate, active, jrn>>
      /\ file' = IF res = "lost" THEN file ELSE [file EXCEPT ![Op].old = rec[Op].old]
      /\ IF res = "ok" THEN pc' = "p_new" /\ UNCHANGED <<rec, job>> ELSE PrepareFailed
  BY DEF PrepareOld, PrepareSnapshot, Goto
<1>2. pc \in PrepPcs /\ Op \in Ops /\ TypeOK
  BY <1>1, PrepareKnows DEF PrepPcs
<1>3. /\ \A p \in Ops \ {Op} : file'[p] = file[p]
      /\ res # "lost" => file'[Op].old = rec[Op].old
  BY <1>1, <1>2 DEF TypeOK
<1> QED
  BY <1>1, <1>2, <1>3, PrepareFailedFacts, PrepareWentOn

LEMMA PrepareNewFacts ==
  ASSUME FInv, NEW res \in Results, PrepareNew(res) PROVE DataInv' /\ ControlInv'
<1>1. /\ pc = "p_new" /\ UNCHANGED <<proc, gate, active, jrn>>
      /\ file' = IF res = "lost" THEN file ELSE [file EXCEPT ![Op].new = rec[Op].new]
      /\ IF res = "ok" THEN pc' = "p_journal" /\ UNCHANGED <<rec, job>>
                       ELSE PrepareFailed
  BY DEF PrepareNew, PrepareSnapshot, Goto
<1>2. pc \in PrepPcs /\ Op \in Ops /\ TypeOK
  BY <1>1, PrepareKnows DEF PrepPcs
<1>3. file[Op].old = rec[Op].old
  BY <1>1, <1>2 DEF FInv, ControlInv, Reserved
<1>4. /\ \A p \in Ops \ {Op} : file'[p] = file[p]
      /\ res # "lost" => file'[Op].new = rec[Op].new /\ file'[Op].old = rec[Op].old
  BY <1>1, <1>2, <1>3 DEF TypeOK
<1> QED
  BY <1>1, <1>2, <1>4, PrepareFailedFacts, PrepareWentOn

LEMMA PrepareJournalFacts ==
  ASSUME FInv, NEW res \in Results, PrepareJournal(res) PROVE DataInv' /\ ControlInv'
<1>1. /\ pc = "p_journal" /\ UNCHANGED <<proc, gate, active, file>>
      /\ jrn' = IF res = "lost" THEN jrn ELSE [jrn EXCEPT ![Op] = rec[Op]]
      /\ IF res = "ok" THEN Idle /\ rec' = rec ELSE PrepareFailed
  BY DEF PrepareJournal, WriteJournal
<1>2. pc \in PrepPcs /\ Op \in Ops /\ TypeOK /\ rec[Op] \in Records
      /\ rec[Op].state = "prepared"
  BY <1>1, PrepareKnows DEF PrepPcs
<1>3. file'[Op].old = rec[Op].old /\ file'[Op].new = rec[Op].new
  BY <1>1, <1>2 DEF FInv, ControlInv, Reserved
<1>4. CASE res = "ok"
  <2>1. /\ rec' = [rec EXCEPT ![Op] = rec[Op]] /\ Alike(rec[Op], rec[Op])
        /\ jrn' = [jrn EXCEPT ![Op] = rec[Op]] /\ Exists(jrn'[Op])
    BY <1>1, <1>2, <1>4 DEF TypeOK, Alike, Exists
  <2>2. pc' = "idle" /\ job'.kind = "none"
    BY <1>1, <1>4 DEF Idle, Goto, NoJob
  <2>3. DataInv' /\ GateUsed'
    BY <1>1, <1>2, <1>3, <2>1, PrepareStep
  <2> QED
    BY <2>2, <2>3, IdleControl
<1>5. CASE res # "ok"
  BY <1>1, <1>2, <1>3, <1>5, PrepareFailedFacts
<1> QED
  BY <1>4, <1>5

-----------------------------------------------------------------------------
(* PruneSnapshots *)

\* What a handler of PruneSnapshots finds.
LEMMA PruneKnows ==
  ASSUME FInv, NEW o \in Ops, PruneAllowed(o)
  PROVE  /\ proc # "down" /\ ~gate /\ active = None /\ pc = "idle" /\ TypeOK
         /\ rec[o] \in Records /\ Terminal(rec[o]) /\ ~rec[o].needs
         /\ jrn[o] = rec[o] /\ Exists(jrn[o]) /\ Sane(rec[o]) /\ job.kind = "none"
         /\ rec \in [Ops -> Records] /\ jrn \in [Ops -> Records]
<1>1. /\ proc # "down" /\ ~gate /\ active = None /\ pc = "idle" /\ TypeOK
      /\ rec[o] \in Records /\ Terminal(rec[o]) /\ ~rec[o].needs
      /\ rec \in [Ops -> Records] /\ jrn \in [Ops -> Records]
  BY LockFreePcs DEF PruneAllowed, Serving, FInv, IInv, TypeOK
<1>2. jrn[o] = rec[o] /\ Exists(jrn[o]) /\ Sane(rec[o])
  BY <1>1 DEF FInv, DataInv, TerminalIsDurable, AllSane, Exists, Terminal, TerminalStates
<1>3. job.kind = "none"
  BY <1>1, PcsKnown DEF FInv, ControlInv, KindsFit, KindsAt
<1> QED
  BY <1>1, <1>2, <1>3

\* Somebody deletes the snapshots of o, whose journal says that they expired.
LEMMA DeletingControl ==
  ASSUME NEW o, pc' \in DeletePcs, job'.op = o, job'.kind = "none",
         Exists(jrn'[o]), jrn'[o].exp, GateUsed'
  PROVE  ControlInv'
<1>1. pc' \notin WorkerPcs \cup OpenPcs \cup PrepPcs
  BY PcsKnown
<1>2. Deleting'
  BY DEF Deleting, Op, Exists
<1>3. Reserved' /\ Opening' /\ Leased' /\ Undoing'
  BY <1>1 DEF Reserved, Opening, Leased, Undoing
<1>4. KindsFit' /\ FactsCollected' /\ RefusedUndoKeepsHistory'
  BY <1>1, PcsKnown, WorkerPcsBusy DEF KindsFit, KindsAt, FactsCollected, FactsAt,
     RestorePcs, RollbackPcs, RefusedUndoKeepsHistory
<1> QED
  BY <1>2, <1>3, <1>4 DEF ControlInv

\* The journal says so first; until it does, nothing is deleted.
LEMMA PruneExpireFacts ==
  ASSUME FInv, NEW o \in Ops, NEW res \in Results, PruneExpire(o, res)
  PROVE  DataInv' /\ ControlInv'
<1> DEFINE u == [rec[o] EXCEPT !.exp = TRUE]
<1>1. /\ PruneAllowed(o) /\ Save(o, u, res) /\ UNCHANGED <<file, proc, active>>
      /\ IF res = "ok" THEN Pruning(o, "g_old") /\ gate' = gate
                       ELSE gate' = TRUE /\ UNCHANGED <<pc, job>>
  BY DEF PruneExpire
<1>2. /\ proc # "down" /\ ~gate /\ active = None /\ pc = "idle" /\ TypeOK
      /\ rec[o] \in Records /\ Terminal(rec[o]) /\ ~rec[o].needs
      /\ jrn[o] = rec[o] /\ Exists(jrn[o]) /\ Sane(rec[o]) /\ job.kind = "none"
      /\ rec \in [Ops -> Records] /\ jrn \in [Ops -> Records]
  BY <1>1, PruneKnows
<1>3. rec' = [rec EXCEPT ![o] = u] /\ (jrn' = jrn \/ jrn' = [jrn EXCEPT ![o] = u])
      /\ (res = "ok" => jrn' = [jrn EXCEPT ![o] = u])
  BY <1>1 DEF Save, WriteJournal
<1>4. /\ u \in Records /\ u.exp /\ u.state = rec[o].state
      /\ u.old = rec[o].old /\ u.new = rec[o].new
      /\ u.sp <=> rec[o].sp
      /\ u.ra <=> rec[o].ra
      /\ u.ver <=> rec[o].ver
      /\ u.needs <=> rec[o].needs
  BY <1>2 DEF Records
<1> HIDE DEF u
<1>5. Sane(u) /\ Terminal(u) /\ Exists(u) /\ ~u.needs
  BY <1>2, <1>4 DEF Sane, Terminal, Exists, TerminalStates
<1>6. /\ rec'[o] = u /\ jrn'[o] \in {rec[o], u} /\ (res = "ok" => jrn'[o] = u)
      /\ \A p \in Ops \ {o} : rec'[p] = rec[p] /\ jrn'[p] = jrn[p]
  BY <1>2, <1>3
<1>7. AllSane' /\ NeedsKnown'
  BY <1>2, <1>5, <1>6 DEF FInv, DataInv, AllSane, NeedsKnown, Exists
<1>8. AllFollow'
  <2>1. ASSUME NEW p \in Ops \ {o} PROVE Follows(p)'
    BY <1>2, <1>6 DEF FInv, DataInv, AllFollow, Follows
  <2>2. Follows(o)'
    BY <1>4, <1>5, <1>6 DEF Follows, Exists
  <2> QED
    BY <2>1, <2>2 DEF AllFollow
<1>9. AllKept'
  <2>1. ASSUME NEW p \in Ops \ {o} PROVE Kept(p)'
    BY <1>1, <1>6 DEF FInv, DataInv, AllKept, Kept, SnapshotsOK
  <2>2. Kept(o)'
    <3>1. CASE jrn'[o] = u
      BY <1>4, <1>5, <3>1 DEF Kept
    <3>2. CASE jrn'[o] = jrn[o]
      BY <1>1, <3>2 DEF Kept, SnapshotsOK, FInv, DataInv, AllKept
    <3> QED
      BY <1>2, <1>6, <3>1, <3>2
  <2> QED
    BY <2>1, <2>2 DEF AllKept
<1>10. TerminalIsDurable'
  <2>1. CASE res = "ok"
    BY <1>1, <1>2, <1>6, <2>1 DEF FInv, DataInv, TerminalIsDurable, Terminal
  <2>2. CASE res # "ok"
    BY <1>1, <2>2 DEF TerminalIsDurable
  <2> QED
    BY <2>1, <2>2
<1>11. PreparedKnown'
  <2>1. rec'[o].state # "prepared"
    BY <1>5, <1>6 DEF Terminal, TerminalStates
  <2>2. ASSUME NEW p \in Ops \ {o}, rec'[p].state = "prepared" PROVE Exists(jrn'[p])
    BY <1>2, <1>6, <2>2, PcsKnown DEF FInv, DataInv, PreparedKnown, Exists
  <2> QED
    BY <2>1, <2>2 DEF PreparedKnown, Exists
<1>12. GateUsed'
  BY <1>1, <1>2 DEF GateUsed
<1>13. ControlInv'
  <2>1. CASE res = "ok"
    <3>1. pc' \in DeletePcs /\ job'.op = o /\ job'.kind = "none"
      BY <1>1, <2>1 DEF Pruning, Goto, DeletePcs
    <3>2. Exists(jrn'[o]) /\ jrn'[o].exp
      BY <1>4, <1>5, <1>6, <2>1
    <3> QED
      BY <1>12, <3>1, <3>2, DeletingControl
  <2>2. CASE res # "ok"
    BY <1>1, <1>2, <1>12, <2>2, IdleControl
  <2> QED
    BY <2>1, <2>2
<1> QED
  BY <1>7, <1>8, <1>9, <1>10, <1>11, <1>13 DEF DataInv

LEMMA PruneResiduesFacts ==
  ASSUME FInv, NEW o \in Ops, PruneResidues(o) PROVE DataInv' /\ ControlInv'
<1>1. /\ PruneAllowed(o) /\ rec[o].exp /\ Pruning(o, "g_old")
      /\ UNCHANGED <<file, jrn, rec, gate, proc, active>>
  BY DEF PruneResidues, durable, memory
<1>2. /\ proc # "down" /\ active = None /\ pc = "idle"
      /\ jrn[o] = rec[o] /\ Exists(jrn[o])
  BY <1>1, PruneKnows
<1>3. DataInv'
  BY <1>1, <1>2, PcsKnown, QuietData
<1>4. pc' \in DeletePcs /\ job'.op = o /\ job'.kind = "none"
  BY <1>1 DEF Pruning, Goto, DeletePcs
<1>5. Exists(jrn'[o]) /\ jrn'[o].exp /\ GateUsed'
  BY <1>1, <1>2 DEF GateUsed, Exists
<1> QED
  BY <1>3, <1>4, <1>5, DeletingControl

\* One file goes; the journal has said so.
LEMMA PruneDeleteFacts ==
  ASSUME FInv, NEW res \in Results, PruneOld(res) \/ PruneNew(res)
  PROVE  DataInv' /\ ControlInv'
<1>1. /\ pc \in DeletePcs /\ UNCHANGED <<jrn, rec, gate, proc, active>>
      /\ \/ file' = file
         \/ \E which \in {"old", "new"} : file' = [file EXCEPT ![Op][which] = None]
      /\ \/ pc' = "idle" /\ job'.kind = "none"
         \/ pc' = "g_new" /\ job' = job
  BY DEF PruneOld, PruneNew, PruneDelete, memory, Goto, Idle, NoJob, DeletePcs
<1>2. /\ pc \notin WorkerPcs \cup PrepPcs /\ pc \in Pcs \ {"idle"}
  BY <1>1, PcsKnown DEF Pcs
<1>3. /\ TypeOK /\ Op \in Ops /\ job.kind = "none" /\ Exists(jrn[Op]) /\ jrn[Op].exp
  BY <1>1, <1>2 DEF FInv, IInv, TypeOK, Op, ControlInv, Deleting, KindsFit, KindsAt
<1>4. \A p \in Ops : p # Op => file'[p] = file[p]
  BY <1>1, <1>3 DEF TypeOK
<1>5. AllKept'
  <2>1. ASSUME NEW p \in Ops, p # Op PROVE Kept(p)'
    BY <1>1, <1>4, <2>1 DEF FInv, DataInv, AllKept, Kept, SnapshotsOK
  <2>2. ASSUME NEW p \in Ops, p = Op PROVE Kept(p)'
    BY <1>1, <1>3, <2>2 DEF FInv, DataInv, AllKept, Kept
  <2> QED
    BY <2>1, <2>2 DEF AllKept
<1>6. AllSane' /\ NeedsKnown' /\ AllFollow' /\ TerminalIsDurable'
  BY <1>1 DEF FInv, DataInv, AllSane, NeedsKnown, AllFollow, Follows, TerminalIsDurable
<1>7. PreparedKnown'
  BY <1>1, <1>2 DEF FInv, DataInv, PreparedKnown
<1>8. GateUsed'
  BY <1>1, <1>2 DEF FInv, ControlInv, GateUsed, Unfinished
<1>9. ControlInv'
  <2>1. CASE pc' = "idle" /\ job'.kind = "none"
    BY <1>8, <2>1, IdleControl
  <2>2. CASE pc' = "g_new" /\ job' = job
    BY <1>1, <1>3, <1>8, <2>2, DeletingControl DEF DeletePcs, Op, Exists
  <2> QED
    BY <1>1, <2>1, <2>2
<1> QED
  BY <1>5, <1>6, <1>7, <1>9 DEF DataInv

-----------------------------------------------------------------------------
(* The invariant *)

THEOREM InitFacts == Init => FInv
<1> SUFFICES ASSUME Init PROVE DataInv /\ ControlInv
  BY InitIInv DEF FInv
<1>1. \A o \in Ops : rec[o] = Absent /\ jrn[o] = Absent
  BY DEF Init
<1>2. AllSane /\ NeedsKnown /\ AllKept
  BY <1>1, AbsentSane DEF AllSane, NeedsKnown, AllKept, Kept
<1>3. AllFollow /\ TerminalIsDurable /\ PreparedKnown
  BY DEF Init, AllFollow, TerminalIsDurable, PreparedKnown
<1>4. pc = "idle" /\ job.kind = "none" /\ active = None
  BY DEF Init, NoJob
<1>5. ControlInv
  BY <1>4, PcsKnown, WorkerPcsBusy DEF ControlInv, Reserved, Opening, Deleting, Leased,
     GateUsed, KindsFit, KindsAt, Undoing, FactsCollected, FactsAt,
     RefusedUndoKeepsHistory, PrepPcs, OpenPcs, DeletePcs, RestorePcs, RollbackPcs,
     ApplyPcs
<1> QED
  BY <1>2, <1>3, <1>5 DEF DataInv

\* Stuttering.
LEMMA StutterFacts == ASSUME FInv, UNCHANGED vars PROVE DataInv' /\ ControlInv'
<1>1. UNCHANGED <<file, jrn, rec, gate, active, pc, job, proc>>
  BY DEF vars
<1> QED
  BY <1>1, QuietData, QuietControl

\* Every step of the engine keeps the invariant.
THEOREM FactsInductive == FInv /\ [Next]_vars => FInv'
<1> SUFFICES ASSUME FInv, [Next]_vars PROVE FInv'
  OBVIOUS
<1>0. IInv'
  BY NextIInv DEF FInv
<1> SUFFICES DataInv' /\ ControlInv'
  BY <1>0 DEF FInv
<1>1. CASE UNCHANGED vars
  BY <1>1, StutterFacts
<1>2. CASE Crash \/ OpenClean \/ (\E o \in Ops : OpenRecover(o)) \/ NativeLoad
  BY <1>2, CrashFacts, OpenFacts, AmbientFacts
<1>3. CASE AttachRuntime
  BY <1>3, AttachRuntimeFacts
<1>4. ASSUME NEW res \in Results, OpenStep(res) \/ HandlerStep(res) \/ Watcher(res)
      PROVE  DataInv' /\ ControlInv'
  BY <1>4, OpenSaveFacts, OpenWriteFacts, OpenSavedFacts, PrepareOldFacts, PrepareNewFacts,
     PrepareJournalFacts, PruneDeleteFacts, WatcherFacts DEF OpenStep, HandlerStep
<1>5. CASE Requests
  <2>1. ASSUME NEW o \in Ops, NEW v \in Versions, Prepare(o, v)
        PROVE  DataInv' /\ ControlInv'
    BY <2>1, PrepareFacts
  <2>2. ASSUME NEW o \in Ops,
               RollbackRunning(o) \/ RollbackConfirmed(o) \/ PruneResidues(o)
        PROVE  DataInv' /\ ControlInv'
    BY <2>2, RollbackRunningFacts, RollbackConfirmedFacts, PruneResiduesFacts
  <2>3. ASSUME NEW o \in Ops, NEW res \in Results,
               \/ Apply(o, res) \/ ApplyRefused(o, res)
               \/ RollbackPrepared(o, res) \/ RollbackUnfinished(o, res)
               \/ PruneExpire(o, res)
        PROVE  DataInv' /\ ControlInv'
    BY <2>3, ApplyFacts, EndingsFacts, RollbackUnfinishedFacts, PruneExpireFacts
  <2>4. ASSUME NEW res \in Results, CloseRunning(res) \/ CloseIdle(res)
        PROVE  DataInv' /\ ControlInv'
    BY <2>4, CloseRunningFacts, CloseIdleFacts
  <2> QED
    BY <1>5, <2>1, <2>2, <2>3, <2>4 DEF Requests
<1>6. CASE HookReturns
  BY <1>6, HookFacts
<1>7. CASE Worker
  <2>1. ASSUME NEW res \in Results, WorkerStep(res) PROVE DataInv' /\ ControlInv'
    BY <2>1, ApplyCheckedFacts, ApplyWriteFacts, ApplySaveFacts, ApplyUnknownFacts,
       ApplyAppliedFacts, ApplyVerifiedFacts, RollbackCheckedFacts, RollbackBeginFacts,
       RollbackWriteFacts, RollbackConflictFacts, RollbackFailedFacts,
       RollbackSaveFacts, RollbackAppliedFacts, RollbackVerifiedFacts DEF WorkerStep
  <2> QED
    BY <1>7, <2>1, RollbackStartFacts, UndoCheckedFacts, WorkerExitFacts DEF Worker
<1>8. ASSUME NEW o \in Ops, NEW res \in Results, ExpirePrepared(o, res)
      PROVE  DataInv' /\ ControlInv'
  BY <1>8, EndingsFacts
<1>9. CASE \/ \E o \in Ops : DeadlinePasses(o)
           \/ RollbackTimeout
           \/ \E v \in Versions : Drift(v)
  BY <1>9, AmbientFacts
<1> QED
  BY <1>1, <1>2, <1>3, <1>4, <1>5, <1>6, <1>7, <1>8, <1>9 DEF Next

THEOREM FactsHold == Spec => []FInv
BY InitFacts, FactsInductive, PTL DEF Spec

\* A restart never revises an answer: what the engine reports as final is what
\* its journal says (state, persist, the cancelled intent of an undo).
THEOREM AnswersAreDurable == Spec => []TerminalIsDurable
<1>1. FInv => TerminalIsDurable
  BY DEF FInv, DataInv
<1> QED
  BY <1>1, FactsHold, PTL

\* Every record passes ConfigOperationView.Validate.
THEOREM RecordsAreValid == Spec => []WireValid
<1>1. FInv => WireValid
  BY DEF FInv, DataInv, AllSane, Sane, WireValid
<1> QED
  BY <1>1, FactsHold, PTL

\* A refused undo leaves memory and journal as they were (rollbackConfirmed).
THEOREM RefusalsChangeNothing == Spec => []RefusedUndoKeepsHistory
<1>1. FInv => RefusedUndoKeepsHistory
  BY DEF FInv, ControlInv
<1> QED
  BY <1>1, FactsHold, PTL

\* What Open checks of the directory (load).
LEMMA FInvLoadable == FInv => Loadable
BY DEF FInv, IInv, DataInv, AllKept, Kept, AllSane, Sane, SingleUnfinished, Loadable

\* Open accepts the directory a kill leaves, at any moment and whoever else
\* wrote the Store (load).
THEOREM AlwaysLoadable == Spec => []Loadable
<1> QED
  BY FInvLoadable, FactsHold, PTL

-----------------------------------------------------------------------------
(***************************************************************************)
(* The outcomes                                                            *)
(***************************************************************************)

-----------------------------------------------------------------------------
(* The Store and the outcomes.  PlanInv: as long as nobody else writes it,   *)
(* the Store holds one of the two versions of the unfinished operation.      *)
(* ObsInv: what a successful Verify has seen is still served when its result *)
(* is read.  OutcomesOK: what a step that records an outcome has seen.       *)

\* The record that counts: the journal's when the process is down.
Current(o) == IF proc = "down" THEN jrn[o] ELSE rec[o]

PlanInv == drifts = 0 =>
    \A o \in Ops : Unfinished(Current(o)) => store \in {Current(o).old, Current(o).new}

ObsInv == /\ pc = "a_verified" /\ ~ret.err => runtime = rec[Op].new
          /\ pc = "r_verified" /\ ~ret.err => runtime = rec[Op].old

OutcomeOK(o) ==
    /\ rec'[o].state = "confirmed" /\ rec[o].state # "confirmed"
          => job.kind # "apply" \/ ~abort
    /\ jrn'[o].state = "confirmed" /\ jrn[o].state # "confirmed" /\ job.kind = "apply"
          => store = jrn'[o].new /\ runtime = jrn'[o].new
    /\ jrn'[o].state = "rolled_back" /\ jrn[o].state # "rolled_back"
          => store = jrn'[o].old /\ runtime = jrn'[o].old
OutcomesOK == \A o \in Ops : OutcomeOK(o)

StepGood == PlanInv' /\ ObsInv' /\ OutcomesOK

GInv == FInv /\ PlanInv /\ ObsInv

VerifiedPcs == {"a_verified", "r_verified"}

\* The program counter does not reach the end of Verify, or nothing moved.
ObsFrame == pc' \notin VerifiedPcs \/ UNCHANGED <<pc, job, ret, runtime>>

\* Steps that leave the Store and the records alone.
LEMMA QuietGood ==
  ASSUME GInv, UNCHANGED <<store, rec, jrn, drifts>>, proc' = "down" <=> proc = "down",
         ObsFrame
  PROVE  StepGood
<1>1. PlanInv'
  BY DEF GInv, PlanInv, Current, Unfinished
<1>2. ObsInv'
  BY DEF GInv, ObsInv, ObsFrame, VerifiedPcs, Op
<1>3. OutcomesOK
  BY DEF OutcomesOK, OutcomeOK
<1> QED
  BY <1>1, <1>2, <1>3 DEF StepGood

\* Steps that change the record of one operation and keep its versions.
LEMMA RecordGood ==
  ASSUME GInv, proc # "down", proc' # "down", UNCHANGED <<store, drifts>>, ObsFrame,
         NEW o \in Ops, NEW u \in Records, rec' = [rec EXCEPT ![o] = u],
         u.old = rec[o].old, u.new = rec[o].new,
         Unfinished(u) => Unfinished(rec[o]) \/ store \in {u.old, u.new},
         jrn' = jrn \/ (\E w \in Records : jrn' = [jrn EXCEPT ![o] = w]),
         OutcomeOK(o)
  PROVE  StepGood
<1>1. /\ rec \in [Ops -> Records] /\ jrn \in [Ops -> Records]
  BY DEF GInv, FInv, IInv, TypeOK
<1>2. rec'[o] = u /\ \A p \in Ops \ {o} : rec'[p] = rec[p]
  BY <1>1
<1>3. PlanInv'
  <2>1. ASSUME drifts = 0, NEW p \in Ops, Unfinished(rec'[p])
        PROVE  store \in {rec'[p].old, rec'[p].new}
    BY <1>2, <2>1 DEF GInv, PlanInv, Current
  <2> QED
    BY <2>1 DEF PlanInv, Current, Unfinished
<1>4. ObsInv'
  <2>1. \A p \in Ops : rec'[p].old = rec[p].old /\ rec'[p].new = rec[p].new
    BY <1>2
  <2>2. CASE pc' \notin VerifiedPcs
    BY <2>2 DEF ObsInv, VerifiedPcs
  <2>3. CASE UNCHANGED <<pc, job, ret, runtime>>
    <3>1. pc \in VerifiedPcs => Op \in Ops
      BY DEF GInv, FInv, IInv, TypeOK, VerifiedPcs, Op
    <3> QED
      BY <2>1, <2>3, <3>1 DEF GInv, ObsInv, Op, VerifiedPcs
  <2> QED
    BY <2>2, <2>3 DEF ObsFrame
<1>5. OutcomesOK
  <2>1. ASSUME NEW p \in Ops, p # o PROVE OutcomeOK(p)
    <3>1. rec'[p] = rec[p] /\ jrn'[p] = jrn[p]
      BY <1>1, <1>2, <2>1
    <3> QED
      BY <3>1 DEF OutcomeOK
  <2> QED
    BY <2>1 DEF OutcomesOK
<1> QED
  BY <1>3, <1>4, <1>5 DEF StepGood

\* SetState to anything but a final outcome.
LEMMA SetStateGood ==
  ASSUME GInv, proc # "down", proc' # "down", UNCHANGED <<store, drifts>>, ObsFrame,
         NEW o \in Ops, NEW r \in Records, NEW s \in States, NEW res \in Results,
         SetState(o, r, s, res),
         r.old = rec[o].old, r.new = rec[o].new,
         Unfinished(rec[o]) \/ store \in {r.old, r.new},
         s \notin {"confirmed", "rolled_back"}
  PROVE  StepGood
<1>1. PICK u \in Records, w \in Records :
            /\ Alike(u, r) /\ Alike(w, r)
            /\ w.state = s
            /\ u.state = IF res = "ok" THEN s ELSE "outcome_unknown"
            /\ res = "ok" => u = w
            /\ rec' = [rec EXCEPT ![o] = u]
            /\ \/ jrn' = [jrn EXCEPT ![o] = w]
               \/ res # "ok" /\ jrn' = jrn
  BY SetStateRecords DEF GInv, FInv, IInv
<1>2. /\ u.old = rec[o].old /\ u.new = rec[o].new /\ u.state # "confirmed"
      /\ Unfinished(u) => Unfinished(rec[o]) \/ store \in {u.old, u.new}
      /\ jrn' = jrn \/ jrn' = [jrn EXCEPT ![o] = w]
  BY <1>1 DEF Alike
<1>3. OutcomeOK(o)
  <2>1. rec'[o] = u /\ (jrn'[o] = jrn[o] \/ jrn'[o] = w)
    BY <1>1, <1>2 DEF GInv, FInv, IInv, TypeOK
  <2> QED
    BY <1>1, <1>2, <2>1 DEF OutcomeOK
<1> QED
  BY <1>1, <1>2, <1>3, RecordGood

\* The process stops: what the journal says was true of the Store.
LEMMA StopGood ==
  ASSUME GInv, proc' = "down", pc' = "idle", UNCHANGED drifts,
         rec' = [o \in Ops |-> Absent],
         \A o \in Ops :
            /\ drifts = 0 /\ Unfinished(jrn'[o]) => store' \in {jrn'[o].old, jrn'[o].new}
            /\ jrn'[o].state = jrn[o].state \/ jrn'[o].state \notin {"confirmed", "rolled_back"}
  PROVE  StepGood
<1>1. PlanInv'
  BY DEF PlanInv, Current, Unfinished
<1>2. ObsInv'
  BY DEF ObsInv
<1>3. OutcomesOK
  <2>1. \A o \in Ops : rec'[o].state = "absent"
    BY DEF Absent
  <2> QED
    BY <2>1 DEF OutcomesOK, OutcomeOK
<1> QED
  BY <1>1, <1>2, <1>3 DEF StepGood

\* While the process runs, the journal's plan is the record's.
LEMMA JournalPlan ==
  ASSUME GInv, drifts = 0, NEW o \in Ops, Unfinished(jrn[o])
  PROVE  store \in {jrn[o].old, jrn[o].new}
<1>1. CASE proc = "down"
  BY <1>1 DEF GInv, PlanInv, Current
<1>2. CASE proc # "down"
  <2>1. Unfinished(rec[o]) /\ Exists(jrn[o])
    BY <1>2 DEF GInv, FInv, IInv, GateCovers, Unfinished, Exists, UnfinishedStates
  <2> QED
    BY <1>2, <2>1 DEF GInv, PlanInv, Current, FInv, DataInv, AllFollow, Follows
<1> QED
  BY <1>1, <1>2

\* A worker records a state that is no final outcome.
LEMMA WorkerRecordsGood ==
  ASSUME GInv, pc \in WorkerPcs \ {"exit"}, WorkerFrame, store' = store,
         pc' \notin VerifiedPcs,
         NEW r \in Records, NEW s \in States, NEW res \in Results,
         SetState(Op, r, s, res),
         r.old = rec[Op].old, r.new = rec[Op].new,
         ~UndoLook \/ store \in {r.old, r.new},
         s \notin {"confirmed", "rolled_back"}
  PROVE  StepGood
<1>1. Op \in Ops /\ proc # "down" /\ (~UndoLook => Unfinished(rec[Op]))
  BY WorkerKnows DEF GInv
<1>2. proc' # "down" /\ drifts' = drifts /\ ObsFrame
  BY <1>1 DEF WorkerFrame, ObsFrame
<1> QED
  BY <1>1, <1>2, SetStateGood

\* A worker saves its record, or changes a fact in it.
LEMMA WorkerSavesGood ==
  ASSUME GInv, pc \in WorkerPcs \ {"exit"}, WorkerFrame, store' = store, ~UndoLook,
         pc' \notin VerifiedPcs,
         NEW u \in Records, rec' = [rec EXCEPT ![Op] = u],
         jrn' = jrn \/ jrn' = [jrn EXCEPT ![Op] = u],
         u.state = rec[Op].state, u.old = rec[Op].old, u.new = rec[Op].new
  PROVE  StepGood
<1>1. Op \in Ops /\ proc # "down" /\ Unfinished(rec[Op]) /\ TypeOK
  BY WorkerKnows DEF GInv
<1>2. proc' # "down" /\ drifts' = drifts /\ ObsFrame
  BY <1>1 DEF WorkerFrame, ObsFrame
<1>3. u.state \notin {"confirmed", "rolled_back"}
  BY <1>1 DEF Unfinished, UnfinishedStates
<1>4. OutcomeOK(Op)
  <2>1. rec'[Op] = u /\ (jrn'[Op] = jrn[Op] \/ jrn'[Op] = u)
    BY <1>1 DEF TypeOK
  <2> QED
    BY <1>3, <2>1 DEF OutcomeOK
<1> QED
  BY <1>1, <1>2, <1>4, RecordGood

\* A step that writes the Store and records no state.
LEMMA MoveGood ==
  ASSUME GInv, proc # "down", proc' = proc, active = Op, Op \in Ops,
         UNCHANGED <<drifts, jrn>>, pc' \notin VerifiedPcs,
         NEW u \in Records, rec' = [rec EXCEPT ![Op] = u],
         u.state = rec[Op].state, u.old = rec[Op].old, u.new = rec[Op].new,
         store' \in {store, u.old, u.new}
  PROVE  StepGood
<1>1. rec \in [Ops -> Records]
  BY DEF GInv, FInv, IInv, TypeOK
<1>2. \A p \in Ops : /\ rec'[p].state = rec[p].state
                     /\ rec'[p].old = rec[p].old /\ rec'[p].new = rec[p].new
  BY <1>1
<1>3. PlanInv'
  <2>1. ASSUME drifts = 0, NEW p \in Ops, Unfinished(rec'[p])
        PROVE  store' \in {rec'[p].old, rec'[p].new}
    <3>1. Unfinished(rec[p]) /\ p = Op
      BY <1>2, <2>1 DEF Unfinished, GInv, FInv, IInv, GateHeld
    <3>2. store \in {rec[p].old, rec[p].new}
      BY <2>1, <3>1 DEF GInv, PlanInv, Current
    <3> QED
      BY <1>2, <3>1, <3>2
  <2> QED
    BY <2>1 DEF PlanInv, Current, Unfinished
<1>4. ObsInv'
  BY DEF ObsInv, VerifiedPcs
<1>5. OutcomesOK
  BY <1>2 DEF OutcomesOK, OutcomeOK
<1> QED
  BY <1>3, <1>4, <1>5 DEF StepGood

\* The process stops and the journal is as it was.
LEMMA KilledGood ==
  ASSUME GInv, PowerOff, UNCHANGED <<store, jrn, drifts>>
  PROVE  StepGood
<1>1. proc' = "down" /\ pc' = "idle" /\ rec' = [o \in Ops |-> Absent]
  BY DEF PowerOff, Idle, Goto
<1> QED
  BY <1>1, JournalPlan, StopGood

-----------------------------------------------------------------------------
(* The apply worker *)

\* applyWorker after Check.
LEMMA ApplyCheckedGood == ASSUME GInv, NEW res \in Results, ApplyChecked(res) PROVE StepGood
<1>1. /\ pc = "a_checked" /\ WorkerFrame /\ UNCHANGED <<store, file, job, cur>>
      /\ pc' \notin VerifiedPcs /\ UNCHANGED <<drifts, proc>>
  BY DEF ApplyChecked, Goto, WorkerFrame, VerifiedPcs
<1>2. pc \in WorkerPcs \ {"exit"} /\ ~UndoLook /\ rec[Op] \in Records
  BY <1>1, WorkerPcsBusy, WorkerKnows DEF ApplyReturns, UndoLook, GInv
<1>3. CASE ret.err \/ late[Op] \/ abort
  <2>1. PICK s \in {"cancelled", "conflict"} : SetState(Op, rec[Op], s, res)
    BY <1>3 DEF ApplyChecked
  <2> QED
    BY <1>1, <1>2, <2>1, StatesKnown, WorkerRecordsGood DEF TerminalStates
<1>4. CASE ~(ret.err \/ late[Op] \/ abort)
  BY <1>1, <1>4, QuietGood DEF ApplyChecked, ObsFrame
<1> QED
  BY <1>3, <1>4

\* applyWorker replaces the Store.
LEMMA ApplyWriteGood == ASSUME GInv, NEW res \in Results, ApplyWrite(res) PROVE StepGood
<1>1. /\ pc = "a_write" /\ WorkerFrame /\ UNCHANGED <<drifts, proc>>
      /\ pc' \notin VerifiedPcs
  BY DEF ApplyWrite, WorkerFrame, Goto, VerifiedPcs
<1>2. /\ pc \in WorkerPcs \ {"exit"} /\ ~UndoLook /\ rec[Op] \in Records /\ Op \in Ops
      /\ active = Op /\ proc # "down" /\ rec \in [Ops -> Records]
  BY <1>1, WorkerPcsBusy, WorkerKnows DEF UndoLook, GInv, TypeOK
<1>3. CASE store # rec[Op].old
  BY <1>1, <1>2, <1>3, StatesKnown, WorkerRecordsGood DEF ApplyWrite, TerminalStates
<1>4. CASE store = rec[Op].old
  <2> DEFINE v == [rec[Op] EXCEPT !.sp = TRUE]
  <2>1. v \in Records /\ v.state = rec[Op].state /\ v.old = rec[Op].old /\ v.new = rec[Op].new
    BY <1>2, FactsAlike
  <2>2. /\ rec' = IF res = "ok" THEN [rec EXCEPT ![Op] = v] ELSE [rec EXCEPT ![Op] = rec[Op]]
        /\ store' \in {store, rec[Op].new} /\ jrn' = jrn
    BY <1>2, <1>4 DEF ApplyWrite
  <2> HIDE DEF v
  <2> QED
    BY <1>1, <1>2, <2>1, <2>2, MoveGood
<1> QED
  BY <1>3, <1>4

\* applyWorker saves the record of the written Store.
LEMMA ApplySaveGood == ASSUME GInv, NEW res \in Results, ApplySave(res) PROVE StepGood
<1>1. /\ pc = "a_save" /\ WorkerFrame /\ UNCHANGED store
      /\ rec' = [rec EXCEPT ![Op] = rec[Op]]
      /\ jrn' = jrn \/ jrn' = [jrn EXCEPT ![Op] = rec[Op]]
  BY DEF ApplySave, Save, WriteJournal
<1>2. pc' \notin VerifiedPcs
  <2>1. EnterApplyPhase("a_apply") \/ Goto("a_unknown")
    BY DEF ApplySave
  <2> QED
    BY <2>1, PhaseTyped DEF Goto, VerifiedPcs
<1>3. pc \in WorkerPcs \ {"exit"} /\ ~UndoLook /\ rec[Op] \in Records
  BY <1>1, WorkerPcsBusy, WorkerKnows DEF UndoLook, GInv
<1> QED
  BY <1>1, <1>2, <1>3, WorkerSavesGood

\* applyWorker records an unknown outcome.
LEMMA ApplyUnknownGood == ASSUME GInv, NEW res \in Results, ApplyUnknown(res) PROVE StepGood
<1>1. /\ pc = "a_unknown" /\ WorkerFrame /\ UNCHANGED store /\ pc' \notin VerifiedPcs
      /\ SetState(Op, rec[Op], "outcome_unknown", res)
  BY DEF ApplyUnknown, Goto, VerifiedPcs
<1>2. pc \in WorkerPcs \ {"exit"} /\ ~UndoLook /\ rec[Op] \in Records
  BY <1>1, WorkerPcsBusy, WorkerKnows DEF UndoLook, GInv
<1> QED
  BY <1>1, <1>2, StatesKnown, WorkerRecordsGood DEF UnfinishedStates

\* applyWorker after Apply.
LEMMA ApplyAppliedGood == ASSUME GInv, NEW res \in Results, ApplyApplied(res) PROVE StepGood
<1>1. /\ pc = "a_applied" /\ WorkerFrame /\ UNCHANGED <<store, proc, drifts>>
  BY DEF ApplyApplied, WorkerFrame
<1>2. pc \in WorkerPcs \ {"exit"} /\ ~UndoLook /\ rec[Op] \in Records
  BY <1>1, WorkerPcsBusy, WorkerKnows DEF ApplyReturns, UndoLook, GInv
<1>3. CASE ret.err \/ ret.cancelled \/ abort
  BY <1>1, <1>3, QuietGood DEF ApplyApplied, Goto, ObsFrame, VerifiedPcs
<1>4. CASE ~(ret.err \/ ret.cancelled \/ abort)
  <2> DEFINE r == [rec[Op] EXCEPT !.ra = TRUE]
  <2>1. /\ SetState(Op, r, "verifying", res)
        /\ IF res = "ok" THEN EnterApplyPhase("a_verify") ELSE Goto("r_start")
    BY <1>4 DEF ApplyApplied
  <2>2. pc' \notin VerifiedPcs
    BY <2>1, PhaseTyped DEF Goto, VerifiedPcs
  <2>3. r \in Records /\ r.old = rec[Op].old /\ r.new = rec[Op].new
    BY <1>2 DEF Records
  <2> HIDE DEF r
  <2> QED
    BY <1>1, <1>2, <2>1, <2>2, <2>3, StatesKnown, WorkerRecordsGood DEF UnfinishedStates
<1> QED
  BY <1>3, <1>4

\* A worker records an outcome that it has just seen to be true.
LEMMA OutcomeGood ==
  ASSUME GInv, pc \in VerifiedPcs, WorkerFrame, UNCHANGED <<store, job>>,
         pc' \notin VerifiedPcs,
         NEW r \in Records, NEW s \in {"confirmed", "rolled_back"}, NEW res \in Results,
         SetState(Op, r, s, res),
         r.old = rec[Op].old, r.new = rec[Op].new,
         s = "confirmed" => ~abort /\ store = r.new /\ runtime = r.new,
         s = "rolled_back" => store = r.old /\ runtime = r.old
  PROVE  StepGood
<1>1. /\ Op \in Ops /\ proc # "down" /\ Unfinished(rec[Op]) /\ TypeOK
  BY WorkerKnows, WorkerPcsBusy
     DEF GInv, VerifiedPcs, ApplyReturns, RollbackReturns, UndoLook
<1>2. proc' # "down" /\ drifts' = drifts /\ ObsFrame
  BY <1>1 DEF WorkerFrame, ObsFrame
<1>3. PICK u \in Records, w \in Records :
            /\ Alike(u, r) /\ Alike(w, r)
            /\ w.state = s
            /\ u.state = IF res = "ok" THEN s ELSE "outcome_unknown"
            /\ res = "ok" => u = w
            /\ rec' = [rec EXCEPT ![Op] = u]
            /\ \/ jrn' = [jrn EXCEPT ![Op] = w]
               \/ res # "ok" /\ jrn' = jrn
  BY <1>1, StatesKnown, SetStateRecords DEF TerminalStates
<1>4. /\ u.old = rec[Op].old /\ u.new = rec[Op].new
      /\ jrn' = jrn \/ jrn' = [jrn EXCEPT ![Op] = w]
      /\ w.old = r.old /\ w.new = r.new
  BY <1>3 DEF Alike
<1>5. OutcomeOK(Op)
  <2>1. rec'[Op] = u /\ (jrn'[Op] = jrn[Op] \/ jrn'[Op] = w)
    BY <1>1, <1>3, <1>4 DEF TypeOK
  <2> QED
    BY <1>3, <1>4, <2>1 DEF OutcomeOK
<1> QED
  BY <1>1, <1>2, <1>3, <1>4, <1>5, RecordGood

\* applyWorker after Verify.
LEMMA ApplyVerifiedGood == ASSUME GInv, NEW res \in Results, ApplyVerified(res) PROVE StepGood
<1>1. /\ pc = "a_verified" /\ WorkerFrame /\ UNCHANGED <<store, job, proc, drifts>>
      /\ pc' \notin VerifiedPcs
  BY DEF ApplyVerified, WorkerFrame, Goto, VerifiedPcs
<1>2. CASE ret.err \/ ret.cancelled \/ abort \/ store # rec[Op].new
  BY <1>1, <1>2, QuietGood DEF ApplyVerified, ObsFrame
<1>3. CASE ~(ret.err \/ ret.cancelled \/ abort \/ store # rec[Op].new)
  <2> DEFINE r == [rec[Op] EXCEPT !.ver = TRUE]
  <2>1. SetState(Op, r, "confirmed", res)
    BY <1>3 DEF ApplyVerified
  <2>2. rec[Op] \in Records
    BY <1>1, WorkerPcsBusy, WorkerKnows DEF ApplyReturns, GInv
  <2>3. r \in Records /\ r.old = rec[Op].old /\ r.new = rec[Op].new
    BY <2>2 DEF Records
  <2>4. runtime = rec[Op].new
    BY <1>1, <1>3 DEF GInv, ObsInv
  <2> HIDE DEF r
  <2> QED
    BY <1>1, <1>3, <2>1, <2>3, <2>4, OutcomeGood DEF VerifiedPcs
<1> QED
  BY <1>2, <1>3

-----------------------------------------------------------------------------
(* The rollback worker *)

\* Facts of a rollback worker that is not an undo without a record.
LEMMA RollbackWorker ==
  ASSUME GInv, pc \in RollbackPcs \cup {"r_start"}
  PROVE  /\ pc \in WorkerPcs \ {"exit"} /\ rec[Op] \in Records /\ Op \in Ops
         /\ active = Op /\ proc # "down" /\ rec \in [Ops -> Records]
         /\ pc # "r_begin" \/ job.kind # "undo" => ~UndoLook
<1>1. pc \in WorkerPcs \ {"exit"}
  BY WorkerPcsBusy DEF RollbackPcs, RestorePcs
<1>2. pc # "r_begin" \/ job.kind # "undo" => ~UndoLook
  BY DEF UndoLook, RollbackPcs, RestorePcs
<1> QED
  BY <1>1, <1>2, WorkerKnows DEF GInv, TypeOK

\* Steps between the phases.
LEMMA RollbackMovesGood ==
  ASSUME GInv, RollbackStart \/ UndoChecked
  PROVE  StepGood
<1>1. UNCHANGED <<store, rec, jrn, drifts, proc>>
  BY DEF RollbackStart, UndoChecked, durable, memory, bounds
<1>2. pc' \notin VerifiedPcs
  BY DEF RollbackStart, UndoChecked, EnterRollbackPhase, Goto, VerifiedPcs
<1> QED
  BY <1>1, <1>2, QuietGood DEF ObsFrame

\* rollback after Check.
LEMMA RollbackCheckedGood ==
  ASSUME GInv, NEW res \in Results, RollbackChecked(res) PROVE StepGood
<1>1. /\ pc = "r_checked" /\ WorkerFrame /\ UNCHANGED <<store, proc, drifts>>
      /\ pc' \notin VerifiedPcs
  BY DEF RollbackChecked, WorkerFrame, Goto, VerifiedPcs
<1>2. pc \in WorkerPcs \ {"exit"} /\ ~UndoLook /\ rec[Op] \in Records
  BY <1>1, RollbackWorker DEF RollbackPcs
<1> QED
  BY <1>1, <1>2, StatesKnown, QuietGood, WorkerRecordsGood
     DEF RollbackChecked, UnfinishedStates, ObsFrame

\* rollbackAfterCheck: the intent of an undo is recorded while the Store still
\* holds the version it is about to take back.
LEMMA RollbackBeginGood ==
  ASSUME GInv, NEW res \in Results, RollbackBegin(res) PROVE StepGood
<1>1. /\ pc = "r_begin" /\ WorkerFrame /\ UNCHANGED <<store, proc, drifts>>
      /\ pc' \notin VerifiedPcs
  BY DEF RollbackBegin, WorkerFrame, Goto, VerifiedPcs
<1>2. /\ pc \in WorkerPcs \ {"exit"} /\ rec[Op] \in Records
      /\ job.kind # "undo" => ~UndoLook
  BY <1>1, RollbackWorker DEF RollbackPcs
<1>3. CASE store = rec[Op].new \/ (store = rec[Op].old /\ job.kind # "undo")
  <2> DEFINE r == [rec[Op] EXCEPT !.ver = FALSE]
  <2>1. SetState(Op, r, "rolling_back", res)
    BY <1>3 DEF RollbackBegin
  <2>2. r \in Records /\ r.old = rec[Op].old /\ r.new = rec[Op].new
    BY <1>2 DEF Records
  <2> HIDE DEF r
  <2> QED
    BY <1>1, <1>2, <1>3, <2>1, <2>2, StatesKnown, WorkerRecordsGood DEF UnfinishedStates
<1>4. CASE ~(store = rec[Op].new \/ (store = rec[Op].old /\ job.kind # "undo"))
  BY <1>1, <1>2, <1>4, StatesKnown, QuietGood, WorkerRecordsGood
     DEF RollbackBegin, UnfinishedStates, ObsFrame
<1> QED
  BY <1>3, <1>4

\* rollbackAfterCheck restores the old version.
LEMMA RollbackWriteGood ==
  ASSUME GInv, NEW res \in Results, RollbackWrite(res) PROVE StepGood
<1>1. /\ pc = "r_write" /\ WorkerFrame /\ UNCHANGED <<drifts, proc, jrn>>
      /\ pc' \notin VerifiedPcs /\ store' \in {store, rec[Op].old}
  BY DEF RollbackWrite, WorkerFrame, Goto, VerifiedPcs
<1>2. /\ rec[Op] \in Records /\ Op \in Ops /\ active = Op /\ proc # "down"
      /\ rec \in [Ops -> Records]
  BY <1>1, RollbackWorker DEF RollbackPcs
<1> DEFINE v == [rec[Op] EXCEPT !.sp = FALSE]
<1>3. v \in Records /\ v.state = rec[Op].state /\ v.old = rec[Op].old /\ v.new = rec[Op].new
  BY <1>2, FactsAlike
<1>4. rec' = IF res = "ok" THEN [rec EXCEPT ![Op] = v] ELSE [rec EXCEPT ![Op] = rec[Op]]
  BY <1>2 DEF RollbackWrite
<1> HIDE DEF v
<1> QED
  BY <1>1, <1>2, <1>3, <1>4, MoveGood

\* A lost CAS: an undo restores the confirmed record it started from.
LEMMA RollbackConflictGood ==
  ASSUME GInv, NEW res \in Results, RollbackConflict(res) PROVE StepGood
<1>1. /\ pc = "r_write" /\ WorkerFrame /\ UNCHANGED <<store, proc, drifts>>
      /\ pc' \notin VerifiedPcs
  BY DEF RollbackConflict, WorkerFrame, Goto, VerifiedPcs
<1>2. /\ pc \in WorkerPcs \ {"exit"} /\ ~UndoLook /\ rec[Op] \in Records /\ Op \in Ops
      /\ proc # "down" /\ job \in Jobs /\ Unfinished(rec[Op]) /\ TypeOK
  BY <1>1, RollbackWorker, WorkerKnows DEF RollbackPcs, GInv
<1>3. CASE job.kind # "undo"
  BY <1>1, <1>2, <1>3, StatesKnown, WorkerRecordsGood DEF RollbackConflict, UnfinishedStates
<1>4. CASE job.kind = "undo"
  <2>1. /\ job.orig \in Records /\ job.orig.state = "confirmed"
        /\ job.orig.old = rec[Op].old /\ job.orig.new = rec[Op].new
    BY <1>2, <1>4 DEF Jobs, GInv, FInv, ControlInv, Undoing
  <2> DEFINE v == [job.orig EXCEPT !.state = "outcome_unknown", !.ver = FALSE]
             u == IF res = "ok" THEN job.orig ELSE v
  <2>2. v \in Records /\ v.old = job.orig.old /\ v.new = job.orig.new
    BY <2>1, StatesKnown DEF Records, UnfinishedStates
  <2>3. rec' = [rec EXCEPT ![Op] = u] /\ (jrn' = jrn \/ jrn' = [jrn EXCEPT ![Op] = job.orig])
    BY <1>4 DEF RollbackConflict, WriteJournal
  <2> HIDE DEF v
  <2>4. u \in Records /\ u.old = rec[Op].old /\ u.new = rec[Op].new
    BY <2>1, <2>2
  <2> HIDE DEF u
  <2>5. OutcomeOK(Op)
    <3>1. jrn'[Op] = jrn[Op] \/ jrn'[Op] = job.orig
      BY <1>2, <2>3 DEF TypeOK
    <3> QED
      BY <1>4, <2>1, <3>1 DEF OutcomeOK
  <2>6. proc' # "down" /\ ObsFrame
    BY <1>1, <1>2 DEF ObsFrame
  <2> QED
    BY <1>1, <1>2, <2>1, <2>3, <2>4, <2>5, <2>6, RecordGood
<1> QED
  BY <1>3, <1>4

\* rollbackAfterCheck: the write failed.
LEMMA RollbackFailedGood ==
  ASSUME GInv, NEW res \in Results, RollbackFailed(res) PROVE StepGood
<1>1. /\ pc = "r_failed" /\ WorkerFrame /\ UNCHANGED store /\ pc' \notin VerifiedPcs
      /\ SetState(Op, rec[Op], "rollback_failed", res)
  BY DEF RollbackFailed, Goto, VerifiedPcs
<1>2. pc \in WorkerPcs \ {"exit"} /\ ~UndoLook /\ rec[Op] \in Records
  BY <1>1, RollbackWorker DEF RollbackPcs
<1> QED
  BY <1>1, <1>2, StatesKnown, WorkerRecordsGood DEF UnfinishedStates

\* rollbackAfterCheck saves the record of the restored Store.
LEMMA RollbackSaveGood ==
  ASSUME GInv, NEW res \in Results, RollbackSave(res) PROVE StepGood
<1>1. /\ pc = "r_save" /\ WorkerFrame /\ UNCHANGED store
      /\ rec' = [rec EXCEPT ![Op] = rec[Op]]
      /\ jrn' = jrn \/ jrn' = [jrn EXCEPT ![Op] = rec[Op]]
      /\ pc' \notin VerifiedPcs
  BY DEF RollbackSave, Save, WriteJournal, EnterRollbackPhase, Goto, VerifiedPcs
<1>2. pc \in WorkerPcs \ {"exit"} /\ ~UndoLook /\ rec[Op] \in Records
  BY <1>1, RollbackWorker DEF RollbackPcs, RestorePcs
<1> QED
  BY <1>1, <1>2, WorkerSavesGood

\* rollback after Apply of the old version.
LEMMA RollbackAppliedGood ==
  ASSUME GInv, NEW res \in Results, RollbackApplied(res) PROVE StepGood
<1>1. /\ pc = "r_applied" /\ WorkerFrame /\ UNCHANGED <<store, proc, drifts>>
      /\ pc' \notin VerifiedPcs
  BY DEF RollbackApplied, WorkerFrame, EnterRollbackPhase, Goto, VerifiedPcs
<1>2. pc \in WorkerPcs \ {"exit"} /\ ~UndoLook /\ rec[Op] \in Records
  BY <1>1, RollbackWorker DEF RollbackPcs, RestorePcs
<1> QED
  BY <1>1, <1>2, StatesKnown, QuietGood, WorkerRecordsGood
     DEF RollbackApplied, UnfinishedStates, ObsFrame

\* rollback after Verify.
LEMMA RollbackVerifiedGood ==
  ASSUME GInv, NEW res \in Results, RollbackVerified(res) PROVE StepGood
<1>1. /\ pc = "r_verified" /\ WorkerFrame /\ UNCHANGED <<store, job, proc, drifts>>
      /\ pc' \notin VerifiedPcs
  BY DEF RollbackVerified, WorkerFrame, Goto, VerifiedPcs
<1>2. pc \in WorkerPcs \ {"exit"} /\ ~UndoLook /\ rec[Op] \in Records
  BY <1>1, RollbackWorker DEF RollbackPcs, RestorePcs
<1>3. CASE ret.cancelled \/ ret.err \/ store # rec[Op].old
  BY <1>1, <1>2, <1>3, StatesKnown, WorkerRecordsGood DEF RollbackVerified, UnfinishedStates
<1>4. CASE ~(ret.cancelled \/ ret.err \/ store # rec[Op].old)
  <2> DEFINE r == [rec[Op] EXCEPT !.ra = FALSE, !.needs = FALSE, !.ver = TRUE]
  <2>1. SetState(Op, r, "rolled_back", res)
    BY <1>4 DEF RollbackVerified
  <2>2. r \in Records /\ r.old = rec[Op].old /\ r.new = rec[Op].new
    BY <1>2 DEF Records
  <2>3. runtime = rec[Op].old
    BY <1>1, <1>4 DEF GInv, ObsInv
  <2> HIDE DEF r
  <2> QED
    BY <1>1, <1>4, <2>1, <2>2, <2>3, OutcomeGood DEF VerifiedPcs
<1> QED
  BY <1>3, <1>4

\* launch's goroutine ends.
LEMMA WorkerExitGood == ASSUME GInv, WorkerExit PROVE StepGood
<1>1. UNCHANGED <<store, jrn, drifts>>
  BY DEF WorkerExit, durable, bounds
<1>2. CASE proc = "closing"
  BY <1>1, <1>2, KilledGood DEF WorkerExit
<1>3. CASE proc # "closing"
  <2>1. UNCHANGED <<proc, rec>> /\ pc' \notin VerifiedPcs
    BY <1>3 DEF WorkerExit, Idle, Goto, VerifiedPcs
  <2> QED
    BY <1>1, <2>1, QuietGood DEF ObsFrame
<1> QED
  BY <1>2, <1>3

-----------------------------------------------------------------------------
(* Start, stop and the world around a worker *)

LEMMA CrashGood == ASSUME GInv, Crash PROVE StepGood
<1>1. PowerOff /\ UNCHANGED <<store, jrn, drifts>>
  BY DEF Crash, durable
<1> QED
  BY <1>1, KilledGood

\* Open takes up what the journal says (load).
LEMMA OpenGood == ASSUME GInv, OpenClean \/ \E o \in Ops : OpenRecover(o) PROVE StepGood
<1>1. /\ rec' = jrn /\ UNCHANGED <<store, jrn, drifts>> /\ proc = "down" /\ proc' # "down"
  BY DEF OpenClean, OpenRecover, durable, bounds
<1>2. pc = "idle" /\ job.kind = "none"
  BY <1>1, PcsKnown DEF GInv, FInv, IInv, DownIsIdle, ControlInv, KindsFit, KindsAt
<1>3. pc' \notin VerifiedPcs
  BY <1>2 DEF OpenClean, OpenRecover, thread, Goto, VerifiedPcs
<1>4. PlanInv'
  BY <1>1 DEF GInv, PlanInv, Current, Unfinished
<1>5. ObsInv'
  BY <1>3 DEF ObsInv, VerifiedPcs
<1>6. OutcomesOK
  BY <1>1, <1>2 DEF OutcomesOK, OutcomeOK
<1> QED
  BY <1>4, <1>5, <1>6 DEF StepGood

\* Inside Open the journal's plan holds for the record that replaces it.
LEMMA OpenStopsGood ==
  ASSUME GInv, pc \in OpenPcs, PowerOff, UNCHANGED drifts,
         NEW r \in Records, r.old = rec[Op].old, r.new = rec[Op].new, Unfinished(r),
         jrn' = jrn \/ jrn' = [jrn EXCEPT ![Op] = r],
         store' \in {store, rec[Op].old}
  PROVE  StepGood
<1>1. /\ Op \in Ops /\ proc # "down" /\ Unfinished(rec[Op]) /\ TypeOK
      /\ rec[Op].old = jrn[Op].old /\ rec[Op].new = jrn[Op].new
  BY OpenKnows DEF GInv
<1>2. proc' = "down" /\ pc' = "idle" /\ rec' = [o \in Ops |-> Absent]
  BY DEF PowerOff, Idle, Goto
<1>3. active = Op
  BY DEF GInv, FInv, IInv, LeaseHeld, OpenPcs
<1>4. ASSUME NEW o \in Ops
      PROVE  /\ drifts = 0 /\ Unfinished(jrn'[o]) => store' \in {jrn'[o].old, jrn'[o].new}
             /\ \/ jrn'[o].state = jrn[o].state
                \/ jrn'[o].state \notin {"confirmed", "rolled_back"}
  <2>1. CASE o # Op
    <3>1. jrn'[o] = jrn[o]
      BY <1>1, <2>1 DEF TypeOK
    <3>2. ~Unfinished(jrn[o])
      BY <1>1, <1>3, <2>1 DEF GInv, FInv, IInv, GateCovers, GateHeld
    <3> QED
      BY <3>1, <3>2
  <2>2. CASE o = Op
    <3>1. drifts = 0 => store \in {rec[o].old, rec[o].new}
      BY <1>1, <2>2 DEF GInv, PlanInv, Current
    <3>2. jrn'[o] = jrn[o] \/ jrn'[o] = r
      BY <1>1, <2>2 DEF TypeOK
    <3>3. r.state \notin {"confirmed", "rolled_back"}
      BY DEF Unfinished, UnfinishedStates
    <3> QED
      BY <1>1, <2>2, <3>1, <3>2, <3>3
  <2> QED
    BY <2>1, <2>2
<1> QED
  BY <1>2, <1>4, StopGood

\* Inside Open both records become r.
LEMMA OpenWritesGood ==
  ASSUME GInv, pc \in OpenPcs, proc' # "down", pc' \notin VerifiedPcs,
         UNCHANGED <<drifts, store>>,
         NEW r \in Records, r.old = rec[Op].old, r.new = rec[Op].new, Unfinished(r),
         jrn' = [jrn EXCEPT ![Op] = r], rec' = [rec EXCEPT ![Op] = r]
  PROVE  StepGood
<1>1. Op \in Ops /\ proc # "down" /\ Unfinished(rec[Op]) /\ TypeOK
  BY OpenKnows DEF GInv
<1>2. OutcomeOK(Op)
  <2>1. rec'[Op] = r /\ jrn'[Op] = r
    BY <1>1 DEF TypeOK
  <2> QED
    BY <2>1 DEF OutcomeOK, Unfinished, UnfinishedStates
<1> QED
  BY <1>1, <1>2, RecordGood DEF ObsFrame

\* The three writes of Open.
LEMMA OpenSaveGood == ASSUME GInv, NEW res \in Results, OpenSave(res) PROVE StepGood
<1> DEFINE r == [rec[Op] EXCEPT !.state = "rolling_back", !.needs = TRUE,
                                !.ra = FALSE, !.ver = FALSE]
<1>1. pc \in OpenPcs /\ UNCHANGED <<store, drifts>>
  BY DEF OpenSave, OpenPcs
<1>2. rec[Op] \in Records /\ proc # "down"
  BY <1>1, OpenKnows DEF GInv
<1>3. r \in Records /\ r.state = "rolling_back" /\ r.old = rec[Op].old /\ r.new = rec[Op].new
  BY <1>2 DEF Records, States, UnfinishedStates
<1>4. \/ /\ rec' = [rec EXCEPT ![Op] = r] /\ jrn' = [jrn EXCEPT ![Op] = r]
         /\ proc' = proc /\ pc' = "o_write"
      \/ PowerOff /\ (jrn' = jrn \/ jrn' = [jrn EXCEPT ![Op] = r])
  BY DEF OpenSave, Save, WriteJournal, Goto
<1> HIDE DEF r
<1>5. Unfinished(r)
  BY <1>3 DEF Unfinished, UnfinishedStates
<1> QED
  BY <1>1, <1>2, <1>3, <1>4, <1>5, OpenWritesGood, OpenStopsGood DEF VerifiedPcs

LEMMA OpenWriteGood == ASSUME GInv, NEW res \in Results, OpenWrite(res) PROVE StepGood
<1>1. pc \in OpenPcs /\ UNCHANGED <<jrn, drifts>> /\ store' \in {store, rec[Op].old}
  BY DEF OpenWrite, OpenPcs
<1>2. /\ Op \in Ops /\ rec[Op] \in Records /\ proc # "down" /\ Unfinished(rec[Op])
      /\ rec \in [Ops -> Records]
  BY <1>1, OpenKnows DEF GInv, TypeOK
<1>3. active = Op
  BY <1>1 DEF GInv, FInv, IInv, LeaseHeld, OpenPcs
<1>4. CASE PowerOff
  BY <1>1, <1>2, <1>4, OpenStopsGood
<1>5. CASE Goto("o_saved") /\ UNCHANGED <<proc, rec>>
  <2>1. rec' = [rec EXCEPT ![Op] = rec[Op]] /\ pc' \notin VerifiedPcs
    BY <1>2, <1>5 DEF Goto, VerifiedPcs
  <2> QED
    BY <1>1, <1>2, <1>3, <1>5, <2>1, MoveGood
<1> QED
  BY <1>4, <1>5 DEF OpenWrite

LEMMA OpenSavedGood == ASSUME GInv, NEW res \in Results, OpenSaved(res) PROVE StepGood
<1> DEFINE r == [rec[Op] EXCEPT !.sp = FALSE]
<1>1. pc \in OpenPcs /\ UNCHANGED <<store, drifts>>
  BY DEF OpenSaved, OpenPcs
<1>2. rec[Op] \in Records /\ proc # "down" /\ Unfinished(rec[Op])
  BY <1>1, OpenKnows DEF GInv
<1>3. r \in Records /\ r.state = rec[Op].state /\ r.old = rec[Op].old /\ r.new = rec[Op].new
  BY <1>2, FactsAlike
<1>4. \/ /\ rec' = [rec EXCEPT ![Op] = r] /\ jrn' = [jrn EXCEPT ![Op] = r]
         /\ proc' = "open" /\ pc' = "idle"
      \/ PowerOff /\ (jrn' = jrn \/ jrn' = [jrn EXCEPT ![Op] = r])
  BY DEF OpenSaved, Save, WriteJournal, Idle, Goto
<1> HIDE DEF r
<1>5. Unfinished(r)
  BY <1>2, <1>3 DEF Unfinished
<1> QED
  BY <1>1, <1>2, <1>3, <1>4, <1>5, OpenWritesGood, OpenStopsGood DEF VerifiedPcs

\* The native loader, a deadline and a timeout.
LEMMA AmbientGood ==
  ASSUME GInv, NativeLoad \/ (\E o \in Ops : DeadlinePasses(o)) \/ RollbackTimeout
  PROVE  StepGood
<1>1. UNCHANGED <<store, rec, jrn, drifts, proc, pc, job, ret>>
  BY DEF NativeLoad, DeadlinePasses, RollbackTimeout, durable, memory, thread, bounds
<1>2. CASE runtime' = runtime
  BY <1>1, <1>2, QuietGood DEF ObsFrame
<1>3. CASE NativeLoad
  <2>1. pc \notin VerifiedPcs
    BY <1>3, WorkerPcsBusy
       DEF NativeLoad, GInv, FInv, ControlInv, Leased, VerifiedPcs, ApplyReturns,
           RollbackReturns
  <2> QED
    BY <1>1, <2>1, QuietGood DEF ObsFrame
<1> QED
  BY <1>2, <1>3 DEF DeadlinePasses, RollbackTimeout

\* Somebody else writes the Store.
LEMMA DriftGood == ASSUME GInv, NEW v \in Versions, Drift(v) PROVE StepGood
<1>1. UNCHANGED <<rec, jrn, proc, pc, job, ret, runtime>> /\ drifts' = drifts + 1
  BY DEF Drift, memory, thread
<1>2. drifts \in Nat
  BY DEF GInv, FInv, IInv, TypeOK
<1>3. PlanInv'
  BY <1>1, <1>2 DEF PlanInv
<1>4. ObsInv' /\ OutcomesOK
  BY <1>1 DEF GInv, ObsInv, Op, OutcomesOK, OutcomeOK
<1> QED
  BY <1>3, <1>4 DEF StepGood

\* A hook returns; Verify succeeds only if its target is served.
LEMMA HookGood == ASSUME GInv, HookReturns PROVE StepGood
<1>1. CASE \E e \in BOOLEAN : CheckReturns(e) \/ \E v \in Versions \cup {Mixed, None} :
                                                      ApplyHookReturns(e, v)
  <2>1. UNCHANGED <<store, rec, jrn, drifts, proc>>
    BY <1>1 DEF CheckReturns, ApplyHookReturns, durable, memory, bounds
  <2>2. /\ pc \in {"a_check", "r_check", "u_check", "a_apply", "r_apply"}
        /\ pc' = AfterHook[pc]
    BY <1>1 DEF CheckReturns, ApplyHookReturns, Returns, Goto
  <2>3. pc' \notin VerifiedPcs
    BY <2>2 DEF AfterHook, HookPcs, ApplyHooks, RollbackHooks, VerifiedPcs
  <2> QED
    BY <2>1, <2>3, QuietGood DEF ObsFrame
<1>2. ASSUME NEW e \in BOOLEAN, VerifyReturns(e) PROVE StepGood
  <2>1. UNCHANGED <<store, rec, jrn, drifts, proc, runtime, job>>
    BY <1>2 DEF VerifyReturns, durable, memory, bounds
  <2>2. /\ pc \in {"a_verify", "r_verify"} /\ pc' = AfterHook[pc]
        /\ ret'.err = e /\ (~e => runtime = Target)
    BY <1>2 DEF VerifyReturns, Returns, Goto
  <2>3. pc' = IF pc = "a_verify" THEN "a_verified" ELSE "r_verified"
    BY <2>2 DEF AfterHook, HookPcs, ApplyHooks, RollbackHooks
  <2>4. PlanInv' /\ OutcomesOK
    BY <2>1 DEF GInv, PlanInv, Current, Unfinished, OutcomesOK, OutcomeOK
  <2>5. ObsInv'
    BY <2>1, <2>2, <2>3 DEF ObsInv, Target, ApplyHooks, Op
  <2> QED
    BY <2>4, <2>5 DEF StepGood
<1> QED
  BY <1>1, <1>2 DEF HookReturns

\* The watcher records uncertainty while the hook is stuck.
LEMMA WatcherGood == ASSUME GInv, NEW res \in Results, Watcher(res) PROVE StepGood
<1>1. /\ pc \in (HookPcs \cup ReturnPcs) \ {"u_check", "u_checked"}
      /\ SetState(Op, rec[Op], "outcome_unknown", res)
      /\ UNCHANGED <<store, drifts, proc, runtime, pc, job, ret>>
  BY DEF Watcher, Frame
<1>2. pc \in WorkerPcs /\ pc \notin {"exit", "r_begin"}
  BY <1>1 DEF WorkerPcs, HookPcs, ReturnPcs, ApplyHooks, RollbackHooks, ApplyReturns,
     RollbackReturns
<1>3. /\ Op \in Ops /\ proc # "down" /\ rec[Op] \in Records /\ Unfinished(rec[Op])
  BY <1>1, <1>2, WorkerKnows DEF GInv, UndoLook
<1> QED
  BY <1>1, <1>3, StatesKnown, SetStateGood DEF ObsFrame, UnfinishedStates

-----------------------------------------------------------------------------
(* Requests *)

\* A handler that takes e.mu leaves the reading of a Verify alone.
LEMMA AttachGood == ASSUME GInv, AttachRuntime PROVE StepGood
<1>1. /\ UNCHANGED <<store, rec, jrn, drifts, ret, runtime>>
      /\ proc = "open" /\ proc' = "attached"
      /\ pc' = "r_start" \/ UNCHANGED <<pc, job>>
  BY DEF AttachRuntime, Launch, Goto, durable, bounds
<1> QED
  BY <1>1, QuietGood DEF ObsFrame, VerifiedPcs

LEMMA CloseRunningGood ==
  ASSUME GInv, NEW res \in Results, CloseRunning(res) PROVE StepGood
<1>1. /\ UNCHANGED <<store, drifts, ret, runtime, pc, job>> /\ Running
      /\ proc # "down" /\ proc' = "closing"
  BY DEF CloseRunning, Serving
<1>2. CASE Unfinished(rec[active])
  <2>1. active \in Ops /\ rec[active] \in Records
    BY <1>1, WorkerKnows DEF Running, GInv
  <2> QED
    BY <1>1, <1>2, <2>1, StatesKnown, SetStateGood
       DEF CloseRunning, ObsFrame, UnfinishedStates
<1>3. CASE ~Unfinished(rec[active])
  BY <1>1, <1>3, QuietGood DEF CloseRunning, ObsFrame
<1> QED
  BY <1>2, <1>3

LEMMA CloseIdleGood == ASSUME GInv, NEW res \in Results, CloseIdle(res) PROVE StepGood
<1>1. /\ PowerOff /\ UNCHANGED <<store, drifts>>
  BY DEF CloseIdle
<1>2. CASE jrn' = jrn
  BY <1>1, <1>2, KilledGood
<1>3. CASE /\ active # None
           /\ jrn' = [jrn EXCEPT ![active] = [rec[active] EXCEPT !.state = "cancelled"]]
  <2>1. /\ active \in Ops /\ rec[active] \in Records /\ jrn \in [Ops -> Records]
    BY <1>3 DEF GInv, FInv, IInv, TypeOK
  <2>2. [rec[active] EXCEPT !.state = "cancelled"].state = "cancelled"
    BY <2>1 DEF Records
  <2>3. /\ jrn'[active].state = "cancelled"
        /\ \A o \in Ops \ {active} : jrn'[o] = jrn[o]
    BY <1>3, <2>1, <2>2
  <2>4. ~Unfinished(jrn'[active])
    BY <2>3 DEF Unfinished, UnfinishedStates
  <2>5. proc' = "down" /\ pc' = "idle" /\ rec' = [o \in Ops |-> Absent]
    BY <1>1 DEF PowerOff, Idle, Goto
  <2>6. ASSUME NEW o \in Ops
        PROVE  /\ drifts = 0 /\ Unfinished(jrn'[o])
                     => store' \in {jrn'[o].old, jrn'[o].new}
               /\ \/ jrn'[o].state = jrn[o].state
                  \/ jrn'[o].state \notin {"confirmed", "rolled_back"}
    BY <1>1, <2>3, <2>4, JournalPlan
  <2> QED
    BY <1>1, <2>5, <2>6, StopGood
<1> QED
  BY <1>2, <1>3 DEF CloseIdle, WriteJournal

\* Prepare reads the Store that it is about to keep.
LEMMA PrepareGood ==
  ASSUME GInv, NEW o \in Ops, NEW v \in Versions, Prepare(o, v) PROVE StepGood
<1> DEFINE u == [Absent EXCEPT !.state = "prepared", !.old = store, !.new = v]
<1>1. /\ proc # "down" /\ rec' = [rec EXCEPT ![o] = u] /\ pc' = "p_old"
      /\ UNCHANGED <<store, jrn, proc, drifts>>
  BY DEF Prepare, Serving, Goto, durable, bounds
<1>2. u.state = "prepared" /\ u.old = store
  BY DEF Absent
<1> HIDE DEF u
<1>3. rec'[o] = u /\ \A p \in Ops \ {o} : rec'[p] = rec[p]
  BY <1>1 DEF GInv, FInv, IInv, TypeOK
<1>4. PlanInv'
  <2>1. ASSUME drifts = 0, NEW p \in Ops, Unfinished(rec'[p])
        PROVE  store \in {rec'[p].old, rec'[p].new}
    BY <1>1, <1>2, <1>3, <2>1 DEF GInv, PlanInv, Current
  <2> QED
    BY <1>1, <2>1 DEF PlanInv, Current, Unfinished
<1>5. ObsInv'
  BY <1>1 DEF ObsInv
<1>6. OutcomesOK
  BY <1>1, <1>2, <1>3 DEF OutcomesOK, OutcomeOK
<1> QED
  BY <1>4, <1>5, <1>6 DEF StepGood

\* A write of Prepare.
LEMMA PrepareWriteGood ==
  ASSUME GInv, NEW res \in Results, PrepareOld(res) \/ PrepareNew(res) \/ PrepareJournal(res)
  PROVE  StepGood
<1>1. /\ pc \in PrepPcs /\ UNCHANGED <<store, proc, drifts>>
      /\ jrn' = jrn \/ jrn' = [jrn EXCEPT ![Op] = rec[Op]]
      /\ rec' = rec \/ rec' = [rec EXCEPT ![Op].state = "outcome_unknown"]
  BY DEF PrepareOld, PrepareNew, PrepareSnapshot, PrepareJournal, PrepareFailed,
     WriteJournal, PrepPcs
<1>2. pc' \notin VerifiedPcs
  BY DEF PrepareOld, PrepareNew, PrepareSnapshot, PrepareJournal, PrepareFailed, Idle,
     Goto, VerifiedPcs
<1>3. /\ Op \in Ops /\ proc # "down" /\ TypeOK /\ rec[Op] \in Records
      /\ rec[Op].state = "prepared"
  BY <1>1, PrepareKnows DEF GInv
<1> DEFINE v == [rec[Op] EXCEPT !.state = "outcome_unknown"]
<1>4. v \in Records /\ v.state = "outcome_unknown" /\ Alike(v, rec[Op])
  BY <1>3, StatesKnown, StateAlike DEF UnfinishedStates
<1>5. rec' = [rec EXCEPT ![Op] = rec[Op]] \/ rec' = [rec EXCEPT ![Op] = v]
  BY <1>1, <1>3 DEF TypeOK
<1> HIDE DEF v
<1>6. PICK u \in {rec[Op], v} : rec' = [rec EXCEPT ![Op] = u]
  BY <1>5
<1>7. /\ u \in Records /\ u.old = rec[Op].old /\ u.new = rec[Op].new
      /\ u.state \in {"prepared", "outcome_unknown"}
  BY <1>3, <1>4, <1>6 DEF Alike
<1>8. OutcomeOK(Op)
  <2>1. rec'[Op] = u /\ (jrn'[Op] = jrn[Op] \/ jrn'[Op] = rec[Op])
    BY <1>1, <1>3, <1>6 DEF TypeOK
  <2> QED
    BY <1>3, <1>7, <2>1 DEF OutcomeOK
<1>9. Unfinished(rec[Op])
  BY <1>3 DEF Unfinished, UnfinishedStates
<1> QED
  BY <1>1, <1>2, <1>3, <1>6, <1>7, <1>8, <1>9, RecordGood DEF ObsFrame

\* A preparation ends, or its worker starts.
LEMMA PreparedGood ==
  ASSUME GInv, NEW o \in Ops, NEW res \in Results,
         \/ ExpirePrepared(o, res) \/ ApplyRefused(o, res)
         \/ RollbackPrepared(o, res) \/ Apply(o, res)
  PROVE  StepGood
<1>1. /\ proc # "down" /\ rec[o].state = "prepared"
      /\ UNCHANGED <<store, drifts, proc, runtime, ret>>
      /\ pc' = "a_check" \/ UNCHANGED <<pc, job>>
  BY DEF ExpirePrepared, ApplyRefused, RollbackPrepared, Apply, Frame, Serving, Launch, Goto
<1>2. PICK s \in {"cancelled", "conflict", "applying"} : SetState(o, rec[o], s, res)
  BY DEF ExpirePrepared, ApplyRefused, RollbackPrepared, Apply
<1>3. rec[o] \in Records /\ Unfinished(rec[o])
  BY <1>1 DEF GInv, FInv, IInv, TypeOK, Unfinished, UnfinishedStates
<1>4. s \in States /\ s \notin {"confirmed", "rolled_back"}
  BY <1>2 DEF States, TerminalStates, UnfinishedStates
<1> QED
  BY <1>1, <1>2, <1>3, <1>4, SetStateGood DEF ObsFrame, VerifiedPcs

LEMMA RollbackUnfinishedGood ==
  ASSUME GInv, NEW o \in Ops, NEW res \in Results, RollbackUnfinished(o, res)
  PROVE  StepGood
<1>1. /\ proc # "down" /\ Unfinished(rec[o]) /\ UNCHANGED <<store, drifts, proc, runtime, ret>>
      /\ pc' = "r_start" \/ UNCHANGED <<pc, job>>
  BY DEF RollbackUnfinished, Frame, Serving, Launch, Goto
<1>2. rec[o] \in Records /\ ObsFrame /\ rec \in [Ops -> Records]
  BY <1>1 DEF GInv, FInv, IInv, TypeOK, ObsFrame, VerifiedPcs
<1>3. CASE ~SnapshotsOK(o, rec[o]) /\ ~Exists(jrn[o])
  <2> DEFINE u == [rec[o] EXCEPT !.state = "rollback_failed"]
  <2>1. u \in Records /\ u.state = "rollback_failed" /\ Alike(u, rec[o])
    BY <1>2, StatesKnown, StateAlike DEF UnfinishedStates
  <2>2. rec' = [rec EXCEPT ![o] = u] /\ jrn' = jrn
    BY <1>3 DEF RollbackUnfinished
  <2> HIDE DEF u
  <2>3. OutcomeOK(o)
    BY <1>2, <2>1, <2>2 DEF OutcomeOK
  <2> QED
    BY <1>1, <1>2, <2>1, <2>2, <2>3, RecordGood DEF Alike
<1>4. CASE ~(~SnapshotsOK(o, rec[o]) /\ ~Exists(jrn[o]))
  BY <1>1, <1>2, <1>4, StatesKnown, SetStateGood DEF RollbackUnfinished, UnfinishedStates
<1> QED
  BY <1>3, <1>4

\* Requests that record nothing.
LEMMA QuietRequestsGood ==
  ASSUME GInv, NEW o \in Ops, RollbackRunning(o) \/ RollbackConfirmed(o) \/ PruneResidues(o)
  PROVE  StepGood
<1>1. UNCHANGED <<store, rec, jrn, drifts, proc, ret, runtime>>
  BY DEF RollbackRunning, RollbackConfirmed, PruneResidues, durable, memory, bounds
<1>2. pc' \in {"u_check", "g_old"} \/ UNCHANGED <<pc, job>>
  BY DEF RollbackRunning, RollbackConfirmed, PruneResidues, Pruning, Launch, Goto
<1> QED
  BY <1>1, <1>2, QuietGood DEF ObsFrame, VerifiedPcs

\* PruneSnapshots marks a record whose outcome the journal has.
LEMMA PruneExpireGood ==
  ASSUME GInv, NEW o \in Ops, NEW res \in Results, PruneExpire(o, res)
  PROVE  StepGood
<1> DEFINE u == [rec[o] EXCEPT !.exp = TRUE]
<1>1. /\ PruneAllowed(o) /\ rec' = [rec EXCEPT ![o] = u]
      /\ jrn' = jrn \/ jrn' = [jrn EXCEPT ![o] = u]
      /\ UNCHANGED <<store, drifts, proc, runtime, ret>>
      /\ pc' = "g_old" \/ UNCHANGED <<pc, job>>
  BY DEF PruneExpire, Save, WriteJournal, Pruning, Goto
<1>2. /\ proc # "down" /\ rec[o] \in Records /\ Terminal(rec[o]) /\ jrn[o] = rec[o]
      /\ rec \in [Ops -> Records] /\ jrn \in [Ops -> Records]
  BY <1>1, PruneKnows DEF GInv
<1>3. u \in Records /\ u.state = rec[o].state /\ u.old = rec[o].old /\ u.new = rec[o].new
  BY <1>2 DEF Records
<1> HIDE DEF u
<1>4. ~Unfinished(u)
  BY <1>2, <1>3, StatesKnown DEF Unfinished, Terminal
<1>5. OutcomeOK(o)
  <2>1. rec'[o] = u /\ (jrn'[o] = jrn[o] \/ jrn'[o] = u)
    BY <1>1, <1>2
  <2> QED
    BY <1>2, <1>3, <2>1 DEF OutcomeOK
<1> QED
  BY <1>1, <1>2, <1>3, <1>4, <1>5, RecordGood DEF ObsFrame, VerifiedPcs

LEMMA PruneDeleteGood ==
  ASSUME GInv, NEW res \in Results, PruneOld(res) \/ PruneNew(res)
  PROVE  StepGood
<1>1. UNCHANGED <<store, rec, jrn, drifts, proc>>
  BY DEF PruneOld, PruneNew, PruneDelete, memory
<1>2. pc' \notin VerifiedPcs
  BY DEF PruneOld, PruneNew, PruneDelete, Idle, Goto, VerifiedPcs
<1> QED
  BY <1>1, <1>2, QuietGood DEF ObsFrame

-----------------------------------------------------------------------------
(* The theorems *)

THEOREM InitOutcomes == Init => GInv
<1> SUFFICES ASSUME Init PROVE PlanInv /\ ObsInv
  BY InitFacts DEF GInv
<1>1. \A o \in Ops : jrn[o].state = "absent"
  BY DEF Init, Absent
<1> QED
  BY <1>1 DEF Init, PlanInv, Current, Unfinished, UnfinishedStates, ObsInv

\* Every step of the engine keeps the invariant, and records an outcome only
\* when it is true.
THEOREM StepIsGood == GInv /\ [Next]_vars => StepGood
<1> SUFFICES ASSUME GInv, [Next]_vars PROVE StepGood
  OBVIOUS
<1>1. CASE UNCHANGED vars
  BY <1>1, QuietGood DEF vars, ObsFrame
<1>2. CASE \/ Crash \/ OpenClean \/ (\E o \in Ops : OpenRecover(o)) \/ NativeLoad
           \/ AttachRuntime
  BY <1>2, CrashGood, OpenGood, AmbientGood, AttachGood
<1>3. ASSUME NEW res \in Results, OpenStep(res) \/ HandlerStep(res) \/ Watcher(res)
      PROVE  StepGood
  BY <1>3, OpenSaveGood, OpenWriteGood, OpenSavedGood, PrepareWriteGood, PruneDeleteGood,
     WatcherGood DEF OpenStep, HandlerStep
<1>4. CASE Requests
  <2>1. ASSUME NEW o \in Ops, NEW v \in Versions, Prepare(o, v) PROVE StepGood
    BY <2>1, PrepareGood
  <2>2. ASSUME NEW o \in Ops,
               RollbackRunning(o) \/ RollbackConfirmed(o) \/ PruneResidues(o)
        PROVE  StepGood
    BY <2>2, QuietRequestsGood
  <2>3. ASSUME NEW o \in Ops, NEW res \in Results,
               \/ Apply(o, res) \/ ApplyRefused(o, res)
               \/ RollbackPrepared(o, res) \/ RollbackUnfinished(o, res)
               \/ PruneExpire(o, res)
        PROVE  StepGood
    BY <2>3, PreparedGood, RollbackUnfinishedGood, PruneExpireGood
  <2>4. ASSUME NEW res \in Results, CloseRunning(res) \/ CloseIdle(res) PROVE StepGood
    BY <2>4, CloseRunningGood, CloseIdleGood
  <2> QED
    BY <1>4, <2>1, <2>2, <2>3, <2>4 DEF Requests
<1>5. CASE HookReturns
  BY <1>5, HookGood
<1>6. CASE Worker
  <2>1. ASSUME NEW res \in Results, WorkerStep(res) PROVE StepGood
    BY <2>1, ApplyCheckedGood, ApplyWriteGood, ApplySaveGood, ApplyUnknownGood,
       ApplyAppliedGood, ApplyVerifiedGood, RollbackCheckedGood, RollbackBeginGood,
       RollbackWriteGood, RollbackConflictGood, RollbackFailedGood, RollbackSaveGood,
       RollbackAppliedGood, RollbackVerifiedGood DEF WorkerStep
  <2> QED
    BY <1>6, <2>1, RollbackMovesGood, WorkerExitGood DEF Worker
<1>7. ASSUME NEW o \in Ops, NEW res \in Results, ExpirePrepared(o, res) PROVE StepGood
  BY <1>7, PreparedGood
<1>8. CASE (\E o \in Ops : DeadlinePasses(o)) \/ RollbackTimeout
  BY <1>8, AmbientGood
<1>9. ASSUME NEW v \in Versions, Drift(v) PROVE StepGood
  BY <1>9, DriftGood
<1> QED
  BY <1>1, <1>2, <1>3, <1>4, <1>5, <1>6, <1>7, <1>8, <1>9 DEF Next

THEOREM OutcomesHold == Spec => []GInv
<1>1. GInv /\ [Next]_vars => GInv'
  BY StepIsGood, FactsInductive DEF GInv, StepGood
<1> QED
  BY <1>1, InitOutcomes, PTL DEF Spec

\* A kill at any moment leaves a directory that Open accepts and recovers
\* from: both snapshots of every unexpired record, and the Store at one of the
\* two versions of the unfinished operation (Open, load, PruneSnapshots).
THEOREM KillsAreRecovered == Spec => []Recoverable
<1>1. FInv => Loadable
  BY FInvLoadable
<1>2. GInv => Recoverable
  BY <1>1, JournalPlan DEF GInv, Recoverable
<1> QED
  BY <1>2, OutcomesHold, PTL

\* An outcome enters the journal only while it is true of disk and runtime:
\* the result of a Verify is read against the Store, and nothing changes the
\* runtime between the two (applyWorker, rollback).
THEOREM OutcomesAreObserved == Spec => OutcomeIsObserved
<1>1. GInv /\ [Next]_vars =>
        [\A o \in Ops : jrn'[o].state # jrn[o].state =>
          /\ jrn'[o].state = "confirmed" /\ job.kind = "apply" =>
                store = jrn'[o].new /\ runtime = jrn'[o].new
          /\ jrn'[o].state = "rolled_back" =>
                store = jrn'[o].old /\ runtime = jrn'[o].old]_vars
  BY StepIsGood DEF StepGood, OutcomesOK, OutcomeOK
<1> QED
  BY <1>1, OutcomesHold, PTL DEF Spec, OutcomeIsObserved

\* Once a Rollback or a Close was accepted by an apply worker, that worker
\* does not confirm (abortCode against the phases of applyWorker).
THEOREM RequestsWin == Spec => AbortWins
<1>1. GInv /\ [Next]_vars =>
        [\A o \in Ops : abort /\ job.kind = "apply" /\ rec[o].state # "confirmed"
            => rec'[o].state # "confirmed"]_vars
  BY StepIsGood DEF StepGood, OutcomesOK, OutcomeOK
<1> QED
  BY <1>1, OutcomesHold, PTL DEF Spec, AbortWins
==============================================================================
