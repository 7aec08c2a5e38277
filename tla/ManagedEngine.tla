---------------------------- MODULE ManagedEngine ----------------------------
(***************************************************************************)
(* The local, durable configuration transaction engine of the agent        *)
(* (frp-plus/agent/managed).  One engine owns a Store file, a journal      *)
(* record and two snapshots per operation, and the native runtime that     *)
(* serves the Store.  An operation is prepared, applied by a worker that   *)
(* calls native hooks outside the engine lock, and confirmed or rolled     *)
(* back; a crash, an error of the disk, a deadline, a Rollback or a Close  *)
(* may arrive at every step.                                               *)
(*                                                                         *)
(* Granularity: every durable write is a step of its own, and so is every  *)
(* stay inside a native hook.  e.mu is held exactly in LockedPcs.          *)
(***************************************************************************)
EXTENDS Integers, FiniteSets

CONSTANTS Ops,            \* operation IDs
          Versions,       \* contents of the Store file, absence included
          InitVersion,    \* what the Store holds when the engine is installed
          Mixed,          \* a runtime that a failed Apply left half loaded
          None,           \* no operation, no file, no runtime
          SnapshotQuota,  \* MaxSnapshotBytes, counted in files
          MaxFaults,      \* bound: failed durable writes
          MaxCrashes,     \* bound: kills of the process
          MaxDrifts       \* bound: writes of the Store by an outside writer

ASSUME ConstantsAssumption ==
    /\ InitVersion \in Versions
    /\ None \notin Ops \cup Versions
    /\ Mixed \notin Versions \cup {None}
    /\ {SnapshotQuota, MaxFaults, MaxCrashes, MaxDrifts} \subseteq Nat

VARIABLES
    \* durable
    store,     \* the Store file
    file,      \* file[o]: the .old and .new snapshots of o
    jrn,       \* jrn[o]: the journal record of o
    \* the world
    late,      \* late[o]: the deadline of o has passed
    runtime,   \* the configuration the native service serves
    \* memory of the process
    proc,      \* "down", "opening", "open", "attached", "closing"
    rec,       \* e.records
    active,    \* e.active
    abort,     \* e.abortCode # ""
    gate,      \* e.recoveryGate
    \* the thread that owns a worker or a multi-step critical section
    pc,
    job,       \* [op, kind, orig]: what that thread works on
    ctx,       \* context of the current hook: "live", "done", "recorded"
    ret,       \* what the hook returned: [err, cancelled]
    cur,       \* Digest(current) read before a rollback's write
    \* bounds
    faults, crashes, drifts

durable == <<store, file, jrn>>
memory  == <<proc, rec, active, abort, gate>>
thread  == <<pc, job, ctx, ret, cur>>
bounds  == <<faults, crashes, drifts>>
vars    == <<store, file, jrn, late, runtime, proc, rec, active, abort, gate,
             pc, job, ctx, ret, cur, faults, crashes, drifts>>

-----------------------------------------------------------------------------
(* Records *)

TerminalStates   == {"confirmed", "rolled_back", "conflict", "cancelled"}
UnfinishedStates == {"prepared", "applying", "verifying", "outcome_unknown",
                     "rolling_back", "rollback_failed"}
States == {"absent"} \cup TerminalStates \cup UnfinishedStates

\* sp, ra, ver: StorePersisted, RuntimeApplied and both Verification facts;
\* needs: NeedsRuntime; exp: the materials are expired.
Records == [state : States, old : Versions, new : Versions, sp : BOOLEAN,
            ra : BOOLEAN, ver : BOOLEAN, needs : BOOLEAN, exp : BOOLEAN]

Absent == [state |-> "absent", old |-> InitVersion, new |-> InitVersion,
           sp |-> FALSE, ra |-> FALSE, ver |-> FALSE, needs |-> FALSE,
           exp |-> FALSE]

Exists(r)     == r.state # "absent"
Terminal(r)   == r.state \in TerminalStates
Unfinished(r) == r.state \in UnfinishedStates

NoFiles == [old |-> None, new |-> None]

\* e.snapshots: both files are there and hold what the record says.
SnapshotsOK(o, r) == ~r.exp /\ file[o].old = r.old /\ file[o].new = r.new

\* Files of one kind that exist; snapshotUsageLocked counts orphans too.
Usage == Cardinality({o \in Ops : file[o].old # None})
         + Cardinality({o \in Ops : file[o].new # None})

-----------------------------------------------------------------------------
(* Program counters *)

ApplyHooks    == {"a_check", "a_apply", "a_verify"}
RollbackHooks == {"r_check", "r_apply", "r_verify"}
HookPcs       == ApplyHooks \cup RollbackHooks \cup {"u_check"}

\* The hook has returned, ctx.Err() was read, finish() has not run.
ApplyReturns    == {"a_checked", "a_applied", "a_verified"}
RollbackReturns == {"r_checked", "r_applied", "r_verified"}
ReturnPcs       == ApplyReturns \cup RollbackReturns \cup {"u_checked"}

WorkerLocked  == {"a_write", "a_save", "a_unknown",
                  "r_begin", "r_write", "r_save", "r_failed"}
HandlerLocked == {"p_old", "p_new", "p_journal", "g_old", "g_new",
                  "o_save", "o_write", "o_saved"}
LockedPcs     == WorkerLocked \cup HandlerLocked
WorkerPcs     == HookPcs \cup ReturnPcs \cup WorkerLocked
                 \cup {"r_start", "exit"}
Pcs           == {"idle"} \cup WorkerPcs \cup HandlerLocked

Running  == pc \in WorkerPcs          \* e.running
LockFree == pc \notin LockedPcs       \* e.mu can be taken
Serving  == proc \in {"open", "attached"}   \* open and not closing
CtxDone  == ctx # "live"

\* e.restoring: a Rollback joins this worker and no longer cancels it.
Restoring == \/ job.kind = "undo"
             \/ job.kind \in {"rollback", "recovery"} /\ pc # "r_start"

NoJob == [op |-> None, kind |-> "none", orig |-> Absent]
Jobs  == [op : Ops \cup {None}, orig : Records,
          kind : {"none", "apply", "rollback", "recovery", "undo"}]
NoRet == [err |-> FALSE, cancelled |-> FALSE]

Op == job.op
Goto(l) == pc' = l

TypeOK ==
    /\ store \in Versions
    /\ file \in [Ops -> [old : Versions \cup {None}, new : Versions \cup {None}]]
    /\ jrn \in [Ops -> Records]
    /\ late \in [Ops -> BOOLEAN]
    /\ runtime \in Versions \cup {Mixed, None}
    /\ proc \in {"down", "opening", "open", "attached", "closing"}
    /\ rec \in [Ops -> Records]
    /\ active \in Ops \cup {None}
    /\ abort \in BOOLEAN /\ gate \in BOOLEAN
    /\ pc \in Pcs
    /\ job \in Jobs
    /\ (pc # "idle") => job.op \in Ops
    /\ ctx \in {"live", "done", "recorded"}
    /\ ret \in [err : BOOLEAN, cancelled : BOOLEAN]
    /\ cur \in Versions
    /\ faults \in Nat /\ crashes \in Nat /\ drifts \in Nat

Init ==
    /\ store = InitVersion
    /\ file = [o \in Ops |-> NoFiles]
    /\ jrn = [o \in Ops |-> Absent]
    /\ late = [o \in Ops |-> FALSE]
    /\ runtime = None
    /\ proc = "down"
    /\ rec = [o \in Ops |-> Absent]
    /\ active = None
    /\ abort = FALSE /\ gate = FALSE
    /\ pc = "idle" /\ job = NoJob
    /\ ctx = "live" /\ ret = NoRet /\ cur = InitVersion
    /\ faults = 0 /\ crashes = 0 /\ drifts = 0

-----------------------------------------------------------------------------
(* Durable writes.  privateDir.replace either succeeds, fails before the    *)
(* rename ("lost"), or fails after it ("installed": the caller sees an       *)
(* error, the new content is there).                                         *)

Results == {"ok", "lost", "installed"}

Disk(res) ==
    /\ res = "ok" \/ faults < MaxFaults
    /\ faults' = IF res = "ok" THEN faults ELSE faults + 1

WriteJournal(o, r, res) ==
    jrn' = IF res = "lost" THEN jrn ELSE [jrn EXCEPT ![o] = r]

\* e.save, e.persist: the record in memory and, if all goes well, on disk.
Save(o, r, res) ==
    /\ Disk(res)
    /\ WriteJournal(o, r, res)
    /\ rec' = [rec EXCEPT ![o] = r]

\* Mutant: a failed save keeps the state it was asked to record.
BugSetStateKeeps(o, r, s, res) ==
    LET w == [r EXCEPT !.state = s] IN
    /\ Disk(res)
    /\ WriteJournal(o, w, res)
    /\ rec' = [rec EXCEPT ![o] = w]
    /\ active' = IF res # "ok" THEN o
                 ELSE IF Terminal(w) /\ ~Running /\ active = o THEN None
                 ELSE active

\* Mutant: state and error code of a failed save are swapped.
BugSetStateSwapped(o, r, s, res) ==
    \/ res = "ok" /\ BugSetStateKeeps(o, r, s, res)
    \/ /\ Disk(res) /\ res # "ok"
       /\ rec' = [rec EXCEPT ![o].state = "journal_failed"]
       /\ UNCHANGED <<jrn, active>>

\* e.state: a state that could not be recorded is an unknown outcome, and it
\* keeps the transaction gate.
SetState(o, r, s, res) ==
    LET w == [r EXCEPT !.state = s] IN
    /\ Disk(res)
    /\ WriteJournal(o, w, res)
    /\ rec' = [rec EXCEPT ![o] = IF res = "ok" THEN w
                                 ELSE [w EXCEPT !.state = "outcome_unknown"]]
    /\ active' = IF res # "ok" THEN o
                 ELSE IF Terminal(w) /\ ~Running /\ active = o THEN None
                 ELSE active

\* finish(): the context of the phase and its result are used up.
Finish == ctx' = "live" /\ ret' = NoRet

Idle == Goto("idle") /\ job' = NoJob /\ cur' = InitVersion /\ Finish

\* e.launch
Launch(o, kind, l) ==
    /\ Goto(l)
    /\ job' = [op |-> o, kind |-> kind, orig |-> rec[o]]
    /\ abort' = FALSE

\* A phase of the apply worker inherits a cancellation already requested; a
\* phase of a rollback has a fresh budget.
EnterApplyPhase(l)    == Goto(l) /\ ret' = NoRet
                         /\ ctx' = IF abort \/ late[Op] THEN "done" ELSE "live"
EnterRollbackPhase(l) == Goto(l) /\ Finish

-----------------------------------------------------------------------------
(* Start and stop of the process *)

\* Everything the process held in memory is gone.
PowerOff ==
    /\ proc' = "down"
    /\ rec' = [o \in Ops |-> Absent]
    /\ active' = None
    /\ abort' = FALSE /\ gate' = FALSE
    /\ runtime' = None
    /\ Idle

Crash ==
    /\ proc # "down" /\ crashes < MaxCrashes
    /\ crashes' = crashes + 1
    /\ PowerOff
    /\ UNCHANGED <<durable, late, faults, drifts>>

\* e.load accepts the directory: records decode, the snapshots every
\* unexpired record needs are there, at most one operation is unfinished.
Loadable ==
    /\ \A o \in Ops : Exists(jrn[o]) =>
          IF jrn[o].exp THEN Terminal(jrn[o]) /\ ~jrn[o].needs
                        ELSE SnapshotsOK(o, jrn[o])
    /\ \A o, p \in Ops : Unfinished(jrn[o]) /\ Unfinished(jrn[p]) => o = p

\* Open without unfinished work.
OpenClean ==
    /\ proc = "down" /\ Loadable
    /\ \A o \in Ops : ~Unfinished(jrn[o])
    /\ proc' = "open"
    /\ rec' = jrn
    /\ UNCHANGED <<durable, late, runtime, active, abort, gate, thread, bounds>>

\* Open with an unfinished operation, whatever its state: RecoveryCheck
\* passed and the Store is one of the two recorded versions.
OpenRecover(o) ==
    /\ proc = "down" /\ Loadable
    /\ Unfinished(jrn[o])
    /\ store \in {jrn[o].old, jrn[o].new}
    /\ proc' = "opening"
    /\ rec' = jrn
    /\ active' = o
    /\ Goto("o_save")
    /\ job' = [op |-> o, kind |-> "none", orig |-> Absent]
    /\ cur' = store
    /\ UNCHANGED <<durable, late, runtime, abort, gate, ctx, ret, bounds>>

\* The intent is journalled before the Store is touched; an error fails Open.
OpenSave(res) ==
    /\ pc = "o_save"
    /\ LET r == [rec[Op] EXCEPT !.state = "rolling_back", !.needs = TRUE,
                                !.ra = FALSE, !.ver = FALSE] IN
       IF res = "ok"
       THEN /\ Save(Op, r, res) /\ Goto("o_write")
            /\ UNCHANGED <<proc, active, abort, gate, runtime, job, ctx, ret, cur>>
       ELSE Disk(res) /\ WriteJournal(Op, r, res) /\ PowerOff
    /\ UNCHANGED <<store, file, late, crashes, drifts>>

OpenWrite(res) ==
    /\ pc = "o_write"
    /\ \/ /\ store = cur /\ Disk(res)
          /\ store' = IF res = "lost" THEN store ELSE rec[Op].old
          /\ IF res = "ok"
             THEN Goto("o_saved")
                  /\ UNCHANGED <<proc, rec, active, abort, gate, runtime,
                                 job, ctx, ret, cur>>
             ELSE PowerOff
       \/ /\ store # cur /\ res = "ok" /\ PowerOff
          /\ UNCHANGED <<store, faults>>
    /\ UNCHANGED <<file, jrn, late, crashes, drifts>>

OpenSaved(res) ==
    /\ pc = "o_saved"
    /\ LET r == [rec[Op] EXCEPT !.sp = FALSE] IN
       IF res = "ok"
       THEN /\ Save(Op, r, res) /\ proc' = "open" /\ Idle
            /\ UNCHANGED <<active, abort, gate, runtime>>
       ELSE Disk(res) /\ WriteJournal(Op, r, res) /\ PowerOff
    /\ UNCHANGED <<store, file, late, crashes, drifts>>

\* The native loader reads the Store after Open.
NativeLoad ==
    /\ proc = "open" /\ runtime = None
    /\ runtime' = store
    /\ UNCHANGED <<durable, late, memory, thread, bounds>>

\* AttachRuntime: a recovery that Open began is verified by a worker.
AttachRuntime ==
    /\ proc = "open" /\ runtime # None /\ LockFree
    /\ proc' = "attached"
    /\ IF active # None /\ rec[active].needs
       THEN Launch(active, "recovery", "r_start")
       ELSE UNCHANGED <<pc, job, abort>>
    /\ UNCHANGED <<durable, late, runtime, rec, active, gate, ctx, ret, cur, bounds>>

\* Close with a worker: the process lock stays until the worker returns.
CloseRunning(res) ==
    /\ Serving /\ LockFree /\ Running
    /\ proc' = "closing"
    /\ abort' = TRUE
    /\ ctx' = IF pc \in HookPcs \cup ReturnPcs /\ ~CtxDone THEN "done" ELSE ctx
    /\ IF Unfinished(rec[active])
       THEN SetState(active, rec[active], "outcome_unknown", res)
       ELSE res = "ok" /\ UNCHANGED <<jrn, rec, active, faults>>
    /\ UNCHANGED <<store, file, late, runtime, gate, pc, job, ret, cur, crashes, drifts>>

\* Close without a worker: an operation nobody applied is cancelled.
CloseIdle(res) ==
    /\ Serving /\ LockFree /\ ~Running
    /\ IF active # None /\ rec[active].state = "prepared"
       THEN /\ Disk(res)
            /\ WriteJournal(active, [rec[active] EXCEPT !.state = "cancelled"], res)
       ELSE res = "ok" /\ UNCHANGED <<jrn, faults>>
    /\ PowerOff
    /\ UNCHANGED <<store, file, late, crashes, drifts>>

-----------------------------------------------------------------------------
(* Prepare: reserve the ID and the gate, then write .old, .new, journal *)

\* Mutant: an operation that is waiting to be applied does not count.
BugPrepareIgnoresGate(o, v) ==
    /\ Serving /\ LockFree /\ ~gate
    /\ ~Exists(rec[o]) /\ ~Running
    /\ ~late[o]
    /\ Usage + 2 <= SnapshotQuota
    /\ rec' = [rec EXCEPT ![o] = [Absent EXCEPT !.state = "prepared",
                                                !.old = store, !.new = v]]
    /\ active' = o
    /\ Goto("p_old")
    /\ job' = [op |-> o, kind |-> "none", orig |-> Absent]
    /\ UNCHANGED <<durable, late, runtime, proc, abort, gate, ctx, ret, cur, bounds>>

Prepare(o, v) ==
    /\ Serving /\ LockFree /\ ~gate
    /\ ~Exists(rec[o]) /\ active = None /\ ~Running
    /\ ~late[o]
    /\ Usage + 2 <= SnapshotQuota
    /\ rec' = [rec EXCEPT ![o] = [Absent EXCEPT !.state = "prepared",
                                                !.old = store, !.new = v]]
    /\ active' = o
    /\ Goto("p_old")
    /\ job' = [op |-> o, kind |-> "none", orig |-> Absent]
    /\ UNCHANGED <<durable, late, runtime, proc, abort, gate, ctx, ret, cur, bounds>>

\* A write that failed leaves the ID reserved and the gate shut.
PrepareFailed == /\ Idle
                 /\ rec' = [rec EXCEPT ![Op].state = "outcome_unknown"]

PrepareSnapshot(at, next, which, content, res) ==
    /\ pc = at
    /\ Disk(res)
    /\ file' = IF res = "lost" THEN file ELSE [file EXCEPT ![Op][which] = content]
    /\ IF res = "ok" THEN Goto(next) /\ UNCHANGED <<rec, job, ctx, ret, cur>>
                     ELSE PrepareFailed
    /\ UNCHANGED <<store, jrn, late, runtime, proc, active, abort, gate,
                   crashes, drifts>>

PrepareOld(res) == PrepareSnapshot("p_old", "p_new", "old", rec[Op].old, res)
PrepareNew(res) == PrepareSnapshot("p_new", "p_journal", "new", rec[Op].new, res)

PrepareJournal(res) ==
    /\ pc = "p_journal"
    /\ Disk(res)
    /\ WriteJournal(Op, rec[Op], res)
    /\ IF res = "ok" THEN Idle /\ UNCHANGED rec ELSE PrepareFailed
    /\ UNCHANGED <<store, file, late, runtime, proc, active, abort, gate,
                   crashes, drifts>>

-----------------------------------------------------------------------------
(* Apply, Rollback and the deadline of a preparation *)

\* Frame of a handler that only records a state.
Frame == UNCHANGED <<store, file, late, runtime, proc, gate, cur, crashes, drifts>>

\* Mutant: the timer acts only when the runtime is attached.
BugExpireAttached(o, res) ==
    /\ proc = "attached" /\ LockFree
    /\ rec[o].state = "prepared" /\ late[o]
    /\ SetState(o, rec[o], "cancelled", res)
    /\ Frame /\ UNCHANGED <<abort, pc, job, ctx, ret>>

ExpirePrepared(o, res) ==
    /\ Serving /\ LockFree
    /\ rec[o].state = "prepared" /\ late[o]
    /\ SetState(o, rec[o], "cancelled", res)
    /\ Frame /\ UNCHANGED <<abort, pc, job, ctx, ret>>

\* Apply finds the deadline passed or the Store drifted.
ApplyRefused(o, res) ==
    /\ proc = "attached" /\ LockFree /\ ~gate
    /\ rec[o].state = "prepared"
    /\ \/ late[o] /\ SetState(o, rec[o], "cancelled", res)
       \/ ~late[o] /\ store # rec[o].old /\ SetState(o, rec[o], "conflict", res)
    /\ Frame /\ UNCHANGED <<abort, pc, job, ctx, ret>>

Apply(o, res) ==
    /\ proc = "attached" /\ LockFree /\ ~gate
    /\ rec[o].state = "prepared" /\ ~late[o] /\ store = rec[o].old
    /\ SetState(o, rec[o], "applying", res)
    /\ IF res = "ok" THEN Launch(o, "apply", "a_check")
                     ELSE UNCHANGED <<pc, job, abort>>
    /\ Frame /\ UNCHANGED <<ctx, ret>>

\* Rollback while the worker of o runs: request, cancel the hook, join.
RollbackRunning(o) ==
    /\ Serving /\ LockFree /\ ~gate
    /\ Running /\ active = o /\ ~rec[o].exp
    /\ ~Restoring /\ ~abort
    /\ abort' = TRUE
    /\ ctx' = IF pc \in HookPcs \cup ReturnPcs /\ ~CtxDone THEN "done" ELSE ctx
    /\ UNCHANGED <<durable, late, runtime, proc, rec, active, gate, pc, job, ret,
                   cur, bounds>>

RollbackPrepared(o, res) ==
    /\ Serving /\ LockFree /\ ~gate /\ ~Running
    /\ rec[o].state = "prepared"
    /\ SetState(o, rec[o], "cancelled", res)
    /\ Frame /\ UNCHANGED <<abort, pc, job, ctx, ret>>

\* A confirmed operation is undone only from exactly its own version.
RollbackConfirmed(o) ==
    /\ proc = "attached" /\ LockFree /\ ~gate /\ ~Running
    /\ rec[o].state = "confirmed" /\ ~rec[o].exp
    /\ active = None
    /\ store = rec[o].new /\ SnapshotsOK(o, rec[o])
    /\ Launch(o, "undo", "u_check")
    /\ active' = o
    /\ UNCHANGED <<durable, late, runtime, proc, rec, gate, ctx, ret, cur, bounds>>

\* Every other unfinished state.  A preparation whose snapshots were never
\* completed has nothing to restore and must not create a journal.
RollbackUnfinished(o, res) ==
    /\ Serving /\ LockFree /\ ~gate /\ ~Running
    /\ Unfinished(rec[o]) /\ rec[o].state # "prepared"
    /\ IF ~SnapshotsOK(o, rec[o]) /\ ~Exists(jrn[o])
       THEN /\ res = "ok"
            /\ rec' = [rec EXCEPT ![o].state = "rollback_failed"]
            /\ UNCHANGED <<jrn, active, faults, abort, pc, job>>
       ELSE /\ proc = "attached"
            /\ SetState(o, rec[o], "rolling_back", res)
            /\ IF res = "ok" THEN Launch(o, "rollback", "r_start")
                             ELSE UNCHANGED <<abort, pc, job>>
    /\ Frame /\ UNCHANGED <<ctx, ret>>

-----------------------------------------------------------------------------
(* Native hooks, outside the lock.  A hook may fail, panic or ignore its     *)
(* context; Verify succeeds only if the runtime serves what it was given.    *)

Target == IF pc \in ApplyHooks THEN rec[Op].new ELSE rec[Op].old

AfterHook == [h \in HookPcs |->
    CASE h = "a_check" -> "a_checked" [] h = "a_apply" -> "a_applied"
      [] h = "a_verify" -> "a_verified" [] h = "r_check" -> "r_checked"
      [] h = "r_apply" -> "r_applied" [] h = "r_verify" -> "r_verified"
      [] h = "u_check" -> "u_checked"]

Returns(e) == Goto(AfterHook[pc]) /\ ret' = [err |-> e, cancelled |-> CtxDone]

\* checkSafely: an expired context is an error even if the callback passed.
CheckReturns(e) ==
    /\ pc \in {"a_check", "r_check", "u_check"}
    /\ Returns(e \/ CtxDone)
    /\ UNCHANGED <<durable, late, runtime, memory, job, ctx, cur, bounds>>

ApplyHookReturns(e, v) ==
    /\ pc \in {"a_apply", "r_apply"}
    /\ IF e THEN v \in {runtime, Target, Mixed} ELSE v = Target
    /\ runtime' = v
    /\ Returns(e)
    /\ UNCHANGED <<durable, late, memory, job, ctx, cur, bounds>>

VerifyReturns(e) ==
    /\ pc \in {"a_verify", "r_verify"}
    /\ ~e => runtime = Target
    /\ Returns(e)
    /\ UNCHANGED <<durable, late, runtime, memory, job, ctx, cur, bounds>>

\* The watcher of phaseContext records uncertainty while the hook is stuck.
Watcher(res) ==
    /\ pc \in (HookPcs \cup ReturnPcs) \ {"u_check", "u_checked"}
    /\ ctx = "done" /\ ctx' = "recorded"
    /\ SetState(Op, rec[Op], "outcome_unknown", res)
    /\ Frame /\ UNCHANGED <<abort, pc, job, ret>>

-----------------------------------------------------------------------------
(* The apply worker *)

WorkerFrame == UNCHANGED <<late, runtime, proc, abort, gate, crashes, drifts>>

\* After the read-only Check: the last moment a candidate can be refused.
ApplyChecked(res) ==
    /\ pc = "a_checked"
    /\ CASE ret.err /\ ret.cancelled  -> SetState(Op, rec[Op], "cancelled", res)
         [] ret.err /\ ~ret.cancelled -> SetState(Op, rec[Op], "conflict", res)
         [] ~ret.err /\ (late[Op] \/ abort) -> SetState(Op, rec[Op], "cancelled", res)
         [] OTHER -> res = "ok" /\ UNCHANGED <<jrn, rec, active, faults>>
    /\ Goto(IF ret.err \/ late[Op] \/ abort THEN "exit" ELSE "a_write")
    /\ Finish
    /\ WorkerFrame /\ UNCHANGED <<store, file, job, cur>>

ApplyWrite(res) ==
    /\ pc = "a_write"
    /\ IF store # rec[Op].old
       THEN /\ SetState(Op, rec[Op], "conflict", res)
            /\ Goto("exit") /\ UNCHANGED store
       ELSE /\ Disk(res)
            /\ store' = IF res = "lost" THEN store ELSE rec[Op].new
            /\ rec' = IF res = "ok" THEN [rec EXCEPT ![Op].sp = TRUE] ELSE rec
            /\ Goto(IF res = "ok" THEN "a_save" ELSE "a_unknown")
            /\ UNCHANGED <<jrn, active>>
    /\ WorkerFrame /\ UNCHANGED <<file, job, ctx, ret, cur>>

ApplySave(res) ==
    /\ pc = "a_save"
    /\ Save(Op, rec[Op], res)
    /\ IF res = "ok" /\ ~late[Op] /\ ~abort
       THEN EnterApplyPhase("a_apply")
       ELSE Goto("a_unknown") /\ UNCHANGED <<ctx, ret>>
    /\ WorkerFrame /\ UNCHANGED <<store, file, active, job, cur>>

\* Every failure after the Store was touched ends here: record the unknown
\* outcome, release the lock, restore.
ApplyUnknown(res) ==
    /\ pc = "a_unknown"
    /\ SetState(Op, rec[Op], "outcome_unknown", res)
    /\ Goto("r_start")
    /\ WorkerFrame /\ UNCHANGED <<store, file, job, ctx, ret, cur>>

ApplyApplied(res) ==
    /\ pc = "a_applied"
    /\ IF ret.err \/ ret.cancelled \/ abort
       THEN /\ res = "ok" /\ Goto("a_unknown")
            /\ Finish
            /\ UNCHANGED <<jrn, rec, active, faults>>
       ELSE /\ SetState(Op, [rec[Op] EXCEPT !.ra = TRUE], "verifying", res)
            /\ IF res = "ok" THEN EnterApplyPhase("a_verify")
                             ELSE Goto("r_start") /\ Finish
    /\ WorkerFrame /\ UNCHANGED <<store, file, job, cur>>

\* Mutant: the result of Verify is not read against a request to stop.
BugVerifiedIgnoresAbort(res) ==
    /\ pc = "a_verified"
    /\ IF ret.err \/ store # rec[Op].new
       THEN /\ res = "ok" /\ Goto("a_unknown")
            /\ UNCHANGED <<jrn, rec, active, faults>>
       ELSE /\ SetState(Op, [rec[Op] EXCEPT !.ver = TRUE], "confirmed", res)
            /\ Goto(IF res = "ok" THEN "exit" ELSE "r_start")
    /\ Finish
    /\ WorkerFrame /\ UNCHANGED <<store, file, job, cur>>

\* Mutant: the Store is not read again after Verify.
BugVerifiedSkipsStore(res) ==
    /\ pc = "a_verified"
    /\ IF ret.err \/ ret.cancelled \/ abort
       THEN /\ res = "ok" /\ Goto("a_unknown")
            /\ UNCHANGED <<jrn, rec, active, faults>>
       ELSE /\ SetState(Op, [rec[Op] EXCEPT !.ver = TRUE], "confirmed", res)
            /\ Goto(IF res = "ok" THEN "exit" ELSE "r_start")
    /\ Finish
    /\ WorkerFrame /\ UNCHANGED <<store, file, job, cur>>

ApplyVerified(res) ==
    /\ pc = "a_verified"
    /\ IF ret.err \/ ret.cancelled \/ abort \/ store # rec[Op].new
       THEN /\ res = "ok" /\ Goto("a_unknown")
            /\ UNCHANGED <<jrn, rec, active, faults>>
       ELSE /\ SetState(Op, [rec[Op] EXCEPT !.ver = TRUE], "confirmed", res)
            /\ Goto(IF res = "ok" THEN "exit" ELSE "r_start")
    /\ Finish
    /\ WorkerFrame /\ UNCHANGED <<store, file, job, cur>>

-----------------------------------------------------------------------------
(* The rollback worker: after a failed apply, on request, at recovery, and   *)
(* as the undo of a confirmed operation.                                     *)

RollbackStart ==
    /\ pc = "r_start"
    /\ EnterRollbackPhase("r_check")
    /\ job' = [job EXCEPT !.kind = IF @ = "apply" THEN "rollback" ELSE @]
    /\ UNCHANGED <<durable, late, runtime, memory, cur, bounds>>

RollbackChecked(res) ==
    /\ pc = "r_checked"
    /\ IF ret.err
       THEN SetState(Op, rec[Op], "rollback_failed", res) /\ Goto("exit")
       ELSE /\ res = "ok" /\ Goto("r_begin")
            /\ UNCHANGED <<jrn, rec, active, faults>>
    /\ Finish
    /\ WorkerFrame /\ UNCHANGED <<store, file, job, cur>>

\* The preflight of an undo is read-only: any refusal leaves the history as
\* it was.
UndoChecked ==
    /\ pc = "u_checked"
    /\ Goto(IF proc = "closing" \/ ret.err THEN "exit" ELSE "r_begin")
    /\ Finish
    /\ UNCHANGED <<durable, late, runtime, memory, job, cur, bounds>>

\* Mutant: the Store is rolled back before the intent is journalled.
BugBeginUnjournalled(res) ==
    /\ pc = "r_begin" /\ res = "ok"
    /\ Goto("r_write") /\ cur' = store
    /\ rec' = [rec EXCEPT ![Op].state = "rolling_back", ![Op].ver = FALSE]
    /\ UNCHANGED <<jrn, active, faults>>
    /\ WorkerFrame /\ UNCHANGED <<store, file, job, ctx, ret>>

\* rollbackAfterCheck up to the intent: an unknown Store is never overwritten.
RollbackBegin(res) ==
    /\ pc = "r_begin"
    /\ IF store = rec[Op].new \/ (store = rec[Op].old /\ job.kind # "undo")
       THEN /\ SetState(Op, [rec[Op] EXCEPT !.ver = FALSE], "rolling_back", res)
            /\ Goto(IF res # "ok" /\ job.kind = "undo" THEN "exit" ELSE "r_write")
       ELSE /\ Goto("exit")
            /\ IF job.kind = "undo"
               THEN res = "ok" /\ UNCHANGED <<jrn, rec, active, faults>>
               ELSE SetState(Op, rec[Op], "rollback_failed", res)
    /\ cur' = store
    /\ WorkerFrame /\ UNCHANGED <<store, file, job, ctx, ret>>

\* The Store goes back to the old version, if it is still what was read.
RollbackWrite(res) ==
    /\ pc = "r_write" /\ store = cur
    /\ Disk(res)
    /\ store' = IF res = "lost" THEN store ELSE rec[Op].old
    /\ rec' = IF res = "ok" THEN [rec EXCEPT ![Op].sp = FALSE] ELSE rec
    /\ Goto(IF res = "ok" THEN "r_save" ELSE "r_failed")
    /\ WorkerFrame /\ UNCHANGED <<file, jrn, active, job, ctx, ret, cur>>

\* Mutant: the cancelled intent is restored in memory only.
BugConflictInMemory(res) ==
    /\ pc = "r_write" /\ store # cur /\ res = "ok"
    /\ rec' = [rec EXCEPT ![Op] = job.orig]
    /\ Goto("exit")
    /\ WorkerFrame
    /\ UNCHANGED <<store, file, job, ctx, ret, cur, jrn, active, faults>>

\* Lost CAS: an undo cancels its intent and restores the confirmed record.
RollbackConflict(res) ==
    /\ pc = "r_write" /\ store # cur
    /\ IF job.kind = "undo"
       THEN /\ Disk(res)
            /\ WriteJournal(Op, job.orig, res)
            /\ rec' = [rec EXCEPT ![Op] =
                  IF res = "ok" THEN job.orig
                  ELSE [job.orig EXCEPT !.state = "outcome_unknown", !.ver = FALSE]]
            /\ UNCHANGED active
       ELSE SetState(Op, rec[Op], "rollback_failed", res)
    /\ Goto("exit")
    /\ WorkerFrame /\ UNCHANGED <<store, file, job, ctx, ret, cur>>

RollbackFailed(res) ==
    /\ pc = "r_failed"
    /\ SetState(Op, rec[Op], "rollback_failed", res)
    /\ Goto("exit")
    /\ WorkerFrame /\ UNCHANGED <<store, file, job, ctx, ret, cur>>

\* An error of this save is tolerated; a recovery does not apply again, the
\* loader of the fresh process has read the restored Store.
RollbackSave(res) ==
    /\ pc = "r_save"
    /\ Save(Op, rec[Op], res)
    /\ EnterRollbackPhase(IF job.kind = "recovery" THEN "r_verify" ELSE "r_apply")
    /\ WorkerFrame /\ UNCHANGED <<store, file, active, job, cur>>

\* Mutant: a failed Apply of the old version is tried again at once.
BugAppliedRetries(res) ==
    /\ pc = "r_applied" /\ res = "ok"
    /\ EnterRollbackPhase(IF ret.err THEN "r_apply" ELSE "r_verify")
    /\ UNCHANGED <<jrn, rec, active, faults>>
    /\ WorkerFrame /\ UNCHANGED <<store, file, job, cur>>

RollbackApplied(res) ==
    /\ pc = "r_applied"
    /\ IF ret.err
       THEN /\ SetState(Op, rec[Op], "rollback_failed", res)
            /\ Goto("exit") /\ Finish
       ELSE /\ res = "ok" /\ EnterRollbackPhase("r_verify")
            /\ UNCHANGED <<jrn, rec, active, faults>>
    /\ WorkerFrame /\ UNCHANGED <<store, file, job, cur>>

\* Mutant: RuntimeApplied still describes the candidate.
BugVerifiedKeepsApplied(res) ==
    /\ pc = "r_verified"
    /\ IF ret.cancelled \/ ret.err \/ store # rec[Op].old
       THEN SetState(Op, rec[Op], "rollback_failed", res)
       ELSE SetState(Op, [rec[Op] EXCEPT !.needs = FALSE, !.ver = TRUE],
                     "rolled_back", res)
    /\ Goto("exit")
    /\ Finish
    /\ WorkerFrame /\ UNCHANGED <<store, file, job, cur>>

RollbackVerified(res) ==
    /\ pc = "r_verified"
    /\ IF ret.cancelled \/ ret.err \/ store # rec[Op].old
       THEN SetState(Op, rec[Op], "rollback_failed", res)
       ELSE SetState(Op, [rec[Op] EXCEPT !.ra = FALSE, !.needs = FALSE,
                                         !.ver = TRUE], "rolled_back", res)
    /\ Goto("exit")
    /\ Finish
    /\ WorkerFrame /\ UNCHANGED <<store, file, job, cur>>

\* The end of launch's goroutine.  The last act of a closing engine is to
\* release the process lock.
WorkerExit ==
    /\ pc = "exit"
    /\ IF proc = "closing"
       THEN PowerOff
       ELSE /\ active' = IF Terminal(rec[Op]) THEN None ELSE active
            /\ Idle
            /\ UNCHANGED <<proc, rec, abort, gate, runtime>>
    /\ UNCHANGED <<durable, late, bounds>>

-----------------------------------------------------------------------------
(* PruneSnapshots, one record: mark the materials expired, then delete them *)

PruneAllowed(o) ==
    /\ Serving /\ LockFree /\ ~gate /\ active = None /\ ~Running
    /\ Terminal(rec[o]) /\ ~rec[o].needs

Pruning(o, l) == Goto(l) /\ job' = [op |-> o, kind |-> "none", orig |-> Absent]

\* Mutant: the files go before the journal says so.
BugPruneUnjournalled(o, res) ==
    /\ PruneAllowed(o) /\ ~rec[o].exp /\ res = "ok"
    /\ rec' = [rec EXCEPT ![o].exp = TRUE]
    /\ Pruning(o, "g_old")
    /\ UNCHANGED <<durable, late, runtime, proc, active, abort, gate, ctx, ret, cur,
                   bounds>>

\* The retention period may have passed at any time.
PruneExpire(o, res) ==
    /\ PruneAllowed(o) /\ ~rec[o].exp
    /\ Save(o, [rec[o] EXCEPT !.exp = TRUE], res)
    /\ IF res = "ok" THEN Pruning(o, "g_old") /\ UNCHANGED gate
                     ELSE gate' = TRUE /\ UNCHANGED <<pc, job>>
    /\ UNCHANGED <<store, file, late, runtime, proc, active, abort, ctx, ret, cur,
                   crashes, drifts>>

\* Residues of an interrupted deletion are retried.
PruneResidues(o) ==
    /\ PruneAllowed(o) /\ rec[o].exp /\ file[o] # NoFiles
    /\ Pruning(o, "g_old")
    /\ UNCHANGED <<durable, late, runtime, memory, ctx, ret, cur, bounds>>

PruneDelete(at, next, which, res) ==
    /\ pc = at
    /\ Disk(res)
    /\ file' = IF res = "lost" THEN file ELSE [file EXCEPT ![Op][which] = None]
    /\ IF res = "ok" /\ next # "idle" THEN Goto(next) /\ UNCHANGED <<job, ctx, ret, cur>>
                                      ELSE Idle
    /\ UNCHANGED <<store, jrn, late, runtime, memory, crashes, drifts>>

PruneOld(res) == PruneDelete("g_old", "g_new", "old", res)
PruneNew(res) == PruneDelete("g_new", "idle", "new", res)

-----------------------------------------------------------------------------
(* Time and outside writers *)

\* Nothing reads the deadline of a finished operation.
DeadlinePasses(o) ==
    /\ ~late[o] /\ Unfinished(rec[o])
    /\ late' = [late EXCEPT ![o] = TRUE]
    /\ ctx' = IF Op = o /\ pc \in ApplyHooks \cup ApplyReturns /\ ~CtxDone
              THEN "done" ELSE ctx
    /\ UNCHANGED <<durable, runtime, memory, pc, job, ret, cur, bounds>>

RollbackTimeout ==
    /\ pc \in RollbackHooks \cup {"u_check"} /\ ~CtxDone
    /\ ctx' = "done"
    /\ UNCHANGED <<durable, late, runtime, memory, pc, job, ret, cur, bounds>>

Drift(v) ==
    /\ drifts < MaxDrifts /\ v # store
    /\ store' = v /\ drifts' = drifts + 1
    /\ UNCHANGED <<file, jrn, late, runtime, memory, thread, faults, crashes>>

-----------------------------------------------------------------------------

OpenStep(res) == OpenSave(res) \/ OpenWrite(res) \/ OpenSaved(res)

HandlerStep(res) ==
    \/ PrepareOld(res) \/ PrepareNew(res) \/ PrepareJournal(res)
    \/ PruneOld(res) \/ PruneNew(res)

HookReturns ==
    \E e \in BOOLEAN : \/ CheckReturns(e) \/ VerifyReturns(e)
                       \/ \E v \in Versions \cup {Mixed, None} : ApplyHookReturns(e, v)

WorkerStep(res) ==
    \/ ApplyChecked(res) \/ ApplyWrite(res) \/ ApplySave(res)
    \/ ApplyUnknown(res) \/ ApplyApplied(res) \/ ApplyVerified(res)
    \/ RollbackChecked(res) \/ RollbackBegin(res) \/ RollbackWrite(res)
    \/ RollbackConflict(res) \/ RollbackFailed(res) \/ RollbackSave(res)
    \/ RollbackApplied(res) \/ RollbackVerified(res)

Worker == \/ RollbackStart \/ UndoChecked \/ WorkerExit
          \/ \E res \in Results : WorkerStep(res)

Requests ==
    \/ \E o \in Ops, v \in Versions : Prepare(o, v)
    \/ \E o \in Ops : RollbackRunning(o) \/ RollbackConfirmed(o) \/ PruneResidues(o)
    \/ \E o \in Ops, res \in Results :
          \/ Apply(o, res) \/ ApplyRefused(o, res)
          \/ RollbackPrepared(o, res) \/ RollbackUnfinished(o, res)
          \/ PruneExpire(o, res)
    \/ \E res \in Results : CloseRunning(res) \/ CloseIdle(res)

Next ==
    \/ Crash \/ OpenClean \/ NativeLoad \/ AttachRuntime
    \/ \E o \in Ops : OpenRecover(o)
    \/ \E res \in Results : OpenStep(res) \/ HandlerStep(res) \/ Watcher(res)
    \/ Requests
    \/ HookReturns
    \/ Worker
    \/ \E o \in Ops, res \in Results : ExpirePrepared(o, res)
    \/ \E o \in Ops : DeadlinePasses(o)
    \/ RollbackTimeout
    \/ \E v \in Versions : Drift(v)

Spec == Init /\ [][Next]_vars

-----------------------------------------------------------------------------
(* Safety *)

\* At most one operation is unfinished on disk, whatever failed before: Open
\* refuses a directory with two (load), and no later transaction may start
\* over an unresolved one.
SingleUnfinished ==
    \A o, p \in Ops : Unfinished(jrn[o]) /\ Unfinished(jrn[p]) => o = p

\* A kill at any moment leaves a directory that Open accepts and recovers from:
\* both snapshots of every unexpired record, and the Store at one of the two
\* versions of the unfinished operation (Open, load, PruneSnapshots).
Recoverable ==
    drifts = 0 =>
       /\ Loadable
       /\ \A o \in Ops : Unfinished(jrn[o]) => store \in {jrn[o].old, jrn[o].new}

\* What the engine reports as final is what its journal says: a restart never
\* revises an answer (state, persist, the cancelled intent of an undo).
TerminalIsDurable ==
    proc # "down" /\ ~gate =>
       \A o \in Ops : Terminal(rec[o]) => jrn[o] = rec[o]

\* Every record, in memory or on disk, passes ConfigOperationView.Validate: a
\* result that does not is replaced by too_large and its facts are lost.
WireValid ==
    \A o \in Ops : \A r \in {rec[o], jrn[o]} :
       /\ r.state = "confirmed"   => r.sp /\ r.ra /\ r.ver
       /\ r.state = "rolled_back" => ~r.sp /\ ~r.ra /\ r.ver
       /\ r.exp => Terminal(r)

\* An outcome enters the journal only while it is true of disk and runtime:
\* the worker observed it, no late or stale hook result can claim it.
OutcomeIsObserved ==
    [][\A o \in Ops : jrn'[o].state # jrn[o].state =>
          /\ jrn'[o].state = "confirmed" /\ job.kind = "apply" =>
                store = jrn'[o].new /\ runtime = jrn'[o].new
          /\ jrn'[o].state = "rolled_back" =>
                store = jrn'[o].old /\ runtime = jrn'[o].old]_vars

\* Once a Rollback or a Close was accepted by an apply worker, that worker
\* does not confirm (abortCode against the phases of applyWorker).
AbortWins ==
    [][\A o \in Ops : abort /\ job.kind = "apply" /\ rec[o].state # "confirmed"
          => rec'[o].state # "confirmed"]_vars

\* A refused undo ends with the confirmed record it began from, in memory and
\* in the journal: no intent of it and no other state is left, whatever save
\* failed and whoever wrote the Store meanwhile (rollbackConfirmed, CAS refusal).
RefusedUndoKeepsHistory ==
    pc = "exit" /\ job.kind = "undo" /\ Terminal(rec[Op]) =>
       \/ rec[Op] = job.orig /\ jrn[Op] = job.orig
       \/ rec[Op].state = "rolled_back"

\* "A durable applying/outcome_unknown journal already contains all recovery
\* material if this phase update fails": when a rollback overwrites the Store
\* the journal is unfinished, so a crash is recovered (rollbackAfterCheck).
RollbackIntentDurable == pc = "r_write" => Unfinished(jrn[Op])

\* The engine implements the abstract transactional Store: only the journal
\* decides, and a crash is not even a step.
Status(r) == CASE r.state = "absent"    -> "idle"
               [] Unfinished(r)         -> "open"
               [] r.state = "confirmed" -> "committed"
               [] OTHER                 -> "reverted"
Promise == INSTANCE AtomicStore WITH
              status <- [o \in Ops |-> Status(jrn[o])],
              plan   <- [o \in Ops |-> [old |-> jrn[o].old, new |-> jrn[o].new]]
ImplementsAtomicStore == Promise!Spec

\* The engine implements what the composition with the monitor assumes of it:
\* a peer reads a state only while the engine serves and e.mu is free.
Served == proc \notin {"down", "opening"}
Reserving == pc \in {"p_old", "p_new", "p_journal"}
Intended == pc \in {"r_write", "r_save", "r_failed", "r_apply", "r_applied",
                    "r_verify", "r_verified"}
Trying   == pc \in {"a_check", "a_checked", "a_write", "a_save", "a_apply", "a_applied"}
SeenKind == CASE pc = "exit" -> "done"
              [] Trying      -> "apply"
              [] pc \in {"a_verify", "a_verified"} -> "verify"
              [] Intended    -> IF job.kind = "undo" THEN "undoing" ELSE "restore"
              [] OTHER       -> IF job.kind = "undo" THEN "undo" ELSE "rollback"
View == INSTANCE EngineView WITH
           up     <- Served,
           mem    <- [o \in Ops |-> IF ~Served \/ (Reserving /\ Op = o)
                                   THEN "absent" ELSE rec[o].state],
           jrn    <- [o \in Ops |-> jrn[o].state],
           worker <- IF Running THEN [op |-> Op, kind |-> SeenKind]
                                ELSE [op |-> None, kind |-> "none"]
ImplementsEngineView == View!Spec

-----------------------------------------------------------------------------
(* Liveness.  Threads and timers run; hooks return (they honour their        *)
(* context, and every phase has a deadline).  Requests, crashes, errors of   *)
(* the disk and outside writers owe nothing.                                 *)

Fairness ==
    /\ WF_vars(Worker) /\ WF_vars(HookReturns)
    /\ WF_vars(\E res \in Results : HandlerStep(res))
    /\ WF_vars(\E res \in Results : OpenStep(res))
    /\ \A o \in Ops : /\ WF_vars(DeadlinePasses(o))
                      /\ WF_vars(\E res \in Results : ExpirePrepared(o, res))

FairSpec == Spec /\ Fairness

\* The worker lease is never kept for good: a launched worker ends.
WorkerEnds == Running ~> ~Running

\* A preparation nobody applies does not hold the gate for ever.
PreparedEnds == \A o \in Ops :
    (rec[o].state = "prepared") ~> (rec[o].state # "prepared")

\* Neither a worker nor a preparation keeps the engine busy for good, whatever
\* fails, stops or is killed meanwhile (startWorker, the timer of Prepare).
EngineSettles == WorkerEnds /\ PreparedEnds
=============================================================================
