----------------------------- MODULE EngineView -----------------------------
(***************************************************************************)
(* The transaction engine as a peer sees it: the state of each operation   *)
(* in memory (what Query answers) and in the journal (what a restart       *)
(* finds), and the worker that moves it.  ManagedEngine implements this    *)
(* module; ConfigTransaction is composed with it.                          *)
(***************************************************************************)
CONSTANTS Ops,    \* operation IDs
          None    \* no operation

VARIABLES up,      \* the engine is open
          mem,     \* mem[o]: the state of o in e.records
          jrn,     \* jrn[o]: the state of o in the journal
          worker   \* [op, kind]: the goroutine started by launch

vars == <<up, mem, jrn, worker>>

TerminalStates   == {"confirmed", "rolled_back", "conflict", "cancelled"}
UnfinishedStates == {"prepared", "applying", "verifying", "outcome_unknown",
                     "rolling_back", "rollback_failed"}
States == {"absent"} \cup TerminalStates \cup UnfinishedStates
Unfinished(s) == s \in UnfinishedStates

NoWorker == [op |-> None, kind |-> "none"]
Kinds    == {"apply", "verify",             \* before and after the candidate runs
             "rollback", "undo",            \* before the intent to restore
             "restore", "undoing",          \* after it
             "done"}
Workers  == {NoWorker} \cup [op : Ops, kind : Kinds]

Init ==
    /\ up = FALSE
    /\ mem = [o \in Ops |-> "absent"]
    /\ jrn = [o \in Ops |-> "absent"]
    /\ worker = NoWorker

Quiet == worker = NoWorker

\* No other operation holds e.active.
Alone(o) == \A p \in Ops \ {o} : ~Unfinished(mem[p])

\* state(): a state that could not be recorded is an unknown outcome; the
\* failed write may still have reached the journal.
Record(o, s, ok) ==
    /\ mem' = [mem EXCEPT ![o] = IF ok THEN s ELSE "outcome_unknown"]
    /\ \/ jrn' = [jrn EXCEPT ![o] = s]
       \/ ~ok /\ UNCHANGED jrn

Start(o, kind) == worker' = [op |-> o, kind |-> kind]

\* Prepare: a failed write leaves the ID reserved.
Prepare(o, ok) ==
    /\ up /\ Quiet /\ Alone(o) /\ mem[o] = "absent"
    /\ mem' = [mem EXCEPT ![o] = IF ok THEN "prepared" ELSE "outcome_unknown"]
    /\ \/ jrn' = [jrn EXCEPT ![o] = "prepared"]
       \/ ~ok /\ UNCHANGED jrn
    /\ UNCHANGED <<up, worker>>

\* Apply, refused: the deadline passed, or the Store drifted.
Refuse(o, s, ok) ==
    /\ up /\ Quiet /\ mem[o] = "prepared"
    /\ s \in {"cancelled", "conflict"}
    /\ Record(o, s, ok)
    /\ UNCHANGED <<up, worker>>

Apply(o, ok) ==
    /\ up /\ Quiet /\ mem[o] = "prepared"
    /\ Record(o, "applying", ok)
    /\ IF ok THEN Start(o, "apply") ELSE UNCHANGED worker
    /\ UNCHANGED up

\* The deadline of a preparation, or a Rollback before Apply.
Cancel(o, ok) ==
    /\ up /\ Quiet /\ mem[o] = "prepared"
    /\ Record(o, "cancelled", ok)
    /\ UNCHANGED <<up, worker>>

\* Rollback of an operation nobody works on.
Rollback(o, ok) ==
    /\ up /\ Quiet /\ Unfinished(mem[o]) /\ mem[o] # "prepared"
    /\ Record(o, "rolling_back", ok)
    /\ IF ok THEN Start(o, "rollback") ELSE UNCHANGED worker
    /\ UNCHANGED up

\* Rollback of a preparation whose snapshots were never completed.
RollbackNothing(o) ==
    /\ up /\ Quiet /\ Unfinished(mem[o]) /\ mem[o] # "prepared"
    /\ jrn[o] = "absent"
    /\ mem' = [mem EXCEPT ![o] = "rollback_failed"]
    /\ UNCHANGED <<up, jrn, worker>>

\* Rollback of a confirmed operation: the worker looks before it says so.
Undo(o) ==
    /\ up /\ Quiet /\ mem[o] = "confirmed" /\ Alone(o)
    /\ Start(o, "undo")
    /\ UNCHANGED <<up, mem, jrn>>

Become(kind) == worker' = [worker EXCEPT !.kind = kind]
Works(kinds) == worker.kind \in kinds /\ UNCHANGED up

\* The outcome is uncertain: a hook hangs, the Store may have been written,
\* Close has begun.
Doubt(ok) ==
    /\ Works(Kinds) /\ Unfinished(mem[worker.op]) /\ UNCHANGED worker
    /\ Record(worker.op, "outcome_unknown", ok)

\* An apply goes on, or it is rolled back by the same worker.
Verify(ok) ==
    /\ Works({"apply"})
    /\ Record(worker.op, "verifying", ok)
    /\ Become(IF ok THEN "verify" ELSE "rollback")

Confirm(ok) ==
    /\ Works({"verify"})
    /\ Record(worker.op, "confirmed", ok)
    /\ Become(IF ok THEN "done" ELSE "rollback")

TurnBack ==
    /\ Works({"apply", "verify"}) /\ Become("rollback")
    /\ UNCHANGED <<mem, jrn>>

\* The last record of a worker.  An undo that lost a race restores the history.
Conclusions == [apply    |-> {"cancelled", "conflict"},
                rollback |-> {"rollback_failed"},
                restore  |-> {"rolled_back", "rollback_failed"},
                undoing  |-> {"rolled_back", "rollback_failed", "confirmed"}]

Conclude(s, ok) ==
    /\ Works(DOMAIN Conclusions) /\ s \in Conclusions[worker.kind]
    /\ Record(worker.op, s, ok) /\ Become("done")

\* The intent to restore; a rollback goes on even if it is not recorded.
Intend(ok) ==
    /\ Works({"rollback", "undo"})
    /\ Record(worker.op, "rolling_back", ok)
    /\ Become(IF worker.kind = "rollback" THEN "restore"
              ELSE IF ok THEN "undoing" ELSE "done")

\* The preflight of an undo refuses.
UndoRefused ==
    /\ Works({"undo"}) /\ Become("done")
    /\ UNCHANGED <<mem, jrn>>

Exit ==
    /\ Works({"done"}) /\ worker' = NoWorker
    /\ UNCHANGED <<mem, jrn>>

\* A save that changes no state can still complete one that failed.
Resave ==
    /\ worker.op # None
    /\ jrn' = [jrn EXCEPT ![worker.op] = mem[worker.op]]
    /\ UNCHANGED <<up, mem, worker>>

\* AttachRuntime: the recovery that Open began gets its worker.
Recover(o) ==
    /\ up /\ Quiet /\ mem[o] = "rolling_back"
    /\ Start(o, "rollback")
    /\ UNCHANGED <<up, mem, jrn>>

Down == /\ up' = FALSE
        /\ mem' = [o \in Ops |-> "absent"]
        /\ worker' = NoWorker

Crash == up /\ Down /\ UNCHANGED jrn

\* Close cancels an operation nobody applied.
CloseCancels(o) ==
    /\ up /\ Quiet /\ mem[o] = "prepared"
    /\ Down /\ jrn' = [jrn EXCEPT ![o] = "cancelled"]

\* Open journals the rollback of unfinished work before it serves anyone.
OpenIntent(o) ==
    /\ ~up /\ Unfinished(jrn[o])
    /\ jrn' = [jrn EXCEPT ![o] = "rolling_back"]
    /\ UNCHANGED <<up, mem, worker>>

Open ==
    /\ ~up /\ \A o \in Ops : Unfinished(jrn[o]) => jrn[o] = "rolling_back"
    /\ up' = TRUE /\ mem' = jrn
    /\ UNCHANGED <<jrn, worker>>

Recording(ok) == \/ Doubt(ok) \/ Verify(ok) \/ Confirm(ok) \/ Intend(ok)
                 \/ \E s \in States : Conclude(s, ok)

Work == \/ TurnBack \/ UndoRefused \/ Exit \/ Resave
        \/ \E ok \in BOOLEAN : Recording(ok)

Next ==
    \/ \E o \in Ops, ok \in BOOLEAN :
          \/ Prepare(o, ok) \/ Apply(o, ok) \/ Cancel(o, ok) \/ Rollback(o, ok)
          \/ \E s \in States : Refuse(o, s, ok)
    \/ \E o \in Ops : \/ RollbackNothing(o) \/ Undo(o) \/ Recover(o) \/ CloseCancels(o)
                      \/ OpenIntent(o)
    \/ Work \/ Crash \/ Open

Spec == Init /\ [][Next]_vars
=============================================================================
