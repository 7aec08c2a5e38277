------------------- MODULE ManagedEngineRefinementProofs -------------------
(***************************************************************************)
(* What ManagedEngine implements.                                          *)
(*                                                                         *)
(* AtomicStore: without an outside writer, and with at most one failed     *)
(* write of the disk, every step of the engine is a step of the abstract   *)
(* Store or a stutter, for every number of operations, versions and        *)
(* crashes.  (With a second failed write it is not: the run                *)
(* engine_lost_intent shows the Store overwritten without an intent.)      *)
(*                                                                         *)
(* EngineView: for any failed writes, crashes and outside writers, every   *)
(* step of the engine is a step of what a peer may assume of it.           *)
(***************************************************************************)
EXTENDS ManagedEngineProofs

-----------------------------------------------------------------------------
(* The invariant *)

Calm == MaxDrifts = 0 /\ MaxFaults <= 1 /\ drifts = 0 /\ faults <= MaxFaults

\* The version a finished operation has left behind.
Settled(r) == IF r.state = "confirmed" THEN r.new ELSE r.old

\* Nobody has touched the Store for a preparation; memory and journal are at
\* odds about an outcome only after a failed write, and the outcome was true.
Plain(o) ==
    /\ jrn[o].state = "prepared" => store = jrn[o].old
    /\ proc # "down" =>
         /\ jrn[o].state = "prepared" => ~rec[o].needs
         /\ rec[o].state = "prepared" \/ (Unfinished(rec[o]) /\ ~Exists(jrn[o]))
               => store = rec[o].old
         /\ rec[o].state = "prepared" /\ Exists(jrn[o]) => jrn[o].state = "prepared"
         /\ Unfinished(rec[o]) /\ Terminal(jrn[o])
               => faults >= 1 /\ store = Settled(jrn[o])
AllPlain == \A o \in Ops : Plain(o)

\* Where the journal has the intent of what the thread does to the Store.
RecordedPcs == ApplyPcs \cup OpenPcs \cup RestorePcs \cup {"r_write", "r_failed"}

Seat == /\ pc \in {"a_check", "a_checked", "a_write"} => store = rec[Op].old
        /\ pc \in {"r_write", "o_save", "o_write"} => store = cur
        /\ pc \in RecordedPcs => Unfinished(jrn[Op])
        /\ pc \in WorkerPcs \cup {"o_write", "o_saved"} => jrn[Op].state # "prepared"

KInv == GInv /\ Calm /\ AllPlain /\ Seat

Refines == [Promise!Next]_(Promise!vars)
AtomicGood == AllPlain' /\ Seat' /\ Refines

\* What becomes of the journal record of o is a step of the abstract Store.
Ended(r) == r.state \in {"rolled_back", "conflict", "cancelled"}
JournalStep(o) ==
    \/ jrn'[o] = jrn[o]
    \/ Unfinished(jrn[o]) /\ Unfinished(jrn'[o])
    \/ Terminal(jrn[o]) /\ jrn'[o].state = jrn[o].state
    \/ ~Exists(jrn[o]) /\ Unfinished(jrn'[o]) /\ store = jrn'[o].old
    \/ Unfinished(jrn[o]) /\ jrn'[o].state = "confirmed" /\ store = jrn[o].new
    \/ Unfinished(jrn[o]) /\ Ended(jrn'[o]) /\ store = jrn[o].old
    \/ Terminal(jrn[o]) /\ Unfinished(jrn'[o]) /\ store = Settled(jrn[o])

LEMMA StatusKnown ==
  ASSUME NEW r \in Records
  PROVE  /\ Status(r) = "idle" <=> ~Exists(r)
         /\ Status(r) = "open" <=> Unfinished(r)
         /\ Status(r) = "committed" <=> r.state = "confirmed"
         /\ Status(r) = "reverted" <=> Ended(r)
<1>1. r.state \in States
  BY DEF Records
<1>2. CASE r.state = "absent"
  BY <1>2 DEF Status, Exists, Unfinished, UnfinishedStates, Ended
<1>3. CASE r.state \in UnfinishedStates
  BY <1>3 DEF Status, Exists, Unfinished, UnfinishedStates, Ended
<1>4. CASE r.state \in TerminalStates
  BY <1>4 DEF Status, Exists, Unfinished, UnfinishedStates, TerminalStates, Ended
<1> QED
  BY <1>1, <1>2, <1>3, <1>4 DEF States

\* A step that leaves Store and journal alone stutters.
LEMMA RefinesQuiet == UNCHANGED <<store, jrn>> => Refines
BY DEF Refines, Promise!vars

\* A journalled operation moves the Store between its versions.
LEMMA RefinesMove ==
  ASSUME TypeOK, NEW o \in Ops, jrn' = jrn, Unfinished(jrn[o]),
         store' \in {jrn[o].old, jrn[o].new}
  PROVE  Refines
<1>1. Status(jrn[o]) = "open"
  BY StatusKnown DEF TypeOK
<1>2. Promise!Move(o)
  BY <1>1 DEF Promise!Move
<1> QED
  BY <1>2 DEF Refines, Promise!Next

\* One record of the journal changes.
LEMMA RefinesRecord ==
  ASSUME TypeOK, NEW o \in Ops, store' = store, NEW w \in Records,
         jrn' = [jrn EXCEPT ![o] = w],
         \A p \in Ops \ {o} : ~Unfinished(jrn[p]),
         Exists(jrn[o]) => w.old = jrn[o].old /\ w.new = jrn[o].new,
         JournalStep(o)
  PROVE  Refines
<1> DEFINE st == [p \in Ops |-> Status(jrn[p])]
           pl == [p \in Ops |-> [old |-> jrn[p].old, new |-> jrn[p].new]]
           su == [p \in Ops |-> Status(jrn'[p])]
           pu == [p \in Ops |-> [old |-> jrn'[p].old, new |-> jrn'[p].new]]
<1>1. /\ jrn \in [Ops -> Records] /\ jrn[o] \in Records /\ jrn'[o] = w
      /\ \A p \in Ops \ {o} : jrn'[p] = jrn[p]
  BY DEF TypeOK
<1>2. su = [st EXCEPT ![o] = Status(w)]
  BY <1>1
<1>3. pu = [pl EXCEPT ![o] = [old |-> w.old, new |-> w.new]]
  BY <1>1
<1>4. Exists(jrn[o]) => pu = pl
  BY <1>1
<1>5. /\ st[o] = Status(jrn[o]) /\ pl[o].old = jrn[o].old /\ pl[o].new = jrn[o].new
  OBVIOUS
<1>6. Status(jrn[o]) # "open" => \A p \in Ops : st[p] # "open"
  BY <1>1, StatusKnown
<1>7. Status(w) = Status(jrn[o]) => su = st
  BY <1>1, <1>2
<1>8. Terminal(jrn[o]) => Exists(jrn[o]) /\ (jrn[o].state = "confirmed" \/ Ended(jrn[o]))
  BY DEF Terminal, TerminalStates, Exists, Ended
<1>9. Unfinished(jrn[o]) => Exists(jrn[o])
  BY DEF Unfinished, UnfinishedStates, Exists
<1>10. CASE Exists(jrn[o]) /\ Status(w) = Status(jrn[o])
  BY <1>4, <1>7, <1>10 DEF Refines, Promise!vars
<1>11. CASE ~Exists(jrn[o]) /\ Unfinished(w) /\ store = w.old
  <2>1. Status(jrn[o]) = "idle" /\ Status(w) = "open" /\ w.new \in Versions
    BY <1>1, <1>11, StatusKnown DEF Records
  <2>2. Promise!Begin(o, w.new)
    BY <1>2, <1>3, <1>5, <1>6, <1>11, <2>1 DEF Promise!Begin, Promise!NoneOpen
  <2> QED
    BY <2>1, <2>2 DEF Refines, Promise!Next
<1>12. CASE Unfinished(jrn[o]) /\ w.state = "confirmed" /\ store = jrn[o].new
  <2>1. Status(jrn[o]) = "open" /\ Status(w) = "committed"
    BY <1>1, <1>12, StatusKnown
  <2>2. Promise!Commit(o)
    BY <1>2, <1>4, <1>5, <1>9, <1>12, <2>1 DEF Promise!Commit
  <2> QED
    BY <2>2 DEF Refines, Promise!Next
<1>13. CASE Unfinished(jrn[o]) /\ Ended(w) /\ store = jrn[o].old
  <2>1. Status(jrn[o]) = "open" /\ Status(w) = "reverted"
    BY <1>1, <1>13, StatusKnown
  <2>2. Promise!Revert(o)
    BY <1>2, <1>4, <1>5, <1>9, <1>13, <2>1 DEF Promise!Revert
  <2> QED
    BY <2>2 DEF Refines, Promise!Next
<1>14. CASE Terminal(jrn[o]) /\ Unfinished(w) /\ store = Settled(jrn[o])
  <2>1. /\ Status(w) = "open" /\ Status(jrn[o]) # "open"
        /\ \/ Status(jrn[o]) = "committed" /\ store = jrn[o].new
           \/ Status(jrn[o]) = "reverted" /\ store = jrn[o].old
    BY <1>1, <1>8, <1>14, StatusKnown DEF Settled, Ended
  <2>2. Promise!Reopen(o)
    BY <1>2, <1>4, <1>5, <1>6, <1>8, <1>14, <2>1 DEF Promise!Reopen, Promise!NoneOpen
  <2> QED
    BY <2>2 DEF Refines, Promise!Next
<1>15. CASE jrn'[o] = jrn[o]
  <2>1. jrn' = jrn
    BY <1>1, <1>15
  <2> QED
    BY <2>1, RefinesQuiet
<1>16. Unfinished(jrn[o]) /\ Unfinished(w) => Status(w) = Status(jrn[o])
  BY <1>1, StatusKnown
<1>17. Terminal(jrn[o]) /\ w.state = jrn[o].state => Status(w) = Status(jrn[o])
  BY DEF Status, Unfinished
<1> QED
  BY <1>1, <1>8, <1>9, <1>10, <1>11, <1>12, <1>13, <1>14, <1>15, <1>16, <1>17
     DEF JournalStep

-----------------------------------------------------------------------------
(* Steps by what they do to Store and records *)

LEMMA DiskCounts ==
  ASSUME KInv, NEW res \in Results, Disk(res)
  PROVE  /\ faults' \in {faults, faults + 1}
         /\ res # "ok" => faults = 0 /\ faults' = 1
<1>1. MaxFaults \in Nat /\ faults \in Nat /\ MaxFaults <= 1
  BY ConstantsAssumption DEF KInv, Calm, GInv, FInv, IInv, TypeOK
<1> QED
  BY <1>1 DEF Disk

\* No other operation is unfinished.
LEMMA OthersFinished ==
  ASSUME GInv, proc # "down", NEW o \in Ops, active \in {o, None}
  PROVE  \A p \in Ops \ {o} : ~Unfinished(rec[p]) /\ ~Unfinished(jrn[p])
<1>1. None \notin Ops
  BY ConstantsAssumption
<1>2. \A p \in Ops : Unfinished(rec[p]) => active = p
  BY DEF GInv, FInv, IInv, GateHeld
<1>3. \A p \in Ops : Unfinished(jrn[p]) => Unfinished(rec[p])
  BY DEF GInv, FInv, IInv, GateCovers
<1> QED
  BY <1>1, <1>2, <1>3

\* Steps that leave Store and records alone.
LEMMA QuietAtomic ==
  ASSUME KInv, UNCHANGED <<store, rec, jrn>>, proc' = "down" <=> proc = "down",
         faults' \in {faults, faults + 1}, Seat'
  PROVE  AtomicGood
<1>1. AllPlain'
  BY DEF KInv, AllPlain, Plain, Unfinished, Exists, Terminal, Settled, GInv, FInv, IInv,
     TypeOK
<1> QED
  BY <1>1, RefinesQuiet DEF AtomicGood

\* A step that changes the records of one operation.
LEMMA RecordAtomic ==
  ASSUME KInv, proc # "down", proc' # "down", store' = store,
         faults' \in {faults, faults + 1},
         NEW o \in Ops, active \in {o, None},
         NEW u \in Records, rec' = [rec EXCEPT ![o] = u],
         NEW w \in Records, jrn' = jrn \/ jrn' = [jrn EXCEPT ![o] = w],
         w.old = rec[o].old, w.new = rec[o].new,
         JournalStep(o), Plain(o)'
  PROVE  AllPlain' /\ Refines
<1>1. /\ TypeOK /\ \A p \in Ops \ {o} : ~Unfinished(rec[p]) /\ ~Unfinished(jrn[p])
  BY OthersFinished DEF KInv, GInv, FInv, IInv
<1>2. \A p \in Ops \ {o} : rec'[p] = rec[p] /\ jrn'[p] = jrn[p]
  BY <1>1 DEF TypeOK
<1>3. AllPlain'
  <2>1. ASSUME NEW p \in Ops, p # o PROVE Plain(p)'
    BY <1>1, <1>2, <2>1 DEF KInv, AllPlain, Plain, Unfinished, Exists, Terminal, Settled,
       TypeOK
  <2> QED
    BY <2>1 DEF AllPlain
<1>4. Exists(jrn[o]) => w.old = jrn[o].old /\ w.new = jrn[o].new
  BY DEF KInv, GInv, FInv, DataInv, AllFollow, Follows
<1>5. Refines
  BY <1>1, <1>4, RefinesQuiet, RefinesRecord
<1> QED
  BY <1>3, <1>5

\* SetState to an unfinished state: the intent reaches the journal unless
\* this very write fails.
LEMMA SetStateAtomic ==
  ASSUME KInv, proc # "down", proc' # "down", store' = store,
         NEW o \in Ops, active \in {o, None},
         NEW r \in Records, NEW s \in UnfinishedStates \ {"prepared"}, NEW res \in Results,
         SetState(o, r, s, res),
         r.old = rec[o].old, r.new = rec[o].new,
         r = rec[o] \/ jrn[o].state # "prepared",
         \/ Unfinished(rec[o])
         \/ jrn[o] = rec[o] /\ rec[o].state = "confirmed" /\ store = rec[o].new
  PROVE  /\ AllPlain' /\ Refines
         /\ res = "ok" => Unfinished(jrn'[o])
         /\ Unfinished(rec[o]) /\ Exists(jrn[o]) => Unfinished(jrn'[o])
         /\ res = "ok" \/ jrn[o].state # "prepared" => jrn'[o].state # "prepared"
         /\ rec'[o].old = rec[o].old /\ rec'[o].new = rec[o].new
<1>1. TypeOK /\ s \in States /\ jrn[o] \in Records /\ rec[o] \in Records /\ Disk(res)
  BY StatesKnown DEF KInv, GInv, FInv, IInv, TypeOK, SetState
<1>2. PICK u \in Records, w \in Records :
            /\ Alike(u, r) /\ Alike(w, r)
            /\ w.state = s
            /\ u.state = IF res = "ok" THEN s ELSE "outcome_unknown"
            /\ res = "ok" => u = w
            /\ rec' = [rec EXCEPT ![o] = u]
            /\ \/ jrn' = [jrn EXCEPT ![o] = w]
               \/ res # "ok" /\ jrn' = jrn
  BY <1>1, SetStateRecords
<1>3. /\ faults' \in {faults, faults + 1}
      /\ res # "ok" => faults = 0 /\ faults' = 1
  BY <1>1, DiskCounts
<1>4. /\ rec'[o] = u /\ (jrn'[o] = w \/ (res # "ok" /\ jrn'[o] = jrn[o]))
  BY <1>1, <1>2 DEF TypeOK
<1>5. /\ Unfinished(w) /\ Unfinished(u) /\ u.state # "prepared" /\ Exists(w)
      /\ ~Terminal(w) /\ w.state # "prepared"
      /\ u.old = rec[o].old /\ u.new = rec[o].new /\ w.old = rec[o].old /\ w.new = rec[o].new
  BY <1>2, StatesKnown DEF Unfinished, UnfinishedStates, Terminal, Exists, Alike
<1>6. Plain(o)
  BY DEF KInv, AllPlain
<1>7. Exists(jrn[o]) => jrn[o].old = rec[o].old /\ jrn[o].new = rec[o].new
  BY DEF KInv, GInv, FInv, DataInv, AllFollow, Follows
<1>8. Exists(jrn[o]) <=> Unfinished(jrn[o]) \/ Terminal(jrn[o])
  BY <1>1 DEF Exists, Unfinished, Terminal, Records, States, TerminalStates, UnfinishedStates
<1>9. Terminal(jrn[o]) => store = Settled(jrn[o]) /\ (Unfinished(rec[o]) => faults >= 1)
  BY <1>6 DEF Plain, Settled
<1>10. ~Exists(jrn[o]) => store = rec[o].old
  BY <1>6 DEF Plain, Exists
<1>11. JournalStep(o)
  BY <1>4, <1>5, <1>8, <1>9, <1>10 DEF JournalStep
<1>12. Terminal(jrn'[o]) => jrn'[o] = jrn[o] /\ faults' >= 1
  BY <1>3, <1>4, <1>5
<1>0. jrn'[o].state = "prepared" => jrn[o].state = "prepared" /\ ~u.needs
  BY <1>2, <1>4, <1>5, <1>6 DEF Plain, Alike
<1>13. Plain(o)'
  BY <1>0, <1>4, <1>5, <1>6, <1>7, <1>9, <1>10, <1>12
     DEF Plain, Unfinished, Exists, Terminal, Settled
<1>14. AllPlain' /\ Refines
  BY <1>2, <1>3, <1>5, <1>11, <1>13, RecordAtomic
<1>15. Unfinished(rec[o]) /\ Exists(jrn[o]) => Unfinished(jrn'[o])
  BY <1>3, <1>4, <1>5, <1>8, <1>9
<1> QED
  BY <1>4, <1>5, <1>14, <1>15

\* SetState to an outcome that is true of the Store.
LEMMA OutcomeAtomic ==
  ASSUME KInv, proc # "down", proc' # "down", store' = store,
         NEW o \in Ops, active \in {o, None},
         NEW r \in Records, NEW s \in TerminalStates, NEW res \in Results,
         SetState(o, r, s, res),
         r.old = rec[o].old, r.new = rec[o].new,
         r = rec[o] \/ jrn[o].state # "prepared",
         Unfinished(jrn[o]),
         store = IF s = "confirmed" THEN r.new ELSE r.old
  PROVE  /\ AllPlain' /\ Refines
         /\ jrn[o].state # "prepared" => jrn'[o].state # "prepared"
<1>1. TypeOK /\ s \in States /\ jrn[o] \in Records /\ rec[o] \in Records /\ Disk(res)
  BY StatesKnown DEF KInv, GInv, FInv, IInv, TypeOK, SetState
<1>2. PICK u \in Records, w \in Records :
            /\ Alike(u, r) /\ Alike(w, r)
            /\ w.state = s
            /\ u.state = IF res = "ok" THEN s ELSE "outcome_unknown"
            /\ res = "ok" => u = w
            /\ rec' = [rec EXCEPT ![o] = u]
            /\ \/ jrn' = [jrn EXCEPT ![o] = w]
               \/ res # "ok" /\ jrn' = jrn
  BY <1>1, SetStateRecords
<1>3. /\ faults' \in {faults, faults + 1}
      /\ res # "ok" => faults = 0 /\ faults' = 1
  BY <1>1, DiskCounts
<1>4. /\ rec'[o] = u /\ (jrn'[o] = w \/ (res # "ok" /\ jrn'[o] = jrn[o]))
  BY <1>1, <1>2 DEF TypeOK
<1>5. /\ ~Unfinished(w) /\ Exists(w) /\ u.state # "prepared" /\ w.state # "prepared"
      /\ res = "ok" => ~Unfinished(u)
      /\ w.state = "confirmed" \/ Ended(w)
      /\ u.old = rec[o].old /\ u.new = rec[o].new /\ w.old = rec[o].old /\ w.new = rec[o].new
  BY <1>2, StatesKnown
     DEF Unfinished, UnfinishedStates, TerminalStates, Ended, Exists, Alike
<1>6. Plain(o)
  BY DEF KInv, AllPlain
<1>7. /\ jrn[o].old = rec[o].old /\ jrn[o].new = rec[o].new /\ Exists(jrn[o])
      /\ ~Terminal(jrn[o])
  BY <1>1, StatesKnown DEF KInv, GInv, FInv, DataInv, AllFollow, Follows, Unfinished,
     UnfinishedStates, Exists, Terminal
<1>8. store = Settled(w)
  BY <1>2, <1>5 DEF Settled
<1>9. JournalStep(o)
  BY <1>2, <1>4, <1>5, <1>7, <1>8 DEF JournalStep, Settled, Ended
<1>10. Exists(jrn'[o]) /\ (jrn'[o].state = "prepared" => jrn'[o] = jrn[o])
  BY <1>4, <1>5, <1>7
<1>11. Terminal(jrn'[o]) => jrn'[o] = w
  BY <1>4, <1>7
<1>0. jrn'[o].state = "prepared" => jrn[o].state = "prepared" /\ ~u.needs
  BY <1>2, <1>4, <1>5, <1>6 DEF Plain, Alike
<1>12. Plain(o)'
  BY <1>0, <1>3, <1>4, <1>5, <1>6, <1>8, <1>10, <1>11
     DEF Plain, Unfinished, Exists, Terminal, Settled
<1>13. AllPlain' /\ Refines
  BY <1>2, <1>3, <1>5, <1>9, <1>12, RecordAtomic
<1> QED
  BY <1>4, <1>5, <1>13

\* The thread writes the Store and changes a fact in its record.
LEMMA MoveAtomic ==
  ASSUME KInv, proc # "down", proc' # "down", active = Op, Op \in Ops, jrn' = jrn,
         NEW u \in Records, rec' = [rec EXCEPT ![Op] = u],
         u.state = rec[Op].state, u.old = rec[Op].old, u.new = rec[Op].new,
         store' \in {store, rec[Op].old, rec[Op].new},
         Unfinished(jrn[Op]), jrn[Op].state # "prepared"
  PROVE  AllPlain' /\ Refines
<1>1. /\ TypeOK /\ \A p \in Ops \ {Op} : ~Unfinished(rec[p]) /\ ~Unfinished(jrn[p])
  BY OthersFinished DEF KInv, GInv, FInv, IInv
<1>2. rec'[Op] = u /\ \A p \in Ops \ {Op} : rec'[p] = rec[p]
  BY <1>1 DEF TypeOK
<1>3. /\ jrn[Op].old = rec[Op].old /\ jrn[Op].new = rec[Op].new /\ Exists(jrn[Op])
      /\ ~Terminal(jrn[Op])
  BY <1>1, StatesKnown DEF KInv, GInv, FInv, DataInv, AllFollow, Follows, Unfinished,
     UnfinishedStates, Exists, Terminal, TypeOK
<1>4. store \in {jrn[Op].old, jrn[Op].new}
  BY JournalPlan DEF KInv, Calm
<1>5. Refines
  BY <1>1, <1>3, <1>4, RefinesMove
<1>6. ASSUME NEW p \in Ops PROVE Plain(p)'
  <2>1. CASE p = Op
    <3>1. rec[p].state # "prepared"
      BY <1>3, <2>1 DEF KInv, AllPlain, Plain
    <3> QED
      BY <1>2, <1>3, <2>1, <3>1 DEF Plain, Exists, Terminal
  <2>2. CASE p # Op
    BY <1>1, <1>2, <2>2 DEF Plain, Unfinished, UnfinishedStates
  <2> QED
    BY <2>1, <2>2
<1> QED
  BY <1>5, <1>6 DEF AllPlain

\* The process stops: no step for the abstract Store.
LEMMA KilledAtomic ==
  ASSUME KInv, PowerOff, UNCHANGED <<store, jrn>>
  PROVE  AtomicGood
<1>1. proc' = "down" /\ pc' = "idle"
  BY DEF PowerOff, Idle, Goto
<1>2. AllPlain'
  BY <1>1 DEF KInv, AllPlain, Plain
<1>3. Seat'
  BY <1>1, PcsKnown DEF Seat, RecordedPcs, ApplyPcs, RestorePcs, OpenPcs, ApplyHooks,
     ApplyReturns
<1> QED
  BY <1>2, <1>3, RefinesQuiet DEF AtomicGood

-----------------------------------------------------------------------------
(* The seat of a thread *)

LEMMA FreeSeat == ASSUME pc' \in {"idle"} \cup PrepPcs \cup DeletePcs PROVE Seat'
BY PcsKnown DEF Seat, RecordedPcs, ApplyPcs, RestorePcs, OpenPcs, PrepPcs, DeletePcs,
   ApplyHooks, ApplyReturns

LEMMA WorkerSeat ==
  ASSUME pc' \in WorkerPcs, jrn'[job'.op].state # "prepared",
         pc' \in {"a_check", "a_checked", "a_write"} => store' = rec'[job'.op].old,
         pc' = "r_write" => store' = cur',
         pc' \in RecordedPcs => Unfinished(jrn'[job'.op])
  PROVE  Seat'
<1>1. pc' \notin {"o_save", "o_write"}
  BY PcsKnown DEF OpenPcs
<1> QED
  BY <1>1 DEF Seat, Op, Unfinished

\* What KInv adds to WorkerKnows.
LEMMA WorkerSits ==
  ASSUME KInv, pc \in WorkerPcs
  PROVE  /\ Op \in Ops /\ active = Op /\ proc # "down" /\ TypeOK
         /\ rec[Op] \in Records /\ jrn[Op] \in Records /\ job \in Jobs
         /\ rec \in [Ops -> Records]
         /\ Exists(jrn[Op]) /\ rec[Op].state # "prepared"
         /\ jrn[Op].state # "prepared"
         /\ pc # "exit" /\ ~UndoLook => Unfinished(rec[Op])
         /\ UndoLook => jrn[Op] = rec[Op] /\ rec[Op].state = "confirmed"
         /\ rec[Op].old = jrn[Op].old /\ rec[Op].new = jrn[Op].new
         /\ pc \in RecordedPcs => Unfinished(jrn[Op])
         /\ faults \in Nat
<1>1. jrn[Op].state # "prepared" /\ (pc \in RecordedPcs => Unfinished(jrn[Op]))
  BY DEF KInv, Seat
<1>2. UndoLook => jrn[Op] = rec[Op] /\ rec[Op].state = "confirmed"
  BY DEF KInv, GInv, FInv, ControlInv, Undoing, UndoLook
<1>3. /\ Op \in Ops /\ active = Op /\ proc # "down" /\ TypeOK
      /\ rec[Op] \in Records /\ jrn[Op] \in Records /\ job \in Jobs
      /\ Exists(jrn[Op]) /\ rec[Op].state # "prepared"
      /\ pc # "exit" /\ ~UndoLook => Unfinished(rec[Op])
  BY WorkerKnows DEF KInv, GInv
<1>4. rec[Op].old = jrn[Op].old /\ rec[Op].new = jrn[Op].new
  BY <1>3 DEF KInv, GInv, FInv, DataInv, AllFollow, Follows
<1> QED
  BY <1>1, <1>2, <1>3, <1>4 DEF TypeOK

\* A worker records an unfinished state and goes on.
LEMMA WorkerRecordsAtomic ==
  ASSUME KInv, pc \in WorkerPcs \ {"exit"}, WorkerFrame, UNCHANGED <<store, job>>,
         pc' \in WorkerPcs \ {"a_check", "a_checked", "a_write"},
         NEW r \in Records, NEW s \in UnfinishedStates \ {"prepared"}, NEW res \in Results,
         SetState(Op, r, s, res),
         r.old = rec[Op].old, r.new = rec[Op].new,
         ~UndoLook \/ store = rec[Op].new,
         pc' = "r_write" => cur' = store,
         pc' \in RecordedPcs => ~UndoLook \/ res = "ok"
  PROVE  AtomicGood
<1>1. /\ Op \in Ops /\ active = Op /\ proc # "down" /\ jrn[Op].state # "prepared"
      /\ ~UndoLook => Unfinished(rec[Op])
      /\ UndoLook => jrn[Op] = rec[Op] /\ rec[Op].state = "confirmed"
      /\ Exists(jrn[Op])
  BY WorkerSits
<1>2. /\ AllPlain' /\ Refines
      /\ res = "ok" => Unfinished(jrn'[Op])
      /\ Unfinished(rec[Op]) => Unfinished(jrn'[Op])
      /\ jrn'[Op].state # "prepared"
  BY <1>1, SetStateAtomic DEF WorkerFrame
<1>3. Seat'
  BY <1>1, <1>2, WorkerSeat DEF Op
<1> QED
  BY <1>2, <1>3 DEF AtomicGood

\* A worker records an outcome.
LEMMA WorkerEndsAtomic ==
  ASSUME KInv, pc \in WorkerPcs \ {"exit"}, WorkerFrame, UNCHANGED <<store, job>>,
         pc \in RecordedPcs, pc' \in {"exit", "r_start"},
         NEW r \in Records, NEW s \in TerminalStates, NEW res \in Results,
         SetState(Op, r, s, res),
         r.old = rec[Op].old, r.new = rec[Op].new,
         store = IF s = "confirmed" THEN r.new ELSE r.old
  PROVE  AtomicGood
<1>1. /\ Op \in Ops /\ active = Op /\ proc # "down" /\ jrn[Op].state # "prepared"
      /\ Unfinished(jrn[Op])
  BY WorkerSits
<1>2. AllPlain' /\ Refines /\ jrn'[Op].state # "prepared"
  BY <1>1, OutcomeAtomic DEF WorkerFrame
<1>3. pc' \in WorkerPcs /\ pc' \notin RecordedPcs
  BY WorkerPcsBusy DEF RecordedPcs, ApplyPcs, OpenPcs, RestorePcs, ApplyHooks, ApplyReturns
<1>4. Seat'
  BY <1>2, <1>3, WorkerSeat DEF Op
<1> QED
  BY <1>2, <1>4 DEF AtomicGood

\* A worker saves its record.
LEMMA WorkerSavesAtomic ==
  ASSUME KInv, pc \in WorkerPcs \ {"exit"}, WorkerFrame, UNCHANGED <<store, job>>,
         pc \in RecordedPcs,
         pc' \in WorkerPcs \ {"r_write", "a_check", "a_checked", "a_write"},
         NEW res \in Results, Save(Op, rec[Op], res), ~UndoLook
  PROVE  AtomicGood
<1>1. /\ Op \in Ops /\ active = Op /\ proc # "down" /\ jrn[Op].state # "prepared"
      /\ Unfinished(jrn[Op]) /\ Unfinished(rec[Op]) /\ rec[Op].state # "prepared"
      /\ rec[Op] \in Records /\ TypeOK
  BY WorkerSits
<1>2. /\ rec' = [rec EXCEPT ![Op] = rec[Op]]
      /\ jrn' = jrn \/ jrn' = [jrn EXCEPT ![Op] = rec[Op]]
      /\ faults' \in {faults, faults + 1}
  BY DiskCounts DEF Save, WriteJournal
<1>3. rec'[Op] = rec[Op] /\ jrn'[Op] \in {jrn[Op], rec[Op]}
  BY <1>1, <1>2 DEF TypeOK
<1>4. /\ Unfinished(jrn'[Op]) /\ jrn'[Op].state # "prepared" /\ Exists(jrn'[Op])
      /\ ~Terminal(jrn'[Op])
  BY <1>1, <1>3, StatesKnown DEF Unfinished, UnfinishedStates, Exists, Terminal
<1>5. JournalStep(Op)
  BY <1>1, <1>4 DEF JournalStep
<1>6. Plain(Op)'
  BY <1>1, <1>3, <1>4 DEF Plain, Exists, Terminal, Op
<1>7. AllPlain' /\ Refines
  BY <1>1, <1>2, <1>5, <1>6, RecordAtomic DEF WorkerFrame, Op
<1>8. Seat'
  BY <1>4, WorkerSeat DEF Op
<1> QED
  BY <1>7, <1>8 DEF AtomicGood

\* A worker goes on and records nothing.
LEMMA WorkerMovesAtomic ==
  ASSUME KInv, pc \in WorkerPcs, UNCHANGED <<store, rec, jrn, faults, proc, job>>,
         pc' \in WorkerPcs \ {"r_write"},
         pc' \in RecordedPcs => pc \in RecordedPcs,
         pc' \in {"a_check", "a_checked", "a_write"} => pc \in {"a_check", "a_checked", "a_write"}
  PROVE  AtomicGood
<1>1. jrn[Op].state # "prepared" /\ (pc \in RecordedPcs => Unfinished(jrn[Op])) /\ faults \in Nat
  BY WorkerSits
<1>2. pc \in {"a_check", "a_checked", "a_write"} => store = rec[Op].old
  BY DEF KInv, Seat
<1>3. Seat'
  BY <1>1, <1>2, WorkerSeat DEF Op
<1> QED
  BY <1>1, <1>3, QuietAtomic

-----------------------------------------------------------------------------
(* The apply worker *)

LEMMA ApplyPcsRecorded ==
  ASSUME KInv, pc \in ApplyPcs
  PROVE  /\ pc \in WorkerPcs \ {"exit"} /\ pc \in RecordedPcs /\ ~UndoLook
         /\ rec[Op] \in Records
<1>1. pc \in WorkerPcs \ {"exit"}
  BY WorkerPcsBusy DEF ApplyPcs, ApplyHooks, ApplyReturns
<1> QED
  BY <1>1, WorkerSits DEF RecordedPcs, UndoLook, ApplyPcs, ApplyHooks, ApplyReturns

LEMMA ApplyCheckedAtomic ==
  ASSUME KInv, NEW res \in Results, ApplyChecked(res) PROVE AtomicGood
<1>1. /\ pc = "a_checked" /\ WorkerFrame /\ UNCHANGED <<store, job, proc>>
      /\ pc' = IF ret.err \/ late[Op] \/ abort THEN "exit" ELSE "a_write"
  BY DEF ApplyChecked, Goto, WorkerFrame
<1>2. /\ pc \in WorkerPcs \ {"exit"} /\ pc \in RecordedPcs /\ rec[Op] \in Records
  BY <1>1, ApplyPcsRecorded DEF ApplyPcs, ApplyReturns
<1>3. store = rec[Op].old
  BY <1>1 DEF KInv, Seat
<1>4. CASE ret.err \/ late[Op] \/ abort
  <2>1. PICK s \in {"cancelled", "conflict"} : SetState(Op, rec[Op], s, res)
    BY <1>4 DEF ApplyChecked
  <2> QED
    BY <1>1, <1>2, <1>3, <1>4, <2>1, WorkerEndsAtomic DEF TerminalStates
<1>5. CASE ~(ret.err \/ late[Op] \/ abort)
  <2>1. UNCHANGED <<jrn, rec, faults>> /\ pc' = "a_write"
    BY <1>1, <1>5 DEF ApplyChecked
  <2> QED
    BY <1>1, <1>2, <2>1, WorkerPcsBusy, WorkerMovesAtomic
<1> QED
  BY <1>4, <1>5

LEMMA ApplyWriteAtomic ==
  ASSUME KInv, NEW res \in Results, ApplyWrite(res) PROVE AtomicGood
<1>1. /\ pc = "a_write" /\ WorkerFrame /\ UNCHANGED <<proc, job>>
  BY DEF ApplyWrite, WorkerFrame
<1>2. store = rec[Op].old
  BY <1>1 DEF KInv, Seat
<1>3. /\ pc' = IF res = "ok" THEN "a_save" ELSE "a_unknown"
      /\ jrn' = jrn /\ store' \in {store, rec[Op].new}
      /\ rec' = IF res = "ok" THEN [rec EXCEPT ![Op].sp = TRUE] ELSE rec
  BY <1>1, <1>2 DEF ApplyWrite, Goto
<1>4. /\ Op \in Ops /\ active = Op /\ proc # "down" /\ jrn[Op].state # "prepared"
      /\ Unfinished(jrn[Op]) /\ rec[Op] \in Records /\ rec \in [Ops -> Records]
  BY <1>1, ApplyPcsRecorded, WorkerSits DEF ApplyPcs
<1> DEFINE v == [rec[Op] EXCEPT !.sp = TRUE]
<1>5. v \in Records /\ v.state = rec[Op].state /\ v.old = rec[Op].old /\ v.new = rec[Op].new
  BY <1>4, FactsAlike
<1>6. rec' = IF res = "ok" THEN [rec EXCEPT ![Op] = v] ELSE [rec EXCEPT ![Op] = rec[Op]]
  BY <1>3, <1>4
<1> HIDE DEF v
<1>7. AllPlain' /\ Refines
  BY <1>1, <1>3, <1>4, <1>5, <1>6, MoveAtomic
<1>8. pc' \in WorkerPcs \ {"r_write", "a_check", "a_checked", "a_write"}
  BY <1>3, WorkerPcsBusy
<1>9. Seat'
  BY <1>1, <1>3, <1>4, <1>8, WorkerSeat DEF Op
<1> QED
  BY <1>7, <1>9 DEF AtomicGood

LEMMA ApplySaveAtomic ==
  ASSUME KInv, NEW res \in Results, ApplySave(res) PROVE AtomicGood
<1>1. /\ pc = "a_save" /\ WorkerFrame /\ UNCHANGED <<store, job>> /\ Save(Op, rec[Op], res)
  BY DEF ApplySave
<1>2. pc' \in {"a_apply", "a_unknown"}
  <2>1. EnterApplyPhase("a_apply") \/ Goto("a_unknown")
    BY DEF ApplySave
  <2> QED
    BY <2>1, PhaseTyped DEF Goto
<1> QED
  BY <1>1, <1>2, ApplyPcsRecorded, WorkerPcsBusy, WorkerSavesAtomic DEF ApplyPcs

LEMMA ApplyUnknownAtomic ==
  ASSUME KInv, NEW res \in Results, ApplyUnknown(res) PROVE AtomicGood
<1>1. /\ pc = "a_unknown" /\ pc' = "r_start" /\ WorkerFrame /\ UNCHANGED <<store, job>>
      /\ SetState(Op, rec[Op], "outcome_unknown", res)
  BY DEF ApplyUnknown, Goto
<1>2. pc \in WorkerPcs \ {"exit"} /\ ~UndoLook /\ rec[Op] \in Records
  BY <1>1, ApplyPcsRecorded DEF ApplyPcs
<1>3. pc' \in WorkerPcs \ {"a_check", "a_checked", "a_write", "r_write"}
  BY <1>1, WorkerPcsBusy
<1> QED
  BY <1>1, <1>2, <1>3, WorkerRecordsAtomic DEF UnfinishedStates

LEMMA ApplyAppliedAtomic ==
  ASSUME KInv, NEW res \in Results, ApplyApplied(res) PROVE AtomicGood
<1>1. /\ pc = "a_applied" /\ WorkerFrame /\ UNCHANGED <<store, job, proc>>
  BY DEF ApplyApplied, WorkerFrame
<1>2. pc \in WorkerPcs \ {"exit"} /\ ~UndoLook /\ rec[Op] \in Records /\ pc \in RecordedPcs
  BY <1>1, ApplyPcsRecorded DEF ApplyPcs, ApplyReturns
<1>3. CASE ret.err \/ ret.cancelled \/ abort
  <2>1. pc' = "a_unknown" /\ UNCHANGED <<jrn, rec, faults>>
    BY <1>3 DEF ApplyApplied, Goto
  <2> QED
    BY <1>1, <1>2, <2>1, WorkerPcsBusy, WorkerMovesAtomic
<1>4. CASE ~(ret.err \/ ret.cancelled \/ abort)
  <2> DEFINE r == [rec[Op] EXCEPT !.ra = TRUE]
  <2>1. /\ SetState(Op, r, "verifying", res)
        /\ IF res = "ok" THEN EnterApplyPhase("a_verify") ELSE Goto("r_start")
    BY <1>4 DEF ApplyApplied
  <2>2. pc' \in {"a_verify", "r_start"}
    BY <2>1, PhaseTyped DEF Goto
  <2>3. pc' \in WorkerPcs \ {"a_check", "a_checked", "a_write", "r_write"}
    BY <2>2, WorkerPcsBusy
  <2>4. r \in Records /\ r.old = rec[Op].old /\ r.new = rec[Op].new
    BY <1>2 DEF Records
  <2> HIDE DEF r
  <2> QED
    BY <1>1, <1>2, <2>1, <2>3, <2>4, WorkerRecordsAtomic DEF UnfinishedStates
<1> QED
  BY <1>3, <1>4

LEMMA ApplyVerifiedAtomic ==
  ASSUME KInv, NEW res \in Results, ApplyVerified(res) PROVE AtomicGood
<1>1. /\ pc = "a_verified" /\ WorkerFrame /\ UNCHANGED <<store, job, proc>>
  BY DEF ApplyVerified, WorkerFrame
<1>2. pc \in WorkerPcs \ {"exit"} /\ rec[Op] \in Records /\ pc \in RecordedPcs
  BY <1>1, ApplyPcsRecorded DEF ApplyPcs, ApplyReturns
<1>3. CASE ret.err \/ ret.cancelled \/ abort \/ store # rec[Op].new
  <2>1. pc' = "a_unknown" /\ UNCHANGED <<jrn, rec, faults>>
    BY <1>3 DEF ApplyVerified, Goto
  <2> QED
    BY <1>1, <1>2, <2>1, WorkerPcsBusy, WorkerMovesAtomic
<1>4. CASE ~(ret.err \/ ret.cancelled \/ abort \/ store # rec[Op].new)
  <2> DEFINE r == [rec[Op] EXCEPT !.ver = TRUE]
  <2>1. /\ SetState(Op, r, "confirmed", res)
        /\ pc' \in {"exit", "r_start"}
    BY <1>4 DEF ApplyVerified, Goto
  <2>2. r \in Records /\ r.old = rec[Op].old /\ r.new = rec[Op].new
    BY <1>2 DEF Records
  <2> HIDE DEF r
  <2> QED
    BY <1>1, <1>2, <1>4, <2>1, <2>2, WorkerEndsAtomic DEF TerminalStates
<1> QED
  BY <1>3, <1>4

-----------------------------------------------------------------------------
(* The rollback worker *)

LEMMA RollbackMovesAtomic ==
  ASSUME KInv, RollbackStart \/ UndoChecked
  PROVE  AtomicGood
<1>1. UNCHANGED <<store, rec, jrn, faults, proc>>
  BY DEF RollbackStart, UndoChecked, durable, memory, bounds
<1>2. pc \in {"r_start", "u_checked"} /\ pc' \in {"r_check", "r_begin", "exit"}
  BY DEF RollbackStart, UndoChecked, EnterRollbackPhase, Goto
<1>3. /\ pc \in WorkerPcs /\ pc' \in WorkerPcs /\ pc' \notin RecordedPcs
  BY <1>2, WorkerPcsBusy DEF RecordedPcs, ApplyPcs, RestorePcs, OpenPcs, ApplyHooks,
     ApplyReturns, ReturnPcs, RollbackHooks
<1>4. job'.op = job.op /\ jrn[Op].state # "prepared" /\ faults \in Nat
  BY <1>3, WorkerSits DEF RollbackStart, UndoChecked, Jobs
<1>5. Seat'
  BY <1>1, <1>2, <1>3, <1>4, WorkerSeat DEF Op
<1> QED
  BY <1>1, <1>4, <1>5, QuietAtomic

LEMMA RollbackWorkerSits ==
  ASSUME KInv, pc \in RollbackPcs
  PROVE  /\ pc \in WorkerPcs \ {"exit"} /\ rec[Op] \in Records /\ rec \in [Ops -> Records]
         /\ Op \in Ops /\ active = Op /\ proc # "down" /\ jrn[Op].state # "prepared"
         /\ pc # "r_begin" \/ job.kind # "undo" => ~UndoLook
         /\ pc \in RecordedPcs => Unfinished(jrn[Op])
BY RollbackWorker, WorkerSits DEF KInv

LEMMA RollbackCheckedAtomic ==
  ASSUME KInv, NEW res \in Results, RollbackChecked(res) PROVE AtomicGood
<1>1. /\ pc = "r_checked" /\ WorkerFrame /\ UNCHANGED <<store, job, proc>>
  BY DEF RollbackChecked, WorkerFrame
<1>2. /\ pc \in WorkerPcs \ {"exit"} /\ ~UndoLook /\ rec[Op] \in Records
  BY <1>1, RollbackWorkerSits DEF RollbackPcs
<1>3. CASE ret.err
  <2>1. SetState(Op, rec[Op], "rollback_failed", res) /\ pc' = "exit"
    BY <1>3 DEF RollbackChecked, Goto
  <2>2. pc' \in WorkerPcs \ {"a_check", "a_checked", "a_write"} /\ pc' # "r_write"
    BY <2>1, WorkerPcsBusy
  <2> QED
    BY <1>1, <1>2, <2>1, <2>2, WorkerRecordsAtomic DEF UnfinishedStates
<1>4. CASE ~ret.err
  <2>1. UNCHANGED <<jrn, rec, faults>> /\ pc' = "r_begin"
    BY <1>4 DEF RollbackChecked, Goto
  <2>2. pc' \in WorkerPcs \ {"r_write"} /\ pc' \notin RecordedPcs
    BY <2>1, WorkerPcsBusy DEF RecordedPcs, ApplyPcs, RestorePcs, OpenPcs, ApplyHooks,
       ApplyReturns
  <2> QED
    BY <1>1, <1>2, <2>1, <2>2, WorkerMovesAtomic
<1> QED
  BY <1>3, <1>4

\* rollbackAfterCheck: the only save that may fail and still let the Store be
\* written is one over a journal that already has the intent.
LEMMA RollbackBeginAtomic ==
  ASSUME KInv, NEW res \in Results, RollbackBegin(res) PROVE AtomicGood
<1>1. /\ pc = "r_begin" /\ WorkerFrame /\ UNCHANGED <<store, job, proc>> /\ cur' = store
  BY DEF RollbackBegin, WorkerFrame
<1>2. /\ pc \in WorkerPcs \ {"exit"} /\ rec[Op] \in Records
      /\ job.kind # "undo" => ~UndoLook
  BY <1>1, RollbackWorkerSits DEF RollbackPcs
<1>3. {"exit", "r_write"} \subseteq WorkerPcs \ {"a_check", "a_checked", "a_write"}
  BY WorkerPcsBusy
<1>4. "exit" \notin RecordedPcs
  BY DEF RecordedPcs, ApplyPcs, RestorePcs, OpenPcs, ApplyHooks, ApplyReturns
<1>5. CASE store = rec[Op].new \/ (store = rec[Op].old /\ job.kind # "undo")
  <2> DEFINE r == [rec[Op] EXCEPT !.ver = FALSE]
  <2>1. /\ SetState(Op, r, "rolling_back", res)
        /\ pc' = IF res # "ok" /\ job.kind = "undo" THEN "exit" ELSE "r_write"
    BY <1>5 DEF RollbackBegin, Goto
  <2>2. r \in Records /\ r.old = rec[Op].old /\ r.new = rec[Op].new
    BY <1>2 DEF Records
  <2>3. pc' \in RecordedPcs => ~UndoLook \/ res = "ok"
    BY <1>2, <1>4, <2>1
  <2> HIDE DEF r
  <2> QED
    BY <1>1, <1>2, <1>3, <1>5, <2>1, <2>2, <2>3, WorkerRecordsAtomic DEF UnfinishedStates
<1>6. CASE ~(store = rec[Op].new \/ (store = rec[Op].old /\ job.kind # "undo"))
  <2>1. pc' = "exit"
    BY <1>6 DEF RollbackBegin, Goto
  <2>2. CASE job.kind = "undo"
    BY <1>1, <1>2, <1>3, <1>4, <1>6, <2>1, <2>2, WorkerMovesAtomic DEF RollbackBegin
  <2>3. CASE job.kind # "undo"
    BY <1>1, <1>2, <1>3, <1>4, <1>6, <2>1, <2>3, WorkerRecordsAtomic
       DEF RollbackBegin, UnfinishedStates
  <2> QED
    BY <2>2, <2>3
<1> QED
  BY <1>5, <1>6

LEMMA RollbackWriteAtomic ==
  ASSUME KInv, NEW res \in Results, RollbackWrite(res) PROVE AtomicGood
<1>1. /\ pc = "r_write" /\ WorkerFrame /\ UNCHANGED <<jrn, job, proc>>
      /\ store' \in {store, rec[Op].old} /\ pc' \in {"r_save", "r_failed"}
  BY DEF RollbackWrite, WorkerFrame, Goto
<1>2. /\ rec[Op] \in Records /\ Op \in Ops /\ active = Op /\ proc # "down"
      /\ rec \in [Ops -> Records] /\ Unfinished(jrn[Op]) /\ jrn[Op].state # "prepared"
  BY <1>1, RollbackWorkerSits DEF RollbackPcs, RecordedPcs
<1> DEFINE v == [rec[Op] EXCEPT !.sp = FALSE]
<1>3. v \in Records /\ v.state = rec[Op].state /\ v.old = rec[Op].old /\ v.new = rec[Op].new
  BY <1>2, FactsAlike
<1>4. rec' = IF res = "ok" THEN [rec EXCEPT ![Op] = v] ELSE [rec EXCEPT ![Op] = rec[Op]]
  BY <1>2 DEF RollbackWrite
<1> HIDE DEF v
<1>5. AllPlain' /\ Refines
  BY <1>1, <1>2, <1>3, <1>4, MoveAtomic
<1>6. pc' \in WorkerPcs \ {"r_write", "a_check", "a_checked", "a_write"}
  BY <1>1, WorkerPcsBusy
<1>7. Seat'
  BY <1>1, <1>2, <1>6, WorkerSeat DEF Op
<1> QED
  BY <1>5, <1>7 DEF AtomicGood

\* Without an outside writer the CAS is never lost.
LEMMA RollbackConflictAtomic ==
  ASSUME KInv, NEW res \in Results, RollbackConflict(res) PROVE AtomicGood
BY DEF RollbackConflict, KInv, Seat

LEMMA RollbackFailedAtomic ==
  ASSUME KInv, NEW res \in Results, RollbackFailed(res) PROVE AtomicGood
<1>1. /\ pc = "r_failed" /\ pc' = "exit" /\ WorkerFrame /\ UNCHANGED <<store, job>>
      /\ SetState(Op, rec[Op], "rollback_failed", res)
  BY DEF RollbackFailed, Goto
<1>2. pc \in WorkerPcs \ {"exit"} /\ ~UndoLook /\ rec[Op] \in Records
  BY <1>1, RollbackWorkerSits DEF RollbackPcs
<1>3. pc' \in WorkerPcs \ {"a_check", "a_checked", "a_write"} /\ pc' # "r_write"
  BY <1>1, WorkerPcsBusy
<1> QED
  BY <1>1, <1>2, <1>3, WorkerRecordsAtomic DEF UnfinishedStates

LEMMA RollbackSaveAtomic ==
  ASSUME KInv, NEW res \in Results, RollbackSave(res) PROVE AtomicGood
<1>1. /\ pc = "r_save" /\ WorkerFrame /\ UNCHANGED <<store, job>> /\ Save(Op, rec[Op], res)
      /\ pc' \in {"r_verify", "r_apply"}
  BY DEF RollbackSave, EnterRollbackPhase, Goto
<1>2. pc \in WorkerPcs \ {"exit"} /\ ~UndoLook /\ pc \in RecordedPcs
  BY <1>1, RollbackWorkerSits DEF RollbackPcs, RestorePcs, RecordedPcs
<1> QED
  BY <1>1, <1>2, WorkerPcsBusy, WorkerSavesAtomic

LEMMA RollbackAppliedAtomic ==
  ASSUME KInv, NEW res \in Results, RollbackApplied(res) PROVE AtomicGood
<1>1. /\ pc = "r_applied" /\ WorkerFrame /\ UNCHANGED <<store, job, proc>>
  BY DEF RollbackApplied, WorkerFrame
<1>2. /\ pc \in WorkerPcs \ {"exit"} /\ ~UndoLook /\ rec[Op] \in Records /\ pc \in RecordedPcs
  BY <1>1, RollbackWorkerSits DEF RollbackPcs, RestorePcs, RecordedPcs
<1>3. CASE ret.err
  <2>1. SetState(Op, rec[Op], "rollback_failed", res) /\ pc' = "exit"
    BY <1>3 DEF RollbackApplied, Goto
  <2>2. pc' \in WorkerPcs \ {"a_check", "a_checked", "a_write"} /\ pc' # "r_write"
    BY <2>1, WorkerPcsBusy
  <2> QED
    BY <1>1, <1>2, <2>1, <2>2, WorkerRecordsAtomic DEF UnfinishedStates
<1>4. CASE ~ret.err
  <2>1. UNCHANGED <<jrn, rec, faults>> /\ pc' = "r_verify"
    BY <1>4 DEF RollbackApplied, EnterRollbackPhase, Goto
  <2> QED
    BY <1>1, <1>2, <2>1, WorkerPcsBusy, WorkerMovesAtomic
<1> QED
  BY <1>3, <1>4

LEMMA RollbackVerifiedAtomic ==
  ASSUME KInv, NEW res \in Results, RollbackVerified(res) PROVE AtomicGood
<1>1. /\ pc = "r_verified" /\ WorkerFrame /\ UNCHANGED <<store, job, proc>> /\ pc' = "exit"
  BY DEF RollbackVerified, WorkerFrame, Goto
<1>2. /\ pc \in WorkerPcs \ {"exit"} /\ ~UndoLook /\ rec[Op] \in Records /\ pc \in RecordedPcs
  BY <1>1, RollbackWorkerSits DEF RollbackPcs, RestorePcs, RecordedPcs
<1>3. CASE ret.cancelled \/ ret.err \/ store # rec[Op].old
  <2>1. SetState(Op, rec[Op], "rollback_failed", res)
    BY <1>3 DEF RollbackVerified
  <2>2. pc' \in WorkerPcs \ {"a_check", "a_checked", "a_write"} /\ pc' # "r_write"
    BY <1>1, WorkerPcsBusy
  <2> QED
    BY <1>1, <1>2, <2>1, <2>2, WorkerRecordsAtomic DEF UnfinishedStates
<1>4. CASE ~(ret.cancelled \/ ret.err \/ store # rec[Op].old)
  <2> DEFINE r == [rec[Op] EXCEPT !.ra = FALSE, !.needs = FALSE, !.ver = TRUE]
  <2>1. SetState(Op, r, "rolled_back", res)
    BY <1>4 DEF RollbackVerified
  <2>2. r \in Records /\ r.old = rec[Op].old /\ r.new = rec[Op].new
    BY <1>2 DEF Records
  <2> HIDE DEF r
  <2> QED
    BY <1>1, <1>2, <1>4, <2>1, <2>2, WorkerEndsAtomic DEF TerminalStates
<1> QED
  BY <1>3, <1>4

LEMMA WorkerExitAtomic == ASSUME KInv, WorkerExit PROVE AtomicGood
<1>1. UNCHANGED <<store, jrn, faults>>
  BY DEF WorkerExit, durable, bounds
<1>2. CASE proc = "closing"
  BY <1>1, <1>2, KilledAtomic DEF WorkerExit
<1>3. CASE proc # "closing"
  <2>1. UNCHANGED <<proc, rec>> /\ pc' = "idle"
    BY <1>3 DEF WorkerExit, Idle, Goto
  <2> QED
    BY <1>1, <2>1, FreeSeat, QuietAtomic
<1> QED
  BY <1>2, <1>3

-----------------------------------------------------------------------------
(* Start, stop and the world around a worker *)

LEMMA CrashAtomic == ASSUME KInv, Crash PROVE AtomicGood
BY KilledAtomic DEF Crash, durable

LEMMA OpenAtomic ==
  ASSUME KInv, OpenClean \/ \E o \in Ops : OpenRecover(o)
  PROVE  AtomicGood
<1>1. /\ rec' = jrn /\ UNCHANGED <<store, jrn, faults>> /\ proc = "down"
  BY DEF OpenClean, OpenRecover, durable, bounds
<1>2. AllPlain'
  <2>1. ASSUME NEW o \in Ops PROVE Plain(o)'
    <3>1. /\ jrn[o].state = "prepared" => store = jrn[o].old
          /\ jrn[o].state = "prepared" => ~jrn[o].needs
      BY DEF KInv, AllPlain, Plain, GInv, FInv, DataInv, AllSane, Sane
    <3>2. Unfinished(jrn[o]) => Exists(jrn[o]) /\ ~Terminal(jrn[o])
      BY StatesKnown DEF KInv, GInv, FInv, IInv, TypeOK, Unfinished, UnfinishedStates,
         Exists, Terminal
    <3> QED
      BY <1>1, <3>1, <3>2 DEF Plain, Unfinished, Exists, Terminal
  <2> QED
    BY <2>1 DEF AllPlain
<1>3. Seat'
  <2>1. CASE OpenClean
    <3>1. pc' = "idle"
      BY <1>1, <2>1 DEF OpenClean, thread, KInv, GInv, FInv, IInv, DownIsIdle
    <3> QED
      BY <3>1, FreeSeat
  <2>2. ASSUME NEW o \in Ops, OpenRecover(o) PROVE Seat'
    <3>1. pc' = "o_save" /\ job'.op = o /\ cur' = store' /\ Unfinished(jrn'[o])
      BY <1>1, <2>2 DEF OpenRecover, Goto, Unfinished
    <3>2. pc' \notin WorkerPcs
      BY <3>1, PcsKnown DEF OpenPcs
    <3> QED
      BY <3>1, <3>2 DEF Seat, Op, Unfinished
  <2> QED
    BY <2>1, <2>2
<1> QED
  BY <1>1, <1>2, <1>3, RefinesQuiet DEF AtomicGood

\* A thread inside Open.
LEMMA OpenSits ==
  ASSUME KInv, pc \in OpenPcs
  PROVE  /\ Op \in Ops /\ active = Op /\ proc # "down" /\ TypeOK
         /\ rec[Op] \in Records /\ Unfinished(rec[Op]) /\ Unfinished(jrn[Op])
         /\ rec[Op].old = jrn[Op].old /\ rec[Op].new = jrn[Op].new
         /\ rec \in [Ops -> Records] /\ jrn \in [Ops -> Records]
         /\ \A p \in Ops \ {Op} : ~Unfinished(rec[p]) /\ ~Unfinished(jrn[p])
<1>1. /\ Op \in Ops /\ proc # "down" /\ TypeOK /\ rec[Op] \in Records /\ Unfinished(rec[Op])
      /\ rec[Op].old = jrn[Op].old /\ rec[Op].new = jrn[Op].new
  BY OpenKnows DEF KInv, GInv
<1>2. active = Op
  BY DEF KInv, GInv, FInv, IInv, LeaseHeld, OpenPcs
<1>3. Unfinished(jrn[Op])
  BY DEF KInv, Seat, RecordedPcs
<1> QED
  BY <1>1, <1>2, <1>3, OthersFinished DEF TypeOK, KInv

\* A failed write of Open stops the process.
LEMMA OpenStopsAtomic ==
  ASSUME KInv, pc \in OpenPcs, PowerOff, store' = store,
         NEW r \in Records, r.old = rec[Op].old, r.new = rec[Op].new,
         Unfinished(r), r.state # "prepared",
         jrn' = jrn \/ jrn' = [jrn EXCEPT ![Op] = r]
  PROVE  AtomicGood
<1>1. CASE jrn' = jrn
  BY <1>1, KilledAtomic
<1>2. CASE jrn' = [jrn EXCEPT ![Op] = r]
  <2>1. jrn'[Op] = r /\ \A p \in Ops \ {Op} : jrn'[p] = jrn[p]
    BY <1>2, OpenSits
  <2>2. JournalStep(Op)
    BY <2>1, OpenSits DEF JournalStep
  <2>3. Refines
    BY <1>2, <2>2, OpenSits, RefinesRecord
  <2>4. proc' = "down" /\ pc' = "idle"
    BY DEF PowerOff, Idle, Goto
  <2>5. AllPlain'
    <3>1. ASSUME NEW p \in Ops PROVE jrn'[p].state = "prepared" => store = jrn'[p].old
      BY <2>1 DEF KInv, AllPlain, Plain
    <3> QED
      BY <2>4, <3>1 DEF AllPlain, Plain
  <2> QED
    BY <2>3, <2>4, <2>5, FreeSeat DEF AtomicGood
<1> QED
  BY <1>1, <1>2

\* Both records of the operation become r.
LEMMA OpenWritesAtomic ==
  ASSUME KInv, pc \in OpenPcs, proc' # "down", UNCHANGED <<store, faults>>,
         NEW r \in Records, r.old = rec[Op].old, r.new = rec[Op].new,
         Unfinished(r), r.state # "prepared",
         jrn' = [jrn EXCEPT ![Op] = r], rec' = [rec EXCEPT ![Op] = r]
  PROVE  AllPlain' /\ Refines /\ jrn'[Op] = r
<1>1. jrn'[Op] = r /\ rec'[Op] = r /\ faults \in Nat
  BY OpenSits DEF TypeOK
<1>2. Exists(r) /\ ~Terminal(r)
  BY StatesKnown DEF Exists, Terminal, Unfinished, UnfinishedStates
<1>3. JournalStep(Op)
  BY <1>1, OpenSits DEF JournalStep
<1>4. ASSUME NEW o \in Ops, o = Op PROVE Plain(o)'
  BY <1>1, <1>2, <1>4 DEF Plain, Exists, Terminal
<1>5. ASSUME NEW o \in Ops, o = Op PROVE AllPlain' /\ Refines
  BY <1>1, <1>3, <1>4, <1>5, OpenSits, RecordAtomic
<1> QED
  BY <1>1, <1>5, OpenSits


\* The three writes of Open.
LEMMA OpenSaveAtomic == ASSUME KInv, NEW res \in Results, OpenSave(res) PROVE AtomicGood
<1> DEFINE r == [rec[Op] EXCEPT !.state = "rolling_back", !.needs = TRUE,
                                !.ra = FALSE, !.ver = FALSE]
<1>1. pc = "o_save" /\ pc \in OpenPcs /\ store' = store /\ store = cur
  BY DEF OpenSave, OpenPcs, KInv, Seat
<1>2. rec[Op] \in Records /\ proc # "down"
  BY <1>1, OpenSits
<1>3. r \in Records /\ r.state = "rolling_back" /\ r.old = rec[Op].old /\ r.new = rec[Op].new
  BY <1>2 DEF Records, States, UnfinishedStates
<1>4. \/ /\ rec' = [rec EXCEPT ![Op] = r] /\ jrn' = [jrn EXCEPT ![Op] = r]
         /\ UNCHANGED <<proc, job, cur, faults>> /\ pc' = "o_write"
      \/ PowerOff /\ (jrn' = jrn \/ jrn' = [jrn EXCEPT ![Op] = r])
  BY DEF OpenSave, Save, WriteJournal, Disk, Goto
<1> HIDE DEF r
<1>5. Unfinished(r)
  BY <1>3 DEF Unfinished, UnfinishedStates
<1>6. CASE PowerOff /\ (jrn' = jrn \/ jrn' = [jrn EXCEPT ![Op] = r])
  BY <1>1, <1>3, <1>5, <1>6, OpenStopsAtomic
<1>7. CASE /\ rec' = [rec EXCEPT ![Op] = r] /\ jrn' = [jrn EXCEPT ![Op] = r]
           /\ UNCHANGED <<proc, job, cur, faults>> /\ pc' = "o_write"
  <2>1. AllPlain' /\ Refines /\ jrn'[Op] = r
    BY <1>1, <1>2, <1>3, <1>5, <1>7, OpenWritesAtomic
  <2>2. Seat'
    BY <1>1, <1>3, <1>5, <1>7, <2>1 DEF Seat, Op, Unfinished
  <2> QED
    BY <2>1, <2>2 DEF AtomicGood
<1> QED
  BY <1>4, <1>6, <1>7

\* Without an outside writer the CAS of Open finds what Open has read.
LEMMA OpenWriteAtomic == ASSUME KInv, NEW res \in Results, OpenWrite(res) PROVE AtomicGood
<1>1. /\ pc = "o_write" /\ pc \in OpenPcs /\ jrn' = jrn /\ store = cur
      /\ jrn[Op].state # "prepared"
      /\ store' \in {store, rec[Op].old}
  BY DEF OpenWrite, OpenPcs, KInv, Seat
<1>2. /\ Op \in Ops /\ rec[Op] \in Records /\ proc # "down" /\ active = Op
      /\ rec \in [Ops -> Records] /\ Unfinished(jrn[Op]) /\ TypeOK
      /\ rec[Op].old = jrn[Op].old /\ rec[Op].new = jrn[Op].new
      /\ \A p \in Ops \ {Op} : ~Unfinished(jrn[p])
  BY <1>1, OpenSits
<1>3. CASE PowerOff
  <2>1. store' \in {jrn[Op].old, jrn[Op].new}
    BY <1>1, <1>2, JournalPlan DEF KInv, Calm
  <2>2. Refines
    BY <1>1, <1>2, <2>1, RefinesMove
  <2>3. proc' = "down" /\ pc' = "idle"
    BY <1>3 DEF PowerOff, Idle, Goto
  <2>4. \A p \in Ops : jrn[p].state # "prepared"
    BY <1>1, <1>2 DEF Unfinished, UnfinishedStates
  <2> QED
    BY <1>1, <2>2, <2>3, <2>4, FreeSeat DEF AtomicGood, AllPlain, Plain
<1>4. CASE Goto("o_saved") /\ UNCHANGED <<proc, rec, job>>
  <2>1. rec' = [rec EXCEPT ![Op] = rec[Op]] /\ pc' = "o_saved"
    BY <1>2, <1>4 DEF Goto
  <2>2. AllPlain' /\ Refines
    BY <1>1, <1>2, <1>4, <2>1, MoveAtomic
  <2>3. Seat'
    BY <1>1, <1>2, <1>4, <2>1 DEF Seat, Op, Unfinished
  <2> QED
    BY <2>2, <2>3 DEF AtomicGood
<1> QED
  BY <1>1, <1>3, <1>4 DEF OpenWrite

LEMMA OpenSavedAtomic == ASSUME KInv, NEW res \in Results, OpenSaved(res) PROVE AtomicGood
<1> DEFINE r == [rec[Op] EXCEPT !.sp = FALSE]
<1>1. pc = "o_saved" /\ pc \in OpenPcs /\ store' = store /\ jrn[Op].state # "prepared"
  BY DEF OpenSaved, OpenPcs, KInv, Seat
<1>2. /\ Op \in Ops /\ rec[Op] \in Records /\ proc # "down"
      /\ Unfinished(rec[Op]) /\ Unfinished(jrn[Op])
  BY <1>1, OpenSits
<1>3. r \in Records /\ r.state = rec[Op].state /\ r.old = rec[Op].old /\ r.new = rec[Op].new
  BY <1>2, FactsAlike
<1>4. \/ /\ rec' = [rec EXCEPT ![Op] = r] /\ jrn' = [jrn EXCEPT ![Op] = r]
         /\ proc' = "open" /\ pc' = "idle" /\ faults' = faults
      \/ PowerOff /\ (jrn' = jrn \/ jrn' = [jrn EXCEPT ![Op] = r])
  BY DEF OpenSaved, Save, WriteJournal, Disk, Idle, Goto
<1> HIDE DEF r
<1>5. Exists(jrn[Op])
  BY <1>2 DEF Unfinished, UnfinishedStates, Exists
<1>6. Unfinished(r) /\ r.state # "prepared"
  BY <1>1, <1>2, <1>3, <1>5 DEF Unfinished, KInv, AllPlain, Plain
<1>7. CASE PowerOff /\ (jrn' = jrn \/ jrn' = [jrn EXCEPT ![Op] = r])
  BY <1>1, <1>3, <1>6, <1>7, OpenStopsAtomic
<1>8. CASE /\ rec' = [rec EXCEPT ![Op] = r] /\ jrn' = [jrn EXCEPT ![Op] = r]
           /\ proc' = "open" /\ pc' = "idle" /\ faults' = faults
  BY <1>1, <1>3, <1>6, <1>8, OpenWritesAtomic, FreeSeat DEF AtomicGood
<1> QED
  BY <1>4, <1>7, <1>8

-----------------------------------------------------------------------------
(* Time, hooks and requests *)

LEMMA FaultsKnown == KInv => faults \in Nat
BY DEF KInv, GInv, FInv, IInv, TypeOK

\* A step that leaves Store, records and thread where they are.
LEMMA StaysAtomic ==
  ASSUME KInv, UNCHANGED <<store, rec, jrn, faults, proc, pc, job, cur>>
  PROVE  AtomicGood
<1>1. faults \in Nat
  BY FaultsKnown
<1>2. Seat'
  BY DEF KInv, Seat, Op, Unfinished
<1> QED
  BY <1>1, <1>2, QuietAtomic

LEMMA AmbientAtomic ==
  ASSUME KInv, NativeLoad \/ (\E o \in Ops : DeadlinePasses(o)) \/ RollbackTimeout
  PROVE  AtomicGood
<1>1. UNCHANGED <<store, rec, jrn, faults, proc, pc, job, cur>>
  BY DEF NativeLoad, DeadlinePasses, RollbackTimeout, durable, memory, thread, bounds
<1> QED
  BY <1>1, StaysAtomic

LEMMA DriftAtomic == ASSUME KInv, NEW v \in Versions, Drift(v) PROVE AtomicGood
BY DEF KInv, Calm, Drift

LEMMA HookAtomic == ASSUME KInv, HookReturns PROVE AtomicGood
<1>1. /\ UNCHANGED <<store, rec, jrn, faults, proc, job>>
      /\ pc \in HookPcs /\ pc' = AfterHook[pc]
  BY DEF HookReturns, CheckReturns, ApplyHookReturns, VerifyReturns, Returns, Goto, durable,
     memory, bounds, HookPcs, ApplyHooks, RollbackHooks
<1>2. /\ pc \in WorkerPcs /\ pc' \in WorkerPcs \ {"r_write"}
      /\ pc' = "a_checked" => pc = "a_check"
      /\ pc' \notin {"a_check", "a_write"}
  BY <1>1, WorkerPcsBusy DEF AfterHook, HookPcs, ApplyHooks, RollbackHooks
<1>3. pc' \in RecordedPcs => pc \in RecordedPcs
  BY <1>1 DEF AfterHook, HookPcs, ApplyHooks, RollbackHooks, RecordedPcs, ApplyPcs,
     ApplyReturns, RestorePcs, OpenPcs
<1> QED
  BY <1>1, <1>2, <1>3, WorkerMovesAtomic

\* Somebody else records that the outcome of a running worker is unknown.
LEMMA WorkerDoubtedAtomic ==
  ASSUME KInv, pc \in WorkerPcs, proc' # "down", UNCHANGED <<store, pc, job, cur>>,
         Unfinished(rec[Op]), NEW res \in Results,
         SetState(Op, rec[Op], "outcome_unknown", res)
  PROVE  AtomicGood
<1>1. /\ Op \in Ops /\ active = Op /\ proc # "down" /\ jrn[Op].state # "prepared"
      /\ Exists(jrn[Op]) /\ rec[Op] \in Records
  BY WorkerSits
<1>2. /\ AllPlain' /\ Refines /\ Unfinished(jrn'[Op]) /\ jrn'[Op].state # "prepared"
      /\ rec'[Op].old = rec[Op].old
  BY <1>1, SetStateAtomic DEF UnfinishedStates
<1>3. Seat'
  BY <1>1, <1>2, WorkerSeat DEF KInv, Seat, Op
<1> QED
  BY <1>2, <1>3 DEF AtomicGood

LEMMA WatcherAtomic == ASSUME KInv, NEW res \in Results, Watcher(res) PROVE AtomicGood
<1>1. /\ pc \in (HookPcs \cup ReturnPcs) \ {"u_check", "u_checked"}
      /\ SetState(Op, rec[Op], "outcome_unknown", res)
      /\ UNCHANGED <<store, proc, pc, job, cur>>
  BY DEF Watcher, Frame
<1>2. pc \in WorkerPcs /\ pc \notin {"exit", "r_begin"}
  BY <1>1 DEF WorkerPcs, HookPcs, ReturnPcs, ApplyHooks, RollbackHooks, ApplyReturns,
     RollbackReturns
<1>3. proc # "down" /\ Unfinished(rec[Op])
  BY <1>1, <1>2, WorkerSits DEF UndoLook
<1> QED
  BY <1>1, <1>2, <1>3, WorkerDoubtedAtomic

LEMMA CloseRunningAtomic ==
  ASSUME KInv, NEW res \in Results, CloseRunning(res) PROVE AtomicGood
<1>1. /\ UNCHANGED <<store, pc, job, cur>> /\ pc \in WorkerPcs
      /\ proc # "down" /\ proc' = "closing"
  BY DEF CloseRunning, Serving, Running
<1>2. active = Op /\ faults \in Nat
  BY <1>1, WorkerSits
<1>3. CASE Unfinished(rec[active])
  BY <1>1, <1>2, <1>3, WorkerDoubtedAtomic DEF CloseRunning
<1>4. CASE ~Unfinished(rec[active])
  <2>1. UNCHANGED <<jrn, rec, faults>>
    BY <1>4 DEF CloseRunning
  <2>2. Seat'
    BY <1>1, <2>1 DEF KInv, Seat, Op, Unfinished
  <2> QED
    BY <1>1, <1>2, <2>1, <2>2, QuietAtomic
<1> QED
  BY <1>3, <1>4


\* A preparation that waits for its Apply has left the Store alone.
LEMMA PreparedSits ==
  ASSUME KInv, proc # "down", LockFree, NEW o \in Ops, rec[o].state = "prepared"
  PROVE  /\ active = o /\ pc = "idle" /\ rec[o] \in Records /\ Unfinished(rec[o])
         /\ jrn[o].state = "prepared" /\ Unfinished(jrn[o])
         /\ store = rec[o].old
         /\ rec[o].old = jrn[o].old /\ rec[o].new = jrn[o].new
<1>1. TypeOK /\ Unfinished(rec[o]) /\ rec[o] \in Records
  BY DEF KInv, GInv, FInv, IInv, TypeOK, Unfinished, UnfinishedStates
<1>2. active = o
  BY <1>1 DEF KInv, GInv, FInv, IInv, GateHeld
<1>3. pc \notin WorkerPcs
  BY <1>2, WorkerSits
<1>4. pc = "idle" /\ pc \notin PrepPcs
  BY <1>1, <1>3, LockFreePcs DEF Running
<1>5. Exists(jrn[o])
  BY <1>4 DEF KInv, GInv, FInv, DataInv, PreparedKnown
<1>6. jrn[o].state = "prepared" /\ store = rec[o].old
  BY <1>5 DEF KInv, AllPlain, Plain
<1>7. rec[o].old = jrn[o].old /\ rec[o].new = jrn[o].new
  BY <1>5 DEF KInv, GInv, FInv, DataInv, AllFollow, Follows
<1> QED
  BY <1>1, <1>2, <1>4, <1>6, <1>7 DEF Unfinished, UnfinishedStates

\* Close cancels a preparation that nobody has applied.
LEMMA CloseIdleAtomic == ASSUME KInv, NEW res \in Results, CloseIdle(res) PROVE AtomicGood
<1>1. PowerOff /\ store' = store /\ LockFree /\ proc # "down"
  BY DEF CloseIdle, Serving
<1>2. CASE jrn' = jrn
  BY <1>1, <1>2, KilledAtomic
<1>3. CASE /\ active # None /\ rec[active].state = "prepared"
           /\ jrn' = [jrn EXCEPT ![active] = [rec[active] EXCEPT !.state = "cancelled"]]
  <2> DEFINE w == [rec[active] EXCEPT !.state = "cancelled"]
  <2>1. active \in Ops /\ TypeOK
    BY <1>3 DEF KInv, GInv, FInv, IInv, TypeOK
  <2>2. PICK o \in Ops : o = active
    BY <2>1
  <2>3. /\ rec[o] \in Records /\ Unfinished(jrn[o]) /\ store = jrn[o].old
        /\ rec[o].old = jrn[o].old /\ rec[o].new = jrn[o].new
    BY <1>1, <1>3, <2>2, PreparedSits
  <2>4. w \in Records /\ w.state = "cancelled" /\ w.old = jrn[o].old /\ w.new = jrn[o].new
    BY <2>2, <2>3 DEF Records, States, TerminalStates
  <2>5. jrn' = [jrn EXCEPT ![o] = w]
    BY <1>3, <2>2
  <2> HIDE DEF w
  <2>6. jrn'[o] = w /\ \A p \in Ops \ {o} : jrn'[p] = jrn[p]
    BY <2>1, <2>5 DEF TypeOK
  <2>7. JournalStep(o)
    BY <2>3, <2>4, <2>6 DEF JournalStep, Ended
  <2>8. \A p \in Ops \ {o} : ~Unfinished(jrn[p])
    BY <1>1, <2>2, OthersFinished DEF KInv
  <2>9. Refines
    BY <1>1, <2>1, <2>4, <2>5, <2>7, <2>8, RefinesRecord
  <2>10. proc' = "down" /\ pc' = "idle"
    BY <1>1 DEF PowerOff, Idle, Goto
  <2>11. \A p \in Ops : jrn'[p].state = "prepared" => store' = jrn'[p].old
    BY <1>1, <2>4, <2>6 DEF KInv, AllPlain, Plain
  <2> QED
    BY <2>9, <2>10, <2>11, FreeSeat DEF AtomicGood, AllPlain, Plain
<1> QED
  BY <1>2, <1>3 DEF CloseIdle, WriteJournal

\* A recovery that Open began is in the journal.
LEMMA AttachAtomic == ASSUME KInv, AttachRuntime PROVE AtomicGood
<1>1. /\ UNCHANGED <<store, rec, jrn, faults, cur>> /\ faults \in Nat
      /\ proc = "open" /\ proc' = "attached"
  BY FaultsKnown DEF AttachRuntime, durable, bounds
<1>2. CASE UNCHANGED <<pc, job>>
  <2>1. Seat'
    BY <1>1, <1>2 DEF KInv, Seat, Op, Unfinished
  <2> QED
    BY <1>1, <2>1, QuietAtomic
<1>3. CASE active # None /\ rec[active].needs /\ pc' = "r_start" /\ job'.op = active
  <2>1. active \in Ops
    BY <1>3 DEF KInv, GInv, FInv, IInv, TypeOK
  <2>2. jrn[active].state # "prepared"
    BY <1>1, <1>3, <2>1 DEF KInv, AllPlain, Plain
  <2>3. pc' \in WorkerPcs /\ pc' \notin RecordedPcs
    BY <1>3, WorkerPcsBusy DEF RecordedPcs, ApplyPcs, RestorePcs, OpenPcs, ApplyHooks,
       ApplyReturns
  <2>4. Seat'
    BY <1>1, <1>3, <2>2, <2>3, WorkerSeat
  <2> QED
    BY <1>1, <2>4, QuietAtomic
<1> QED
  BY <1>2, <1>3 DEF AttachRuntime, Launch, Goto

\* Prepare reads the Store that it is about to keep.
LEMMA PrepareAtomic ==
  ASSUME KInv, NEW o \in Ops, NEW v \in Versions, Prepare(o, v) PROVE AtomicGood
<1> DEFINE u == [Absent EXCEPT !.state = "prepared", !.old = store, !.new = v]
<1>1. /\ proc # "down" /\ rec' = [rec EXCEPT ![o] = u] /\ pc' = "p_old"
      /\ UNCHANGED <<store, jrn, proc, faults>> /\ ~Exists(rec[o])
  BY DEF Prepare, Serving, Goto, durable, bounds
<1>2. u.state = "prepared" /\ u.old = store
  BY DEF Absent
<1> HIDE DEF u
<1>3. rec'[o] = u /\ \A p \in Ops \ {o} : rec'[p] = rec[p]
  BY <1>1 DEF KInv, GInv, FInv, IInv, TypeOK
<1>4. jrn[o].state = "absent"
  BY <1>1 DEF KInv, GInv, FInv, DataInv, AllFollow, Follows, Exists
<1>5. ASSUME NEW p \in Ops PROVE Plain(p)'
  <2>1. CASE p = o
    BY <1>1, <1>2, <1>3, <1>4, <2>1 DEF Plain, Exists, Terminal, TerminalStates
  <2>2. CASE p # o
    BY <1>1, <1>3, <2>2
       DEF KInv, AllPlain, Plain, Exists, Terminal, Unfinished, Settled
  <2> QED
    BY <2>1, <2>2
<1> QED
  BY <1>1, <1>5, RefinesQuiet, FreeSeat DEF AtomicGood, AllPlain, PrepPcs

\* The journal of a preparation begins the operation.
LEMMA PrepareWriteAtomic ==
  ASSUME KInv, NEW res \in Results,
         PrepareOld(res) \/ PrepareNew(res) \/ PrepareJournal(res)
  PROVE  AtomicGood
<1>1. /\ pc \in PrepPcs /\ UNCHANGED <<store, proc>> /\ Disk(res)
      /\ jrn' = jrn \/ jrn' = [jrn EXCEPT ![Op] = rec[Op]]
      /\ rec' = rec \/ rec' = [rec EXCEPT ![Op].state = "outcome_unknown"]
  BY DEF PrepareOld, PrepareNew, PrepareSnapshot, PrepareJournal, PrepareFailed,
     WriteJournal, PrepPcs
<1>2. pc' \in {"idle", "p_new", "p_journal"}
  BY DEF PrepareOld, PrepareNew, PrepareSnapshot, PrepareJournal, PrepareFailed, Idle, Goto
<1>3. /\ Op \in Ops /\ proc # "down" /\ TypeOK /\ rec[Op] \in Records /\ active = Op
      /\ rec[Op].state = "prepared" /\ ~Exists(jrn[Op]) /\ ~rec[Op].needs
  BY <1>1, PrepareKnows DEF KInv, GInv
<1> DEFINE v == [rec[Op] EXCEPT !.state = "outcome_unknown"]
<1>4. v \in Records /\ v.state = "outcome_unknown" /\ Alike(v, rec[Op])
  BY <1>3, StatesKnown, StateAlike DEF UnfinishedStates
<1>5. rec' = [rec EXCEPT ![Op] = rec[Op]] \/ rec' = [rec EXCEPT ![Op] = v]
  BY <1>1, <1>3 DEF TypeOK
<1> HIDE DEF v
<1>6. PICK u \in {rec[Op], v} : rec' = [rec EXCEPT ![Op] = u]
  BY <1>5
<1>7. /\ u \in Records /\ u.old = rec[Op].old /\ u.new = rec[Op].new /\ ~u.needs
      /\ u.state \in {"prepared", "outcome_unknown"}
  BY <1>3, <1>4, <1>6 DEF Alike
<1>8. store = rec[Op].old
  BY <1>3 DEF KInv, AllPlain, Plain
<1>9. rec'[Op] = u /\ (jrn'[Op] = jrn[Op] \/ jrn'[Op] = rec[Op])
  BY <1>1, <1>3, <1>6 DEF TypeOK
<1>10. JournalStep(Op)
  BY <1>3, <1>8, <1>9 DEF JournalStep, Unfinished, UnfinishedStates
<1>11. ASSUME NEW o \in Ops, o = Op PROVE Plain(o)'
  <2>1. CASE jrn'[o] = jrn[o] /\ jrn'[o] # rec[o]
    BY <1>1, <1>3, <1>7, <1>8, <1>9, <1>11, <2>1
       DEF Plain, Exists, Terminal, TerminalStates
  <2>2. CASE jrn'[o] = rec[o]
    BY <1>1, <1>3, <1>7, <1>8, <1>9, <1>11, <2>2
       DEF Plain, Exists, Terminal, TerminalStates
  <2> QED
    BY <1>9, <1>11, <2>1, <2>2
<1>12. faults' \in {faults, faults + 1}
  BY <1>1, DiskCounts
<1>13. ASSUME NEW o \in Ops, o = Op PROVE AllPlain' /\ Refines
  BY <1>1, <1>3, <1>6, <1>7, <1>10, <1>11, <1>12, <1>13, RecordAtomic
<1> QED
  BY <1>2, <1>3, <1>13, FreeSeat DEF AtomicGood, PrepPcs

\* A preparation that ends has never touched the Store.
LEMMA PreparedEndsAtomic ==
  ASSUME KInv, NEW o \in Ops, NEW res \in Results,
         ExpirePrepared(o, res) \/ ApplyRefused(o, res) \/ RollbackPrepared(o, res)
  PROVE  AtomicGood
<1>1. /\ proc # "down" /\ LockFree /\ rec[o].state = "prepared"
      /\ UNCHANGED <<store, proc, pc>>
  BY DEF ExpirePrepared, ApplyRefused, RollbackPrepared, Frame, Serving
<1>2. PICK s \in {"cancelled", "conflict"} : SetState(o, rec[o], s, res)
  BY DEF ExpirePrepared, ApplyRefused, RollbackPrepared
<1>3. /\ active = o /\ pc = "idle" /\ rec[o] \in Records /\ Unfinished(jrn[o])
      /\ store = rec[o].old
  BY <1>1, PreparedSits
<1>4. AllPlain' /\ Refines
  BY <1>1, <1>2, <1>3, OutcomeAtomic DEF TerminalStates
<1> QED
  BY <1>1, <1>3, <1>4, FreeSeat DEF AtomicGood

LEMMA ApplyAtomic ==
  ASSUME KInv, NEW o \in Ops, NEW res \in Results, Apply(o, res) PROVE AtomicGood
<1>1. /\ proc # "down" /\ LockFree /\ rec[o].state = "prepared"
      /\ UNCHANGED <<store, proc, cur>> /\ SetState(o, rec[o], "applying", res)
      /\ IF res = "ok" THEN pc' = "a_check" /\ job'.op = o ELSE UNCHANGED pc
  BY DEF Apply, Frame, Launch, Goto
<1>2. /\ active = o /\ pc = "idle" /\ rec[o] \in Records /\ Unfinished(rec[o])
      /\ store = rec[o].old
  BY <1>1, PreparedSits
<1>3. /\ AllPlain' /\ Refines
      /\ res = "ok" => Unfinished(jrn'[o]) /\ jrn'[o].state # "prepared"
      /\ rec'[o].old = rec[o].old
  BY <1>1, <1>2, SetStateAtomic DEF UnfinishedStates
<1>4. CASE res = "ok"
  BY <1>1, <1>2, <1>3, <1>4, WorkerPcsBusy, WorkerSeat DEF AtomicGood
<1>5. CASE res # "ok"
  BY <1>1, <1>2, <1>3, <1>5, FreeSeat DEF AtomicGood
<1> QED
  BY <1>4, <1>5

LEMMA RollbackUnfinishedAtomic ==
  ASSUME KInv, NEW o \in Ops, NEW res \in Results, RollbackUnfinished(o, res)
  PROVE  AtomicGood
<1>1. /\ proc # "down" /\ LockFree /\ ~Running /\ Unfinished(rec[o])
      /\ UNCHANGED <<store, proc, cur>> /\ rec[o].state # "prepared"
  BY DEF RollbackUnfinished, Frame, Serving
<1>2. /\ TypeOK /\ rec[o] \in Records /\ active = o /\ faults \in Nat
      /\ rec \in [Ops -> Records]
  BY <1>1 DEF KInv, GInv, FInv, IInv, TypeOK, GateHeld
<1>3. pc = "idle"
  BY <1>1, <1>2, LockFreePcs
<1>4. CASE ~SnapshotsOK(o, rec[o]) /\ ~Exists(jrn[o])
  <2> DEFINE u == [rec[o] EXCEPT !.state = "rollback_failed"]
  <2>1. u \in Records /\ u.state = "rollback_failed" /\ Alike(u, rec[o])
    BY <1>2, StatesKnown, StateAlike DEF UnfinishedStates
  <2>2. rec' = [rec EXCEPT ![o] = u] /\ UNCHANGED <<jrn, pc, faults>>
    BY <1>4 DEF RollbackUnfinished
  <2> HIDE DEF u
  <2>3. rec'[o] = u /\ store = rec[o].old
    BY <1>1, <1>2, <1>4, <2>2 DEF KInv, AllPlain, Plain
  <2>4. Plain(o)'
    BY <1>1, <1>4, <2>1, <2>2, <2>3 DEF Plain, Alike, Exists, Terminal, TerminalStates
  <2>5. JournalStep(o)
    BY <2>2 DEF JournalStep
  <2>6. AllPlain' /\ Refines
    BY <1>1, <1>2, <2>1, <2>2, <2>4, <2>5, RecordAtomic
  <2> QED
    BY <1>3, <2>2, <2>6, FreeSeat DEF AtomicGood
<1>5. CASE ~(~SnapshotsOK(o, rec[o]) /\ ~Exists(jrn[o]))
  <2>1. /\ SetState(o, rec[o], "rolling_back", res)
        /\ IF res = "ok" THEN pc' = "r_start" /\ job'.op = o ELSE UNCHANGED pc
    BY <1>5 DEF RollbackUnfinished, Launch, Goto
  <2>2. /\ AllPlain' /\ Refines
        /\ res = "ok" => jrn'[o].state # "prepared"
    BY <1>1, <1>2, <2>1, SetStateAtomic DEF UnfinishedStates
  <2>3. "r_start" \in WorkerPcs /\ "r_start" \notin RecordedPcs
    BY WorkerPcsBusy DEF RecordedPcs, ApplyPcs, RestorePcs, OpenPcs, ApplyHooks, ApplyReturns
  <2>4. CASE res = "ok"
    BY <2>1, <2>2, <2>3, <2>4, WorkerSeat DEF AtomicGood
  <2>5. CASE res # "ok"
    BY <1>3, <2>1, <2>2, <2>5, FreeSeat DEF AtomicGood
  <2> QED
    BY <2>4, <2>5
<1> QED
  BY <1>4, <1>5

\* Requests that record nothing.
LEMMA QuietRequestsAtomic ==
  ASSUME KInv, NEW o \in Ops,
         RollbackRunning(o) \/ RollbackConfirmed(o) \/ PruneResidues(o)
  PROVE  AtomicGood
<1>1. UNCHANGED <<store, rec, jrn, proc, faults, cur>> /\ faults \in Nat
  BY FaultsKnown
     DEF RollbackRunning, RollbackConfirmed, PruneResidues, durable, memory, bounds
<1>2. CASE RollbackRunning(o)
  BY <1>1, <1>2, StaysAtomic DEF RollbackRunning
<1>3. CASE RollbackConfirmed(o)
  <2>1. /\ proc # "down" /\ ~gate /\ rec[o].state = "confirmed"
        /\ pc' = "u_check" /\ job'.op = o
    BY <1>3 DEF RollbackConfirmed, Launch, Goto
  <2>2. jrn[o] = rec[o]
    BY <2>1 DEF KInv, GInv, FInv, DataInv, TerminalIsDurable, Terminal, TerminalStates
  <2>3. "u_check" \in WorkerPcs /\ "u_check" \notin RecordedPcs
    BY WorkerPcsBusy DEF RecordedPcs, ApplyPcs, RestorePcs, OpenPcs, ApplyHooks, ApplyReturns
  <2>4. Seat'
    BY <1>1, <2>1, <2>2, <2>3, WorkerSeat
  <2> QED
    BY <1>1, <2>4, QuietAtomic
<1>4. CASE PruneResidues(o)
  <2>1. pc' = "g_old"
    BY <1>4 DEF PruneResidues, Pruning, Goto
  <2> QED
    BY <1>1, <2>1, FreeSeat, QuietAtomic DEF DeletePcs
<1> QED
  BY <1>2, <1>3, <1>4

\* PruneSnapshots marks a record whose outcome the journal has.
LEMMA PruneExpireAtomic ==
  ASSUME KInv, NEW o \in Ops, NEW res \in Results, PruneExpire(o, res) PROVE AtomicGood
<1> DEFINE u == [rec[o] EXCEPT !.exp = TRUE]
<1>1. /\ PruneAllowed(o) /\ rec' = [rec EXCEPT ![o] = u] /\ Disk(res)
      /\ jrn' = jrn \/ jrn' = [jrn EXCEPT ![o] = u]
      /\ UNCHANGED <<store, proc>>
      /\ pc' = "g_old" \/ UNCHANGED pc
  BY DEF PruneExpire, Save, WriteJournal, Pruning, Goto
<1>2. /\ proc # "down" /\ rec[o] \in Records /\ Terminal(rec[o]) /\ jrn[o] = rec[o]
      /\ rec \in [Ops -> Records] /\ jrn \in [Ops -> Records] /\ active = None /\ pc = "idle"
  BY <1>1, PruneKnows DEF KInv, GInv
<1>3. u \in Records /\ u.state = rec[o].state /\ u.old = rec[o].old /\ u.new = rec[o].new
  BY <1>2 DEF Records
<1> HIDE DEF u
<1>4. /\ rec'[o] = u /\ (jrn'[o] = jrn[o] \/ jrn'[o] = u)
      /\ ~Unfinished(u) /\ u.state # "prepared" /\ jrn[o].state # "prepared"
  BY <1>1, <1>2, <1>3, StatesKnown DEF Unfinished, UnfinishedStates, Terminal
<1>5. JournalStep(o)
  BY <1>2, <1>3, <1>4 DEF JournalStep
<1>6. Plain(o)'
  BY <1>4 DEF Plain, Unfinished
<1>7. faults' \in {faults, faults + 1}
  BY <1>1, DiskCounts
<1>8. AllPlain' /\ Refines
  BY <1>1, <1>2, <1>3, <1>5, <1>6, <1>7, RecordAtomic
<1> QED
  BY <1>1, <1>2, <1>8, FreeSeat DEF AtomicGood, DeletePcs

LEMMA PruneDeleteAtomic ==
  ASSUME KInv, NEW res \in Results, PruneOld(res) \/ PruneNew(res) PROVE AtomicGood
<1>1. UNCHANGED <<store, rec, jrn, proc>> /\ Disk(res)
  BY DEF PruneOld, PruneNew, PruneDelete, memory
<1>2. pc' \in {"idle", "g_new"}
  BY DEF PruneOld, PruneNew, PruneDelete, Idle, Goto
<1> QED
  BY <1>1, <1>2, DiskCounts, FreeSeat, QuietAtomic DEF DeletePcs


-----------------------------------------------------------------------------
(* The bounds of the environment, and the theorems *)

\* A step counts the failed writes and the foreign writes it takes.
Counted == /\ drifts' = drifts \/ (drifts < MaxDrifts /\ drifts' = drifts + 1)
           /\ faults' = faults \/ (faults < MaxFaults /\ faults' = faults + 1)

LEMMA DiskCounted == ASSUME NEW res, Disk(res), drifts' = drifts PROVE Counted
BY DEF Disk, Counted

LEMMA StepCounted == [Next]_vars => Counted
<1> SUFFICES ASSUME [Next]_vars PROVE Counted
  OBVIOUS
<1>1. CASE UNCHANGED bounds
  BY <1>1 DEF bounds, Counted
<1>2. CASE UNCHANGED vars
  BY <1>2 DEF vars, Counted
<1>3. CASE \/ Crash \/ OpenClean \/ (\E o \in Ops : OpenRecover(o)) \/ NativeLoad
           \/ AttachRuntime
  BY <1>3 DEF Crash, OpenClean, OpenRecover, NativeLoad, AttachRuntime, bounds, Counted
<1>4. ASSUME NEW res \in Results, OpenStep(res) PROVE Counted
  BY <1>4, DiskCounted DEF OpenStep, OpenSave, OpenWrite, OpenSaved, Save, Counted
<1>5. ASSUME NEW res \in Results, HandlerStep(res) \/ Watcher(res) PROVE Counted
  BY <1>5, DiskCounted DEF HandlerStep, PrepareOld, PrepareNew, PrepareSnapshot,
     PrepareJournal, PruneOld, PruneNew, PruneDelete, Watcher, SetState, Frame
<1>6. CASE Requests
  <2>1. ASSUME NEW o \in Ops, NEW v \in Versions, Prepare(o, v) PROVE Counted
    BY <1>1, <2>1 DEF Prepare
  <2>2. ASSUME NEW o \in Ops,
               RollbackRunning(o) \/ RollbackConfirmed(o) \/ PruneResidues(o)
        PROVE  Counted
    BY <1>1, <2>2 DEF RollbackRunning, RollbackConfirmed, PruneResidues
  <2>3. ASSUME NEW o \in Ops, NEW res \in Results,
               \/ Apply(o, res) \/ ApplyRefused(o, res)
               \/ RollbackPrepared(o, res) \/ RollbackUnfinished(o, res)
               \/ PruneExpire(o, res)
        PROVE  Counted
    BY <2>3, DiskCounted DEF Apply, ApplyRefused, RollbackPrepared, RollbackUnfinished,
       PruneExpire, Save, SetState, Frame, Counted
  <2>4. ASSUME NEW res \in Results, CloseRunning(res) \/ CloseIdle(res) PROVE Counted
    BY <2>4, DiskCounted DEF CloseRunning, CloseIdle, SetState, Counted
  <2> QED
    BY <1>6, <2>1, <2>2, <2>3, <2>4 DEF Requests
<1>7. CASE HookReturns
  BY <1>1, <1>7 DEF HookReturns, CheckReturns, ApplyHookReturns, VerifyReturns
<1>8. CASE Worker
  <2>1. ASSUME NEW res \in Results,
               \/ ApplyChecked(res) \/ ApplyWrite(res) \/ ApplySave(res)
               \/ ApplyUnknown(res) \/ ApplyApplied(res) \/ ApplyVerified(res)
        PROVE  Counted
    BY <2>1, DiskCounted DEF ApplyChecked, ApplyWrite, ApplySave, ApplyUnknown,
       ApplyApplied, ApplyVerified, Save, SetState, WorkerFrame, Counted
  <2>2. ASSUME NEW res \in Results,
               \/ RollbackChecked(res) \/ RollbackBegin(res) \/ RollbackWrite(res)
               \/ RollbackConflict(res) \/ RollbackFailed(res) \/ RollbackSave(res)
               \/ RollbackApplied(res) \/ RollbackVerified(res)
        PROVE  Counted
    BY <2>2, DiskCounted DEF RollbackChecked, RollbackBegin, RollbackWrite,
       RollbackConflict, RollbackFailed, RollbackSave, RollbackApplied, RollbackVerified,
       Save, SetState, WorkerFrame, Counted
  <2>3. CASE RollbackStart \/ UndoChecked \/ WorkerExit
    BY <1>1, <2>3 DEF RollbackStart, UndoChecked, WorkerExit
  <2> QED
    BY <1>8, <2>1, <2>2, <2>3 DEF Worker, WorkerStep
<1>9. ASSUME NEW o \in Ops, NEW res \in Results, ExpirePrepared(o, res) PROVE Counted
  BY <1>9, DiskCounted DEF ExpirePrepared, SetState, Frame
<1>10. CASE (\E o \in Ops : DeadlinePasses(o)) \/ RollbackTimeout
  BY <1>1, <1>10 DEF DeadlinePasses, RollbackTimeout
<1>11. ASSUME NEW v \in Versions, Drift(v) PROVE Counted
  BY <1>11 DEF Drift, Counted
<1> QED
  BY <1>2, <1>3, <1>4, <1>5, <1>6, <1>7, <1>8, <1>9, <1>10, <1>11 DEF Next

LEMMA InitAtomic ==
  ASSUME MaxDrifts = 0, MaxFaults <= 1, Init
  PROVE  KInv /\ Promise!Init
<1>1. GInv
  BY InitOutcomes
<1>2. \A o \in Ops : jrn[o] = Absent
  BY DEF Init
<1>3. Absent.state = "absent" /\ Absent.old = InitVersion /\ Absent.new = InitVersion
  BY DEF Absent
<1>4. Calm
  BY ConstantsAssumption DEF Init, Calm
<1>5. AllPlain
  BY <1>2, <1>3 DEF Init, AllPlain, Plain
<1>6. Seat
  BY PcsKnown DEF Init, Seat, RecordedPcs, ApplyPcs, RestorePcs, OpenPcs, ApplyHooks,
     ApplyReturns
<1>7. Status(Absent) = "idle"
  BY <1>3 DEF Status, Unfinished, UnfinishedStates
<1>8. Promise!Init
  BY <1>2, <1>3, <1>7 DEF Init, Promise!Init, Promise!NoPlan
<1> QED
  BY <1>1, <1>4, <1>5, <1>6, <1>8 DEF KInv

\* Every step of the engine is a step of the abstract Store, or none.
LEMMA StepIsAtomic == KInv /\ [Next]_vars => AtomicGood
<1> SUFFICES ASSUME KInv, [Next]_vars PROVE AtomicGood
  OBVIOUS
<1>1. CASE UNCHANGED vars
  BY <1>1, StaysAtomic DEF vars
<1>2. CASE \/ Crash \/ OpenClean \/ (\E o \in Ops : OpenRecover(o)) \/ NativeLoad
           \/ AttachRuntime
  BY <1>2, CrashAtomic, OpenAtomic, AmbientAtomic, AttachAtomic
<1>3. ASSUME NEW res \in Results, OpenStep(res) \/ HandlerStep(res) \/ Watcher(res)
      PROVE  AtomicGood
  BY <1>3, OpenSaveAtomic, OpenWriteAtomic, OpenSavedAtomic, PrepareWriteAtomic,
     PruneDeleteAtomic, WatcherAtomic DEF OpenStep, HandlerStep
<1>4. CASE Requests
  <2>1. ASSUME NEW o \in Ops, NEW v \in Versions, Prepare(o, v) PROVE AtomicGood
    BY <2>1, PrepareAtomic
  <2>2. ASSUME NEW o \in Ops,
               RollbackRunning(o) \/ RollbackConfirmed(o) \/ PruneResidues(o)
        PROVE  AtomicGood
    BY <2>2, QuietRequestsAtomic
  <2>3. ASSUME NEW o \in Ops, NEW res \in Results,
               \/ Apply(o, res) \/ ApplyRefused(o, res)
               \/ RollbackPrepared(o, res) \/ RollbackUnfinished(o, res)
               \/ PruneExpire(o, res)
        PROVE  AtomicGood
    BY <2>3, ApplyAtomic, PreparedEndsAtomic, RollbackUnfinishedAtomic, PruneExpireAtomic
  <2>4. ASSUME NEW res \in Results, CloseRunning(res) \/ CloseIdle(res) PROVE AtomicGood
    BY <2>4, CloseRunningAtomic, CloseIdleAtomic
  <2> QED
    BY <1>4, <2>1, <2>2, <2>3, <2>4 DEF Requests
<1>5. CASE HookReturns
  BY <1>5, HookAtomic
<1>6. CASE Worker
  <2>1. ASSUME NEW res \in Results, WorkerStep(res) PROVE AtomicGood
    BY <2>1, ApplyCheckedAtomic, ApplyWriteAtomic, ApplySaveAtomic, ApplyUnknownAtomic,
       ApplyAppliedAtomic, ApplyVerifiedAtomic, RollbackCheckedAtomic,
       RollbackBeginAtomic, RollbackWriteAtomic, RollbackConflictAtomic,
       RollbackFailedAtomic, RollbackSaveAtomic, RollbackAppliedAtomic,
       RollbackVerifiedAtomic DEF WorkerStep
  <2> QED
    BY <1>6, <2>1, RollbackMovesAtomic, WorkerExitAtomic DEF Worker
<1>7. ASSUME NEW o \in Ops, NEW res \in Results, ExpirePrepared(o, res) PROVE AtomicGood
  BY <1>7, PreparedEndsAtomic
<1>8. CASE (\E o \in Ops : DeadlinePasses(o)) \/ RollbackTimeout
  BY <1>8, AmbientAtomic
<1>9. ASSUME NEW v \in Versions, Drift(v) PROVE AtomicGood
  BY <1>9, DriftAtomic
<1> QED
  BY <1>1, <1>2, <1>3, <1>4, <1>5, <1>6, <1>7, <1>8, <1>9 DEF Next

LEMMA AtomicInductive == KInv /\ [Next]_vars => KInv'
<1> SUFFICES ASSUME KInv, [Next]_vars PROVE KInv'
  OBVIOUS
<1>1. AllPlain' /\ Seat'
  BY StepIsAtomic DEF AtomicGood
<1>2. GInv'
  BY StepIsGood, FactsInductive DEF KInv, GInv, StepGood
<1>3. Calm'
  <2>1. /\ faults \in Nat /\ drifts \in Nat /\ MaxFaults \in Nat /\ MaxDrifts \in Nat
        /\ MaxDrifts = 0 /\ MaxFaults <= 1 /\ drifts = 0 /\ faults <= MaxFaults
    BY ConstantsAssumption DEF KInv, Calm, GInv, FInv, IInv, TypeOK
  <2>2. drifts' = 0 /\ faults' <= MaxFaults
    BY <2>1, StepCounted DEF Counted
  <2> QED
    BY <2>1, <2>2 DEF Calm
<1> QED
  BY <1>1, <1>2, <1>3 DEF KInv

\* Without an outside writer and with at most one failed write, the engine is
\* a transactional Store: a crash or a failed write never leaves an outcome that
\* is untrue of the Store, and only a journalled operation moves it.  The bound
\* on failed writes is sharp: a second one lets a rollback overwrite the Store
\* with no intent on disk (rollbackAfterCheck, state, persist).
THEOREM EngineIsAtomic ==
  ASSUME MaxDrifts = 0, MaxFaults <= 1
  PROVE  Spec => ImplementsAtomicStore
<1>1. Init => KInv /\ Promise!Init
  BY InitAtomic
<1>2. KInv /\ [Next]_vars => KInv'
  BY AtomicInductive
<1>3. KInv /\ [Next]_vars => [Promise!Next]_(Promise!vars)
  BY StepIsAtomic DEF AtomicGood, Refines
<1> QED
  BY <1>1, <1>2, <1>3, PTL DEF Spec, ImplementsAtomicStore, Promise!Spec

\* With at most one failed write the comment of rollbackAfterCheck is true: when
\* a rollback overwrites the Store the journal is unfinished already, whether or
\* not the save of the phase went through.
THEOREM IntentIsDurable ==
  ASSUME MaxDrifts = 0, MaxFaults <= 1
  PROVE  Spec => []RollbackIntentDurable
<1>1. KInv => RollbackIntentDurable
  BY DEF KInv, Seat, RecordedPcs, RollbackIntentDurable
<1>2. Init => KInv
  BY InitAtomic
<1> QED
  BY <1>1, <1>2, AtomicInductive, PTL DEF Spec

-----------------------------------------------------------------------------
(* The engine implements EngineView: what a peer may assume of it is what it *)
(* does, whatever fails.  Beside the facts of FInv the step simulation needs *)
(* what Open reads, what AttachRuntime finds, and that the first phase of an *)
(* apply has lost no record unless somebody stopped it.                      *)

Opened == proc = "opening" => pc \in OpenPcs

\* Open reads the journal, and records its intent in both.
OpenReads == pc \in OpenPcs =>
    /\ \A o \in Ops : rec[o].state = jrn[o].state
    /\ pc # "o_save" => rec[Op].state = "rolling_back"

\* AttachRuntime finds the recovery as Open left it.
OwedRecovery == proc = "open" /\ active # None =>
    (rec[active].needs => rec[active].state = "rolling_back")

\* Only a hook has a context that somebody can cancel.
PhaseCtx == ctx # "live" => pc \in HookPcs \cup ReturnPcs

\* Until it is stopped an apply has the record its worker was started with.
FirstPhase == pc \in {"a_check", "a_checked"} =>
    /\ ctx # "live" => abort \/ late[Op]
    /\ abort \/ late[Op] \/ rec[Op].state = jrn[Op].state
FirstWrite == pc \in {"a_write", "a_save"} => rec[Op].state = jrn[Op].state

SightInv == /\ Opened /\ OpenReads /\ OwedRecovery
            /\ PhaseCtx /\ FirstPhase /\ FirstWrite
VInv == FInv /\ SightInv

Sees == [View!Next]_(View!vars)
SeenGood == SightInv' /\ Sees

-----------------------------------------------------------------------------
(* What a peer sees *)

SeenMem == [o \in Ops |-> IF ~Served \/ (Reserving /\ Op = o)
                          THEN "absent" ELSE rec[o].state]
SeenJrn == [o \in Ops |-> jrn[o].state]
SeenWorker == IF Running THEN [op |-> Op, kind |-> SeenKind]
                         ELSE [op |-> None, kind |-> "none"]

LEMMA StuttersSeen ==
  ASSUME UNCHANGED <<Served, SeenMem, SeenJrn, SeenWorker>> PROVE Sees
BY DEF Sees, View!vars, SeenMem, SeenJrn, SeenWorker

\* The worker at a program counter, as a peer sees it.
KindOf(l, k) ==
    CASE l = "exit" -> "done"
      [] l \in {"a_check", "a_checked", "a_write", "a_save", "a_apply", "a_applied"}
            -> "apply"
      [] l \in {"a_verify", "a_verified"} -> "verify"
      [] l \in {"r_write", "r_save", "r_failed", "r_apply", "r_applied", "r_verify",
                "r_verified"} -> IF k = "undo" THEN "undoing" ELSE "restore"
      [] OTHER -> IF k = "undo" THEN "undo" ELSE "rollback"

LEMMA KindSeen == SeenKind = KindOf(pc, job.kind)
BY DEF SeenKind, KindOf, Trying, Intended

LEMMA KindsSeen ==
  ASSUME NEW l \in WorkerPcs, NEW k
  PROVE  /\ l = "exit" => KindOf(l, k) = "done"
         /\ l \in {"a_check", "a_checked", "a_write", "a_save", "a_apply", "a_applied"}
               => KindOf(l, k) = "apply"
         /\ l \in {"a_verify", "a_verified"} => KindOf(l, k) = "verify"
         /\ l \in {"r_write", "r_failed"} \cup RestorePcs
               => KindOf(l, k) = IF k = "undo" THEN "undoing" ELSE "restore"
         /\ l \in {"a_unknown", "r_start", "r_check", "r_checked", "r_begin",
                   "u_check", "u_checked"}
               => KindOf(l, k) = IF k = "undo" THEN "undo" ELSE "rollback"
         /\ KindOf(l, k) \in View!Kinds
<1>1. l = "exit" => KindOf(l, k) = "done"
  BY DEF KindOf
<1>2. l \in {"a_check", "a_checked", "a_write", "a_save", "a_apply", "a_applied"}
         => KindOf(l, k) = "apply"
  BY DEF KindOf
<1>3. l \in {"a_verify", "a_verified"} => KindOf(l, k) = "verify"
  BY DEF KindOf
<1>4. l \in {"r_write", "r_failed"} \cup RestorePcs
         => KindOf(l, k) = IF k = "undo" THEN "undoing" ELSE "restore"
  BY DEF KindOf, RestorePcs
<1>5. l \in {"a_unknown", "r_start", "r_check", "r_checked", "r_begin",
             "u_check", "u_checked"}
         => KindOf(l, k) = IF k = "undo" THEN "undo" ELSE "rollback"
  BY DEF KindOf
<1>6. WorkerPcs = {"exit", "a_check", "a_checked", "a_write", "a_save", "a_apply",
                   "a_applied", "a_verify", "a_verified", "r_write", "r_failed",
                   "a_unknown", "r_start", "r_check", "r_checked", "r_begin",
                   "u_check", "u_checked"} \cup RestorePcs
  BY DEF WorkerPcs, HookPcs, ApplyHooks, RollbackHooks, ReturnPcs, ApplyReturns,
         RollbackReturns, WorkerLocked, RestorePcs
<1>7. KindOf(l, k) \in View!Kinds
  BY <1>1, <1>2, <1>3, <1>4, <1>5, <1>6 DEF View!Kinds
<1> QED
  BY <1>1, <1>2, <1>3, <1>4, <1>5, <1>7

\* A worker at work: a peer sees every record as it is.
WorkerShows ==
    /\ Served = TRUE /\ Op \in Ops /\ Op # None
    /\ SeenMem = [o \in Ops |-> rec[o].state]
    /\ SeenWorker = [op |-> Op, kind |-> KindOf(pc, job.kind)]
    /\ pc \notin OpenPcs /\ proc \in {"attached", "closing"}
    /\ KindsAt(pc, job.kind) /\ TypeOK

LEMMA WorkerSeen == FInv /\ pc \in WorkerPcs => WorkerShows
<1> SUFFICES ASSUME FInv, pc \in WorkerPcs PROVE WorkerShows
  OBVIOUS
<1>1. Served = TRUE /\ proc \in {"attached", "closing"}
  BY DEF FInv, ControlInv, Leased, Served
<1>2. ~Reserving /\ pc \notin OpenPcs
  BY PcsKnown DEF Reserving, PrepPcs
<1>3. SeenMem = [o \in Ops |-> rec[o].state]
  BY <1>1, <1>2 DEF SeenMem
<1>4. SeenWorker = [op |-> Op, kind |-> KindOf(pc, job.kind)]
  BY KindSeen DEF SeenWorker, Running
<1>5. Op \in Ops /\ Op # None /\ KindsAt(pc, job.kind) /\ TypeOK
  BY WorkerKnows, ConstantsAssumption
<1> QED
  BY <1>1, <1>2, <1>3, <1>4, <1>5 DEF WorkerShows

LEMMA WorkerSeenNext == FInv' /\ pc' \in WorkerPcs => WorkerShows'
<1>1. (FInv /\ pc \in WorkerPcs => WorkerShows)'
  BY WorkerSeen, PTL
<1> QED
  BY <1>1

\* What a worker leaves behind for the rest of the invariant.
LEMMA WorkerSight ==
  ASSUME FInv', pc' \in WorkerPcs,
         ctx' = "live" \/ pc' \in HookPcs \cup ReturnPcs,
         pc' \notin {"a_check", "a_checked", "a_write", "a_save"}
  PROVE  SightInv'
BY WorkerSeenNext DEF WorkerShows, SightInv, Opened, OpenReads, OwedRecovery, PhaseCtx,
   FirstPhase, FirstWrite

-----------------------------------------------------------------------------
(* Steps of the view *)

LEMMA ViewStates == View!States = States
BY DEF View!States, View!TerminalStates, View!UnfinishedStates, States, TerminalStates,
   UnfinishedStates

\* state() is Record of the view.
LEMMA RecordSeen ==
  ASSUME TypeOK, NEW o \in Ops, NEW r \in Records, NEW s \in States,
         NEW res \in Results, SetState(o, r, s, res),
         SeenMem = [p \in Ops |-> rec[p].state],
         SeenMem' = [p \in Ops |-> rec'[p].state]
  PROVE  View!Record(o, s, res = "ok")
<1>1. PICK u \in Records, w \in Records :
            /\ w.state = s
            /\ u.state = IF res = "ok" THEN s ELSE "outcome_unknown"
            /\ rec' = [rec EXCEPT ![o] = u]
            /\ \/ jrn' = [jrn EXCEPT ![o] = w]
               \/ res # "ok" /\ jrn' = jrn
  BY SetStateRecords
<1>2. SeenMem' = [SeenMem EXCEPT ![o] = IF res = "ok" THEN s ELSE "outcome_unknown"]
  BY <1>1 DEF TypeOK
<1>3. \/ SeenJrn' = [SeenJrn EXCEPT ![o] = s]
      \/ res # "ok" /\ SeenJrn' = SeenJrn
  BY <1>1 DEF TypeOK, SeenJrn
<1> QED
  BY <1>2, <1>3 DEF View!Record, SeenMem, SeenJrn

\* The steps of the view for one operation.
LEMMA OperationSees ==
  ASSUME NEW o \in Ops,
         \/ View!RollbackNothing(o) \/ View!Undo(o) \/ View!Recover(o)
         \/ View!CloseCancels(o) \/ View!OpenIntent(o)
  PROVE  Sees
BY DEF Sees, View!Next

LEMMA RequestSees ==
  ASSUME NEW o \in Ops, NEW ok \in BOOLEAN,
         \/ View!Prepare(o, ok) \/ View!Apply(o, ok) \/ View!Cancel(o, ok)
         \/ View!Rollback(o, ok) \/ \E s \in View!States : View!Refuse(o, s, ok)
  PROVE  Sees
BY DEF Sees, View!Next

\* A worker records a state of its operation.
LEMMA WorkerRecordsSeen ==
  ASSUME FInv, FInv', pc \in WorkerPcs, pc' \in WorkerPcs, job' = job,
         NEW r \in Records, NEW s \in States, NEW res \in Results,
         SetState(Op, r, s, res)
  PROVE  View!Record(Op, s, res = "ok")
BY WorkerSeen, WorkerSeenNext, RecordSeen DEF WorkerShows, Op

\* A worker moves without a record.
LEMMA WorkerMovesSeen ==
  ASSUME FInv, FInv', pc \in WorkerPcs, pc' \in WorkerPcs, job'.op = job.op,
         \A o \in Ops : rec'[o].state = rec[o].state /\ jrn'[o].state = jrn[o].state,
         LET k == KindOf(pc, job.kind)
             l == KindOf(pc', job'.kind)
         IN  \/ l = k
             \/ k \in {"apply", "verify"} /\ l = "rollback"
             \/ k = "undo" /\ l = "done"
  PROVE  Sees
<1> DEFINE k == KindOf(pc, job.kind)
           l == KindOf(pc', job'.kind)
<1>1. /\ SeenWorker = [op |-> Op, kind |-> k]
      /\ SeenWorker' = [op |-> Op, kind |-> l]
  BY WorkerSeen, WorkerSeenNext DEF WorkerShows, Op
<1>2. UNCHANGED <<Served, SeenMem, SeenJrn>>
  BY WorkerSeen, WorkerSeenNext DEF WorkerShows, SeenJrn
<1> HIDE DEF k, l
<1>3. CASE l = k
  BY <1>1, <1>2, <1>3, StuttersSeen
<1>4. CASE k \in {"apply", "verify"} /\ l = "rollback"
  <2>1. View!TurnBack
    BY <1>1, <1>2, <1>4
       DEF View!TurnBack, View!Works, View!Become, SeenMem, SeenJrn, SeenWorker
  <2> QED
    BY <2>1 DEF Sees, View!Next, View!Work
<1>5. CASE k = "undo" /\ l = "done"
  <2>1. View!UndoRefused
    BY <1>1, <1>2, <1>5
       DEF View!UndoRefused, View!Works, View!Become, SeenMem, SeenJrn, SeenWorker
  <2> QED
    BY <2>1 DEF Sees, View!Next, View!Work
<1> QED
  BY <1>3, <1>4, <1>5 DEF k, l

\* The last record of a worker.
LEMMA WorkerConcludesSeen ==
  ASSUME FInv, FInv', pc \in WorkerPcs, pc' = "exit", job' = job,
         NEW r \in Records, NEW s \in States, NEW res \in Results,
         SetState(Op, r, s, res),
         LET k == KindOf(pc, job.kind)
         IN  \/ k = "apply" /\ s \in {"cancelled", "conflict"}
             \/ k \in {"rollback", "restore", "undoing"} /\ s = "rollback_failed"
             \/ k \in {"restore", "undoing"} /\ s = "rolled_back"
  PROVE  Sees
<1> DEFINE k == KindOf(pc, job.kind)
<1>1. pc' \in WorkerPcs
  BY WorkerPcsBusy DEF WorkerPcs
<1>2. /\ SeenWorker = [op |-> Op, kind |-> k]
      /\ SeenWorker' = [op |-> Op, kind |-> "done"]
      /\ UNCHANGED Served
  BY <1>1, WorkerSeen, WorkerSeenNext, KindsSeen DEF WorkerShows, Op
<1>3. View!Record(Op, s, res = "ok")
  BY <1>1, WorkerRecordsSeen
<1>4. k \in DOMAIN View!Conclusions /\ s \in View!Conclusions[k]
  <2>1. CASE k = "apply" /\ s \in {"cancelled", "conflict"}
    BY <2>1 DEF View!Conclusions
  <2>2. CASE k \in {"rollback", "restore", "undoing"} /\ s = "rollback_failed"
    BY <2>2 DEF View!Conclusions
  <2>3. CASE k \in {"restore", "undoing"} /\ s = "rolled_back"
    BY <2>3 DEF View!Conclusions
  <2> QED
    BY <2>1, <2>2, <2>3
<1> HIDE DEF k
<1>5. View!Conclude(s, res = "ok")
  <2>1. SeenWorker' = [SeenWorker EXCEPT !.kind = "done"] /\ SeenWorker.op = Op
        /\ SeenWorker.kind = k
    BY <1>2
  <2> QED
    BY <1>2, <1>3, <1>4, <2>1
       DEF View!Conclude, View!Works, View!Become, SeenMem, SeenJrn, SeenWorker
<1>6. View!Recording(res = "ok") /\ (res = "ok") \in BOOLEAN
  BY <1>5, ViewStates DEF View!Recording
<1> QED
  BY <1>6 DEF Sees, View!Next, View!Work

\* A record that changes the course of a worker, or none.
LEMMA WorkerTurnsSeen ==
  ASSUME FInv, FInv', pc \in WorkerPcs, pc' \in WorkerPcs, job' = job,
         NEW r \in Records, NEW s \in States, NEW res \in Results,
         SetState(Op, r, s, res),
         LET k == KindOf(pc, job.kind)
             l == KindOf(pc', job.kind)
         IN  \/ s = "outcome_unknown" /\ Unfinished(rec[Op]) /\ l = k
             \/ s = "verifying" /\ k = "apply"
                /\ l = IF res = "ok" THEN "verify" ELSE "rollback"
             \/ s = "confirmed" /\ k = "verify"
                /\ l = IF res = "ok" THEN "done" ELSE "rollback"
             \/ s = "rolling_back" /\ k = "rollback" /\ l = "restore"
             \/ s = "rolling_back" /\ k = "undo"
                /\ l = IF res = "ok" THEN "undoing" ELSE "done"
  PROVE  Sees
<1> DEFINE k == KindOf(pc, job.kind)
           l == KindOf(pc', job.kind)
<1>1. /\ SeenWorker = [op |-> Op, kind |-> k]
      /\ SeenWorker' = [op |-> Op, kind |-> l]
      /\ UNCHANGED Served /\ k \in View!Kinds
      /\ SeenMem = [p \in Ops |-> rec[p].state] /\ Op \in Ops
  BY WorkerSeen, WorkerSeenNext, KindsSeen DEF WorkerShows, Op
<1>2. View!Record(Op, s, res = "ok")
  BY WorkerRecordsSeen
<1> HIDE DEF k, l
<1>3. SeenWorker' = [SeenWorker EXCEPT !.kind = l] /\ SeenWorker.op = Op
      /\ SeenWorker.kind = k /\ (l = k => UNCHANGED SeenWorker)
      /\ SeenMem[Op] = rec[Op].state
  BY <1>1
<1>9. ASSUME View!Recording(res = "ok") PROVE Sees
  BY <1>9 DEF Sees, View!Next, View!Work
<1>4. CASE s = "outcome_unknown" /\ Unfinished(rec[Op]) /\ l = k
  <2>1. View!Unfinished(SeenMem[Op])
    BY <1>3, <1>4 DEF View!Unfinished, View!UnfinishedStates, Unfinished, UnfinishedStates
  <2>2. View!Doubt(res = "ok")
    BY <1>1, <1>2, <1>3, <1>4, <2>1
       DEF View!Doubt, View!Works, SeenMem, SeenJrn, SeenWorker
  <2> QED
    BY <2>2, <1>9 DEF View!Recording
<1>5. CASE s = "verifying" /\ k = "apply" /\ l = IF res = "ok" THEN "verify" ELSE "rollback"
  <2>1. View!Verify(res = "ok")
    BY <1>1, <1>2, <1>3, <1>5
       DEF View!Verify, View!Works, View!Become, SeenMem, SeenJrn, SeenWorker
  <2> QED
    BY <2>1, <1>9 DEF View!Recording
<1>6. CASE s = "confirmed" /\ k = "verify" /\ l = IF res = "ok" THEN "done" ELSE "rollback"
  <2>1. View!Confirm(res = "ok")
    BY <1>1, <1>2, <1>3, <1>6
       DEF View!Confirm, View!Works, View!Become, SeenMem, SeenJrn, SeenWorker
  <2> QED
    BY <2>1, <1>9 DEF View!Recording
<1>7. CASE s = "rolling_back" /\ k = "rollback" /\ l = "restore"
  <2>1. View!Intend(res = "ok")
    BY <1>1, <1>2, <1>3, <1>7
       DEF View!Intend, View!Works, View!Become, SeenMem, SeenJrn, SeenWorker
  <2> QED
    BY <2>1, <1>9 DEF View!Recording
<1>8. CASE s = "rolling_back" /\ k = "undo" /\ l = IF res = "ok" THEN "undoing" ELSE "done"
  <2>1. View!Intend(res = "ok")
    BY <1>1, <1>2, <1>3, <1>8
       DEF View!Intend, View!Works, View!Become, SeenMem, SeenJrn, SeenWorker
  <2> QED
    BY <2>1, <1>9 DEF View!Recording
<1> QED
  BY <1>4, <1>5, <1>6, <1>7, <1>8 DEF k, l

-----------------------------------------------------------------------------
(* The apply worker *)

LEMMA ApplyCheckedSeen ==
  ASSUME VInv, FInv', NEW res \in Results, ApplyChecked(res) PROVE SeenGood
<1>1. pc = "a_checked" /\ pc' \in {"exit", "a_write"} /\ job' = job /\ ctx' = "live"
  BY DEF ApplyChecked, Goto, Finish
<1>2. /\ pc \in WorkerPcs /\ pc' \in WorkerPcs /\ FInv
      /\ KindOf(pc, job.kind) = "apply"
      /\ pc' = "a_write" => KindOf(pc', job.kind) = "apply"
  BY <1>1, KindsSeen, WorkerPcsBusy DEF WorkerPcs, ReturnPcs, ApplyReturns, WorkerLocked,
     VInv
<1>3. rec[Op] \in Records
  BY <1>2, WorkerKnows
<1>4. CASE ret.err \/ late[Op] \/ abort
  <2>1. PICK s \in {"cancelled", "conflict"} : SetState(Op, rec[Op], s, res)
    BY <1>4 DEF ApplyChecked
  <2>2. pc' = "exit" /\ s \in States
    BY <1>4, StatesKnown DEF ApplyChecked, Goto, States, TerminalStates
  <2>3. Sees
    BY <1>1, <1>2, <1>3, <2>1, <2>2, WorkerConcludesSeen
  <2> QED
    BY <1>1, <1>2, <2>2, <2>3, WorkerSight DEF SeenGood
<1>5. CASE ~(ret.err \/ late[Op] \/ abort)
  <2>1. UNCHANGED <<jrn, rec>> /\ pc' = "a_write"
    BY <1>5 DEF ApplyChecked, Goto
  <2>2. Sees
    BY <1>1, <1>2, <2>1, WorkerMovesSeen
  <2>3. rec[Op].state = jrn[Op].state
    BY <1>1, <1>5 DEF VInv, SightInv, FirstPhase
  <2>4. FirstWrite' /\ FirstPhase' /\ PhaseCtx'
    BY <1>1, <2>1, <2>3 DEF FirstWrite, FirstPhase, PhaseCtx, Op
  <2>5. Opened' /\ OpenReads' /\ OwedRecovery'
    BY <1>2, WorkerSeenNext DEF WorkerShows, Opened, OpenReads, OwedRecovery
  <2> QED
    BY <2>2, <2>4, <2>5 DEF SeenGood, SightInv
<1> QED
  BY <1>4, <1>5

LEMMA ApplyWriteSeen ==
  ASSUME VInv, FInv', NEW res \in Results, ApplyWrite(res) PROVE SeenGood
<1>1. pc = "a_write" /\ pc' \in {"exit", "a_save", "a_unknown"} /\ job' = job /\ ctx' = ctx
  BY DEF ApplyWrite, Goto
<1>2. /\ pc \in WorkerPcs /\ pc' \in WorkerPcs /\ FInv
      /\ KindOf(pc, job.kind) = "apply"
      /\ pc' = "a_save" => KindOf(pc', job.kind) = "apply"
      /\ pc' = "a_unknown" => KindOf(pc', job.kind) = "rollback"
      /\ ctx = "live"
  <2>1. pc \in WorkerPcs /\ pc' \in WorkerPcs /\ FInv /\ pc \notin HookPcs \cup ReturnPcs
    BY <1>1, WorkerPcsBusy DEF WorkerPcs, ReturnPcs, ApplyReturns, WorkerLocked, VInv,
       HookPcs, ApplyHooks, RollbackHooks, RollbackReturns
  <2>2. job.kind = "apply"
    BY <1>1, <2>1, WorkerKnows DEF KindsAt, ApplyPcs
  <2> QED
    BY <1>1, <2>1, <2>2, KindsSeen DEF VInv, SightInv, PhaseCtx
<1>3. rec[Op] \in Records /\ rec \in [Ops -> Records] /\ Op \in Ops
  BY <1>2, WorkerKnows DEF TypeOK
<1>4. CASE store # rec[Op].old
  <2>1. SetState(Op, rec[Op], "conflict", res) /\ pc' = "exit"
    BY <1>4 DEF ApplyWrite, Goto
  <2>2. Sees
    BY <1>1, <1>2, <1>3, <2>1, StatesKnown, WorkerConcludesSeen DEF States, TerminalStates
  <2> QED
    BY <1>1, <1>2, <2>1, <2>2, WorkerSight DEF SeenGood
<1>5. CASE store = rec[Op].old
  <2>1. /\ jrn' = jrn /\ pc' \in {"a_save", "a_unknown"}
        /\ rec' = rec \/ rec' = [rec EXCEPT ![Op].sp = TRUE]
    BY <1>5 DEF ApplyWrite, Goto
  <2>2. \A o \in Ops : rec'[o].state = rec[o].state /\ jrn'[o].state = jrn[o].state
    BY <1>3, <2>1 DEF Records
  <2>3. Sees
    BY <1>1, <1>2, <2>1, <2>2, WorkerMovesSeen
  <2>4. rec'[Op].state = jrn'[Op].state
    BY <1>1, <1>3, <2>2 DEF VInv, SightInv, FirstWrite
  <2>5. FirstWrite' /\ FirstPhase' /\ PhaseCtx'
    BY <1>1, <1>2, <2>1, <2>4 DEF FirstWrite, FirstPhase, PhaseCtx, Op
  <2>6. Opened' /\ OpenReads' /\ OwedRecovery'
    BY <1>2, WorkerSeenNext DEF WorkerShows, Opened, OpenReads, OwedRecovery
  <2> QED
    BY <2>3, <2>5, <2>6 DEF SeenGood, SightInv
<1> QED
  BY <1>4, <1>5

LEMMA ApplySaveSeen ==
  ASSUME VInv, FInv', NEW res \in Results, ApplySave(res) PROVE SeenGood
<1>1. /\ pc = "a_save" /\ pc' \in {"a_apply", "a_unknown"} /\ job' = job
      /\ pc' = "a_apply" \/ ctx' = ctx
  BY DEF ApplySave, Goto, EnterApplyPhase
<1>2. /\ pc \in WorkerPcs /\ pc' \in WorkerPcs /\ FInv
      /\ KindOf(pc, job.kind) = "apply"
      /\ pc' = "a_apply" => KindOf(pc', job.kind) = "apply" /\ pc' \in HookPcs
      /\ pc' = "a_unknown" => KindOf(pc', job.kind) = "rollback"
      /\ ctx = "live"
  <2>1. /\ pc \in WorkerPcs /\ pc' \in WorkerPcs /\ FInv /\ pc \notin HookPcs \cup ReturnPcs
        /\ pc' = "a_apply" => pc' \in HookPcs
    BY <1>1, WorkerPcsBusy DEF WorkerPcs, ReturnPcs, ApplyReturns, WorkerLocked, VInv,
       HookPcs, ApplyHooks, RollbackHooks, RollbackReturns
  <2>2. job.kind = "apply"
    BY <1>1, <2>1, WorkerKnows DEF KindsAt, ApplyPcs
  <2> QED
    BY <1>1, <2>1, <2>2, KindsSeen DEF VInv, SightInv, PhaseCtx
<1>3. rec[Op] \in Records /\ TypeOK /\ Op \in Ops
  BY <1>2, WorkerKnows
<1>4. /\ rec' = [rec EXCEPT ![Op] = rec[Op]]
      /\ jrn' = jrn \/ jrn' = [jrn EXCEPT ![Op] = rec[Op]]
  BY DEF ApplySave, Save, WriteJournal
<1>5. rec[Op].state = jrn[Op].state
  BY <1>1 DEF VInv, SightInv, FirstWrite
<1>6. \A o \in Ops : rec'[o].state = rec[o].state /\ jrn'[o].state = jrn[o].state
  BY <1>3, <1>4, <1>5 DEF TypeOK
<1>7. Sees
  BY <1>1, <1>2, <1>6, WorkerMovesSeen
<1> QED
  BY <1>1, <1>2, <1>7, WorkerSight DEF SeenGood

LEMMA ApplyUnknownSeen ==
  ASSUME VInv, FInv', NEW res \in Results, ApplyUnknown(res) PROVE SeenGood
<1>1. /\ pc = "a_unknown" /\ pc' = "r_start" /\ job' = job /\ ctx' = ctx
      /\ SetState(Op, rec[Op], "outcome_unknown", res)
  BY DEF ApplyUnknown, Goto
<1>2. /\ pc \in WorkerPcs /\ pc' \in WorkerPcs /\ FInv /\ pc \notin HookPcs \cup ReturnPcs
  BY <1>1, WorkerPcsBusy DEF WorkerPcs, ReturnPcs, ApplyReturns, WorkerLocked, VInv,
     HookPcs, ApplyHooks, RollbackHooks, RollbackReturns
<1>3. /\ KindOf(pc', job.kind) = KindOf(pc, job.kind) /\ ctx = "live"
  BY <1>1, <1>2, KindsSeen DEF VInv, SightInv, PhaseCtx
<1>4. rec[Op] \in Records /\ Unfinished(rec[Op])
  BY <1>1, <1>2, WorkerKnows DEF UndoLook
<1>5. Sees
  BY <1>1, <1>2, <1>3, <1>4, StatesKnown, WorkerTurnsSeen DEF States, UnfinishedStates
<1> QED
  BY <1>1, <1>2, <1>3, <1>5, WorkerSight DEF SeenGood

LEMMA ApplyAppliedSeen ==
  ASSUME VInv, FInv', NEW res \in Results, ApplyApplied(res) PROVE SeenGood
<1>1. /\ pc = "a_applied" /\ pc' \in {"a_unknown", "a_verify", "r_start"} /\ job' = job
      /\ pc' = "a_verify" \/ ctx' = "live"
  BY DEF ApplyApplied, Goto, EnterApplyPhase, Finish
<1>2. /\ pc \in WorkerPcs /\ pc' \in WorkerPcs /\ FInv
      /\ pc' = "a_verify" => pc' \in HookPcs
      /\ job.kind = "apply"
  <2>1. /\ pc \in WorkerPcs /\ pc' \in WorkerPcs /\ FInv
        /\ pc' = "a_verify" => pc' \in HookPcs
    BY <1>1, WorkerPcsBusy DEF WorkerPcs, ReturnPcs, ApplyReturns, WorkerLocked, VInv,
       HookPcs, ApplyHooks, RollbackHooks, RollbackReturns
  <2> QED
    BY <1>1, <2>1, WorkerKnows DEF KindsAt, ApplyPcs, ApplyReturns
<1>3. rec[Op] \in Records /\ [rec[Op] EXCEPT !.ra = TRUE] \in Records
  BY <1>2, WorkerKnows DEF Records
<1>4. KindOf(pc, job.kind) = "apply"
  BY <1>1, <1>2, KindsSeen
<1>5. CASE ret.err \/ ret.cancelled \/ abort
  <2>1. UNCHANGED <<jrn, rec>> /\ pc' = "a_unknown"
    BY <1>5 DEF ApplyApplied, Goto
  <2>2. KindOf(pc', job.kind) = "rollback"
    BY <1>2, <2>1, KindsSeen
  <2>3. Sees
    BY <1>1, <1>2, <1>4, <2>1, <2>2, WorkerMovesSeen
  <2> QED
    BY <1>1, <1>2, <2>1, <2>3, WorkerSight DEF SeenGood
<1>6. CASE ~(ret.err \/ ret.cancelled \/ abort)
  <2>1. /\ SetState(Op, [rec[Op] EXCEPT !.ra = TRUE], "verifying", res)
        /\ pc' = IF res = "ok" THEN "a_verify" ELSE "r_start"
    BY <1>6 DEF ApplyApplied, Goto, EnterApplyPhase
  <2>2. KindOf(pc', job.kind) = IF res = "ok" THEN "verify" ELSE "rollback"
    BY <1>2, <2>1, KindsSeen
  <2>3. "verifying" \in States
    BY DEF States, UnfinishedStates
  <2>4. Sees
    BY <1>1, <1>2, <1>3, <1>4, <2>1, <2>2, <2>3, WorkerTurnsSeen
  <2> QED
    BY <1>1, <1>2, <2>1, <2>4, WorkerSight DEF SeenGood
<1> QED
  BY <1>5, <1>6

LEMMA ApplyVerifiedSeen ==
  ASSUME VInv, FInv', NEW res \in Results, ApplyVerified(res) PROVE SeenGood
<1>1. /\ pc = "a_verified" /\ pc' \in {"a_unknown", "exit", "r_start"} /\ job' = job
      /\ ctx' = "live"
  BY DEF ApplyVerified, Goto, Finish
<1>2. pc \in WorkerPcs /\ pc' \in WorkerPcs /\ FInv
  BY <1>1, WorkerPcsBusy DEF WorkerPcs, ReturnPcs, ApplyReturns, WorkerLocked, VInv
<1>3. job.kind = "apply" /\ rec[Op] \in Records /\ [rec[Op] EXCEPT !.ver = TRUE] \in Records
  BY <1>1, <1>2, WorkerKnows DEF Records, KindsAt, ApplyPcs, ApplyReturns
<1>4. KindOf(pc, job.kind) = "verify"
  BY <1>1, <1>2, KindsSeen
<1>5. CASE ret.err \/ ret.cancelled \/ abort \/ store # rec[Op].new
  <2>1. UNCHANGED <<jrn, rec>> /\ pc' = "a_unknown"
    BY <1>5 DEF ApplyVerified, Goto
  <2>2. KindOf(pc', job.kind) = "rollback"
    BY <1>2, <1>3, <2>1, KindsSeen
  <2>3. Sees
    BY <1>1, <1>2, <1>4, <2>1, <2>2, WorkerMovesSeen
  <2> QED
    BY <1>1, <1>2, <2>3, WorkerSight DEF SeenGood
<1>6. CASE ~(ret.err \/ ret.cancelled \/ abort \/ store # rec[Op].new)
  <2>1. /\ SetState(Op, [rec[Op] EXCEPT !.ver = TRUE], "confirmed", res)
        /\ pc' = IF res = "ok" THEN "exit" ELSE "r_start"
    BY <1>6 DEF ApplyVerified, Goto
  <2>2. KindOf(pc', job.kind) = IF res = "ok" THEN "done" ELSE "rollback"
    BY <1>2, <1>3, <2>1, KindsSeen
  <2>3. "confirmed" \in States
    BY DEF States, TerminalStates
  <2>4. Sees
    BY <1>1, <1>2, <1>3, <1>4, <2>1, <2>2, <2>3, WorkerTurnsSeen
  <2> QED
    BY <1>1, <1>2, <2>4, WorkerSight DEF SeenGood
<1> QED
  BY <1>5, <1>6

-----------------------------------------------------------------------------
(* The rollback worker *)

LEMMA RollbackPcsSeen ==
  /\ RollbackPcs \cup {"r_start", "u_check", "u_checked", "exit"} \subseteq WorkerPcs
  /\ {"r_check", "r_apply", "r_verify"} \subseteq HookPcs
  /\ {"r_start", "r_begin", "r_write", "r_save", "r_failed", "exit"}
        \cap (HookPcs \cup ReturnPcs) = {}
BY DEF WorkerPcs, HookPcs, ApplyHooks, RollbackHooks, ReturnPcs, ApplyReturns,
       RollbackReturns, WorkerLocked, RollbackPcs, RestorePcs

LEMMA RollbackStartSeen == ASSUME VInv, FInv', RollbackStart PROVE SeenGood
<1>1. /\ pc = "r_start" /\ pc' = "r_check" /\ job'.op = job.op /\ ctx' = "live"
      /\ rec' = rec /\ jrn' = jrn /\ job \in Jobs
      /\ job'.kind = IF job.kind = "apply" THEN "rollback" ELSE job.kind
  BY DEF RollbackStart, EnterRollbackPhase, Goto, Finish, durable, memory, VInv, FInv,
     IInv, TypeOK, Jobs
<1>2. pc \in WorkerPcs /\ pc' \in WorkerPcs /\ FInv
  BY <1>1, RollbackPcsSeen DEF VInv, RollbackPcs
<1>3. job.kind # "undo" /\ job'.kind # "undo"
  BY <1>1, <1>2, WorkerKnows DEF KindsAt
<1>4. KindOf(pc, job.kind) = "rollback" /\ KindOf(pc', job'.kind) = "rollback"
  BY <1>1, <1>2, <1>3, KindsSeen
<1>5. Sees
  BY <1>1, <1>2, <1>4, WorkerMovesSeen
<1> QED
  BY <1>1, <1>2, <1>5, WorkerSight DEF SeenGood

LEMMA RollbackCheckedSeen ==
  ASSUME VInv, FInv', NEW res \in Results, RollbackChecked(res) PROVE SeenGood
<1>1. pc = "r_checked" /\ pc' \in {"exit", "r_begin"} /\ job' = job /\ ctx' = "live"
  BY DEF RollbackChecked, Goto, Finish
<1>2. pc \in WorkerPcs /\ pc' \in WorkerPcs /\ FInv
  BY <1>1, RollbackPcsSeen DEF VInv, RollbackPcs
<1>3. job.kind # "undo" /\ rec[Op] \in Records
  BY <1>1, <1>2, WorkerKnows DEF KindsAt
<1>4. /\ KindOf(pc, job.kind) = "rollback"
      /\ pc' = "r_begin" => KindOf(pc', job.kind) = "rollback"
  BY <1>1, <1>2, <1>3, KindsSeen
<1>5. CASE ret.err
  <2>1. SetState(Op, rec[Op], "rollback_failed", res) /\ pc' = "exit"
    BY <1>5 DEF RollbackChecked, Goto
  <2>2. Sees
    BY <1>1, <1>2, <1>3, <1>4, <2>1, WorkerConcludesSeen DEF States, UnfinishedStates
  <2> QED
    BY <1>1, <1>2, <2>2, WorkerSight DEF SeenGood
<1>6. CASE ~ret.err
  <2>1. UNCHANGED <<jrn, rec>> /\ pc' = "r_begin"
    BY <1>6 DEF RollbackChecked, Goto
  <2>2. Sees
    BY <1>1, <1>2, <1>4, <2>1, WorkerMovesSeen
  <2> QED
    BY <1>1, <1>2, <2>2, WorkerSight DEF SeenGood
<1> QED
  BY <1>5, <1>6

LEMMA UndoCheckedSeen == ASSUME VInv, FInv', UndoChecked PROVE SeenGood
<1>1. /\ pc = "u_checked" /\ pc' \in {"exit", "r_begin"} /\ job' = job /\ ctx' = "live"
      /\ rec' = rec /\ jrn' = jrn
  BY DEF UndoChecked, Goto, Finish, durable, memory
<1>2. pc \in WorkerPcs /\ pc' \in WorkerPcs /\ FInv
  BY <1>1, RollbackPcsSeen DEF VInv, RollbackPcs
<1>3. job.kind = "undo"
  BY <1>1, <1>2, WorkerKnows DEF KindsAt
<1>4. /\ KindOf(pc, job.kind) = "undo"
      /\ pc' = "r_begin" => KindOf(pc', job.kind) = "undo"
      /\ pc' = "exit" => KindOf(pc', job.kind) = "done"
  BY <1>1, <1>2, <1>3, KindsSeen
<1>5. Sees
  BY <1>1, <1>2, <1>4, WorkerMovesSeen
<1> QED
  BY <1>1, <1>2, <1>5, WorkerSight DEF SeenGood

LEMMA RollbackBeginSeen ==
  ASSUME VInv, FInv', NEW res \in Results, RollbackBegin(res) PROVE SeenGood
<1>1. pc = "r_begin" /\ pc' \in {"exit", "r_write"} /\ job' = job /\ ctx' = ctx
  BY DEF RollbackBegin, Goto
<1>2. pc \in WorkerPcs /\ pc' \in WorkerPcs /\ FInv /\ ctx = "live"
  BY <1>1, RollbackPcsSeen DEF VInv, RollbackPcs, SightInv, PhaseCtx
<1>3. rec[Op] \in Records /\ [rec[Op] EXCEPT !.ver = FALSE] \in Records
  BY <1>1, <1>2, WorkerKnows DEF Records
<1>4. /\ KindOf(pc, job.kind) = IF job.kind = "undo" THEN "undo" ELSE "rollback"
      /\ pc' = "r_write" =>
            KindOf(pc', job.kind) = IF job.kind = "undo" THEN "undoing" ELSE "restore"
      /\ pc' = "exit" => KindOf(pc', job.kind) = "done"
  BY <1>1, <1>2, KindsSeen
<1>5. CASE store = rec[Op].new \/ (store = rec[Op].old /\ job.kind # "undo")
  <2>1. /\ SetState(Op, [rec[Op] EXCEPT !.ver = FALSE], "rolling_back", res)
        /\ pc' = IF res # "ok" /\ job.kind = "undo" THEN "exit" ELSE "r_write"
    BY <1>5 DEF RollbackBegin, Goto
  <2>2. "rolling_back" \in States
    BY DEF States, UnfinishedStates
  <2>3. ASSUME job.kind = "undo" PROVE Sees
    BY <1>1, <1>2, <1>3, <1>4, <2>1, <2>2, <2>3, WorkerTurnsSeen
  <2>4. ASSUME job.kind # "undo" PROVE Sees
    BY <1>1, <1>2, <1>3, <1>4, <2>1, <2>2, <2>4, WorkerTurnsSeen
  <2> QED
    BY <1>1, <1>2, <2>3, <2>4, WorkerSight DEF SeenGood
<1>6. CASE ~(store = rec[Op].new \/ (store = rec[Op].old /\ job.kind # "undo"))
  <2>1. /\ pc' = "exit"
        /\ IF job.kind = "undo" THEN UNCHANGED <<jrn, rec>>
                                ELSE SetState(Op, rec[Op], "rollback_failed", res)
    BY <1>6 DEF RollbackBegin, Goto
  <2>2. "rollback_failed" \in States
    BY DEF States, UnfinishedStates
  <2>3. ASSUME job.kind = "undo" PROVE Sees
    BY <1>1, <1>2, <1>4, <2>1, <2>3, WorkerMovesSeen
  <2>4. ASSUME job.kind # "undo" PROVE Sees
    BY <1>1, <1>2, <1>3, <1>4, <2>1, <2>2, <2>4, WorkerConcludesSeen
  <2> QED
    BY <1>1, <1>2, <2>1, <2>3, <2>4, WorkerSight DEF SeenGood
<1> QED
  BY <1>5, <1>6

LEMMA RollbackWriteSeen ==
  ASSUME VInv, FInv', NEW res \in Results, RollbackWrite(res) PROVE SeenGood
<1>1. /\ pc = "r_write" /\ pc' \in {"r_save", "r_failed"} /\ job' = job /\ ctx' = ctx
      /\ jrn' = jrn
      /\ rec' = rec \/ rec' = [rec EXCEPT ![Op].sp = FALSE]
  BY DEF RollbackWrite, Goto
<1>2. pc \in WorkerPcs /\ pc' \in WorkerPcs /\ FInv /\ ctx = "live"
  BY <1>1, RollbackPcsSeen DEF VInv, RollbackPcs, RestorePcs, SightInv, PhaseCtx
<1>3. Op \in Ops /\ rec \in [Ops -> Records]
  BY <1>2, WorkerKnows DEF TypeOK
<1>4. KindOf(pc', job.kind) = KindOf(pc, job.kind)
  BY <1>1, <1>2, KindsSeen DEF RestorePcs
<1>5. \A o \in Ops : rec'[o].state = rec[o].state
  BY <1>1, <1>3 DEF Records
<1>6. Sees
  BY <1>1, <1>2, <1>4, <1>5, WorkerMovesSeen
<1> QED
  BY <1>1, <1>2, <1>6, WorkerSight DEF SeenGood

\* An undo that lost a race restores the history it started from.
LEMMA RollbackConflictSeen ==
  ASSUME VInv, FInv', NEW res \in Results, RollbackConflict(res) PROVE SeenGood
<1>1. pc = "r_write" /\ pc' = "exit" /\ job' = job /\ ctx' = ctx
  BY DEF RollbackConflict, Goto
<1>2. pc \in WorkerPcs /\ pc' \in WorkerPcs /\ FInv /\ ctx = "live"
  BY <1>1, RollbackPcsSeen DEF VInv, RollbackPcs, RestorePcs, SightInv, PhaseCtx
<1>3. Op \in Ops /\ TypeOK /\ rec[Op] \in Records /\ job \in Jobs
  BY <1>2, WorkerKnows
<1>4. /\ KindOf(pc, job.kind) = IF job.kind = "undo" THEN "undoing" ELSE "restore"
      /\ KindOf(pc', job.kind) = "done"
  BY <1>1, <1>2, KindsSeen DEF RestorePcs
<1>5. ASSUME job.kind # "undo" PROVE Sees
  <2>1. SetState(Op, rec[Op], "rollback_failed", res)
    BY <1>5 DEF RollbackConflict
  <2> QED
    BY <1>1, <1>2, <1>3, <1>4, <1>5, <2>1, WorkerConcludesSeen DEF States, UnfinishedStates
<1>6. ASSUME job.kind = "undo" PROVE Sees
  <2>1. /\ (jrn' = jrn /\ res # "ok") \/ jrn' = [jrn EXCEPT ![Op] = job.orig]
        /\ rec' = [rec EXCEPT ![Op] =
              IF res = "ok" THEN job.orig
              ELSE [job.orig EXCEPT !.state = "outcome_unknown", !.ver = FALSE]]
    BY <1>6 DEF RollbackConflict, WriteJournal
  <2>2. job.orig \in Records /\ job.orig.state = "confirmed"
    BY <1>2, <1>3, <1>6 DEF FInv, ControlInv, Undoing, Jobs
  <2>3. [job.orig EXCEPT !.state = "outcome_unknown", !.ver = FALSE].state
           = "outcome_unknown"
    BY <2>2 DEF Records
  <2>4. PICK u : /\ rec' = [rec EXCEPT ![Op] = u]
                 /\ u.state = IF res = "ok" THEN "confirmed" ELSE "outcome_unknown"
    BY <2>1, <2>2, <2>3
  <2>5. /\ SeenMem = [o \in Ops |-> rec[o].state]
        /\ SeenMem' = [o \in Ops |-> rec'[o].state]
        /\ SeenWorker = [op |-> Op, kind |-> "undoing"]
        /\ SeenWorker' = [op |-> Op, kind |-> "done"]
        /\ UNCHANGED Served
    BY <1>1, <1>2, <1>4, <1>6, WorkerSeen, WorkerSeenNext DEF WorkerShows, Op
  <2>6. SeenMem' = [SeenMem EXCEPT ![Op] = IF res = "ok" THEN "confirmed"
                                                         ELSE "outcome_unknown"]
    BY <1>3, <2>4, <2>5 DEF TypeOK
  <2>7. \/ SeenJrn' = [SeenJrn EXCEPT ![Op] = "confirmed"]
        \/ res # "ok" /\ SeenJrn' = SeenJrn
    BY <1>3, <2>1, <2>2 DEF TypeOK, SeenJrn
  <2>8. View!Record(Op, "confirmed", res = "ok")
    BY <2>6, <2>7 DEF View!Record, SeenMem, SeenJrn
  <2>9. SeenWorker' = [SeenWorker EXCEPT !.kind = "done"] /\ SeenWorker.op = Op
        /\ SeenWorker.kind = "undoing"
    BY <2>5
  <2>10. "undoing" \in DOMAIN View!Conclusions
         /\ "confirmed" \in View!Conclusions["undoing"]
    BY DEF View!Conclusions
  <2>11. View!Conclude("confirmed", res = "ok")
    BY <2>5, <2>8, <2>9, <2>10
       DEF View!Conclude, View!Works, View!Become, SeenMem, SeenJrn, SeenWorker
  <2>12. View!Recording(res = "ok") /\ (res = "ok") \in BOOLEAN
    BY <2>11, ViewStates DEF View!Recording, States, TerminalStates
  <2> QED
    BY <2>12 DEF Sees, View!Next, View!Work
<1> QED
  BY <1>1, <1>2, <1>5, <1>6, WorkerSight DEF SeenGood

LEMMA RollbackFailedSeen ==
  ASSUME VInv, FInv', NEW res \in Results, RollbackFailed(res) PROVE SeenGood
<1>1. /\ pc = "r_failed" /\ pc' = "exit" /\ job' = job /\ ctx' = ctx
      /\ SetState(Op, rec[Op], "rollback_failed", res)
  BY DEF RollbackFailed, Goto
<1>2. pc \in WorkerPcs /\ pc' \in WorkerPcs /\ FInv /\ ctx = "live"
  BY <1>1, RollbackPcsSeen DEF VInv, RollbackPcs, RestorePcs, SightInv, PhaseCtx
<1>3. KindOf(pc, job.kind) \in {"undoing", "restore"} /\ rec[Op] \in Records
  BY <1>1, <1>2, KindsSeen, WorkerKnows DEF RestorePcs
<1>4. Sees
  BY <1>1, <1>2, <1>3, WorkerConcludesSeen DEF States, UnfinishedStates
<1> QED
  BY <1>1, <1>2, <1>4, WorkerSight DEF SeenGood

\* The save after the Store was written back may complete one that failed.
LEMMA RollbackSaveSeen ==
  ASSUME VInv, FInv', NEW res \in Results, RollbackSave(res) PROVE SeenGood
<1>1. /\ pc = "r_save" /\ pc' \in {"r_verify", "r_apply"} /\ job' = job /\ ctx' = "live"
      /\ rec' = [rec EXCEPT ![Op] = rec[Op]]
      /\ jrn' = jrn \/ jrn' = [jrn EXCEPT ![Op] = rec[Op]]
  BY DEF RollbackSave, Goto, EnterRollbackPhase, Finish, Save, WriteJournal
<1>2. pc \in WorkerPcs /\ pc' \in WorkerPcs /\ FInv
  BY <1>1, RollbackPcsSeen DEF VInv, RollbackPcs, RestorePcs
<1>3. Op \in Ops /\ TypeOK
  BY <1>2, WorkerKnows
<1>4. KindOf(pc', job.kind) = KindOf(pc, job.kind)
  BY <1>1, <1>2, KindsSeen DEF RestorePcs
<1>5. /\ SeenMem = [o \in Ops |-> rec[o].state]
      /\ SeenMem' = [o \in Ops |-> rec'[o].state]
      /\ SeenWorker = [op |-> Op, kind |-> KindOf(pc, job.kind)]
      /\ SeenWorker' = [op |-> Op, kind |-> KindOf(pc', job.kind)]
      /\ UNCHANGED Served /\ Op # None
  BY <1>1, <1>2, WorkerSeen, WorkerSeenNext DEF WorkerShows, Op
<1>6. SeenMem' = SeenMem /\ SeenMem[Op] = rec[Op].state /\ SeenWorker' = SeenWorker
      /\ SeenWorker.op = Op
  BY <1>1, <1>3, <1>4, <1>5 DEF TypeOK
<1>7. CASE jrn' = jrn
  <2>1. Sees
    BY <1>5, <1>6, <1>7, StuttersSeen DEF SeenJrn
  <2> QED
    BY <1>1, <1>2, <2>1, WorkerSight DEF SeenGood
<1>8. CASE jrn' = [jrn EXCEPT ![Op] = rec[Op]]
  <2>1. SeenJrn' = [SeenJrn EXCEPT ![Op] = rec[Op].state]
    BY <1>3, <1>8 DEF SeenJrn, TypeOK
  <2>2. View!Resave
    BY <1>5, <1>6, <2>1 DEF View!Resave, SeenMem, SeenJrn, SeenWorker
  <2>3. Sees
    BY <2>2 DEF Sees, View!Next, View!Work
  <2> QED
    BY <1>1, <1>2, <2>3, WorkerSight DEF SeenGood
<1> QED
  BY <1>1, <1>7, <1>8

LEMMA RollbackAppliedSeen ==
  ASSUME VInv, FInv', NEW res \in Results, RollbackApplied(res) PROVE SeenGood
<1>1. pc = "r_applied" /\ pc' \in {"exit", "r_verify"} /\ job' = job /\ ctx' = "live"
  BY DEF RollbackApplied, Goto, Finish, EnterRollbackPhase
<1>2. pc \in WorkerPcs /\ pc' \in WorkerPcs /\ FInv
  BY <1>1, RollbackPcsSeen DEF VInv, RollbackPcs, RestorePcs
<1>3. /\ KindOf(pc, job.kind) \in {"undoing", "restore"} /\ rec[Op] \in Records
      /\ pc' = "r_verify" => KindOf(pc', job.kind) = KindOf(pc, job.kind)
  BY <1>1, <1>2, KindsSeen, WorkerKnows DEF RestorePcs
<1>4. ASSUME ret.err PROVE Sees
  <2>1. SetState(Op, rec[Op], "rollback_failed", res) /\ pc' = "exit"
    BY <1>4 DEF RollbackApplied, Goto
  <2> QED
    BY <1>1, <1>2, <1>3, <2>1, WorkerConcludesSeen DEF States, UnfinishedStates
<1>5. ASSUME ~ret.err PROVE Sees
  <2>1. UNCHANGED <<jrn, rec>> /\ pc' = "r_verify"
    BY <1>5 DEF RollbackApplied, Goto, EnterRollbackPhase
  <2> QED
    BY <1>1, <1>2, <1>3, <2>1, WorkerMovesSeen
<1> QED
  BY <1>1, <1>2, <1>4, <1>5, WorkerSight DEF SeenGood

LEMMA RollbackVerifiedSeen ==
  ASSUME VInv, FInv', NEW res \in Results, RollbackVerified(res) PROVE SeenGood
<1> DEFINE r == [rec[Op] EXCEPT !.ra = FALSE, !.needs = FALSE, !.ver = TRUE]
<1>1. /\ pc = "r_verified" /\ pc' = "exit" /\ job' = job /\ ctx' = "live"
      /\ \/ SetState(Op, rec[Op], "rollback_failed", res)
         \/ SetState(Op, r, "rolled_back", res)
  BY DEF RollbackVerified, Goto, Finish
<1>2. pc \in WorkerPcs /\ pc' \in WorkerPcs /\ FInv
  BY <1>1, RollbackPcsSeen DEF VInv, RollbackPcs, RestorePcs
<1>3. KindOf(pc, job.kind) \in {"undoing", "restore"} /\ rec[Op] \in Records /\ r \in Records
  <2>1. KindOf(pc, job.kind) \in {"undoing", "restore"}
    BY <1>1, <1>2, KindsSeen DEF RestorePcs
  <2>2. rec[Op] \in Records
    BY <1>2, WorkerKnows
  <2>3. r \in Records
    BY <2>2 DEF Records
  <2> QED
    BY <2>1, <2>2, <2>3
<1> HIDE DEF r
<1>4. "rollback_failed" \in States /\ "rolled_back" \in States
  BY DEF States, UnfinishedStates, TerminalStates
<1>5. CASE SetState(Op, rec[Op], "rollback_failed", res)
  BY <1>1, <1>2, <1>3, <1>4, <1>5, WorkerConcludesSeen, WorkerSight DEF SeenGood
<1>6. CASE SetState(Op, r, "rolled_back", res)
  BY <1>1, <1>2, <1>3, <1>4, <1>6, WorkerConcludesSeen, WorkerSight DEF SeenGood
<1> QED
  BY <1>1, <1>5, <1>6

LEMMA WorkerExitSeen == ASSUME VInv, FInv', WorkerExit PROVE SeenGood
<1>1. pc = "exit" /\ pc' = "idle" /\ ctx' = "live" /\ jrn' = jrn
  BY DEF WorkerExit, PowerOff, Idle, Goto, Finish, durable
<1>2. pc \in WorkerPcs /\ pc' \notin WorkerPcs /\ pc' \notin PrepPcs /\ FInv
  BY <1>1, RollbackPcsSeen, PcsKnown DEF VInv
<1>3. /\ Served = TRUE /\ SeenMem = [o \in Ops |-> rec[o].state]
      /\ SeenWorker = [op |-> Op, kind |-> "done"]
      /\ proc \in {"attached", "closing"}
  BY <1>1, <1>2, WorkerSeen, KindsSeen DEF WorkerShows
<1>4. SeenWorker' = View!NoWorker /\ SeenJrn' = SeenJrn
  BY <1>1, <1>2 DEF SeenWorker, Running, View!NoWorker, SeenJrn
<1>5. CASE proc = "closing"
  <2>1. proc' = "down"
    BY <1>5 DEF WorkerExit, PowerOff
  <2>2. View!Crash
    BY <1>3, <1>4, <2>1
       DEF View!Crash, View!Down, Served, SeenMem, SeenJrn, SeenWorker
  <2>3. SightInv'
    BY <1>1, <2>1, PcsKnown
       DEF SightInv, Opened, OpenReads, OwedRecovery, PhaseCtx, FirstPhase, FirstWrite, OpenPcs
  <2> QED
    BY <2>2, <2>3 DEF SeenGood, Sees, View!Next
<1>6. CASE proc # "closing"
  <2>1. proc' = proc /\ rec' = rec /\ proc = "attached"
    BY <1>3, <1>6 DEF WorkerExit
  <2>2. Served' = TRUE /\ SeenMem' = SeenMem
    BY <1>2, <1>3, <2>1 DEF Served, SeenMem, Reserving, PrepPcs
  <2>3. View!Exit
    BY <1>3, <1>4, <2>2
       DEF View!Exit, View!Works, SeenMem, SeenJrn, SeenWorker
  <2>4. SightInv'
    BY <1>1, <2>1, PcsKnown
       DEF SightInv, Opened, OpenReads, OwedRecovery, PhaseCtx, FirstPhase, FirstWrite, OpenPcs
  <2> QED
    BY <2>3, <2>4 DEF SeenGood, Sees, View!Next, View!Work
<1> QED
  BY <1>5, <1>6

-----------------------------------------------------------------------------
(* Start and stop of the process *)

\* Nobody is served.
DarkShows == /\ Served = FALSE /\ SeenMem = [o \in Ops |-> "absent"]
             /\ SeenWorker = View!NoWorker

LEMMA DarkSeen == proc \in {"down", "opening"} /\ pc \notin WorkerPcs => DarkShows
BY DEF DarkShows, Served, SeenMem, SeenWorker, Running, View!NoWorker

LEMMA DarkSeenNext == proc' \in {"down", "opening"} /\ pc' \notin WorkerPcs => DarkShows'
<1>1. (proc \in {"down", "opening"} /\ pc \notin WorkerPcs => DarkShows)'
  BY DarkSeen, PTL
<1> QED
  BY <1>1

\* The engine serves, and nobody works for an operation.
FreeShows == /\ Served = TRUE /\ SeenMem = [o \in Ops |-> rec[o].state]
             /\ SeenWorker = View!NoWorker

LEMMA FreeSeen ==
  proc \notin {"down", "opening"} /\ pc \notin WorkerPcs \cup PrepPcs => FreeShows
BY DEF FreeShows, Served, SeenMem, SeenWorker, Running, View!NoWorker, Reserving, PrepPcs

LEMMA FreeSeenNext ==
  proc' \notin {"down", "opening"} /\ pc' \notin WorkerPcs \cup PrepPcs => FreeShows'
<1>1. (proc \notin {"down", "opening"} /\ pc \notin WorkerPcs \cup PrepPcs => FreeShows)'
  BY FreeSeen, PTL
<1> QED
  BY <1>1

LEMMA FreeSight ==
  ASSUME pc' \notin WorkerPcs \cup OpenPcs, ctx' = "live", proc' # "opening", OwedRecovery'
  PROVE  SightInv'
<1>1. {"a_check", "a_checked", "a_write", "a_save"} \subseteq WorkerPcs
  BY WorkerPcsBusy DEF WorkerPcs, HookPcs, ApplyHooks, ReturnPcs, ApplyReturns, WorkerLocked
<1> QED
  BY <1>1 DEF SightInv, Opened, OpenReads, PhaseCtx, FirstPhase, FirstWrite

LEMMA PowerOffSeen == ASSUME PowerOff PROVE SightInv' /\ DarkShows'
<1>1. pc' = "idle" /\ ctx' = "live" /\ proc' = "down"
  BY DEF PowerOff, Idle, Goto, Finish
<1>2. pc' \notin WorkerPcs \cup OpenPcs
  BY <1>1, PcsKnown DEF OpenPcs
<1> QED
  BY <1>1, <1>2, FreeSight, DarkSeenNext DEF OwedRecovery

\* The process stops while it serves: whatever was in memory is gone.
LEMMA StopsSeen ==
  ASSUME Served = TRUE, PowerOff, jrn' = jrn PROVE Sees
<1>1. DarkShows' /\ SeenJrn' = SeenJrn
  BY PowerOffSeen DEF SeenJrn
<1>2. View!Crash
  BY <1>1 DEF DarkShows, View!Crash, View!Down, SeenMem, SeenJrn, SeenWorker
<1> QED
  BY <1>2 DEF Sees, View!Next

LEMMA CrashSeen == ASSUME VInv, Crash PROVE SeenGood
<1>1. PowerOff /\ jrn' = jrn /\ proc # "down" /\ pc \in Pcs
  BY DEF Crash, durable, VInv, FInv, IInv, TypeOK
<1>2. CASE Served
  <2>1. Served = TRUE
    BY <1>2 DEF Served
  <2> QED
    BY <1>1, <2>1, StopsSeen, PowerOffSeen DEF SeenGood
<1>3. CASE ~Served
  <2>1. proc = "opening" /\ pc \notin WorkerPcs
    BY <1>1, <1>3, PcsKnown DEF Served, VInv, SightInv, Opened
  <2>2. DarkShows /\ DarkShows' /\ SeenJrn' = SeenJrn
    BY <1>1, <2>1, DarkSeen, PowerOffSeen DEF SeenJrn
  <2> QED
    BY <1>1, <2>2, PowerOffSeen, StuttersSeen DEF SeenGood, DarkShows
<1> QED
  BY <1>2, <1>3

\* Open without unfinished work serves what the journal says.
LEMMA OpenCleanSeen == ASSUME VInv, OpenClean PROVE SeenGood
<1>1. /\ proc = "down" /\ proc' = "open" /\ rec' = jrn
      /\ UNCHANGED <<jrn, pc, active, ctx>> /\ \A o \in Ops : ~Unfinished(jrn[o])
  BY DEF OpenClean, durable, thread
<1>2. pc = "idle" /\ active = None /\ ctx = "live" /\ pc \notin WorkerPcs \cup PrepPcs \cup OpenPcs
  <2>1. pc = "idle" /\ pc \notin WorkerPcs \cup PrepPcs \cup OpenPcs
    BY <1>1, PcsKnown DEF VInv, FInv, IInv, DownIsIdle
  <2>2. active = None
    BY <1>1, <2>1 DEF VInv, FInv, ControlInv, GateUsed
  <2> QED
    BY <2>1, <2>2, RollbackPcsSeen, PcsKnown DEF VInv, SightInv, PhaseCtx, WorkerPcs
<1>3. DarkShows /\ FreeShows' /\ SeenJrn' = SeenJrn
  BY <1>1, <1>2, DarkSeen, FreeSeenNext DEF SeenJrn
<1>4. SeenMem' = SeenJrn /\ \A o \in Ops : ~View!Unfinished(SeenJrn[o])
  BY <1>1, <1>3 DEF FreeShows, SeenJrn, View!Unfinished, View!UnfinishedStates, Unfinished,
     UnfinishedStates
<1>5. View!Open
  BY <1>3, <1>4 DEF View!Open, DarkShows, FreeShows, SeenMem, SeenJrn, SeenWorker
<1>6. SightInv'
  BY <1>1, <1>2, FreeSight DEF OwedRecovery
<1> QED
  BY <1>5, <1>6 DEF SeenGood, Sees, View!Next

LEMMA OpenRecoverSeen == ASSUME VInv, NEW o \in Ops, OpenRecover(o) PROVE SeenGood
<1>1. /\ proc = "down" /\ proc' = "opening" /\ rec' = jrn /\ jrn' = jrn
      /\ pc' = "o_save" /\ ctx' = ctx /\ pc = "idle"
  BY DEF OpenRecover, durable, Goto, VInv, FInv, IInv, DownIsIdle
<1>2. /\ pc \notin WorkerPcs /\ pc' \notin WorkerPcs /\ pc' \in OpenPcs
      /\ "o_save" \notin {"a_check", "a_checked", "a_write", "a_save"}
      /\ ctx = "live"
  BY <1>1, PcsKnown DEF OpenPcs, VInv, SightInv, PhaseCtx, WorkerPcs
<1>3. UNCHANGED <<Served, SeenMem, SeenWorker, SeenJrn>>
  BY <1>1, <1>2, DarkSeen, DarkSeenNext DEF DarkShows, SeenJrn
<1>4. SightInv'
  BY <1>1, <1>2 DEF SightInv, Opened, OpenReads, OwedRecovery, PhaseCtx, FirstPhase,
     FirstWrite
<1> QED
  BY <1>3, <1>4, StuttersSeen DEF SeenGood

\* While Open is at work nobody is served, and its intent is not recorded
\* for anybody else.
LEMMA OpenSees ==
  ASSUME VInv, pc \in OpenPcs
  PROVE  /\ Op \in Ops /\ TypeOK /\ rec[Op] \in Records /\ active = Op
         /\ proc = "opening" /\ DarkShows /\ ctx = "live"
         /\ Unfinished(rec[Op]) /\ rec[Op].state = jrn[Op].state
         /\ pc \notin WorkerPcs
<1>1. /\ Op \in Ops /\ TypeOK /\ rec[Op] \in Records /\ proc = "opening"
      /\ Unfinished(rec[Op])
  BY OpenKnows DEF VInv
<1>2. active = Op /\ rec[Op].state = jrn[Op].state
  BY <1>1 DEF VInv, FInv, IInv, LeaseHeld, OpenPcs, SightInv, OpenReads
<1>3. pc \notin WorkerPcs
  BY PcsKnown
<1>4. pc \notin HookPcs \cup ReturnPcs
  BY <1>3 DEF WorkerPcs
<1> QED
  BY <1>1, <1>2, <1>3, <1>4, DarkSeen DEF VInv, SightInv, PhaseCtx

\* Open gives up, perhaps after it has journalled its intent.
LEMMA OpenStopsSeen ==
  ASSUME VInv, pc \in OpenPcs, PowerOff, NEW r \in Records, r.state = "rolling_back",
         jrn' = jrn \/ jrn' = [jrn EXCEPT ![Op] = r]
  PROVE  SeenGood
<1>1. /\ Op \in Ops /\ TypeOK /\ DarkShows /\ Unfinished(rec[Op])
      /\ rec[Op].state = jrn[Op].state
  BY OpenSees
<1>2. SightInv' /\ DarkShows'
  BY PowerOffSeen
<1>3. CASE jrn' = jrn
  BY <1>1, <1>2, <1>3, StuttersSeen DEF SeenGood, DarkShows, SeenJrn
<1>4. CASE jrn' = [jrn EXCEPT ![Op] = r]
  <2>1. SeenJrn' = [SeenJrn EXCEPT ![Op] = "rolling_back"]
    BY <1>1, <1>4 DEF TypeOK, SeenJrn
  <2>2. View!Unfinished(SeenJrn[Op])
    BY <1>1 DEF SeenJrn, View!Unfinished, View!UnfinishedStates, Unfinished, UnfinishedStates
  <2>5. PICK q \in Ops : q = Op
    BY <1>1
  <2>3. View!OpenIntent(q)
    BY <1>1, <1>2, <2>1, <2>2, <2>5
       DEF View!OpenIntent, DarkShows, SeenMem, SeenJrn, SeenWorker
  <2>4. Sees
    BY <2>3, OperationSees
  <2> QED
    BY <1>2, <2>4 DEF SeenGood
<1> QED
  BY <1>3, <1>4

LEMMA OpenSaveSeen == ASSUME VInv, NEW res \in Results, OpenSave(res) PROVE SeenGood
<1> DEFINE r == [rec[Op] EXCEPT !.state = "rolling_back", !.needs = TRUE, !.ra = FALSE,
                                !.ver = FALSE]
<1>1. pc = "o_save" /\ pc \in OpenPcs
  BY DEF OpenSave, OpenPcs
<1>2. /\ Op \in Ops /\ TypeOK /\ rec[Op] \in Records /\ DarkShows /\ proc = "opening"
      /\ Unfinished(rec[Op]) /\ rec[Op].state = jrn[Op].state /\ ctx = "live"
  BY <1>1, OpenSees
<1>3. r \in Records /\ r.state = "rolling_back"
  BY <1>2 DEF Records, States, UnfinishedStates
<1>4. CASE res = "ok"
  <2>1. /\ rec' = [rec EXCEPT ![Op] = r] /\ jrn' = [jrn EXCEPT ![Op] = r]
        /\ pc' = "o_write" /\ UNCHANGED <<proc, active, job, ctx>>
    BY <1>4 DEF OpenSave, Save, WriteJournal, Goto
  <2> HIDE DEF r
  <2>2. pc' \in OpenPcs /\ pc' \notin WorkerPcs
    BY <2>1, PcsKnown DEF OpenPcs
  <2>3. SightInv'
    BY <1>1, <1>2, <1>3, <2>1, <2>2
       DEF SightInv, Opened, OpenReads, OwedRecovery, PhaseCtx, FirstPhase, FirstWrite,
           VInv, TypeOK, Op
  <2>4. DarkShows'
    BY <1>2, <2>1, <2>2, DarkSeenNext
  <2>5. SeenJrn' = [SeenJrn EXCEPT ![Op] = "rolling_back"]
    BY <1>2, <1>3, <2>1 DEF TypeOK, SeenJrn
  <2>6. View!Unfinished(SeenJrn[Op])
    BY <1>2 DEF SeenJrn, View!Unfinished, View!UnfinishedStates, Unfinished, UnfinishedStates
  <2>9. PICK q \in Ops : q = Op
    BY <1>2
  <2>7. View!OpenIntent(q)
    BY <1>2, <2>4, <2>5, <2>6, <2>9
       DEF View!OpenIntent, DarkShows, SeenMem, SeenJrn, SeenWorker
  <2>8. Sees
    BY <2>7, OperationSees
  <2> QED
    BY <2>3, <2>8 DEF SeenGood
<1>5. CASE res # "ok"
  <2>1. PowerOff /\ (jrn' = jrn \/ jrn' = [jrn EXCEPT ![Op] = r])
    BY <1>5 DEF OpenSave, WriteJournal
  <2> HIDE DEF r
  <2> QED
    BY <1>1, <1>3, <2>1, OpenStopsSeen
<1> QED
  BY <1>4, <1>5

LEMMA OpenWriteSeen == ASSUME VInv, NEW res \in Results, OpenWrite(res) PROVE SeenGood
<1>1. pc = "o_write" /\ pc \in OpenPcs /\ jrn' = jrn
  BY DEF OpenWrite, OpenPcs
<1>2. /\ Op \in Ops /\ TypeOK /\ rec[Op] \in Records /\ DarkShows /\ proc = "opening"
      /\ ctx = "live" /\ rec[Op].state = "rolling_back"
  BY <1>1, OpenSees DEF VInv, SightInv, OpenReads
<1>3. PowerOff \/ (pc' = "o_saved" /\ UNCHANGED <<proc, rec, active, job, ctx>>)
  BY DEF OpenWrite, Goto
<1>4. CASE PowerOff
  BY <1>1, <1>2, <1>4, OpenStopsSeen
<1>5. CASE pc' = "o_saved" /\ UNCHANGED <<proc, rec, active, job, ctx>>
  <2>1. pc' \in OpenPcs /\ pc' \notin WorkerPcs
    BY <1>5, PcsKnown DEF OpenPcs
  <2>2. SightInv'
    BY <1>1, <1>2, <1>5, <2>1
       DEF SightInv, Opened, OpenReads, OwedRecovery, PhaseCtx, FirstPhase, FirstWrite,
           VInv, Op
  <2>3. DarkShows'
    BY <1>2, <1>5, <2>1, DarkSeenNext
  <2> QED
    BY <1>1, <1>2, <2>2, <2>3, StuttersSeen DEF SeenGood, DarkShows, SeenJrn
<1> QED
  BY <1>3, <1>4, <1>5

\* The last write of Open: from now on the engine serves what it read.
LEMMA OpenSavedSeen == ASSUME VInv, NEW res \in Results, OpenSaved(res) PROVE SeenGood
<1> DEFINE r == [rec[Op] EXCEPT !.sp = FALSE]
<1>1. pc = "o_saved" /\ pc \in OpenPcs
  BY DEF OpenSaved, OpenPcs
<1>2. /\ Op \in Ops /\ TypeOK /\ rec[Op] \in Records /\ DarkShows /\ proc = "opening"
      /\ ctx = "live" /\ rec[Op].state = "rolling_back" /\ active = Op
      /\ \A o \in Ops : rec[o].state = jrn[o].state
  BY <1>1, OpenSees DEF VInv, SightInv, OpenReads
<1>3. r \in Records /\ r.state = "rolling_back"
  BY <1>2 DEF Records
<1>4. CASE res = "ok"
  <2>1. /\ rec' = [rec EXCEPT ![Op] = r] /\ jrn' = [jrn EXCEPT ![Op] = r]
        /\ pc' = "idle" /\ proc' = "open" /\ active' = active /\ ctx' = "live"
    BY <1>4 DEF OpenSaved, Save, WriteJournal, Goto, Idle, Finish
  <2> HIDE DEF r
  <2>2. pc' \notin WorkerPcs \cup PrepPcs \cup OpenPcs
    BY <2>1, PcsKnown DEF OpenPcs
  <2>3. OwedRecovery'
    BY <1>2, <1>3, <2>1 DEF OwedRecovery, TypeOK
  <2>4. SightInv'
    BY <2>1, <2>2, <2>3, FreeSight
  <2>5. FreeShows'
    BY <2>1, <2>2, FreeSeenNext
  <2>6. \A o \in Ops : rec'[o].state = jrn[o].state /\ jrn'[o].state = jrn[o].state
    BY <1>2, <1>3, <2>1 DEF TypeOK
  <2>7. SeenMem' = SeenJrn /\ SeenJrn' = SeenJrn
    BY <2>5, <2>6 DEF FreeShows, SeenJrn
  <2>8. \A o \in Ops : View!Unfinished(SeenJrn[o]) => SeenJrn[o] = "rolling_back"
    <3>1. \A o \in Ops : Unfinished(jrn[o]) => o = Op
      BY <1>2 DEF VInv, FInv, IInv, SingleUnfinished, Unfinished, UnfinishedStates
    <3> QED
      BY <1>2, <3>1 DEF SeenJrn, View!Unfinished, View!UnfinishedStates, Unfinished,
         UnfinishedStates
  <2>9. View!Open
    BY <1>2, <2>5, <2>7, <2>8
       DEF View!Open, DarkShows, FreeShows, SeenMem, SeenJrn, SeenWorker
  <2> QED
    BY <2>4, <2>9 DEF SeenGood, Sees, View!Next
<1>5. CASE res # "ok"
  <2>1. PowerOff /\ (jrn' = jrn \/ jrn' = [jrn EXCEPT ![Op] = r])
    BY <1>5 DEF OpenSaved, WriteJournal
  <2> HIDE DEF r
  <2> QED
    BY <1>1, <1>3, <2>1, OpenStopsSeen
<1> QED
  BY <1>4, <1>5

\* Nobody works, and e.mu is free.
LEMMA FreeKnows ==
  ASSUME VInv, LockFree, ~Running, proc \notin {"down", "opening"}
  PROVE  /\ pc = "idle" /\ ctx = "live" /\ FreeShows /\ TypeOK /\ FInv
         /\ pc \notin WorkerPcs \cup PrepPcs \cup OpenPcs
         /\ GateHeld /\ rec \in [Ops -> Records] /\ jrn \in [Ops -> Records]
         /\ \A o \in Ops : SeenMem[o] = rec[o].state
<1>1. /\ pc = "idle" /\ TypeOK /\ GateHeld /\ rec \in [Ops -> Records] /\ FInv
      /\ jrn \in [Ops -> Records]
  BY LockFreePcs DEF VInv, FInv, IInv, TypeOK
<1>2. pc \notin WorkerPcs \cup PrepPcs \cup OpenPcs
  BY <1>1, PcsKnown DEF OpenPcs
<1>3. FreeShows
  BY <1>2, FreeSeen
<1> QED
  BY <1>1, <1>2, <1>3 DEF VInv, SightInv, PhaseCtx, WorkerPcs, FreeShows

\* AttachRuntime: a recovery that Open began gets its worker.
LEMMA AttachSeen == ASSUME VInv, FInv', AttachRuntime PROVE SeenGood
<1>1. /\ proc = "open" /\ proc' = "attached" /\ LockFree /\ ~Running
      /\ UNCHANGED <<rec, jrn, active, ctx>>
  <2>1. proc = "open" /\ proc' = "attached" /\ LockFree /\ UNCHANGED <<rec, jrn, active, ctx>>
    BY DEF AttachRuntime, durable
  <2>2. ~Running
    BY <2>1 DEF VInv, FInv, ControlInv, Leased, Running
  <2> QED
    BY <2>1, <2>2
<1>2. /\ pc = "idle" /\ ctx = "live" /\ FreeShows /\ TypeOK
      /\ pc \notin WorkerPcs \cup PrepPcs \cup OpenPcs
      /\ \A o \in Ops : SeenMem[o] = rec[o].state
  BY <1>1, FreeKnows
<1>3. SeenJrn' = SeenJrn
  BY <1>1 DEF SeenJrn
<1>4. CASE active # None /\ rec[active].needs
  <2>1. PICK o \in Ops : o = active
    BY <1>2, <1>4 DEF TypeOK
  <2>2. Launch(o, "recovery", "r_start")
    BY <1>4, <2>1 DEF AttachRuntime
  <2>3. pc' = "r_start" /\ job'.op = o /\ job'.kind = "recovery"
    BY <2>2 DEF Launch, Goto
  <2>4. pc' \in WorkerPcs
    BY <2>3, RollbackPcsSeen
  <2>5. /\ Served' = TRUE /\ SeenMem' = [p \in Ops |-> rec[p].state]
        /\ SeenWorker' = [op |-> o, kind |-> "rollback"]
    BY <1>1, <2>3, <2>4, WorkerSeenNext, KindsSeen DEF WorkerShows, Op
  <2>6. SeenMem[o] = "rolling_back"
    BY <1>1, <1>2, <1>4, <2>1 DEF VInv, SightInv, OwedRecovery
  <2>7. View!Recover(o)
    BY <1>2, <1>3, <2>5, <2>6
       DEF FreeShows, View!Recover, View!Quiet, View!Start, SeenMem, SeenJrn, SeenWorker
  <2>8. Sees
    BY <2>7, OperationSees
  <2> QED
    BY <1>1, <1>2, <2>3, <2>4, <2>8, WorkerSight DEF SeenGood
<1>5. CASE ~(active # None /\ rec[active].needs)
  <2>1. pc' = pc
    BY <1>5 DEF AttachRuntime
  <2>2. FreeShows'
    BY <1>1, <1>2, <2>1, FreeSeenNext
  <2>3. Sees
    BY <1>1, <1>2, <1>3, <2>2, StuttersSeen DEF FreeShows
  <2> QED
    BY <1>1, <1>2, <2>1, <2>3, FreeSight DEF SeenGood, OwedRecovery
<1> QED
  BY <1>4, <1>5

\* A worker stays where it is, whoever stops it or loses a record for it.
LEMMA DoubtSeen ==
  ASSUME VInv, FInv', pc \in WorkerPcs, UNCHANGED <<pc, job>>, Unfinished(rec[Op]),
         NEW res \in Results, SetState(Op, rec[Op], "outcome_unknown", res)
  PROVE  Sees
<1>1. rec[Op] \in Records /\ FInv
  BY WorkerKnows DEF VInv
<1>2. "outcome_unknown" \in States
  BY DEF States, UnfinishedStates
<1> QED
  BY <1>1, <1>2, WorkerTurnsSeen

\* The invariant when a worker stays where it is and perhaps loses its context.
LEMMA StayedSight ==
  ASSUME VInv, FInv', pc \in WorkerPcs, UNCHANGED <<pc, job>>,
         ctx' = ctx \/ pc \in HookPcs \cup ReturnPcs,
         pc \in {"a_check", "a_checked"} =>
            \/ abort' \/ late'[Op]
            \/ /\ ctx' = ctx /\ late' = late /\ abort' = abort
               /\ rec'[Op].state = rec[Op].state /\ jrn'[Op].state = jrn[Op].state,
         pc \in {"a_write", "a_save"} =>
            rec'[Op].state = rec[Op].state /\ jrn'[Op].state = jrn[Op].state
  PROVE  SightInv'
<1>1. Opened' /\ OpenReads' /\ OwedRecovery'
  BY WorkerSeenNext DEF WorkerShows, Opened, OpenReads, OwedRecovery
<1>2. PhaseCtx'
  BY DEF VInv, SightInv, PhaseCtx
<1>3. FirstPhase'
  BY DEF VInv, SightInv, FirstPhase, Op
<1>4. FirstWrite'
  BY DEF VInv, SightInv, FirstWrite, Op
<1> QED
  BY <1>1, <1>2, <1>3, <1>4 DEF SightInv

LEMMA CloseRunningSeen ==
  ASSUME VInv, FInv', NEW res \in Results, CloseRunning(res) PROVE SeenGood
<1>1. /\ LockFree /\ pc \in WorkerPcs /\ abort' = TRUE /\ UNCHANGED <<pc, job>>
      /\ ctx' = ctx \/ pc \in HookPcs \cup ReturnPcs
  BY DEF CloseRunning, Running
<1>2. FInv /\ active = Op /\ pc' \in WorkerPcs
  BY <1>1, WorkerKnows DEF VInv
<1>3. pc \notin {"a_write", "a_save"}
  BY <1>1 DEF LockFree, LockedPcs, WorkerLocked
<1>4. SightInv'
  BY <1>1, <1>3, StayedSight
<1>5. CASE Unfinished(rec[Op])
  <2>1. SetState(Op, rec[Op], "outcome_unknown", res)
    BY <1>2, <1>5 DEF CloseRunning
  <2> QED
    BY <1>1, <1>4, <1>5, <2>1, DoubtSeen DEF SeenGood
<1>6. CASE ~Unfinished(rec[Op])
  <2>1. rec' = rec /\ jrn' = jrn
    BY <1>2, <1>6 DEF CloseRunning
  <2>2. Sees
    BY <1>1, <1>2, <2>1, WorkerMovesSeen
  <2> QED
    BY <1>4, <2>2 DEF SeenGood
<1> QED
  BY <1>5, <1>6

LEMMA CloseIdleSeen ==
  ASSUME VInv, NEW res \in Results, CloseIdle(res) PROVE SeenGood
<1>1. LockFree /\ ~Running /\ proc \notin {"down", "opening"} /\ PowerOff
  BY DEF CloseIdle, Serving
<1>2. /\ FreeShows /\ TypeOK /\ \A o \in Ops : SeenMem[o] = rec[o].state
      /\ jrn \in [Ops -> Records] /\ rec \in [Ops -> Records]
  BY <1>1, FreeKnows
<1>3. SightInv' /\ DarkShows'
  BY <1>1, PowerOffSeen
<1>4. ASSUME jrn' = jrn PROVE SeenGood
  BY <1>1, <1>2, <1>3, <1>4, StopsSeen DEF FreeShows, SeenGood
<1>5. ASSUME active # None, rec[active].state = "prepared", jrn' # jrn PROVE SeenGood
  <2>1. PICK o \in Ops : o = active
    BY <1>2, <1>5 DEF TypeOK
  <2>2. PICK w \in Records : w.state = "cancelled" /\ jrn' = [jrn EXCEPT ![o] = w]
    <3>1. [rec[o] EXCEPT !.state = "cancelled"] \in Records
          /\ [rec[o] EXCEPT !.state = "cancelled"].state = "cancelled"
      BY <1>2, StateAlike, StatesKnown DEF TerminalStates
    <3> QED
      BY <1>5, <2>1, <3>1 DEF CloseIdle, WriteJournal
  <2>3. SeenJrn' = [SeenJrn EXCEPT ![o] = "cancelled"]
    BY <1>2, <2>2 DEF SeenJrn
  <2>4. SeenMem[o] = "prepared"
    BY <1>2, <1>5, <2>1
  <2>5. View!CloseCancels(o)
    BY <1>2, <1>3, <2>3, <2>4
       DEF FreeShows, DarkShows, View!CloseCancels, View!Quiet, View!Down, SeenMem, SeenJrn,
           SeenWorker
  <2>6. Sees
    BY <2>5, OperationSees
  <2> QED
    BY <1>3, <2>6 DEF SeenGood
<1> QED
  BY <1>4, <1>5 DEF CloseIdle

-----------------------------------------------------------------------------
(* Prepare: nobody sees the reservation before it is answered *)

LEMMA PrepareSeen ==
  ASSUME VInv, NEW o \in Ops, NEW v \in Versions, Prepare(o, v) PROVE SeenGood
<1> DEFINE r == [Absent EXCEPT !.state = "prepared", !.old = store, !.new = v]
<1>1. /\ LockFree /\ ~Running /\ proc \notin {"down", "opening"} /\ proc' = proc
      /\ pc' = "p_old" /\ job'.op = o /\ jrn' = jrn /\ ctx' = ctx /\ active' = o
      /\ rec' = [rec EXCEPT ![o] = r] /\ ~Exists(rec[o])
  BY DEF Prepare, Serving, Goto, durable
<1>2. /\ ctx = "live" /\ FreeShows /\ rec \in [Ops -> Records]
  BY <1>1, FreeKnows
<1>3. ~r.needs
  BY DEF Absent
<1> HIDE DEF r
<1>4. pc' \notin WorkerPcs \cup OpenPcs /\ pc' \in PrepPcs
  BY <1>1, PcsKnown DEF PrepPcs
<1>5. UNCHANGED <<Served, SeenWorker, SeenJrn>>
  BY <1>1, <1>2, <1>4 DEF FreeShows, Served, SeenWorker, Running, View!NoWorker, SeenJrn
<1>6. SeenMem' = SeenMem
  <2>1. SeenMem' = [p \in Ops |-> IF p = o THEN "absent" ELSE rec'[p].state]
    BY <1>1, <1>2, <1>5 DEF FreeShows, SeenMem, Reserving, Op
  <2>2. \A p \in Ops : (IF p = o THEN "absent" ELSE rec'[p].state) = rec[p].state
    BY <1>1, <1>2 DEF Exists
  <2> QED
    BY <1>2, <2>1, <2>2 DEF FreeShows
<1>7. OwedRecovery'
  BY <1>1, <1>2, <1>3 DEF OwedRecovery
<1> QED
  BY <1>1, <1>2, <1>4, <1>5, <1>6, <1>7, StuttersSeen, FreeSight DEF SeenGood

LEMMA PrepareSees ==
  ASSUME VInv, pc \in PrepPcs
  PROVE  /\ Op \in Ops /\ TypeOK /\ rec[Op].state = "prepared" /\ active = Op
         /\ proc \notin {"down", "opening"} /\ Served = TRUE
         /\ SeenMem = [o \in Ops |-> IF o = Op THEN "absent" ELSE rec[o].state]
         /\ SeenWorker = View!NoWorker /\ ctx = "live" /\ ~rec[Op].needs
         /\ pc \notin WorkerPcs \cup OpenPcs /\ View!Alone(Op)
<1>1. /\ Op \in Ops /\ TypeOK /\ rec[Op].state = "prepared" /\ active = Op
      /\ pc \notin WorkerPcs \cup OpenPcs /\ proc # "down" /\ ~rec[Op].needs
  BY PrepareKnows, PcsKnown DEF VInv
<1>2. proc # "opening" /\ ctx = "live"
  BY <1>1 DEF VInv, SightInv, Opened, PhaseCtx, WorkerPcs
<1>3. Served = TRUE
  BY <1>1, <1>2 DEF Served
<1>4. SeenMem = [o \in Ops |-> IF o = Op THEN "absent" ELSE rec[o].state]
  BY <1>3 DEF SeenMem, Reserving, PrepPcs
<1>5. \A p \in Ops \ {Op} : ~View!Unfinished(SeenMem[p])
  BY <1>1, <1>4 DEF View!Unfinished, View!UnfinishedStates, Unfinished, UnfinishedStates,
     VInv, FInv, IInv, GateHeld
<1>6. View!Alone(Op)
  BY <1>5 DEF View!Alone, SeenMem
<1> QED
  BY <1>1, <1>2, <1>3, <1>4, <1>6 DEF SeenWorker, Running, View!NoWorker

\* Prepare is answered: the journal has it, or the outcome is unknown.
LEMMA PrepareAnswersSeen ==
  ASSUME VInv, pc \in PrepPcs, pc' = "idle", ctx' = "live", UNCHANGED <<proc, active>>,
         NEW ok \in BOOLEAN, NEW u \in Records, rec' = [rec EXCEPT ![Op] = u],
         u.state = IF ok THEN "prepared" ELSE "outcome_unknown", ~u.needs,
         \/ jrn' = jrn /\ ~ok
         \/ jrn' = [jrn EXCEPT ![Op] = rec[Op]]
  PROVE  SeenGood
<1>1. /\ TypeOK /\ rec[Op].state = "prepared" /\ active = Op /\ Op \in Ops
      /\ proc \notin {"down", "opening"} /\ Served = TRUE
      /\ SeenMem = [o \in Ops |-> IF o = Op THEN "absent" ELSE rec[o].state]
      /\ SeenWorker = View!NoWorker
  BY PrepareSees
<1>2. PICK q \in Ops : q = Op
  BY <1>1
<1>3. View!Alone(q)
  <2>1. \A p \in Ops \ {Op} : ~View!Unfinished(SeenMem[p])
    BY PrepareSees DEF View!Alone, SeenMem
  <2> QED
    BY <1>2, <2>1 DEF View!Alone, SeenMem
<1>4. pc' \notin WorkerPcs \cup PrepPcs \cup OpenPcs
  BY PcsKnown DEF OpenPcs
<1>5. FreeShows'
  BY <1>1, <1>4, FreeSeenNext
<1>6. SeenMem' = [SeenMem EXCEPT ![q] = IF ok THEN "prepared" ELSE "outcome_unknown"]
  <2>1. SeenMem' = [o \in Ops |-> rec'[o].state]
    BY <1>5 DEF FreeShows
  <2> QED
    BY <1>1, <1>2, <2>1 DEF TypeOK
<1>7. \/ SeenJrn' = [SeenJrn EXCEPT ![q] = "prepared"]
      \/ ~ok /\ SeenJrn' = SeenJrn
  BY <1>1, <1>2 DEF SeenJrn, TypeOK
<1>8. SeenMem[q] = "absent"
  BY <1>1, <1>2
<1>9. View!Prepare(q, ok)
  BY <1>1, <1>3, <1>5, <1>6, <1>7, <1>8
     DEF FreeShows, View!Prepare, View!Quiet, SeenMem, SeenJrn, SeenWorker
<1>10. Sees
  BY <1>9, RequestSees
<1>11. OwedRecovery'
  BY <1>1 DEF OwedRecovery, TypeOK
<1> QED
  BY <1>1, <1>4, <1>10, <1>11, FreeSight DEF SeenGood

\* A snapshot is written, or the reservation is kept as an unknown outcome.
LEMMA PrepareSnapshotSeen ==
  ASSUME VInv, NEW at \in PrepPcs, NEW next \in PrepPcs, NEW which, NEW content,
         NEW res \in Results, PrepareSnapshot(at, next, which, content, res)
  PROVE  SeenGood
<1>1. pc \in PrepPcs /\ UNCHANGED <<jrn, proc, active>>
  BY DEF PrepareSnapshot
<1>2. /\ Op \in Ops /\ TypeOK /\ ctx = "live" /\ ~rec[Op].needs /\ Served = TRUE
      /\ pc \notin WorkerPcs \cup OpenPcs /\ proc \notin {"down", "opening"}
      /\ rec[Op] \in Records
  BY <1>1, PrepareSees, PrepareKnows DEF VInv
<1>3. CASE res = "ok"
  <2>1. pc' \in PrepPcs /\ UNCHANGED <<rec, job, ctx>>
    BY <1>3 DEF PrepareSnapshot, Goto
  <2>2. pc' \notin WorkerPcs \cup OpenPcs
    BY <2>1, PcsKnown
  <2>3. UNCHANGED <<Served, SeenMem, SeenWorker, SeenJrn>>
    BY <1>1, <1>2, <2>1, <2>2
       DEF Served, SeenMem, SeenWorker, SeenJrn, Running, Reserving, PrepPcs, Op
  <2>4. OwedRecovery'
    BY <1>1, <2>1 DEF VInv, SightInv, OwedRecovery
  <2> QED
    BY <1>1, <1>2, <2>1, <2>2, <2>3, <2>4, StuttersSeen, FreeSight DEF SeenGood
<1>4. CASE res # "ok"
  <2> DEFINE u == [rec[Op] EXCEPT !.state = "outcome_unknown"]
  <2>1. pc' = "idle" /\ ctx' = "live" /\ rec' = [rec EXCEPT ![Op] = u]
    BY <1>4 DEF PrepareSnapshot, PrepareFailed, Idle, Goto, Finish
  <2>2. u \in Records /\ u.state = "outcome_unknown" /\ ~u.needs
    BY <1>2, StateAlike DEF States, UnfinishedStates, Alike
  <2> HIDE DEF u
  <2> QED
    BY <1>1, <2>1, <2>2, PrepareAnswersSeen
<1> QED
  BY <1>3, <1>4

LEMMA PrepareStepSeen ==
  ASSUME VInv, NEW res \in Results, PrepareOld(res) \/ PrepareNew(res) \/ PrepareJournal(res)
  PROVE  SeenGood
<1>1. CASE PrepareOld(res)
  BY <1>1, PrepareSnapshotSeen DEF PrepareOld, PrepPcs
<1>2. CASE PrepareNew(res)
  BY <1>2, PrepareSnapshotSeen DEF PrepareNew, PrepPcs
<1>3. CASE PrepareJournal(res)
  <2> DEFINE u == [rec[Op] EXCEPT !.state = "outcome_unknown"]
  <2>1. /\ pc \in PrepPcs /\ pc' = "idle" /\ ctx' = "live" /\ UNCHANGED <<proc, active>>
        /\ rec' = IF res = "ok" THEN rec ELSE [rec EXCEPT ![Op] = u]
        /\ (jrn' = jrn /\ res # "ok") \/ jrn' = [jrn EXCEPT ![Op] = rec[Op]]
    BY <1>3 DEF PrepareJournal, PrepareFailed, Idle, Goto, Finish, WriteJournal, PrepPcs
  <2>2. /\ rec[Op] \in Records /\ rec[Op].state = "prepared" /\ ~rec[Op].needs
        /\ rec \in [Ops -> Records] /\ Op \in Ops
    BY <2>1, PrepareSees DEF TypeOK
  <2>3. u \in Records /\ u.state = "outcome_unknown" /\ ~u.needs
    BY <2>2, StateAlike DEF States, UnfinishedStates, Alike
  <2> HIDE DEF u
  <2>4. CASE res = "ok"
    <3>1. rec' = [rec EXCEPT ![Op] = rec[Op]]
      BY <2>1, <2>2, <2>4
    <3> QED
      BY <2>1, <2>2, <2>4, <3>1, PrepareAnswersSeen
  <2>5. CASE res # "ok"
    BY <2>1, <2>3, <2>5, PrepareAnswersSeen
  <2> QED
    BY <2>4, <2>5
<1> QED
  BY <1>1, <1>2, <1>3

-----------------------------------------------------------------------------
(* Apply, Rollback and the deadline of a preparation *)

\* Without a worker a record of o is a record a peer sees.
LEMMA FreeRecordsSeen ==
  ASSUME VInv, FInv', LockFree, ~Running, proc \notin {"down", "opening"}, proc' = proc,
         NEW o \in Ops, NEW s \in States, NEW res \in Results,
         SetState(o, rec[o], s, res), pc' \notin PrepPcs \cup OpenPcs
  PROVE  /\ View!Record(o, s, res = "ok") /\ UNCHANGED Served
         /\ FreeShows /\ SeenMem[o] = rec[o].state
<1>1. FreeShows /\ TypeOK /\ rec[o] \in Records /\ SeenMem[o] = rec[o].state
  BY FreeKnows
<1>2. /\ Served' = TRUE /\ SeenMem' = [p \in Ops |-> rec'[p].state]
  BY WorkerSeenNext, FreeSeenNext DEF WorkerShows, FreeShows
<1>3. View!Record(o, s, res = "ok")
  BY <1>1, <1>2, RecordSeen DEF FreeShows
<1> QED
  BY <1>1, <1>2, <1>3 DEF FreeShows

\* Nobody works before and after.
LEMMA FreeStays ==
  ASSUME VInv, LockFree, ~Running, proc \notin {"down", "opening"}, proc' = proc,
         UNCHANGED <<pc, ctx>>, OwedRecovery'
  PROVE  /\ SightInv' /\ FreeShows' /\ FreeShows /\ UNCHANGED <<Served, SeenWorker>>
         /\ SeenWorker = View!NoWorker
<1>1. /\ ctx = "live" /\ FreeShows /\ pc \notin WorkerPcs \cup PrepPcs \cup OpenPcs
  BY FreeKnows
<1>2. FreeShows'
  BY <1>1, FreeSeenNext
<1> QED
  BY <1>1, <1>2, FreeSight DEF FreeShows

\* A preparation owes the runtime nothing, and its end owes nothing.
LEMMA PreparedOwes ==
  ASSUME VInv, LockFree, ~Running, proc \notin {"down", "opening"}, NEW o \in Ops,
         ~rec[o].needs, Unfinished(rec[o]), NEW s \in States, NEW res \in Results,
         SetState(o, rec[o], s, res)
  PROVE  OwedRecovery'
<1>1. active = o /\ TypeOK /\ rec[o] \in Records
  BY FreeKnows DEF GateHeld
<1>2. PICK u \in Records : Alike(u, rec[o]) /\ rec' = [rec EXCEPT ![o] = u]
  BY <1>1, SetStateRecords
<1>3. active' = None \/ active' = o
  BY <1>1 DEF SetState
<1> QED
  BY <1>1, <1>2, <1>3 DEF OwedRecovery, Alike, TypeOK

\* A preparation ends without a worker.
LEMMA PreparedEndsSeen ==
  ASSUME VInv, FInv', NEW o \in Ops, NEW res \in Results,
         ExpirePrepared(o, res) \/ ApplyRefused(o, res) \/ RollbackPrepared(o, res)
  PROVE  SeenGood
<1>1. /\ LockFree /\ proc \notin {"down", "opening"} /\ proc' = proc
      /\ rec[o].state = "prepared" /\ UNCHANGED <<pc, ctx>>
  BY DEF ExpirePrepared, ApplyRefused, RollbackPrepared, Serving, Frame
<1>2. ~Running /\ pc = "idle" /\ ~rec[o].needs
  <2>1. ~Running /\ pc = "idle"
    BY <1>1, PreparedFree DEF VInv
  <2> QED
    BY <1>1, <2>1 DEF VInv, FInv, DataInv, AllSane, Sane
<1>3. PICK s \in {"cancelled", "conflict"} : SetState(o, rec[o], s, res)
  BY DEF ExpirePrepared, ApplyRefused, RollbackPrepared
<1>4. s \in States /\ pc' \notin PrepPcs \cup OpenPcs
  BY <1>1, <1>2, StatesKnown, PcsKnown DEF TerminalStates, OpenPcs
<1>5. Unfinished(rec[o])
  BY <1>1 DEF Unfinished, UnfinishedStates
<1>6. OwedRecovery'
  BY <1>1, <1>2, <1>3, <1>4, <1>5, PreparedOwes
<1>7. SightInv' /\ UNCHANGED <<Served, SeenWorker>> /\ SeenWorker = View!NoWorker /\ FreeShows
  BY <1>1, <1>2, <1>6, FreeStays
<1>8. View!Record(o, s, res = "ok") /\ SeenMem[o] = "prepared"
  BY <1>1, <1>2, <1>3, <1>4, FreeRecordsSeen
<1>9. View!Refuse(o, s, res = "ok")
  BY <1>3, <1>7, <1>8
     DEF View!Refuse, View!Quiet, FreeShows, SeenMem, SeenJrn, SeenWorker
<1>10. s \in View!States /\ (res = "ok") \in BOOLEAN
  BY <1>4, ViewStates
<1>11. Sees
  BY <1>9, <1>10, RequestSees
<1> QED
  BY <1>7, <1>11 DEF SeenGood

\* A worker is launched, or its operation has lost its record.
LEMMA LaunchSeen ==
  ASSUME VInv, FInv', LockFree, ~Running, proc \notin {"down", "opening"},
         NEW o \in Ops, NEW kind, NEW l \in WorkerPcs, Launch(o, kind, l)
  PROVE  /\ SeenWorker' = [op |-> o, kind |-> KindOf(l, kind)] /\ FreeShows
         /\ pc' = l /\ pc' \in WorkerPcs /\ ctx = "live"
<1>1. pc' = l /\ job'.op = o /\ job'.kind = kind
  BY DEF Launch, Goto
<1>2. SeenWorker' = [op |-> o, kind |-> KindOf(l, kind)]
  BY <1>1, WorkerSeenNext DEF WorkerShows, Op
<1> QED
  BY <1>1, <1>2, FreeKnows

LEMMA ApplySeen ==
  ASSUME VInv, FInv', NEW o \in Ops, NEW res \in Results, Apply(o, res) PROVE SeenGood
<1>1. /\ LockFree /\ proc = "attached" /\ proc' = proc
      /\ rec[o].state = "prepared" /\ UNCHANGED <<ctx, late>> /\ ~late[o]
      /\ SetState(o, rec[o], "applying", res)
      /\ IF res = "ok" THEN Launch(o, "apply", "a_check") ELSE pc' = pc
  BY DEF Apply, Frame
<1>2. ~Running /\ pc = "idle" /\ ~rec[o].needs /\ TypeOK /\ rec[o] \in Records
  <2>1. ~Running /\ pc = "idle" /\ TypeOK /\ rec[o] \in Records
    BY <1>1, PreparedFree DEF VInv
  <2> QED
    BY <1>1, <2>1 DEF VInv, FInv, DataInv, AllSane, Sane
<1>3. "applying" \in States /\ "a_check" \in WorkerPcs /\ "a_check" \in HookPcs
      /\ "a_check" \notin OpenPcs \cup PrepPcs /\ pc \notin OpenPcs \cup PrepPcs
  BY <1>2, PcsKnown DEF States, UnfinishedStates, WorkerPcs, HookPcs, ApplyHooks, OpenPcs,
     PrepPcs
<1>4. /\ View!Record(o, "applying", res = "ok") /\ SeenMem[o] = "prepared"
      /\ UNCHANGED Served /\ FreeShows
  <2>1. pc' \notin PrepPcs \cup OpenPcs
    BY <1>1, <1>3 DEF Launch, Goto
  <2> QED
    BY <1>1, <1>2, <1>3, <2>1, FreeRecordsSeen
<1>5. CASE res = "ok"
  <2>1. Launch(o, "apply", "a_check")
    BY <1>1, <1>5
  <2>2. /\ SeenWorker' = [op |-> o, kind |-> KindOf("a_check", "apply")]
        /\ pc' = "a_check" /\ pc' \in WorkerPcs /\ ctx = "live" /\ job'.op = o
    BY <1>1, <1>2, <1>3, <2>1, LaunchSeen DEF Launch
  <2>3. SeenWorker' = [op |-> o, kind |-> "apply"]
    BY <2>2, <1>3, KindsSeen
  <2>4. View!Apply(o, res = "ok")
    BY <1>4, <1>5, <2>3
       DEF View!Apply, View!Quiet, View!Start, FreeShows, SeenMem, SeenJrn, SeenWorker
  <2>5. Sees
    BY <2>4, RequestSees
  <2>6. rec'[o].state = jrn'[o].state
    <3>1. rec'[o] = jrn'[o]
      BY <1>2, <1>1, <1>5 DEF SetState, WriteJournal, TypeOK
    <3> QED
      BY <3>1
  <2>7. FirstPhase'
    BY <1>1, <2>2, <2>6 DEF FirstPhase, Op
  <2>8. PhaseCtx' /\ FirstWrite'
    BY <1>1, <2>2 DEF PhaseCtx, FirstWrite
  <2>9. Opened' /\ OpenReads' /\ OwedRecovery'
    BY <2>2, WorkerSeenNext DEF WorkerShows, Opened, OpenReads, OwedRecovery
  <2> QED
    BY <2>5, <2>7, <2>8, <2>9 DEF SeenGood, SightInv
<1>6. CASE res # "ok"
  <2>1. pc' = pc
    BY <1>1, <1>6
  <2>2. OwedRecovery'
    BY <1>1 DEF OwedRecovery
  <2>3. SightInv' /\ UNCHANGED SeenWorker /\ SeenWorker = View!NoWorker
    BY <1>1, <1>2, <2>1, <2>2, FreeStays
  <2>4. View!Apply(o, res = "ok")
    BY <1>4, <1>6, <2>3
       DEF View!Apply, View!Quiet, View!Start, FreeShows, SeenMem, SeenJrn, SeenWorker
  <2>5. Sees
    BY <2>4, RequestSees
  <2> QED
    BY <2>3, <2>5 DEF SeenGood
<1> QED
  BY <1>5, <1>6

\* A running worker is asked to stop.
LEMMA RollbackRunningSeen ==
  ASSUME VInv, FInv', NEW o \in Ops, RollbackRunning(o) PROVE SeenGood
<1>1. /\ LockFree /\ pc \in WorkerPcs /\ abort' = TRUE /\ UNCHANGED <<pc, job, rec, jrn>>
      /\ ctx' = ctx \/ pc \in HookPcs \cup ReturnPcs
  BY DEF RollbackRunning, Running, durable
<1>2. FInv /\ pc' \in WorkerPcs
  BY <1>1 DEF VInv
<1>3. pc \notin {"a_write", "a_save"}
  BY <1>1 DEF LockFree, LockedPcs, WorkerLocked
<1>4. SightInv'
  BY <1>1, <1>3, StayedSight
<1>5. Sees
  BY <1>1, <1>2, WorkerMovesSeen
<1> QED
  BY <1>4, <1>5 DEF SeenGood

LEMMA RollbackConfirmedSeen ==
  ASSUME VInv, FInv', NEW o \in Ops, RollbackConfirmed(o) PROVE SeenGood
<1>1. /\ LockFree /\ ~Running /\ proc = "attached" /\ proc' = proc
      /\ rec[o].state = "confirmed" /\ active = None
      /\ Launch(o, "undo", "u_check") /\ UNCHANGED <<rec, jrn, ctx>>
  BY DEF RollbackConfirmed, durable
<1>2. "u_check" \in WorkerPcs
  BY RollbackPcsSeen
<1>3. /\ SeenWorker' = [op |-> o, kind |-> KindOf("u_check", "undo")] /\ FreeShows
      /\ pc' = "u_check" /\ pc' \in WorkerPcs /\ ctx = "live"
  BY <1>1, <1>2, LaunchSeen
<1>4. SeenWorker' = [op |-> o, kind |-> "undo"]
  BY <1>2, <1>3, KindsSeen
<1>5. Served' = Served /\ SeenMem' = SeenMem /\ SeenJrn' = SeenJrn
  BY <1>1, <1>3, WorkerSeenNext DEF WorkerShows, FreeShows, SeenJrn
<1>6. SeenMem[o] = "confirmed" /\ \A p \in Ops \ {o} : ~View!Unfinished(SeenMem[p])
  <2>1. GateHeld /\ \A p \in Ops : SeenMem[p] = rec[p].state
    BY <1>1, FreeKnows
  <2>2. None \notin Ops
    BY ConstantsAssumption
  <2> QED
    BY <1>1, <2>1, <2>2 DEF GateHeld, View!Unfinished, View!UnfinishedStates, Unfinished,
       UnfinishedStates
<1>7. View!Undo(o)
  BY <1>3, <1>4, <1>5, <1>6
     DEF View!Undo, View!Quiet, View!Alone, View!Start, FreeShows, SeenMem, SeenJrn,
         SeenWorker
<1>8. Sees
  BY <1>7, OperationSees
<1> QED
  BY <1>1, <1>3, <1>8, WorkerSight DEF SeenGood

LEMMA RollbackUnfinishedSeen ==
  ASSUME VInv, FInv', NEW o \in Ops, NEW res \in Results, RollbackUnfinished(o, res)
  PROVE  SeenGood
<1>1. /\ LockFree /\ ~Running /\ proc \notin {"down", "opening"} /\ proc' = proc
      /\ Unfinished(rec[o]) /\ rec[o].state # "prepared" /\ ctx' = ctx
  BY DEF RollbackUnfinished, Frame, Serving
<1>2. /\ FreeShows /\ TypeOK /\ rec[o] \in Records /\ SeenMem[o] = rec[o].state
      /\ GateHeld /\ pc = "idle" /\ ctx = "live" /\ rec \in [Ops -> Records]
      /\ pc \notin WorkerPcs \cup PrepPcs \cup OpenPcs
  BY <1>1, FreeKnows
<1>3. View!Unfinished(SeenMem[o]) /\ SeenMem[o] # "prepared"
  BY <1>1, <1>2 DEF View!Unfinished, View!UnfinishedStates, Unfinished, UnfinishedStates
<1>4. CASE ~SnapshotsOK(o, rec[o]) /\ ~Exists(jrn[o])
  <2> DEFINE u == [rec[o] EXCEPT !.state = "rollback_failed"]
  <2>1. /\ rec' = [rec EXCEPT ![o] = u] /\ UNCHANGED <<jrn, active, pc>>
    BY <1>4 DEF RollbackUnfinished
  <2>2. u.state = "rollback_failed" /\ ~u.needs
    <3>1. ~rec[o].needs
      BY <1>4 DEF VInv, FInv, DataInv, NeedsKnown
    <3>2. u.needs <=> rec[o].needs
      BY <1>2, StateAlike DEF States, UnfinishedStates, Alike
    <3>3. u.state = "rollback_failed"
      BY <1>2, StateAlike DEF States, UnfinishedStates
    <3> QED
      BY <3>1, <3>2, <3>3
  <2> HIDE DEF u
  <2>3. OwedRecovery'
    BY <1>1, <1>2, <2>1, <2>2 DEF GateHeld, OwedRecovery
  <2>4. SightInv' /\ FreeShows' /\ UNCHANGED <<Served, SeenWorker>> /\ SeenWorker = View!NoWorker
    BY <1>1, <2>1, <2>3, FreeStays
  <2>5. SeenMem' = [SeenMem EXCEPT ![o] = "rollback_failed"] /\ SeenJrn' = SeenJrn
    BY <1>2, <2>1, <2>2, <2>4 DEF FreeShows, SeenJrn
  <2>6. SeenJrn[o] = "absent"
    BY <1>4 DEF SeenJrn, Exists
  <2>7. View!RollbackNothing(o)
    BY <1>2, <1>3, <2>4, <2>5, <2>6
       DEF View!RollbackNothing, View!Quiet, FreeShows, SeenMem, SeenJrn, SeenWorker
  <2>8. Sees
    BY <2>7, OperationSees
  <2> QED
    BY <2>4, <2>8 DEF SeenGood
<1>5. CASE ~(~SnapshotsOK(o, rec[o]) /\ ~Exists(jrn[o]))
  <2>1. /\ proc = "attached" /\ SetState(o, rec[o], "rolling_back", res)
        /\ IF res = "ok" THEN Launch(o, "rollback", "r_start") ELSE pc' = pc
    BY <1>5 DEF RollbackUnfinished
  <2>2. "rolling_back" \in States /\ "r_start" \in WorkerPcs
        /\ "r_start" \notin OpenPcs \cup PrepPcs
    BY RollbackPcsSeen DEF States, UnfinishedStates, OpenPcs, PrepPcs
  <2>3. pc' \notin PrepPcs \cup OpenPcs
    BY <1>2, <2>1, <2>2 DEF Launch, Goto
  <2>4. View!Record(o, "rolling_back", res = "ok") /\ UNCHANGED Served
    BY <1>1, <2>1, <2>2, <2>3, FreeRecordsSeen
  <2>5. CASE res = "ok"
    <3>1. Launch(o, "rollback", "r_start")
      BY <2>1, <2>5
    <3>2. /\ SeenWorker' = [op |-> o, kind |-> KindOf("r_start", "rollback")]
          /\ pc' = "r_start" /\ pc' \in WorkerPcs
      BY <1>1, <2>2, <3>1, LaunchSeen
    <3>3. SeenWorker' = [op |-> o, kind |-> "rollback"]
      BY <2>2, <3>2, KindsSeen
    <3>4. View!Rollback(o, res = "ok")
      BY <1>2, <1>3, <2>4, <2>5, <3>3
         DEF View!Rollback, View!Quiet, View!Start, FreeShows, SeenMem, SeenJrn, SeenWorker
    <3>5. Sees
      BY <3>4, RequestSees
    <3> QED
      BY <1>1, <1>2, <3>2, <3>5, WorkerSight DEF SeenGood
  <2>6. CASE res # "ok"
    <3>1. pc' = pc
      BY <2>1, <2>6
    <3>2. OwedRecovery'
      BY <1>1, <2>1 DEF OwedRecovery
    <3>3. SightInv' /\ UNCHANGED SeenWorker /\ SeenWorker = View!NoWorker
      BY <1>1, <3>1, <3>2, FreeStays
    <3>4. View!Rollback(o, res = "ok")
      BY <1>2, <1>3, <2>4, <2>6, <3>3
         DEF View!Rollback, View!Quiet, View!Start, FreeShows, SeenMem, SeenJrn, SeenWorker
    <3>5. Sees
      BY <3>4, RequestSees
    <3> QED
      BY <3>3, <3>5 DEF SeenGood
  <2> QED
    BY <2>5, <2>6
<1> QED
  BY <1>4, <1>5

-----------------------------------------------------------------------------
(* Snapshots, hooks, time and outside writers *)

\* Deleting snapshots is nobody's business.
LEMMA PruneSeen ==
  ASSUME VInv, FInv, pc \in {"idle"} \cup DeletePcs, proc \notin {"down", "opening"},
         pc' \in {"idle"} \cup DeletePcs, ctx' = "live", UNCHANGED <<proc, active>>,
         \A o \in Ops : rec'[o].state = rec[o].state /\ jrn'[o].state = jrn[o].state,
         OwedRecovery'
  PROVE  SeenGood
<1>1. /\ pc \notin WorkerPcs \cup PrepPcs \cup OpenPcs
      /\ pc' \notin WorkerPcs \cup PrepPcs \cup OpenPcs
  BY PcsKnown DEF OpenPcs, PrepPcs
<1>2. FreeShows /\ FreeShows' /\ SeenJrn' = SeenJrn
  BY <1>1, FreeSeen, FreeSeenNext DEF SeenJrn
<1>3. SeenMem' = SeenMem
  BY <1>2 DEF FreeShows
<1>4. Sees
  BY <1>2, <1>3, StuttersSeen DEF FreeShows
<1> QED
  BY <1>1, <1>4, FreeSight DEF SeenGood

LEMMA PruneExpireSeen ==
  ASSUME VInv, NEW o \in Ops, NEW res \in Results, PruneExpire(o, res) PROVE SeenGood
<1> DEFINE r == [rec[o] EXCEPT !.exp = TRUE]
<1>1. /\ PruneAllowed(o) /\ UNCHANGED <<proc, active, ctx>>
      /\ rec' = [rec EXCEPT ![o] = r]
      /\ jrn' = jrn \/ jrn' = [jrn EXCEPT ![o] = r]
      /\ pc' = "g_old" \/ pc' = pc
  BY DEF PruneExpire, Save, WriteJournal, Pruning, Goto
<1>2. /\ proc # "down" /\ active = None /\ pc = "idle" /\ rec[o] \in Records
      /\ jrn[o] = rec[o] /\ rec \in [Ops -> Records] /\ jrn \in [Ops -> Records] /\ FInv
  BY <1>1, PruneKnows DEF VInv
<1>3. proc # "opening" /\ ctx = "live"
  BY <1>1, <1>2, PcsKnown DEF PruneAllowed, Serving, VInv, SightInv, PhaseCtx, WorkerPcs
<1>4. r.state = rec[o].state
  BY <1>2 DEF Records
<1> HIDE DEF r
<1>5. \A p \in Ops : rec'[p].state = rec[p].state /\ jrn'[p].state = jrn[p].state
  BY <1>1, <1>2, <1>4
<1>6. OwedRecovery'
  BY <1>1, <1>2 DEF OwedRecovery
<1> QED
  BY <1>1, <1>2, <1>3, <1>5, <1>6, PruneSeen DEF DeletePcs

LEMMA PruneStepSeen ==
  ASSUME VInv, NEW res \in Results,
         PruneOld(res) \/ PruneNew(res) \/ \E o \in Ops : PruneResidues(o)
  PROVE  SeenGood
<1>1. UNCHANGED <<rec, jrn, proc, active>> /\ FInv
  BY DEF PruneOld, PruneNew, PruneDelete, PruneResidues, memory, durable, VInv
<1>2. OwedRecovery'
  BY <1>1 DEF OwedRecovery, VInv, SightInv
<1>3. CASE PruneOld(res) \/ PruneNew(res)
  <2>1. pc \in DeletePcs /\ pc' \in {"idle"} \cup DeletePcs /\ (ctx' = "live" \/ ctx' = ctx)
    BY <1>3 DEF PruneOld, PruneNew, PruneDelete, Idle, Goto, Finish, DeletePcs
  <2>2. pc \notin WorkerPcs /\ pc \notin OpenPcs
    BY <2>1, PcsKnown
  <2>3. proc \notin {"down", "opening"} /\ ctx = "live"
    BY <2>1, <2>2 DEF VInv, FInv, IInv, DownIsIdle, SightInv, Opened, PhaseCtx, WorkerPcs,
       DeletePcs
  <2> QED
    BY <1>1, <1>2, <2>1, <2>3, PruneSeen
<1>4. ASSUME NEW o \in Ops, PruneResidues(o) PROVE SeenGood
  <2>1. PruneAllowed(o) /\ pc' = "g_old" /\ ctx' = ctx
    BY <1>4 DEF PruneResidues, Pruning, Goto
  <2>2. pc = "idle" /\ ctx = "live" /\ proc \notin {"down", "opening"}
    BY <2>1, FreeKnows DEF PruneAllowed, Serving
  <2> QED
    BY <1>1, <1>2, <2>1, <2>2, PruneSeen DEF DeletePcs
<1> QED
  BY <1>3, <1>4

\* A hook returns: a peer cannot tell.
LEMMA HookSeen == ASSUME VInv, FInv', HookReturns PROVE SeenGood
<1>1. /\ pc \in HookPcs /\ pc' = AfterHook[pc]
      /\ UNCHANGED <<rec, jrn, job, ctx, late, abort>>
  BY DEF HookReturns, CheckReturns, ApplyHookReturns, VerifyReturns, Returns, Goto,
     durable, memory, HookPcs, ApplyHooks, RollbackHooks
<1>2. /\ pc = "a_check" => pc' = "a_checked"
      /\ pc = "a_apply" => pc' = "a_applied"
      /\ pc = "a_verify" => pc' = "a_verified"
      /\ pc = "r_check" => pc' = "r_checked"
      /\ pc = "r_apply" => pc' = "r_applied"
      /\ pc = "r_verify" => pc' = "r_verified"
      /\ pc = "u_check" => pc' = "u_checked"
  BY <1>1 DEF AfterHook, HookPcs, ApplyHooks, RollbackHooks
<1>3. pc \in {"a_check", "a_apply", "a_verify", "r_check", "r_apply", "r_verify", "u_check"}
  BY <1>1 DEF HookPcs, ApplyHooks, RollbackHooks
<1>4. pc \in WorkerPcs /\ pc' \in WorkerPcs /\ pc' \in ReturnPcs /\ FInv
  BY <1>2, <1>3 DEF WorkerPcs, HookPcs, ApplyHooks, RollbackHooks, ReturnPcs, ApplyReturns,
     RollbackReturns, VInv
<1>5. KindOf(pc', job.kind) = KindOf(pc, job.kind)
  BY <1>2, <1>3, <1>4, KindsSeen DEF RestorePcs
<1>6. Sees
  BY <1>1, <1>4, <1>5, WorkerMovesSeen
<1>7. CASE pc = "a_check"
  <2>1. Opened' /\ OpenReads' /\ OwedRecovery'
    BY <1>4, WorkerSeenNext DEF WorkerShows, Opened, OpenReads, OwedRecovery
  <2>2. PhaseCtx' /\ FirstWrite'
    BY <1>2, <1>4, <1>7 DEF PhaseCtx, FirstWrite
  <2>3. FirstPhase'
    BY <1>1, <1>2, <1>7 DEF VInv, SightInv, FirstPhase, Op
  <2> QED
    BY <1>6, <2>1, <2>2, <2>3 DEF SeenGood, SightInv
<1>8. CASE pc # "a_check"
  <2>1. pc' \notin {"a_check", "a_checked", "a_write", "a_save"}
    BY <1>2, <1>3, <1>8
  <2> QED
    BY <1>4, <1>6, <2>1, WorkerSight DEF SeenGood
<1> QED
  BY <1>7, <1>8

\* The watcher of a phase records uncertainty.
LEMMA WatcherSeen ==
  ASSUME VInv, FInv', NEW res \in Results, Watcher(res) PROVE SeenGood
<1>1. /\ pc \in (HookPcs \cup ReturnPcs) \ {"u_check", "u_checked"} /\ ctx = "done"
      /\ UNCHANGED <<pc, job, abort, late>>
      /\ SetState(Op, rec[Op], "outcome_unknown", res)
  BY DEF Watcher, Frame
<1>2. pc \in WorkerPcs /\ pc \notin {"exit", "r_begin", "a_write", "a_save"}
  BY <1>1 DEF WorkerPcs, HookPcs, ApplyHooks, RollbackHooks, ReturnPcs, ApplyReturns,
     RollbackReturns
<1>3. Unfinished(rec[Op])
  BY <1>1, <1>2, WorkerKnows DEF UndoLook, VInv
<1>4. Sees
  BY <1>1, <1>2, <1>3, DoubtSeen
<1>5. pc \in {"a_check", "a_checked"} => abort' \/ late'[Op]
  BY <1>1 DEF VInv, SightInv, FirstPhase
<1>6. SightInv'
  BY <1>1, <1>2, <1>5, StayedSight
<1> QED
  BY <1>4, <1>6 DEF SeenGood

\* Steps nobody sees: the loader, a deadline, a timeout, an outside writer.
LEMMA AmbientSeen ==
  ASSUME VInv, FInv',
         \/ NativeLoad \/ RollbackTimeout \/ (\E o \in Ops : DeadlinePasses(o))
         \/ (\E v \in Versions : Drift(v)) \/ UNCHANGED vars
  PROVE  SeenGood
<1>1. UNCHANGED <<proc, rec, jrn, pc, job, active, abort>>
  BY DEF NativeLoad, RollbackTimeout, DeadlinePasses, Drift, vars, durable, memory, thread
<1>2. UNCHANGED <<Served, SeenMem, SeenJrn, SeenWorker>>
  BY <1>1 DEF Served, SeenMem, SeenJrn, SeenWorker, Running, SeenKind, Reserving, Op,
     Trying, Intended
<1>3. Opened' /\ OpenReads' /\ OwedRecovery' /\ FirstWrite'
  BY <1>1 DEF VInv, SightInv, Opened, OpenReads, OwedRecovery, FirstWrite, Op
<1>4. PhaseCtx' /\ FirstPhase'
  <2>1. CASE UNCHANGED <<ctx, late>>
    BY <1>1, <2>1 DEF VInv, SightInv, PhaseCtx, FirstPhase, Op
  <2>2. CASE RollbackTimeout
    <3>1. pc \in RollbackHooks \cup {"u_check"} /\ late' = late
      BY <2>2 DEF RollbackTimeout
    <3>2. pc \in HookPcs /\ pc \notin {"a_check", "a_checked"}
      BY <3>1 DEF HookPcs, RollbackHooks
    <3> QED
      BY <1>1, <3>2 DEF PhaseCtx, FirstPhase
  <2>3. ASSUME NEW o \in Ops, DeadlinePasses(o) PROVE PhaseCtx' /\ FirstPhase'
    <3>1. /\ late' = [late EXCEPT ![o] = TRUE] /\ late \in [Ops -> BOOLEAN]
          /\ ctx' = ctx \/ (Op = o /\ pc \in ApplyHooks \cup ApplyReturns)
      BY <2>3 DEF DeadlinePasses, VInv, FInv, IInv, TypeOK
    <3>2. PhaseCtx'
      BY <1>1, <3>1 DEF VInv, SightInv, PhaseCtx, HookPcs, ReturnPcs
    <3>3. FirstPhase'
      BY <1>1, <3>1 DEF VInv, SightInv, FirstPhase, Op
    <3> QED
      BY <3>2, <3>3
  <2>4. NativeLoad \/ (\E v \in Versions : Drift(v)) \/ UNCHANGED vars => UNCHANGED <<ctx, late>>
    BY DEF NativeLoad, Drift, vars, thread
  <2> QED
    BY <2>1, <2>2, <2>3, <2>4
<1> QED
  BY <1>2, <1>3, <1>4, StuttersSeen DEF SeenGood, SightInv

-----------------------------------------------------------------------------

LEMMA InitSeen == Init => VInv /\ View!Init
<1> SUFFICES ASSUME Init PROVE SightInv /\ View!Init
  BY InitFacts DEF VInv
<1>1. /\ proc = "down" /\ pc = "idle" /\ ctx = "live" /\ \A o \in Ops : jrn[o] = Absent
  BY DEF Init
<1>2. pc \notin WorkerPcs \cup OpenPcs
  BY <1>1, PcsKnown DEF OpenPcs
<1>3. {"a_check", "a_checked", "a_write", "a_save"} \subseteq WorkerPcs
  BY DEF WorkerPcs, HookPcs, ApplyHooks, ReturnPcs, ApplyReturns, WorkerLocked
<1>4. SightInv
  BY <1>1, <1>2, <1>3 DEF SightInv, Opened, OpenReads, OwedRecovery, PhaseCtx, FirstPhase,
     FirstWrite
<1>5. DarkShows
  BY <1>1, <1>2, DarkSeen
<1>6. SeenJrn = [o \in Ops |-> "absent"]
  BY <1>1 DEF SeenJrn, Absent
<1>7. View!Init
  BY <1>5, <1>6 DEF DarkShows, View!Init, SeenMem, SeenJrn, SeenWorker
<1> QED
  BY <1>4, <1>7

LEMMA StepIsSeen == VInv /\ [Next]_vars => SeenGood
<1> SUFFICES ASSUME VInv, [Next]_vars PROVE SeenGood
  OBVIOUS
<1>0. FInv'
  BY FactsInductive DEF VInv
<1>1. CASE UNCHANGED vars
  BY <1>0, <1>1, AmbientSeen
<1>2. CASE \/ Crash \/ OpenClean \/ (\E o \in Ops : OpenRecover(o)) \/ NativeLoad
           \/ AttachRuntime
  BY <1>0, <1>2, CrashSeen, OpenCleanSeen, OpenRecoverSeen, AmbientSeen, AttachSeen
<1>3. ASSUME NEW res \in Results, OpenStep(res) \/ HandlerStep(res) \/ Watcher(res)
      PROVE  SeenGood
  BY <1>0, <1>3, OpenSaveSeen, OpenWriteSeen, OpenSavedSeen, PrepareStepSeen,
     PruneStepSeen, WatcherSeen DEF OpenStep, HandlerStep
<1>4. CASE Requests
  <2>1. ASSUME NEW o \in Ops, NEW v \in Versions, Prepare(o, v) PROVE SeenGood
    BY <2>1, PrepareSeen
  <2>2. ASSUME NEW o \in Ops,
               RollbackRunning(o) \/ RollbackConfirmed(o) \/ PruneResidues(o)
        PROVE  SeenGood
    <3>1. "ok" \in Results
      BY DEF Results
    <3> QED
      BY <1>0, <2>2, <3>1, RollbackRunningSeen, RollbackConfirmedSeen, PruneStepSeen
  <2>3. ASSUME NEW o \in Ops, NEW res \in Results,
               \/ Apply(o, res) \/ ApplyRefused(o, res)
               \/ RollbackPrepared(o, res) \/ RollbackUnfinished(o, res)
               \/ PruneExpire(o, res)
        PROVE  SeenGood
    BY <1>0, <2>3, ApplySeen, PreparedEndsSeen, RollbackUnfinishedSeen, PruneExpireSeen
  <2>4. ASSUME NEW res \in Results, CloseRunning(res) \/ CloseIdle(res) PROVE SeenGood
    BY <1>0, <2>4, CloseRunningSeen, CloseIdleSeen
  <2> QED
    BY <1>4, <2>1, <2>2, <2>3, <2>4 DEF Requests
<1>5. CASE HookReturns
  BY <1>0, <1>5, HookSeen
<1>6. CASE Worker
  <2>1. ASSUME NEW res \in Results, WorkerStep(res) PROVE SeenGood
    BY <1>0, <2>1, ApplyCheckedSeen, ApplyWriteSeen, ApplySaveSeen, ApplyUnknownSeen,
       ApplyAppliedSeen, ApplyVerifiedSeen, RollbackCheckedSeen, RollbackBeginSeen,
       RollbackWriteSeen, RollbackConflictSeen, RollbackFailedSeen, RollbackSaveSeen,
       RollbackAppliedSeen, RollbackVerifiedSeen DEF WorkerStep
  <2> QED
    BY <1>0, <1>6, <2>1, RollbackStartSeen, UndoCheckedSeen, WorkerExitSeen DEF Worker
<1>7. ASSUME NEW o \in Ops, NEW res \in Results, ExpirePrepared(o, res) PROVE SeenGood
  BY <1>0, <1>7, PreparedEndsSeen
<1>8. CASE (\E o \in Ops : DeadlinePasses(o)) \/ RollbackTimeout
  BY <1>0, <1>8, AmbientSeen
<1>9. ASSUME NEW v \in Versions, Drift(v) PROVE SeenGood
  BY <1>0, <1>9, AmbientSeen
<1> QED
  BY <1>1, <1>2, <1>3, <1>4, <1>5, <1>6, <1>7, <1>8, <1>9 DEF Next

\* A peer may take the engine for its view, whatever the disk, the clock, a
\* crash or an outside writer do: each step of the engine is a step of
\* EngineView, or one that nobody sees.  In particular a state once answered is
\* recorded or unknown, a restart finds what was recorded, and a worker ends an
\* operation only the way the view says (engine.go, state, launch, Query).
THEOREM EngineIsItsView == Spec => ImplementsEngineView
<1>1. Init => VInv /\ View!Init
  BY InitSeen
<1>2. VInv /\ [Next]_vars => VInv'
  BY StepIsSeen, FactsInductive DEF VInv, SeenGood
<1>3. VInv /\ [Next]_vars => [View!Next]_(View!vars)
  BY StepIsSeen DEF SeenGood, Sees
<1> QED
  BY <1>1, <1>2, <1>3, PTL DEF Spec, ImplementsEngineView, View!Spec
===============================================================================
