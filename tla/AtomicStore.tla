----------------------------- MODULE AtomicStore -----------------------------
(***************************************************************************)
(* What the transaction engine promises about the Store, without journals, *)
(* workers or crashes: at most one operation is open, only an open         *)
(* operation moves the Store and only between its own two versions, it is  *)
(* committed only with its new version in place and reverted only with     *)
(* its old one, and a finished operation is reopened only from the version *)
(* it had left behind.                                                     *)
(***************************************************************************)
CONSTANTS Ops, Versions, InitVersion

VARIABLES store,    \* the Store file
          status,   \* status[o]: "idle", "open", "committed", "reverted"
          plan      \* plan[o]: the two versions o is about

vars == <<store, status, plan>>

NoPlan == [old |-> InitVersion, new |-> InitVersion]

Init == /\ store = InitVersion
        /\ status = [o \in Ops |-> "idle"]
        /\ plan = [o \in Ops |-> NoPlan]

NoneOpen == \A o \in Ops : status[o] # "open"

Begin(o, v) ==
    /\ NoneOpen /\ status[o] = "idle"
    /\ status' = [status EXCEPT ![o] = "open"]
    /\ plan' = [plan EXCEPT ![o] = [old |-> store, new |-> v]]
    /\ UNCHANGED store

Move(o) ==
    /\ status[o] = "open"
    /\ store' \in {plan[o].old, plan[o].new}
    /\ UNCHANGED <<status, plan>>

Commit(o) ==
    /\ status[o] = "open" /\ store = plan[o].new
    /\ status' = [status EXCEPT ![o] = "committed"]
    /\ UNCHANGED <<store, plan>>

Revert(o) ==
    /\ status[o] = "open" /\ store = plan[o].old
    /\ status' = [status EXCEPT ![o] = "reverted"]
    /\ UNCHANGED <<store, plan>>

\* The undo of a committed operation, or the retry of a rollback whose result
\* could not be trusted.
Reopen(o) ==
    /\ NoneOpen
    /\ \/ status[o] = "committed" /\ store = plan[o].new
       \/ status[o] = "reverted" /\ store = plan[o].old
    /\ status' = [status EXCEPT ![o] = "open"]
    /\ UNCHANGED <<store, plan>>

Next == \E o \in Ops : \/ \E v \in Versions : Begin(o, v)
                       \/ Move(o) \/ Commit(o) \/ Revert(o) \/ Reopen(o)

Spec == Init /\ [][Next]_vars
=============================================================================
