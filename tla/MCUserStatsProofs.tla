------------------------- MODULE MCUserStatsProofs -------------------------
(***************************************************************************)
(* The two parts of MCUserStats side by side: what is proved of each holds *)
(* of the behaviours that explore one of them while the other one rests.   *)
(***************************************************************************)
EXTENDS MCUserStats, UserStatsProofs, AuditTrailProofs

\* A behaviour of both is one of each: accounting and access log share nothing.
LEMMA BothParts == MCSpec => Spec /\ LogSpec
<1>1. MCInit => Init /\ LogInit
  BY DEF MCInit
<1>2. [MCNext]_<<part, vars, logVars>> => [Next]_vars /\ [LogNext]_logVars
  <2>1. CASE part = "accounting" /\ Next /\ UNCHANGED <<part, logVars>>
    BY <2>1
  <2>2. CASE part = "log" /\ LogNext /\ UNCHANGED <<part, vars>>
    BY <2>2
  <2>3. CASE UNCHANGED <<part, vars, logVars>>
    BY <2>3
  <2> QED
    BY <2>1, <2>2, <2>3 DEF MCNext
<1> QED
  BY <1>1, <1>2, PTL DEF MCSpec, Spec, LogSpec

\* The types of the counters, of the quota table and of the access log
\* (Counter, quotaState, auditWriter), in both parts.
THEOREM TypesOfBoth == MCSpec => []TypesOK
<1>1. TypeOK /\ LogTypeOK => TypesOK
  BY DEF TypesOK
<1> QED
  BY <1>1, BothParts, AccountsAreTyped, LogTypes, PTL

\* However often a connection is closed, finish counts it off once and hands one
\* record over: the sessions of its lineage are exact, and no record is in the
\* log and the queues twice (connState.finish, submit).
THEOREM FinishedConnectionsOnce == MCSpec => []FinishedOnce
<1>1. SessionsExact /\ RecordOnce => FinishedOnce
  BY DEF FinishedOnce
<1> QED
  BY <1>1, BothParts, SessionsAreExact, RecordsOnce, PTL
=============================================================================
