---------------------------- MODULE MCUserStats ----------------------------
(* Model-checking instance of UserStats and of AuditTrail.  A connection   *)
(* meets both, but they share no variable: a behaviour explores one of the *)
(* two while the other one rests.                                          *)
EXTENDS UserStats, AuditTrail, TLC

CONSTANTS Quotas,       \* remaining bytes a table may grant
          FirstUser, OtherUser,
          MaxRecords    \* audited connections: 1..MaxRecords, the first of FirstUser

VARIABLE part           \* "accounting" or "log"

\* Tables of at most one lineage: both are limited and lifted by two PUTs.
MCTables == {t \in UNION {[s -> Quotas] : s \in SUBSET Users} :
                /\ Cardinality(DOMAIN t) <= 1
                /\ \A u \in DOMAIN t \ Initial : t[u] = 1}
MCRecords == 1..MaxRecords
MCOwner   == [r \in MCRecords |-> IF r = 1 THEN FirstUser ELSE OtherUser]

MCInit == part \in {"accounting", "log"} /\ Init /\ LogInit

MCNext ==
    \/ part = "accounting" /\ Next /\ UNCHANGED <<part, logVars>>
    \/ part = "log" /\ LogNext /\ UNCHANGED <<part, vars>>

MCSpec == MCInit /\ [][MCNext]_<<part, vars, logVars>>

Symmetry == Permutations(Conns) \cup Permutations(Handlers) \cup Permutations(Dirs)

\* Bound: control requests and reloads are at most two together, and with the
\* connections under way at most three; a third chunk with at most one of each.
ThreeAtOnce ==
    LET controls == Cardinality({h \in Handlers : call[h].pc # "off"}) + reloads
    IN /\ controls <= 2
       /\ Cardinality({c \in Conns : conn[c].pc # "idle"}) + controls <= 3
       /\ chunks = 3 => /\ Cardinality({c \in Conns : conn[c].pc # "idle"}) <= 1
                        /\ controls <= 1

\* The connections of OtherUser are interchangeable: they begin in order.
InOrder == \A r \in 3..MaxRecords : connState[r].pc # "new" => connState[r - 1].pc # "new"

\* The types of both.
TypesOK == TypeOK /\ (part = "log" => LogTypeOK)

\* A connection ends once, though each of its copy loops and enforcement close
\* it: it is counted off once, and it is in the log once (finish, 纪律 1).
FinishedOnce == SessionsExact /\ (part = "log" => RecordOnce)
=============================================================================
