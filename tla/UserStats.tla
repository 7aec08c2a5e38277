----------------------------- MODULE UserStats -----------------------------
(***************************************************************************)
(* Accounting and quota of sing-box-plus (internal/userstats).  Copy loops *)
(* of the data plane count bytes on a lineage and charge them to its quota *)
(* without a lock (tracker.go, counter.go); PUT /v3/quota replaces the     *)
(* whole table of quotas under a mutex, cell by cell (quota.go); GET       *)
(* /v3/snapshot reads the counters one by one under another (snapshot.go); *)
(* a reload reconciles the lineages with a new configuration (registry.go).*)
(* Every atomic load and store the copy loops share is a step of its own.  *)
(***************************************************************************)
EXTENDS Integers, FiniteSets

CONSTANTS Users,         \* lineages
          Initial,       \* the ones configured at the start
          Conns,         \* connections under way at one time
          Dirs,          \* copy loops of a connection
          Handlers,      \* control requests, each handled by a goroutine
          Tables,        \* quota tables: functions from sets of Users
          MaxEpoch,      \* bound: epochs of the controller
          CounterMax,    \* maxUint64
          MaxChunks,     \* bound: chunks copied
          MaxReloads,    \* bound: reloads of the configuration
          StartupAction, \* before the first table: "allow" or "deny"
          StaleAction,   \* when the table is too old: "allow" or "deny"
          None

ASSUME UserStatsAssumption ==
    /\ CounterMax \in Nat /\ MaxChunks \in Nat /\ MaxReloads \in Nat
    /\ MaxEpoch \in Nat /\ IsFiniteSet(Conns) /\ IsFiniteSet(Dirs)
    /\ Initial \subseteq Users
    /\ StartupAction \in {"allow", "deny"} /\ StaleAction \in {"allow", "deny"}
    /\ \A t \in Tables : t \in [DOMAIN t -> Nat]
    /\ None \notin Handlers /\ None \notin Users /\ None \notin Nat

VARIABLES
    known,     \* lineages the registry has a record of, tombstones included
    active,    \* the configured ones
    counter,   \* bytes of a lineage, saturating
    overflow,  \* health.counter_overflow
    cell,      \* quotaCell: [limited, remaining, cooling]
    table,     \* quotaState: [epoch, accepted, stale]
    apply,     \* holder of quota.apply
    snap,      \* holder of snapshotMu
    sequence,  \* sequence of the last snapshot
    sessions,  \* tcpSessions + udpSessions
    conn,      \* connState and the admission before it; over and late are
               \* history: the chunks charged to a quota that was or became
               \* used up, and the loops whose chunk was copied while another
               \* loop was about to close the connection
    flow,      \* the copy loops
    call,      \* the control requests
    bill,      \* history: what the last table granted, what was charged to it
    chunks,    \* history: chunks copied
    reloads    \* history: reloads

lineages == <<known, active, counter, overflow, reloads>>
gate     == <<cell, table>>
traffic  == <<sessions, conn, flow, chunks>>
control  == <<apply, snap, sequence, call>>
vars == <<lineages, gate, traffic, control, bill>>

Idle == [pc |-> "idle", user |-> None, enforced |-> FALSE, closed |-> FALSE,
         finished |-> FALSE, over |-> 0, late |-> {}]
Off  == [pc |-> "off", no |-> 0, tab |-> <<>>, left |-> {}, cur |-> None,
         view |-> <<>>]

Init ==
    /\ known = Initial /\ active = Initial
    /\ counter = [u \in Users |-> 0] /\ overflow = FALSE
    /\ cell = [u \in Users |->
                 [limited |-> FALSE, remaining |-> 0, cooling |-> FALSE]]
    /\ table = [epoch |-> 0, accepted |-> FALSE, stale |-> FALSE]
    /\ apply = None /\ snap = None /\ sequence = 0
    /\ sessions = 0
    /\ conn = [c \in Conns |-> Idle]
    /\ flow = [f \in Conns \X Dirs |-> "off"]
    /\ call = [h \in Handlers |-> Off]
    /\ bill = [u \in Users |-> [granted |-> None, spent |-> 0]]
    /\ chunks = 0 /\ reloads = 0

-----------------------------------------------------------------------------
(* Admission: resolve, admit, noteDenied *)

\* lookup and the begin of admit.  Anonymous and unknown identities are
\* rejected before any state is touched.
Open(c, u) ==
    /\ conn[c].pc = "idle" /\ u \in active
    /\ conn' = [conn EXCEPT ![c] = [Idle EXCEPT !.pc = "state", !.user = u]]
    /\ UNCHANGED <<lineages, gate, control, bill, sessions, flow, chunks>>

Goto(c, pc) ==
    /\ conn' = [conn EXCEPT ![c].pc = pc]
    /\ UNCHANGED <<lineages, gate, control, bill, sessions, flow, chunks>>

\* exhausted() is two loads.
AdmitState(c) ==
    /\ conn[c].pc = "state"
    /\ Goto(c, IF cell[conn[c].user].limited THEN "remaining" ELSE "cooling")

AdmitRemaining(c) ==
    /\ conn[c].pc = "remaining"
    /\ Goto(c, IF cell[conn[c].user].remaining <= 0 THEN "deny" ELSE "cooling")

AdmitCooling(c) ==
    /\ conn[c].pc = "cooling"
    /\ Goto(c, IF cell[conn[c].user].cooling THEN "deny" ELSE "table")

AdmitTable(c) ==
    /\ conn[c].pc = "table"
    /\ Goto(c, IF \/ ~table.accepted /\ StartupAction = "deny"
                  \/ table.accepted /\ table.stale /\ StaleAction = "deny"
               THEN "deny" ELSE "track")

\* noteDenied, whatever the verdict was.
Deny(c) ==
    /\ conn[c].pc = "deny"
    /\ cell' = [cell EXCEPT ![conn[c].user].cooling = TRUE]
    /\ conn' = [conn EXCEPT ![c] = Idle]
    /\ UNCHANGED <<lineages, table, control, bill, sessions, flow, chunks>>

\* newConnState and the session counter.
Track(c) ==
    /\ conn[c].pc = "track"
    /\ conn' = [conn EXCEPT ![c].pc = "live"]
    /\ sessions' = sessions + 1
    /\ flow' = [f \in DOMAIN flow |-> IF f[1] = c THEN "run" ELSE flow[f]]
    /\ UNCHANGED <<lineages, gate, control, bill, chunks>>

-----------------------------------------------------------------------------
(* The copy loops: countUplink, countDownlink, enforce, finish *)

FlowTo(f, pc) == flow' = [flow EXCEPT ![f] = pc]
UserOf(f) == conn[f[1]].user

\* A copy loop is between the mark of enforce and the end of its Close.
Cutting(c) == \E d \in Dirs : flow[<<c, d>>] \in {"marked", "closing"}

\* Mutant: the counter does not saturate.
BugSaturated(n) == n + 1

\* saturatingUint64.add
Saturated(n) == IF n < CounterMax THEN n + 1 ELSE CounterMax

\* One chunk was copied; bound: MaxChunks.
Count(f) ==
    /\ flow[f] = "run" /\ ~conn[f[1]].closed
    /\ chunks < MaxChunks
    /\ counter' = [counter EXCEPT ![UserOf(f)] = Saturated(@)]
    /\ overflow' = (overflow \/ counter[UserOf(f)] = CounterMax)
    /\ chunks' = chunks + 1
    /\ conn' = IF Cutting(f[1]) THEN [conn EXCEPT ![f[1]].late = @ \cup {f[2]}] ELSE conn
    /\ FlowTo(f, "counted")
    /\ UNCHANGED <<known, active, reloads, gate, control, bill, sessions>>

\* The history after a chunk is charged, over the quota or not.
Charged(f, over) == [conn EXCEPT ![f[1]].late = @ \ {f[2]},
                                 ![f[1]].over = IF over /\ f[2] \notin conn[f[1]].late
                                                THEN @ + 1 ELSE @]

\* consume: the load of the state,
ConsumeState(f) ==
    /\ flow[f] = "counted"
    /\ IF cell[UserOf(f)].limited
       THEN FlowTo(f, "charging") /\ conn' = conn
       ELSE FlowTo(f, "run") /\ conn' = Charged(f, FALSE)
    /\ UNCHANGED <<lineages, gate, control, bill, sessions, chunks>>

\* Mutant: the quota ends one chunk early.
BugExhaustedEarly(remaining) == remaining <= 1

\* and the charge.
Exhausted(remaining) == remaining <= 0

ConsumeCharge(f) ==
    /\ flow[f] = "charging"
    /\ LET u == UserOf(f)
           rest == cell[u].remaining - 1
       IN /\ cell' = [cell EXCEPT ![u].remaining = rest]
          /\ bill' = [bill EXCEPT ![u].spent = @ + 1]
          /\ conn' = Charged(f, rest <= 0)
          /\ FlowTo(f, IF Exhausted(rest) THEN "cut" ELSE "run")
    /\ UNCHANGED <<lineages, table, control, sessions, chunks>>

\* Mutant: the result of Swap is taken the wrong way round.
BugEnforceMark(f) ==
    /\ flow[f] = "cut"
    /\ FlowTo(f, IF conn[f[1]].enforced THEN "marked" ELSE "run")
    /\ conn' = [conn EXCEPT ![f[1]].enforced = TRUE]
    /\ UNCHANGED <<lineages, gate, control, bill, sessions, chunks>>

\* enforce: the first loop marks the connection, the others go on at once,
EnforceMark(f) ==
    /\ flow[f] = "cut"
    /\ FlowTo(f, IF conn[f[1]].enforced THEN "run" ELSE "marked")
    /\ conn' = [conn EXCEPT ![f[1]].enforced = TRUE]
    /\ UNCHANGED <<lineages, gate, control, bill, sessions, chunks>>

\* then it throttles the lineage (noteDenied),
EnforceDeny(f) ==
    /\ flow[f] = "marked"
    /\ FlowTo(f, "closing")
    /\ cell' = [cell EXCEPT ![UserOf(f)].cooling = TRUE]
    /\ UNCHANGED <<lineages, table, control, bill, sessions, conn, chunks>>

\* and only then the connection is closed.
EnforceClose(f) ==
    /\ flow[f] = "closing"
    /\ FlowTo(f, "run")
    /\ conn' = [conn EXCEPT ![f[1]].closed = TRUE]
    /\ UNCHANGED <<lineages, gate, control, bill, sessions, chunks>>

\* Mutant: finish without its once.
BugFinished(c) == sessions - 1

\* The once of finish: the number of sessions after this Close.
Finished(c) == IF conn[c].finished THEN sessions ELSE sessions - 1

\* A loop ends and calls Close: every loop of a connection does.  What finish
\* changes no copy loop reads, so it is one step with the Close that follows it.
Close(f) ==
    /\ flow[f] = "run"
    /\ FlowTo(f, "off")
    /\ sessions' = Finished(f[1])
    /\ conn' = [conn EXCEPT ![f[1]] =
                   IF \A d \in Dirs : d # f[2] => flow[<<f[1], d>>] = "off"
                   THEN Idle
                   ELSE [@ EXCEPT !.closed = TRUE, !.finished = TRUE]]
    /\ UNCHANGED <<lineages, gate, control, bill, chunks>>

-----------------------------------------------------------------------------
(* PUT /v3/quota: handleQuotaRoute, ApplyQuotaTable *)

CallTo(h, changed) == call' = [call EXCEPT ![h] = changed]

\* A request for this runtime, with a valid body; bound: MaxEpoch.
Put(h, epoch, tab) ==
    /\ call[h].pc = "off"
    /\ CallTo(h, [Off EXCEPT !.pc = "put", !.no = epoch, !.tab = tab])
    /\ UNCHANGED <<lineages, gate, traffic, bill, apply, snap, sequence>>

\* What a PUT does next, with the lineages still to be lifted or limited.
Lift(r, left) ==
    IF left # {} THEN [r EXCEPT !.pc = "lift", !.left = left]
                 ELSE [r EXCEPT !.pc = IF DOMAIN r.tab = {} THEN "epoch" ELSE "grant",
                                !.left = DOMAIN r.tab, !.cur = None]
Limit(r, left) ==
    [r EXCEPT !.pc = IF left = {} THEN "epoch" ELSE "grant",
              !.left = left, !.cur = None]

StaleEpoch(epoch) == table.accepted /\ epoch <= table.epoch

\* Mutant: the check does not wait for the request that holds quota.apply.
BugPutCheck(h) ==
    /\ call[h].pc = "put"
    /\ apply' = h
    /\ CallTo(h, IF StaleEpoch(call[h].no) THEN [call[h] EXCEPT !.pc = "conflict"]
                 ELSE Lift(call[h], known \ DOMAIN call[h].tab))
    /\ UNCHANGED <<lineages, gate, traffic, bill, snap, sequence>>

PutCheck(h) ==
    /\ call[h].pc = "put" /\ apply = None
    /\ LET r == call[h]
           refused == StaleEpoch(r.no) \/ ~(DOMAIN r.tab \subseteq known)
       IN /\ apply' = IF refused THEN None ELSE h
          /\ CallTo(h, IF StaleEpoch(r.no) THEN [r EXCEPT !.pc = "conflict"]
                       ELSE IF refused THEN [r EXCEPT !.pc = "unknown"]
                       ELSE Lift(r, known \ DOMAIN r.tab))
    /\ UNCHANGED <<lineages, gate, traffic, bill, snap, sequence>>

\* setUnlimited: first the state, then the remaining quota.
PutLift(h) ==
    /\ call[h].pc = "lift"
    /\ \E u \in call[h].left :
          /\ cell' = [cell EXCEPT ![u].limited = FALSE]
          /\ CallTo(h, [call[h] EXCEPT !.pc = "clear", !.cur = u])
    /\ UNCHANGED <<lineages, table, traffic, bill, apply, snap, sequence>>

PutClear(h) ==
    /\ call[h].pc = "clear"
    /\ LET u == call[h].cur
       IN /\ cell' = [cell EXCEPT ![u].remaining = 0]
          /\ bill' = [bill EXCEPT ![u] = [granted |-> None, spent |-> 0]]
          /\ CallTo(h, Lift(call[h], call[h].left \ {u}))
    /\ UNCHANGED <<lineages, table, traffic, apply, snap, sequence>>

\* setLimited: first the remaining quota, then the state,
PutGrant(h) ==
    /\ call[h].pc = "grant"
    /\ \E u \in call[h].left :
          /\ cell' = [cell EXCEPT ![u].remaining = call[h].tab[u]]
          /\ bill' = [bill EXCEPT ![u] = [granted |-> call[h].tab[u], spent |-> 0]]
          /\ CallTo(h, [call[h] EXCEPT !.pc = "limit", !.cur = u])
    /\ UNCHANGED <<lineages, table, traffic, apply, snap, sequence>>

PutLimit(h) ==
    /\ call[h].pc = "limit"
    /\ cell' = [cell EXCEPT ![call[h].cur].limited = TRUE]
    /\ CallTo(h, [call[h] EXCEPT !.pc = "cool"])
    /\ UNCHANGED <<lineages, table, traffic, bill, apply, snap, sequence>>

\* and the end of the reconnect throttle.
PutCool(h) ==
    /\ call[h].pc = "cool"
    /\ cell' = [cell EXCEPT ![call[h].cur].cooling = FALSE]
    /\ CallTo(h, Limit(call[h], call[h].left \ {call[h].cur}))
    /\ UNCHANGED <<lineages, table, traffic, bill, apply, snap, sequence>>

\* Three stores publish the table.
PutEpoch(h) ==
    /\ call[h].pc = "epoch"
    /\ table' = [table EXCEPT !.epoch = call[h].no]
    /\ CallTo(h, [call[h] EXCEPT !.pc = "accept"])
    /\ UNCHANGED <<lineages, cell, traffic, bill, apply, snap, sequence>>

PutAccept(h) ==
    /\ call[h].pc = "accept"
    /\ table' = [table EXCEPT !.accepted = TRUE]
    /\ CallTo(h, [call[h] EXCEPT !.pc = "fresh"])
    /\ UNCHANGED <<lineages, cell, traffic, bill, apply, snap, sequence>>

PutDone(h) ==
    /\ call[h].pc = "fresh"
    /\ table' = [table EXCEPT !.stale = FALSE]
    /\ apply' = None
    /\ CallTo(h, [call[h] EXCEPT !.pc = "applied"])
    /\ UNCHANGED <<lineages, cell, traffic, bill, snap, sequence>>

-----------------------------------------------------------------------------
(* GET /v3/snapshot *)

Get(h) ==
    /\ call[h].pc = "off"
    /\ CallTo(h, [Off EXCEPT !.pc = "get"])
    /\ UNCHANGED <<lineages, gate, traffic, bill, apply, snap, sequence>>

\* Mutant: a snapshot that does not wait for another one.
BugSnapshotBegin(h) ==
    /\ call[h].pc = "get"
    /\ sequence' = sequence + 1
    /\ CallTo(h, [call[h] EXCEPT !.pc = "read", !.no = sequence + 1, !.left = known])
    /\ UNCHANGED <<lineages, gate, traffic, bill, apply, snap>>

\* nextSequence, the flags and the list of lineages, under snapshotMu.
SnapshotBegin(h) ==
    /\ call[h].pc = "get" /\ snap = None
    /\ snap' = h
    /\ sequence' = sequence + 1
    /\ CallTo(h, [call[h] EXCEPT !.pc = "read", !.no = sequence + 1, !.left = known])
    /\ UNCHANGED <<lineages, gate, traffic, bill, apply>>

\* One counter is loaded; the last one ends the snapshot.
SnapshotRead(h) ==
    /\ call[h].pc = "read"
    /\ \E u \in call[h].left :
          LET r == call[h]
              last == r.left = {u}
          IN /\ CallTo(h, [r EXCEPT !.pc = IF last THEN "shown" ELSE "read",
                                    !.left = @ \ {u},
                                    !.view = [v \in DOMAIN @ \cup {u} |->
                                                IF v = u THEN counter[u] ELSE @[v]]])
             /\ snap' = IF last THEN None ELSE snap
    /\ UNCHANGED <<lineages, gate, traffic, bill, apply, sequence>>

-----------------------------------------------------------------------------
(* The configuration and the clock *)

Settled(h) == call[h].pc \in {"off", "conflict", "unknown", "applied", "shown"}

\* A reload: the sockets are closed first and wait for their handlers; no
\* record is deleted.
Reload(users) ==
    /\ reloads < MaxReloads
    /\ \A h \in Handlers : Settled(h)
    /\ known' = known \cup users /\ active' = users
    /\ reloads' = reloads + 1
    /\ UNCHANGED <<counter, overflow, gate, traffic, control, bill>>

\* The throttle of a lineage is over.
CoolEnds(u) ==
    /\ cell[u].cooling
    /\ cell' = [cell EXCEPT ![u].cooling = FALSE]
    /\ UNCHANGED <<lineages, table, traffic, control, bill>>

\* stale_after has passed since lastAcceptedNanos, which is zero at first.
TableAges ==
    /\ ~table.stale
    /\ table' = [table EXCEPT !.stale = TRUE]
    /\ UNCHANGED <<lineages, cell, traffic, control, bill>>

Flows == Conns \X Dirs

Next ==
    \/ \E c \in Conns : \/ \E u \in Users : Open(c, u)
                        \/ AdmitState(c) \/ AdmitRemaining(c) \/ AdmitCooling(c)
                        \/ AdmitTable(c) \/ Deny(c) \/ Track(c)
    \/ \E f \in Flows : \/ Count(f) \/ ConsumeState(f) \/ ConsumeCharge(f)
                        \/ EnforceMark(f) \/ EnforceDeny(f) \/ EnforceClose(f)
                        \/ Close(f)
    \/ \E h \in Handlers :
          \/ \E e \in 1..MaxEpoch, t \in Tables : Put(h, e, t)
          \/ PutCheck(h) \/ PutLift(h) \/ PutClear(h) \/ PutGrant(h)
          \/ PutLimit(h) \/ PutCool(h) \/ PutEpoch(h) \/ PutAccept(h) \/ PutDone(h)
          \/ Get(h) \/ SnapshotBegin(h) \/ SnapshotRead(h)
    \/ \E s \in SUBSET Users : Reload(s)
    \/ \E u \in Users : CoolEnds(u)
    \/ TableAges

Spec == Init /\ [][Next]_vars

-----------------------------------------------------------------------------
(* Properties *)

Bills == {None} \cup Nat
ConnPcs == {"idle", "state", "remaining", "cooling", "table", "deny", "track", "live"}
FlowPcs == {"off", "run", "counted", "charging", "cut", "marked", "closing"}
CallPcs == {"off", "put", "lift", "clear", "grant", "limit", "cool", "epoch", "accept",
            "fresh", "applied", "conflict", "unknown", "get", "read", "shown"}

\* Types of the variables (the structs of registry.go, quota.go, tracker.go).
TypeOK ==
    /\ active \subseteq known /\ known \subseteq Users
    /\ counter \in [Users -> 0..CounterMax] /\ overflow \in BOOLEAN
    /\ cell \in [Users -> [limited : BOOLEAN, remaining : Int, cooling : BOOLEAN]]
    /\ table \in [epoch : Nat, accepted : BOOLEAN, stale : BOOLEAN]
    /\ apply \in Handlers \cup {None} /\ snap \in Handlers \cup {None}
    /\ sequence \in Nat /\ sessions \in Int
    /\ conn \in [Conns -> [pc : ConnPcs, user : Users \cup {None}, enforced : BOOLEAN,
                           closed : BOOLEAN, finished : BOOLEAN, over : Nat,
                           late : SUBSET Dirs]]
    /\ flow \in [Flows -> FlowPcs]
    /\ \A h \in Handlers :
          /\ call[h].pc \in CallPcs /\ call[h].no \in Nat
          /\ call[h].left \subseteq Users /\ call[h].cur \in Users \cup {None}
          /\ call[h].tab = <<>> \/ call[h].tab \in Tables
          /\ DOMAIN call[h].view \subseteq Users
    /\ bill \in [Users -> [granted : Bills, spent : Nat]]
    /\ chunks \in Nat /\ reloads \in Nat

\* The collector bills differences between snapshots in the order of their
\* sequence: numbers are unique, no lineage vanishes and no counter falls,
\* however many GETs overlap and whatever a reload removes (snapshotMu).
SnapshotsMonotone ==
    \A g, h \in Handlers :
       /\ g # h /\ call[g].pc = "shown" /\ call[h].pc = "shown"
       /\ call[g].no <= call[h].no
       => /\ call[g].no # call[h].no
          /\ \A u \in DOMAIN call[g].view :
                u \in DOMAIN call[h].view /\ call[g].view[u] <= call[h].view[u]

\* The sessions are the connections handed to the outbound and not closed
\* yet, though every copy loop of a connection calls Close (finish); the
\* drain waits for this number to be zero.
SessionsExact ==
    sessions = Cardinality({c \in Conns : conn[c].pc = "live" /\ ~conn[c].finished})

\* Nobody is cut, or turned away as exhausted, before the quota that the
\* current table grants is used up, while tables come and go (setLimited).
GateIsJustified ==
    [][\A u \in Users :
          /\ \/ \E f \in Flows : UserOf(f) = u /\ flow[f] = "charging" /\ flow'[f] = "cut"
             \/ \E c \in Conns : /\ conn[c].user = u
                                 /\ conn[c].pc = "remaining" /\ conn'[c].pc = "deny"
          /\ bill[u].granted # None
          => bill'[u].spent >= bill[u].granted]_vars

\* A connection takes at most one chunk per copy loop from a quota that is
\* used up, besides what its other loops copy between the mark of the first
\* one and its Close, however many connections share the quota and whatever
\* tables arrive meanwhile: a loop that enforce sends back because another one
\* came first copies nothing more once that one has closed the connection, and
\* no connection is marked and left open (enforce).
OvershootBounded == \A c \in Conns : conn[c].over <= Cardinality(Dirs)

Applied == {h \in Handlers : call[h].pc = "applied"}

\* Between two PUTs the cells are those of the accepted table with the
\* highest epoch, in whatever order PUTs arrive; a refused PUT left nothing.
NewestTableRules ==
    apply = None /\ Applied # {} =>
       \E h \in Applied :
          /\ \A g \in Applied : call[g].no <= call[h].no
          /\ table.epoch = call[h].no
          /\ \A u \in known :
                /\ cell[u].limited <=> u \in DOMAIN call[h].tab
                /\ u \in DOMAIN call[h].tab => bill[u].granted = call[h].tab[u]

\* A lineage that no table limits is not cut and not turned away as exhausted.
UnlimitedIsFree ==
    [][\A u \in Users :
          \/ \E f \in Flows : UserOf(f) = u /\ flow[f] = "charging" /\ flow'[f] = "cut"
          \/ \E c \in Conns : /\ conn[c].user = u
                              /\ conn[c].pc = "remaining" /\ conn'[c].pc = "deny"
          => bill[u].granted # None]_vars
=============================================================================
