-------------------------- MODULE UserStatsProofs --------------------------
(***************************************************************************)
(* Accounting and quota, proved for any number of lineages, connections,   *)
(* copy loops and control requests, any tables and any number of reloads:  *)
(* sessions, snapshots, the quota of a lineage, and which table the cells  *)
(* show between two PUTs.                                                  *)
(***************************************************************************)
EXTENDS UserStats, FiniteSetTheorems, TLAPS

Views == UNION {[s -> Nat] : s \in SUBSET Users}
Cells == [limited : BOOLEAN, remaining : Int, cooling : BOOLEAN]
Sockets == [pc : ConnPcs, user : Users \cup {None}, enforced : BOOLEAN,
            closed : BOOLEAN, finished : BOOLEAN, over : Nat, late : SUBSET Dirs]
Calls == [pc : CallPcs, no : Nat, tab : Tables \cup {<<>>}, left : SUBSET Users,
          cur : Users \cup {None}, view : Views]

\* A table that is being applied speaks of known lineages, and has an entry for
\* every one still to be limited.
TrueCall(r, users) ==
    /\ r.pc \in {"lift", "clear", "grant", "limit", "cool"} => DOMAIN r.tab \subseteq users
    /\ r.pc \in {"grant", "limit", "cool"} => r.left \subseteq DOMAIN r.tab

\* The types, with what they need to be inductive.
Shape ==
    /\ active \subseteq known /\ known \subseteq Users
    /\ counter \in [Users -> 0..CounterMax] /\ overflow \in BOOLEAN
    /\ cell \in [Users -> Cells]
    /\ table \in [epoch : Nat, accepted : BOOLEAN, stale : BOOLEAN]
    /\ apply \in Handlers \cup {None} /\ snap \in Handlers \cup {None}
    /\ sequence \in Nat /\ sessions \in Int
    /\ conn \in [Conns -> Sockets]
    /\ flow \in [Flows -> FlowPcs]
    /\ call \in [Handlers -> Calls]
    /\ \A h \in Handlers : TrueCall(call[h], known)
    /\ bill \in [Users -> [granted : Bills, spent : Nat]]
    /\ chunks \in Nat /\ reloads \in Nat

LEMMA ShapeIsEnough == Shape => TypeOK
<1> SUFFICES ASSUME Shape PROVE TypeOK
  OBVIOUS
<1>1. ASSUME NEW h \in Handlers
      PROVE  /\ call[h].pc \in CallPcs /\ call[h].no \in Nat
             /\ call[h].left \subseteq Users /\ call[h].cur \in Users \cup {None}
             /\ call[h].tab = <<>> \/ call[h].tab \in Tables
             /\ DOMAIN call[h].view \subseteq Users
  BY DEF Shape, Calls, Views
<1> QED
  BY <1>1 DEF Shape, TypeOK, Sockets, Cells

-----------------------------------------------------------------------------
(* Types *)

LEMMA InitShape == Init => Shape
<1> SUFFICES ASSUME Init PROVE Shape
  OBVIOUS
<1>1. Idle \in Sockets
  BY DEF Idle, Sockets, ConnPcs
<1>2. Off \in Calls /\ Off.pc = "off"
  <2>1. <<>> \in [{} -> Nat] /\ {} \in SUBSET Users
    OBVIOUS
  <2>2. <<>> \in Views
    BY <2>1 DEF Views
  <2> QED
    BY <2>2 DEF Off, Calls, CallPcs
<1>3. /\ call \in [Handlers -> Calls] /\ \A h \in Handlers : call[h].pc = "off"
      /\ conn \in [Conns -> Sockets]
  <2> HIDE DEF Off, Idle
  <2> QED
    BY <1>1, <1>2 DEF Init
<1>4. counter \in [Users -> 0..CounterMax]
  BY UserStatsAssumption DEF Init
<1>5. cell \in [Users -> Cells] /\ bill \in [Users -> [granted : Bills, spent : Nat]]
  BY DEF Init, Cells, Bills
<1>6. flow \in [Flows -> FlowPcs]
  BY DEF Init, Flows, FlowPcs
<1>7. table \in [epoch : Nat, accepted : BOOLEAN, stale : BOOLEAN]
  BY DEF Init
<1>8. /\ known = Initial /\ active = Initial /\ overflow = FALSE /\ apply = None /\ snap = None
      /\ sequence = 0 /\ sessions = 0 /\ chunks = 0 /\ reloads = 0
  BY DEF Init
<1>9. \A h \in Handlers : TrueCall(call[h], known)
  BY <1>3 DEF TrueCall
<1>10. active \subseteq known /\ known \subseteq Users
  BY <1>8, UserStatsAssumption
<1>11. /\ sequence \in Nat /\ sessions \in Int /\ chunks \in Nat /\ reloads \in Nat
  BY <1>8
<1>12. overflow \in BOOLEAN
  BY <1>8
<1>13. apply \in Handlers \cup {None} /\ snap \in Handlers \cup {None}
  BY <1>8
<1> HIDE DEF Init
<1> QED
  BY <1>3, <1>4, <1>5, <1>6, <1>7, <1>9, <1>10, <1>11, <1>12, <1>13 DEF Shape

\* Records of their types, as the copy loops change them.
LEMMA SocketFacts ==
  ASSUME Shape, NEW c \in Conns
  PROVE  /\ conn[c] \in Sockets
         /\ [conn[c] EXCEPT !.enforced = TRUE] \in Sockets
         /\ [conn[c] EXCEPT !.closed = TRUE] \in Sockets
         /\ [conn[c] EXCEPT !.closed = TRUE, !.finished = TRUE] \in Sockets
         /\ \A n \in Nat, s \in SUBSET Dirs :
               [conn[c] EXCEPT !.over = n, !.late = s] \in Sockets
<1>1. conn[c] \in Sockets
  BY DEF Shape
<1> DEFINE r == conn[c]
<1> HIDE DEF r
<1>2. r \in Sockets => /\ [r EXCEPT !.enforced = TRUE] \in Sockets
                       /\ [r EXCEPT !.closed = TRUE] \in Sockets
  BY DEF Sockets
<1>3. r \in Sockets => [r EXCEPT !.closed = TRUE, !.finished = TRUE] \in Sockets
  BY DEF Sockets
<1>4. r \in Sockets => \A n \in Nat, s \in SUBSET Dirs :
                         [r EXCEPT !.over = n, !.late = s] \in Sockets
  BY DEF Sockets
<1> QED
  BY <1>1, <1>2, <1>3, <1>4 DEF r

\* The history of a connection, as a chunk changes it.
LEMMA HistoryStep ==
  ASSUME Shape, NEW f \in Flows, Count(f) \/ ConsumeState(f) \/ ConsumeCharge(f)
  PROVE  \E n \in Nat, s \in SUBSET Dirs :
            conn' = [conn EXCEPT ![f[1]] = [conn[f[1]] EXCEPT !.over = n, !.late = s]]
<1> DEFINE c == f[1]
           r == conn[c]
<1>1. c \in Conns /\ f[2] \in Dirs /\ r \in Sockets
  BY DEF Flows, Shape
<1>2. /\ r.over \in Nat /\ r.late \in SUBSET Dirs
      /\ r = [r EXCEPT !.over = r.over, !.late = r.late]
  BY <1>1 DEF Sockets
<1>3. ASSUME conn' = conn
      PROVE  conn' = [conn EXCEPT ![c] = [r EXCEPT !.over = r.over, !.late = r.late]]
  BY <1>1, <1>2, <1>3 DEF Shape
<1>4. ASSUME conn' = [conn EXCEPT ![c].late = @ \cup {f[2]}]
      PROVE  \E s \in SUBSET Dirs :
                conn' = [conn EXCEPT ![c] = [r EXCEPT !.over = r.over, !.late = s]]
  <2> DEFINE s == r.late \cup {f[2]}
  <2>1. conn' = [conn EXCEPT ![c] = [r EXCEPT !.late = s]]
    BY <1>4
  <2>2. [r EXCEPT !.late = s] = [r EXCEPT !.over = r.over, !.late = s]
    BY <1>1 DEF Sockets
  <2>3. s \in SUBSET Dirs
    BY <1>1, <1>2
  <2> HIDE DEF s, r, c
  <2> QED
    BY <2>1, <2>2, <2>3
<1>5. ASSUME NEW b \in BOOLEAN, conn' = Charged(f, b)
      PROVE  \E n \in Nat, s \in SUBSET Dirs :
                conn' = [conn EXCEPT ![c] = [r EXCEPT !.over = n, !.late = s]]
  <2> DEFINE s == r.late \ {f[2]}
             n == IF b /\ f[2] \notin r.late THEN r.over + 1 ELSE r.over
  <2>1. conn' = [conn EXCEPT ![c] = [r EXCEPT !.late = s, !.over = n]]
    BY <1>1, <1>5 DEF Charged, Shape
  <2>2. [r EXCEPT !.late = s, !.over = n] = [r EXCEPT !.over = n, !.late = s]
    BY <1>1 DEF Sockets
  <2>3. s \in SUBSET Dirs /\ n \in Nat
    BY <1>2
  <2> HIDE DEF s, n, r, c
  <2> QED
    BY <2>1, <2>2, <2>3
<1>6. \/ conn' = conn
      \/ conn' = [conn EXCEPT ![c].late = @ \cup {f[2]}]
      \/ \E b \in BOOLEAN : conn' = Charged(f, b)
  <2>1. CASE Count(f)
    BY <2>1 DEF Count
  <2>2. CASE ConsumeState(f)
    BY <2>2 DEF ConsumeState
  <2>3. CASE ConsumeCharge(f)
    <3>1. conn' = Charged(f, cell[UserOf(f)].remaining - 1 <= 0)
      BY <2>3 DEF ConsumeCharge
    <3>2. (cell[UserOf(f)].remaining - 1 <= 0) \in BOOLEAN
      OBVIOUS
    <3> QED
      BY <3>1, <3>2
  <2> QED
    BY <2>1, <2>2, <2>3
<1> HIDE DEF r
<1> QED
  BY <1>2, <1>3, <1>4, <1>5, <1>6 DEF r

\* No step of a copy loop before its Close moves, opens or finishes a connection.
LEMMA LoopStep ==
  ASSUME Shape, NEW f \in Flows,
         \/ Count(f) \/ ConsumeState(f) \/ ConsumeCharge(f)
         \/ EnforceMark(f) \/ EnforceDeny(f) \/ EnforceClose(f)
  PROVE  \E o \in Sockets : /\ conn' = [conn EXCEPT ![f[1]] = o]
                            /\ o.pc = conn[f[1]].pc /\ o.finished = conn[f[1]].finished
<1> DEFINE c == f[1]
           r == conn[c]
<1>1. c \in Conns /\ r \in Sockets
  BY DEF Flows, Shape
<1>2. CASE Count(f) \/ ConsumeState(f) \/ ConsumeCharge(f)
  <2>1. PICK n \in Nat, s \in SUBSET Dirs :
           conn' = [conn EXCEPT ![c] = [r EXCEPT !.over = n, !.late = s]]
    BY <1>2, HistoryStep
  <2> DEFINE o == [r EXCEPT !.over = n, !.late = s]
  <2>2. o \in Sockets
    BY <1>1, SocketFacts
  <2>3. o.pc = r.pc /\ o.finished = r.finished
    BY <1>1 DEF Sockets
  <2> QED
    BY <2>1, <2>2, <2>3
<1>3. CASE EnforceMark(f)
  <2> DEFINE o == [r EXCEPT !.enforced = TRUE]
  <2>1. conn' = [conn EXCEPT ![c] = o] /\ o \in Sockets
    BY <1>1, <1>3, SocketFacts DEF EnforceMark
  <2>2. o.pc = r.pc /\ o.finished = r.finished
    BY <1>1 DEF Sockets
  <2> QED
    BY <2>1, <2>2
<1>4. CASE EnforceDeny(f)
  <2>1. conn' = [conn EXCEPT ![c] = r]
    BY <1>1, <1>4 DEF EnforceDeny, Shape
  <2> QED
    BY <1>1, <2>1
<1>5. CASE EnforceClose(f)
  <2> DEFINE o == [r EXCEPT !.closed = TRUE]
  <2>1. conn' = [conn EXCEPT ![c] = o] /\ o \in Sockets
    BY <1>1, <1>5, SocketFacts DEF EnforceClose
  <2>2. o.pc = r.pc /\ o.finished = r.finished
    BY <1>1 DEF Sockets
  <2> QED
    BY <2>1, <2>2
<1> QED
  BY <1>2, <1>3, <1>4, <1>5

LEMMA CellFacts ==
  ASSUME Shape, NEW u \in Users
  PROVE  /\ cell[u] \in Cells
         /\ \A n \in Int : [cell[u] EXCEPT !.remaining = n] \in Cells
         /\ \A b \in BOOLEAN : /\ [cell[u] EXCEPT !.cooling = b] \in Cells
                              /\ [cell[u] EXCEPT !.limited = b] \in Cells
<1>1. cell[u] \in Cells
  BY DEF Shape
<1> DEFINE r == cell[u]
<1> HIDE DEF r
<1>2. r \in Cells => /\ \A n \in Int : [r EXCEPT !.remaining = n] \in Cells
                     /\ \A b \in BOOLEAN : /\ [r EXCEPT !.cooling = b] \in Cells
                                          /\ [r EXCEPT !.limited = b] \in Cells
  BY DEF Cells
<1> QED
  BY <1>1, <1>2 DEF r

\* A request changes its own record only.
LEMMA CallShape ==
  ASSUME Shape, NEW h \in Handlers, NEW r \in Calls, CallTo(h, r), TrueCall(r, known)
  PROVE  /\ call' \in [Handlers -> Calls]
         /\ \A g \in Handlers : TrueCall(call'[g], known)
<1>1. call' \in [Handlers -> Calls] /\ call'[h] = r
      /\ \A g \in Handlers : g # h => call'[g] = call[g]
  BY DEF Shape, CallTo
<1> QED
  BY <1>1 DEF Shape

\* Nothing but the place of the records of connections changes.
LEMMA AdmitShape ==
  ASSUME Shape, NEW c \in Conns,
         \/ \E u \in Users : Open(c, u)
         \/ AdmitState(c) \/ AdmitRemaining(c) \/ AdmitCooling(c) \/ AdmitTable(c)
  PROVE  Shape'
<1>1. \A r \in Sockets, pc \in ConnPcs : [r EXCEPT !.pc = pc] \in Sockets
  BY DEF Sockets
<1>2. conn' \in [Conns -> Sockets]
  <2>1. CASE \E u \in Users : Open(c, u)
    <3>1. PICK u \in Users : conn' = [conn EXCEPT ![c] = [Idle EXCEPT !.pc = "state", !.user = u]]
      BY <2>1 DEF Open
    <3>2. [Idle EXCEPT !.pc = "state", !.user = u] \in Sockets
      BY DEF Idle, Sockets, ConnPcs
    <3> QED
      BY <3>1, <3>2 DEF Shape
  <2>2. CASE AdmitState(c) \/ AdmitRemaining(c) \/ AdmitCooling(c) \/ AdmitTable(c)
    <3>1. \E pc \in ConnPcs : conn' = [conn EXCEPT ![c].pc = pc]
      <4>1. /\ "remaining" \in ConnPcs /\ "cooling" \in ConnPcs /\ "deny" \in ConnPcs
            /\ "table" \in ConnPcs /\ "track" \in ConnPcs
        BY DEF ConnPcs
      <4> QED
        BY <2>2, <4>1 DEF AdmitState, AdmitRemaining, AdmitCooling, AdmitTable, Goto
    <3>2. PICK pc \in ConnPcs : conn' = [conn EXCEPT ![c].pc = pc]
      BY <3>1
    <3>3. conn' = [conn EXCEPT ![c] = [conn[c] EXCEPT !.pc = pc]]
      BY <3>2
    <3>4. [conn[c] EXCEPT !.pc = pc] \in Sockets
      BY <1>1 DEF Shape
    <3> QED
      BY <3>3, <3>4 DEF Shape
  <2> QED
    BY <2>1, <2>2
<1>3. UNCHANGED <<lineages, gate, control, bill, sessions, flow, chunks>>
  BY DEF Open, AdmitState, AdmitRemaining, AdmitCooling, AdmitTable, Goto
<1> QED
  BY <1>2, <1>3 DEF Shape, lineages, gate, control

\* What the copy loops and the end of an admission do to a connection and its cell.
LEMMA CellShape ==
  ASSUME Shape, NEW u, NEW r, cell' = [cell EXCEPT ![u] = r], u \in Users => r \in Cells
  PROVE  cell' \in [Users -> Cells]
BY DEF Shape

LEMMA FlowShape ==
  ASSUME Shape, NEW f \in Flows, NEW pc \in FlowPcs, FlowTo(f, pc)
  PROVE  flow' \in [Flows -> FlowPcs]
BY DEF Shape, FlowTo

LEMMA DenyShape ==
  ASSUME Shape, NEW c \in Conns, Deny(c)
  PROVE  Shape'
<1>1. conn' \in [Conns -> Sockets]
  <2>1. Idle \in Sockets
    BY DEF Idle, Sockets, ConnPcs
  <2> HIDE DEF Idle
  <2> QED
    BY <2>1 DEF Deny, Shape
<1>2. cell' \in [Users -> Cells]
  <2> DEFINE u == conn[c].user
             r == [cell[u] EXCEPT !.cooling = TRUE]
  <2>1. cell' = [cell EXCEPT ![u] = r]
    BY DEF Deny
  <2>2. u \in Users => r \in Cells
    BY CellFacts DEF Cells
  <2> QED
    BY <2>1, <2>2, CellShape
<1> QED
  BY <1>1, <1>2 DEF Deny, Shape, lineages, control

LEMMA TrackShape ==
  ASSUME Shape, NEW c \in Conns, Track(c)
  PROVE  Shape'
<1>1. conn' \in [Conns -> Sockets]
  <2>1. conn' = [conn EXCEPT ![c] = [conn[c] EXCEPT !.pc = "live"]]
    BY DEF Track
  <2>2. [conn[c] EXCEPT !.pc = "live"] \in Sockets
    BY DEF Shape, Sockets, ConnPcs
  <2> QED
    BY <2>1, <2>2 DEF Shape
<1>2. flow' \in [Flows -> FlowPcs]
  BY DEF Track, Shape, FlowPcs
<1>3. sessions' \in Int
  BY DEF Track, Shape
<1> QED
  BY <1>1, <1>2, <1>3 DEF Track, Shape, lineages, gate, control

LEMMA LoopShape ==
  ASSUME Shape, NEW f \in Flows,
         \/ Count(f) \/ ConsumeState(f) \/ ConsumeCharge(f)
         \/ EnforceMark(f) \/ EnforceDeny(f) \/ EnforceClose(f)
  PROVE  Shape'
<1>1. conn' \in [Conns -> Sockets]
  BY LoopStep DEF Shape
<1>2. flow' \in [Flows -> FlowPcs]
  <2>1. \E pc \in FlowPcs : FlowTo(f, pc)
    <3>1. {"run", "counted", "charging", "cut", "marked", "closing"} \subseteq FlowPcs
      BY DEF FlowPcs
    <3> QED
      BY <3>1 DEF Count, ConsumeState, ConsumeCharge, EnforceMark, EnforceDeny, EnforceClose
  <2> QED
    BY <2>1, FlowShape
<1>3. counter' \in [Users -> 0..CounterMax] /\ overflow' \in BOOLEAN
  <2>1. CASE Count(f)
    <3>1. \A n \in 0..CounterMax : Saturated(n) \in 0..CounterMax
      BY UserStatsAssumption DEF Saturated
    <3>2. counter' \in [Users -> 0..CounterMax]
      BY <2>1, <3>1 DEF Count, Shape
    <3>3. overflow' \in BOOLEAN
      BY <2>1 DEF Count, Shape
    <3> QED
      BY <3>2, <3>3
  <2>2. CASE ~Count(f)
    BY <2>2 DEF ConsumeState, ConsumeCharge, EnforceMark, EnforceDeny, EnforceClose, Shape,
                lineages
  <2> QED
    BY <2>1, <2>2
<1>4. cell' \in [Users -> Cells]
  <2> DEFINE u == UserOf(f)
             n == cell[u].remaining - 1
             a == [cell[u] EXCEPT !.remaining = n]
             b == [cell[u] EXCEPT !.cooling = TRUE]
  <2>1. \/ cell' = cell \/ cell' = [cell EXCEPT ![u] = a] \/ cell' = [cell EXCEPT ![u] = b]
    BY DEF Count, ConsumeState, ConsumeCharge, EnforceMark, EnforceDeny, EnforceClose, gate
  <2>2. ASSUME u \in Users PROVE a \in Cells /\ b \in Cells
    <3>1. n \in Int
      BY <2>2, CellFacts DEF Cells
    <3> QED
      BY <2>2, <3>1, CellFacts
  <2> HIDE DEF a, b
  <2> QED
    BY <2>1, <2>2, CellShape DEF Shape
<1>5. bill' \in [Users -> [granted : Bills, spent : Nat]]
  <2> DEFINE u == UserOf(f)
             b == [bill[u] EXCEPT !.spent = @ + 1]
  <2>1. bill' = bill \/ bill' = [bill EXCEPT ![u] = b]
    BY DEF Count, ConsumeState, ConsumeCharge, EnforceMark, EnforceDeny, EnforceClose
  <2>2. u \in Users => b \in [granted : Bills, spent : Nat]
    BY DEF Shape
  <2> HIDE DEF b
  <2> QED
    BY <2>1, <2>2 DEF Shape
<1>6. chunks' \in Nat
  <2>1. chunks' = chunks \/ chunks' = chunks + 1
    BY DEF Count, ConsumeState, ConsumeCharge, EnforceMark, EnforceDeny, EnforceClose
  <2> QED
    BY <2>1 DEF Shape
<1>7. UNCHANGED <<known, active, reloads, table, control, sessions>>
  BY DEF Count, ConsumeState, ConsumeCharge, EnforceMark, EnforceDeny, EnforceClose,
         lineages, gate
<1> QED
  BY <1>1, <1>2, <1>3, <1>4, <1>5, <1>6, <1>7 DEF Shape, control

LEMMA CloseShape ==
  ASSUME Shape, NEW f \in Flows, Close(f)
  PROVE  Shape'
<1>1. flow' \in [Flows -> FlowPcs]
  BY FlowShape DEF Close, FlowPcs
<1> DEFINE o == [conn[f[1]] EXCEPT !.closed = TRUE, !.finished = TRUE]
<1>2. conn' = [conn EXCEPT ![f[1]] = Idle] \/ conn' = [conn EXCEPT ![f[1]] = o]
  BY DEF Close
<1>3. Idle \in Sockets
  BY DEF Idle, Sockets, ConnPcs
<1>4. f[1] \in Conns /\ o \in Sockets
  BY SocketFacts DEF Flows
<1>5. sessions' \in Int
  BY DEF Close, Shape, Finished
<1> HIDE DEF o, Idle
<1>6. conn' \in [Conns -> Sockets]
  BY <1>2, <1>3, <1>4 DEF Shape
<1> QED
  BY <1>1, <1>5, <1>6 DEF Close, Shape, lineages, gate, control

\* What the control requests do to a record of a call.
LEMMA CallFacts ==
  ASSUME Shape, NEW h \in Handlers
  PROVE  /\ call[h] \in Calls
         /\ \A pc \in CallPcs : [call[h] EXCEPT !.pc = pc] \in Calls
         /\ \A pc \in CallPcs, u \in Users : [call[h] EXCEPT !.pc = pc, !.cur = u] \in Calls
<1>1. call[h] \in Calls
  BY DEF Shape
<1> DEFINE r == call[h]
<1>2. r \in Calls
  BY <1>1
<1> HIDE DEF r
<1>3. \A pc \in CallPcs : [r EXCEPT !.pc = pc] \in Calls
  BY <1>2 DEF Calls
<1>4. \A pc \in CallPcs, u \in Users : [r EXCEPT !.pc = pc, !.cur = u] \in Calls
  BY <1>2 DEF Calls
<1> QED
  BY <1>2, <1>3, <1>4 DEF r

LEMMA LiftFacts ==
  ASSUME NEW r \in Calls, NEW left \in SUBSET Users, NEW users \in SUBSET Users,
         DOMAIN r.tab \subseteq users
  PROVE  LET s == Lift(r, left)
         IN  s \in Calls /\ TrueCall(s, users) /\ s.tab = r.tab /\ s.no = r.no /\ s.view = r.view
             /\ s.pc = (IF left # {} THEN "lift"
                        ELSE IF DOMAIN r.tab = {} THEN "epoch" ELSE "grant")
             /\ s.left = IF left # {} THEN left ELSE DOMAIN r.tab
<1>1. {"lift", "epoch", "grant"} \subseteq CallPcs
  BY DEF CallPcs
<1>2. CASE left # {}
  <2> DEFINE s == [r EXCEPT !.pc = "lift", !.left = left]
  <2>1. s \in Calls /\ s.pc = "lift" /\ s.left = left /\ s.tab = r.tab /\ s.no = r.no
        /\ s.view = r.view
    BY <1>1 DEF Calls
  <2>2. Lift(r, left) = s
    BY <1>2 DEF Lift
  <2> HIDE DEF s
  <2> QED
    BY <1>2, <2>1, <2>2 DEF TrueCall
<1>3. CASE left = {}
  <2> DEFINE pc == IF DOMAIN r.tab = {} THEN "epoch" ELSE "grant"
             s  == [r EXCEPT !.pc = pc, !.left = DOMAIN r.tab, !.cur = None]
  <2>1. pc \in CallPcs /\ pc \in {"epoch", "grant"} /\ DOMAIN r.tab \in SUBSET Users
    BY <1>1
  <2>2. Lift(r, left) = s
    BY <1>3 DEF Lift
  <2> HIDE DEF pc
  <2>3. s \in Calls /\ s.pc = pc /\ s.left = DOMAIN r.tab /\ s.tab = r.tab /\ s.no = r.no
        /\ s.view = r.view
    BY <2>1 DEF Calls
  <2> HIDE DEF s
  <2> QED
    BY <1>3, <2>1, <2>2, <2>3 DEF TrueCall, pc
<1> QED
  BY <1>2, <1>3

LEMMA LimitFacts ==
  ASSUME NEW r \in Calls, NEW left \in SUBSET Users, NEW users \in SUBSET Users,
         DOMAIN r.tab \subseteq users, left \subseteq DOMAIN r.tab
  PROVE  LET s == Limit(r, left)
         IN  s \in Calls /\ TrueCall(s, users) /\ s.tab = r.tab /\ s.no = r.no /\ s.view = r.view
             /\ s.pc = (IF left = {} THEN "epoch" ELSE "grant") /\ s.left = left
<1> DEFINE pc == IF left = {} THEN "epoch" ELSE "grant"
           s  == [r EXCEPT !.pc = pc, !.left = left, !.cur = None]
<1>1. pc \in CallPcs
  BY DEF CallPcs
<1>2. Limit(r, left) = s
  BY DEF Limit
<1> HIDE DEF pc
<1>3. s \in Calls /\ s.pc = pc /\ s.left = left /\ s.tab = r.tab /\ s.no = r.no
      /\ s.view = r.view
  BY <1>1 DEF Calls
<1> HIDE DEF s
<1> QED
  BY <1>2, <1>3 DEF TrueCall, pc

\* A step of a request that leaves the cells alone.
LEMMA RequestShape ==
  ASSUME Shape, NEW h \in Handlers, NEW r \in Calls, CallTo(h, r), TrueCall(r, known),
         UNCHANGED <<lineages, cell, traffic, bill>>,
         table' \in [epoch : Nat, accepted : BOOLEAN, stale : BOOLEAN],
         apply' \in Handlers \cup {None}, snap' \in Handlers \cup {None}, sequence' \in Nat
  PROVE  Shape'
BY CallShape DEF Shape, lineages, traffic

\* One that changes a cell, and maybe the bill of its lineage.
LEMMA ApplyShape ==
  ASSUME Shape, NEW h \in Handlers, NEW r \in Calls, CallTo(h, r), TrueCall(r, known),
         UNCHANGED <<lineages, table, traffic, apply, snap, sequence>>,
         NEW u, NEW k, cell' = [cell EXCEPT ![u] = k], u \in Users => k \in Cells,
         bill' \in [Users -> [granted : Bills, spent : Nat]]
  PROVE  Shape'
BY CallShape, CellShape DEF Shape, lineages, traffic

\* A request that has just arrived.
LEMMA OffFacts ==
    /\ Off \in Calls /\ Off.pc = "off"
    /\ \A e \in Nat, t \in Tables :
          LET r == [Off EXCEPT !.pc = "put", !.no = e, !.tab = t]
          IN  r \in Calls /\ r.pc = "put"
    /\ LET r == [Off EXCEPT !.pc = "get"] IN r \in Calls /\ r.pc = "get"
<1>1. <<>> \in Views
  <2>1. <<>> \in [{} -> Nat] /\ {} \in SUBSET Users
    OBVIOUS
  <2> QED
    BY <2>1 DEF Views
<1>2. Off \in Calls /\ Off.pc = "off"
  BY <1>1 DEF Off, Calls, CallPcs
<1> DEFINE o == Off
<1>3. o \in Calls
  BY <1>2
<1> HIDE DEF o
<1>4. \A e \in Nat, t \in Tables : LET r == [o EXCEPT !.pc = "put", !.no = e, !.tab = t]
                                   IN  r \in Calls /\ r.pc = "put"
  BY <1>3 DEF Calls, CallPcs
<1>5. LET r == [o EXCEPT !.pc = "get"] IN r \in Calls /\ r.pc = "get"
  BY <1>3 DEF Calls, CallPcs
<1> QED
  BY <1>2, <1>4, <1>5 DEF o

LEMMA PutShape ==
  ASSUME Shape, NEW h \in Handlers, NEW e \in 1..MaxEpoch, NEW t \in Tables, Put(h, e, t)
  PROVE  Shape'
<1> DEFINE r == [Off EXCEPT !.pc = "put", !.no = e, !.tab = t]
<1>1. e \in Nat
  BY UserStatsAssumption
<1>2. r \in Calls /\ r.pc = "put"
  BY <1>1, OffFacts
<1>3. CallTo(h, r) /\ UNCHANGED <<lineages, gate, traffic, bill, apply, snap, sequence>>
  BY DEF Put
<1> HIDE DEF r
<1>4. TrueCall(r, known)
  BY <1>2 DEF TrueCall
<1> QED
  BY <1>2, <1>3, <1>4, RequestShape DEF Shape, gate

LEMMA PutCheckShape ==
  ASSUME Shape, NEW h \in Handlers, PutCheck(h)
  PROVE  Shape'
<1> DEFINE r == call[h]
           refused == StaleEpoch(r.no) \/ ~(DOMAIN r.tab \subseteq known)
<1>1. r \in Calls /\ known \in SUBSET Users
  BY DEF Shape
<1>2. apply' \in Handlers \cup {None}
  BY DEF PutCheck
<1>3. \E s \in Calls : CallTo(h, s) /\ TrueCall(s, known)
  <2>1. CASE refused
    <3>1. \E pc \in {"conflict", "unknown"} : CallTo(h, [r EXCEPT !.pc = pc])
      BY <2>1 DEF PutCheck
    <3>2. PICK pc \in {"conflict", "unknown"} : CallTo(h, [r EXCEPT !.pc = pc])
      BY <3>1
    <3>3. [r EXCEPT !.pc = pc] \in Calls /\ [r EXCEPT !.pc = pc].pc = pc
      BY <1>1 DEF Calls, CallPcs
    <3> QED
      BY <3>2, <3>3 DEF TrueCall
  <2>2. CASE ~refused
    <3> DEFINE left == known \ DOMAIN r.tab
    <3>1. CallTo(h, Lift(r, left)) /\ DOMAIN r.tab \subseteq known
      BY <2>2 DEF PutCheck
    <3>2. left \in SUBSET Users
      BY <1>1
    <3> HIDE DEF left
    <3> QED
      BY <1>1, <3>1, <3>2, LiftFacts
  <2> QED
    BY <2>1, <2>2
<1> QED
  BY <1>2, <1>3, RequestShape DEF PutCheck, Shape, gate

LEMMA PutLiftShape ==
  ASSUME Shape, NEW h \in Handlers, PutLift(h) \/ PutClear(h)
  PROVE  Shape'
<1> DEFINE r == call[h]
<1>1. /\ r \in Calls /\ known \in SUBSET Users /\ TrueCall(r, known)
      /\ r.left \in SUBSET Users /\ r.pc \in {"lift", "clear"} /\ DOMAIN r.tab \subseteq known
  BY DEF Shape, Calls, TrueCall, PutLift, PutClear
<1>2. CASE PutLift(h)
  <2>1. PICK u \in r.left : /\ cell' = [cell EXCEPT ![u].limited = FALSE]
                            /\ CallTo(h, [r EXCEPT !.pc = "clear", !.cur = u])
    BY <1>2 DEF PutLift
  <2> DEFINE k == [cell[u] EXCEPT !.limited = FALSE]
             s == [r EXCEPT !.pc = "clear", !.cur = u]
  <2>2. u \in Users /\ k \in Cells /\ cell' = [cell EXCEPT ![u] = k]
    BY <1>1, <2>1, CellFacts
  <2>3. s \in Calls /\ s.pc = "clear" /\ s.tab = r.tab
    BY <1>1, <2>2 DEF Calls, CallPcs
  <2>4. TrueCall(s, known)
    BY <1>1, <2>3 DEF TrueCall
  <2>5. UNCHANGED <<lineages, table, traffic, bill, apply, snap, sequence>>
    BY <1>2 DEF PutLift
  <2>6. CallTo(h, s)
    BY <2>1
  <2> HIDE DEF s, k
  <2> QED
    BY <2>2, <2>3, <2>4, <2>5, <2>6, ApplyShape DEF Shape
<1>3. CASE PutClear(h)
  <2> DEFINE u == r.cur
             s == Lift(r, r.left \ {u})
             k == [cell[u] EXCEPT !.remaining = 0]
             b == [granted |-> None, spent |-> 0]
  <2>1. /\ cell' = [cell EXCEPT ![u] = k] /\ bill' = [bill EXCEPT ![u] = b]
        /\ CallTo(h, s) /\ UNCHANGED <<lineages, table, traffic, apply, snap, sequence>>
    BY <1>3 DEF PutClear
  <2>2. u \in Users => k \in Cells
    BY CellFacts
  <2>3. b \in [granted : Bills, spent : Nat]
    BY DEF Bills
  <2>4. bill' \in [Users -> [granted : Bills, spent : Nat]]
    BY <2>1, <2>3 DEF Shape
  <2>5. r.left \ {u} \in SUBSET Users
    BY <1>1
  <2>6. s \in Calls /\ TrueCall(s, known)
    BY <1>1, <2>5, LiftFacts
  <2> HIDE DEF s, k, u
  <2> QED
    BY <2>1, <2>2, <2>4, <2>6, ApplyShape
<1> QED
  BY <1>2, <1>3

LEMMA PutGrantShape ==
  ASSUME Shape, NEW h \in Handlers, PutGrant(h) \/ PutLimit(h) \/ PutCool(h)
  PROVE  Shape'
<1> DEFINE r == call[h]
<1>1. /\ r \in Calls /\ known \in SUBSET Users /\ TrueCall(r, known)
      /\ r.left \in SUBSET Users /\ r.pc \in {"grant", "limit", "cool"}
      /\ DOMAIN r.tab \subseteq known /\ r.left \subseteq DOMAIN r.tab
  BY DEF Shape, Calls, TrueCall, PutGrant, PutLimit, PutCool
<1>2. CASE PutGrant(h)
  <2>1. PICK u \in r.left :
          /\ cell' = [cell EXCEPT ![u].remaining = r.tab[u]]
          /\ bill' = [bill EXCEPT ![u] = [granted |-> r.tab[u], spent |-> 0]]
          /\ CallTo(h, [r EXCEPT !.pc = "limit", !.cur = u])
    BY <1>2 DEF PutGrant
  <2> DEFINE k == [cell[u] EXCEPT !.remaining = r.tab[u]]
             s == [r EXCEPT !.pc = "limit", !.cur = u]
  <2>2. r.tab[u] \in Nat
    <3>1. r.tab \in Tables \cup {<<>>} /\ u \in DOMAIN r.tab
      BY <1>1 DEF Calls
    <3>2. r.tab \in Tables
      BY <3>1
    <3>3. r.tab \in [DOMAIN r.tab -> Nat]
      BY <3>2, UserStatsAssumption
    <3> QED
      BY <3>1, <3>3
  <2>3. u \in Users /\ k \in Cells /\ cell' = [cell EXCEPT ![u] = k]
    BY <1>1, <2>1, <2>2, CellFacts
  <2>4. s \in Calls /\ s.pc = "limit" /\ s.tab = r.tab /\ s.left = r.left
    BY <1>1, <2>3 DEF Calls, CallPcs
  <2>5. TrueCall(s, known)
    BY <1>1, <2>4 DEF TrueCall
  <2>6. UNCHANGED <<lineages, table, traffic, apply, snap, sequence>>
    BY <1>2 DEF PutGrant
  <2>7. CallTo(h, s)
    BY <2>1
  <2>8. bill' \in [Users -> [granted : Bills, spent : Nat]]
    BY <2>1, <2>2 DEF Shape, Bills
  <2> HIDE DEF s, k
  <2> QED
    BY <2>3, <2>4, <2>5, <2>6, <2>7, <2>8, ApplyShape
<1>3. CASE PutLimit(h)
  <2> DEFINE u == r.cur
             s == [r EXCEPT !.pc = "cool"]
             k == [cell[u] EXCEPT !.limited = TRUE]
  <2>1. /\ cell' = [cell EXCEPT ![u] = k] /\ CallTo(h, s)
        /\ UNCHANGED <<lineages, table, traffic, bill, apply, snap, sequence>>
    BY <1>3 DEF PutLimit
  <2>2. u \in Users => k \in Cells
    BY CellFacts
  <2>3. s \in Calls /\ s.pc = "cool" /\ s.tab = r.tab /\ s.left = r.left
    BY <1>1 DEF Calls, CallPcs
  <2>4. TrueCall(s, known)
    BY <1>1, <2>3 DEF TrueCall
  <2> HIDE DEF s, k, u
  <2> QED
    BY <2>1, <2>2, <2>3, <2>4, ApplyShape DEF Shape
<1>4. CASE PutCool(h)
  <2> DEFINE u == r.cur
             s == Limit(r, r.left \ {u})
             k == [cell[u] EXCEPT !.cooling = FALSE]
  <2>1. /\ cell' = [cell EXCEPT ![u] = k] /\ CallTo(h, s)
        /\ UNCHANGED <<lineages, table, traffic, bill, apply, snap, sequence>>
    BY <1>4 DEF PutCool
  <2>2. u \in Users => k \in Cells
    BY CellFacts
  <2>3. r.left \ {u} \in SUBSET Users /\ r.left \ {u} \subseteq DOMAIN r.tab
    BY <1>1
  <2>4. s \in Calls /\ TrueCall(s, known)
    BY <1>1, <2>3, LimitFacts
  <2> HIDE DEF s, k, u
  <2> QED
    BY <2>1, <2>2, <2>4, ApplyShape DEF Shape
<1> QED
  BY <1>2, <1>3, <1>4

LEMMA PublishShape ==
  ASSUME Shape, NEW h \in Handlers, PutEpoch(h) \/ PutAccept(h) \/ PutDone(h)
  PROVE  Shape'
<1>1. \E pc \in {"accept", "fresh", "applied"} : CallTo(h, [call[h] EXCEPT !.pc = pc])
  BY DEF PutEpoch, PutAccept, PutDone
<1>2. PICK pc \in {"accept", "fresh", "applied"} : CallTo(h, [call[h] EXCEPT !.pc = pc])
  BY <1>1
<1> DEFINE s == [call[h] EXCEPT !.pc = pc]
<1>3. call[h] \in Calls /\ call[h].no \in Nat
  BY DEF Shape, Calls
<1>4. s \in Calls /\ s.pc = pc
  BY <1>3 DEF Calls, CallPcs
<1>5. table' \in [epoch : Nat, accepted : BOOLEAN, stale : BOOLEAN]
  BY <1>3 DEF PutEpoch, PutAccept, PutDone, Shape
<1>6. CallTo(h, s)
  BY <1>2
<1> HIDE DEF s
<1>7. TrueCall(s, known)
  BY <1>4 DEF TrueCall
<1>8. /\ UNCHANGED <<lineages, cell, traffic, bill, snap, sequence>>
      /\ apply' \in {apply, None}
  BY DEF PutEpoch, PutAccept, PutDone
<1> QED
  BY <1>4, <1>5, <1>6, <1>7, <1>8, RequestShape DEF Shape

\* A counter that is read is added to the snapshot.
LEMMA ViewFacts ==
  ASSUME Shape, NEW v \in Views, NEW u \in Users
  PROVE  LET w == [x \in DOMAIN v \cup {u} |-> IF x = u THEN counter[u] ELSE v[x]]
         IN  w \in Views
<1> DEFINE w == [x \in DOMAIN v \cup {u} |-> IF x = u THEN counter[u] ELSE v[x]]
<1>1. PICK s \in SUBSET Users : v \in [s -> Nat]
  BY DEF Views
<1>2. counter[u] \in Nat
  BY UserStatsAssumption DEF Shape
<1>3. w \in [s \cup {u} -> Nat] /\ s \cup {u} \in SUBSET Users
  BY <1>1, <1>2
<1> QED
  BY <1>3 DEF Views

LEMMA GetShape ==
  ASSUME Shape, NEW h \in Handlers, Get(h) \/ SnapshotBegin(h) \/ SnapshotRead(h)
  PROVE  Shape'
<1> DEFINE r == call[h]
<1>1. r \in Calls /\ known \in SUBSET Users /\ r.left \in SUBSET Users /\ r.view \in Views
  BY DEF Shape, Calls
<1>2. CASE Get(h)
  <2> DEFINE s == [Off EXCEPT !.pc = "get"]
  <2>1. s \in Calls /\ s.pc = "get"
    BY OffFacts
  <2>2. CallTo(h, s) /\ UNCHANGED <<lineages, gate, traffic, bill, apply, snap, sequence>>
    BY <1>2 DEF Get
  <2> HIDE DEF s
  <2>3. TrueCall(s, known)
    BY <2>1 DEF TrueCall
  <2> QED
    BY <2>1, <2>2, <2>3, RequestShape DEF Shape, gate
<1>3. CASE SnapshotBegin(h)
  <2> DEFINE s == [r EXCEPT !.pc = "read", !.no = sequence + 1, !.left = known]
  <2>0. sequence + 1 \in Nat
    BY DEF Shape
  <2>1. s \in Calls /\ s.pc = "read"
    BY <1>1, <2>0 DEF Calls, CallPcs
  <2>2. CallTo(h, s) /\ sequence' = sequence + 1 /\ snap' = h
        /\ UNCHANGED <<lineages, gate, traffic, bill, apply>>
    BY <1>3 DEF SnapshotBegin
  <2> HIDE DEF s
  <2> QED
    BY <2>1, <2>2, RequestShape DEF TrueCall, Shape, gate
<1>4. CASE SnapshotRead(h)
  <2>1. PICK u \in r.left :
          LET last == r.left = {u}
          IN /\ CallTo(h, [r EXCEPT !.pc = IF last THEN "shown" ELSE "read",
                                    !.left = @ \ {u},
                                    !.view = [v \in DOMAIN @ \cup {u} |->
                                                IF v = u THEN counter[u] ELSE @[v]]])
             /\ snap' = IF last THEN None ELSE snap
    BY <1>4 DEF SnapshotRead
  <2> DEFINE w  == [x \in DOMAIN r.view \cup {u} |-> IF x = u THEN counter[u] ELSE r.view[x]]
             pc == IF r.left = {u} THEN "shown" ELSE "read"
             s  == [r EXCEPT !.pc = pc, !.left = r.left \ {u}, !.view = w]
  <2>2. w \in Views /\ pc \in {"shown", "read"}
    BY <1>1, ViewFacts
  <2>3. CallTo(h, s)
    BY <2>1
  <2> HIDE DEF w, pc
  <2>4. s \in Calls /\ s.pc = pc
    BY <1>1, <2>2 DEF Calls, CallPcs
  <2>5. snap' \in {snap, None} /\ UNCHANGED <<lineages, gate, traffic, bill, apply, sequence>>
    BY <1>4 DEF SnapshotRead
  <2> HIDE DEF s
  <2> QED
    BY <2>2, <2>3, <2>4, <2>5, RequestShape DEF TrueCall, Shape, gate
<1> QED
  BY <1>2, <1>3, <1>4

LEMMA WorldShape ==
  ASSUME Shape, (\E s \in SUBSET Users : Reload(s)) \/ (\E u \in Users : CoolEnds(u)) \/ TableAges
  PROVE  Shape'
<1>1. CASE \E s \in SUBSET Users : Reload(s)
  <2>1. PICK s \in SUBSET Users : Reload(s)
    BY <1>1
  <2>2. known' = known \cup s /\ active' = s /\ reloads' = reloads + 1
        /\ UNCHANGED <<counter, overflow, gate, traffic, control, bill>>
    BY <2>1 DEF Reload
  <2>3. \A h \in Handlers : TrueCall(call'[h], known')
    BY <2>2 DEF Shape, TrueCall, control
  <2>4. known' \subseteq Users /\ active' \subseteq known' /\ reloads' \in Nat
    BY <2>2 DEF Shape
  <2>5. /\ counter' \in [Users -> 0..CounterMax] /\ overflow' \in BOOLEAN
        /\ UNCHANGED <<gate, traffic, control, bill>>
    BY <2>2 DEF Shape
  <2> QED
    BY <2>3, <2>4, <2>5 DEF Shape, gate, traffic, control
<1>2. CASE \E u \in Users : CoolEnds(u)
  <2>1. PICK u \in Users : cell' = [cell EXCEPT ![u] = [cell[u] EXCEPT !.cooling = FALSE]]
    BY <1>2 DEF CoolEnds
  <2>2. cell' \in [Users -> Cells]
    BY <2>1, CellFacts, CellShape
  <2>3. UNCHANGED <<lineages, table, traffic, control, bill>>
    BY <1>2 DEF CoolEnds
  <2> QED
    BY <2>2, <2>3 DEF Shape, lineages, traffic, control
<1>3. CASE TableAges
  BY <1>3 DEF TableAges, Shape, lineages, traffic, control
<1> QED
  BY <1>1, <1>2, <1>3

LEMMA StepShape == Shape /\ [Next]_vars => Shape'
<1> SUFFICES ASSUME Shape, [Next]_vars PROVE Shape'
  OBVIOUS
<1>1. CASE \E c \in Conns : \/ \E u \in Users : Open(c, u)
                            \/ AdmitState(c) \/ AdmitRemaining(c) \/ AdmitCooling(c)
                            \/ AdmitTable(c) \/ Deny(c) \/ Track(c)
  BY <1>1, AdmitShape, DenyShape, TrackShape
<1>2. CASE \E f \in Flows : \/ Count(f) \/ ConsumeState(f) \/ ConsumeCharge(f)
                            \/ EnforceMark(f) \/ EnforceDeny(f)
                            \/ EnforceClose(f) \/ Close(f)
  BY <1>2, LoopShape, CloseShape
<1>3. CASE \E h \in Handlers : \E e \in 1..MaxEpoch, t \in Tables : Put(h, e, t)
  BY <1>3, PutShape
<1>4. CASE \E h \in Handlers :
             PutCheck(h) \/ PutLift(h) \/ PutClear(h) \/ PutGrant(h)
             \/ PutLimit(h) \/ PutCool(h) \/ PutEpoch(h) \/ PutAccept(h) \/ PutDone(h)
  BY <1>4, PutCheckShape, PutLiftShape, PutGrantShape, PublishShape
<1>5. CASE \E h \in Handlers : Get(h) \/ SnapshotBegin(h) \/ SnapshotRead(h)
  BY <1>5, GetShape
<1>6. CASE (\E s \in SUBSET Users : Reload(s)) \/ (\E u \in Users : CoolEnds(u)) \/ TableAges
  BY <1>6, WorldShape
<1>7. CASE UNCHANGED vars
  BY <1>7 DEF Shape, vars, lineages, gate, traffic, control
<1> QED
  BY <1>1, <1>2, <1>3, <1>4, <1>5, <1>6, <1>7 DEF Next

LEMMA ShapeInvariant == Spec => []Shape
BY InitShape, StepShape, PTL DEF Spec

\* Every variable keeps its type (registry.go, quota.go, tracker.go).
THEOREM AccountsAreTyped == Spec => []TypeOK
BY ShapeInvariant, ShapeIsEnough, PTL

-----------------------------------------------------------------------------
(* The overshoot *)

\* The copy loops of c, with the record r and the loops w, that add no chunk to
\* its history before it is gone: the ones in enforce, the ones outside a chunk
\* once it is marked or closed, and the ones whose chunk came too late to count.
SpentIn(c, r, w) ==
    {d \in Dirs : \/ w[<<c, d>>] \in {"cut", "marked", "closing"}
                  \/ (r.enforced \/ r.closed) /\ w[<<c, d>>] \in {"run", "off"}
                  \/ d \in r.late}

\* A marked connection is closed, or one of its loops is about to close it.
Metered(c) ==
    /\ conn[c].enforced => conn[c].closed \/ Cutting(c)
    /\ Cutting(c) => conn[c].enforced
    /\ conn[c].late # {} => conn[c].enforced
    /\ conn[c].pc # "live" => /\ conn[c].over = 0 /\ conn[c].late = {}
                              /\ \A d \in Dirs : flow[<<c, d>>] = "off"
    /\ conn[c].over <= Cardinality(SpentIn(c, conn[c], flow))

\* Every chunk over the quota has ended a copy loop.
Meter == \A c \in Conns : Metered(c)

LEMMA SpentFinite ==
  ASSUME NEW c, NEW b, NEW w
  PROVE  /\ IsFiniteSet(SpentIn(c, b, w)) /\ Cardinality(SpentIn(c, b, w)) \in Nat
         /\ Cardinality(SpentIn(c, b, w)) <= Cardinality(Dirs)
<1>1. SpentIn(c, b, w) \subseteq Dirs
  BY DEF SpentIn
<1> QED
  BY <1>1, FS_Subset, FS_CardinalityType, UserStatsAssumption

\* Loops that are spent stay so,
LEMMA SpentTransfer ==
  ASSUME NEW c, NEW b, NEW w, NEW b2, NEW w2, SpentIn(c, b, w) \subseteq SpentIn(c, b2, w2),
         NEW n \in Nat, n <= Cardinality(SpentIn(c, b, w))
  PROVE  n <= Cardinality(SpentIn(c, b2, w2))
<1>1. Cardinality(SpentIn(c, b, w)) <= Cardinality(SpentIn(c, b2, w2))
  BY SpentFinite, FS_Subset
<1>2. Cardinality(SpentIn(c, b, w)) \in Nat /\ Cardinality(SpentIn(c, b2, w2)) \in Nat
  BY SpentFinite
<1> QED
  BY <1>1, <1>2

\* and one more makes one more.
LEMMA SpentRises ==
  ASSUME NEW c, NEW b, NEW w, NEW b2, NEW w2, NEW d,
         SpentIn(c, b, w) \subseteq SpentIn(c, b2, w2),
         d \in SpentIn(c, b2, w2), d \notin SpentIn(c, b, w),
         NEW n \in Nat, n <= Cardinality(SpentIn(c, b, w))
  PROVE  n + 1 <= Cardinality(SpentIn(c, b2, w2))
<1> DEFINE S == SpentIn(c, b, w)
           T == SpentIn(c, b2, w2)
<1>1. IsFiniteSet(S) /\ IsFiniteSet(T) /\ Cardinality(S) \in Nat /\ Cardinality(T) \in Nat
  BY SpentFinite
<1>2. S \cup {d} \subseteq T /\ d \notin S
  OBVIOUS
<1> HIDE DEF S, T
<1>3. Cardinality(S \cup {d}) = Cardinality(S) + 1
  BY <1>1, <1>2, FS_AddElement
<1>4. Cardinality(S \cup {d}) <= Cardinality(T)
  BY <1>1, <1>2, FS_Subset
<1>5. n <= Cardinality(S)
  BY DEF S
<1> QED
  BY <1>1, <1>3, <1>4, <1>5 DEF T

\* A step of one copy loop leaves the other connections as they are.
LEMMA LoopMeter ==
  ASSUME Shape, Meter, NEW f \in Flows, NEW pc, FlowTo(f, pc),
         NEW o, conn' = [conn EXCEPT ![f[1]] = o], o = conn'[f[1]] => Metered(f[1])'
  PROVE  Meter'
<1>1. f[1] \in Conns /\ f[2] \in Dirs /\ f = <<f[1], f[2]>>
  BY DEF Flows
<1>2. o = conn'[f[1]]
  BY <1>1 DEF Shape
<1>3. ASSUME NEW c \in Conns, c # f[1] PROVE Metered(c)'
  <2>1. conn'[c] = conn[c]
    BY <1>1, <1>3 DEF Shape
  <2>2. \A d \in Dirs : flow'[<<c, d>>] = flow[<<c, d>>]
    BY <1>1, <1>3 DEF Shape, FlowTo, Flows
  <2>3. SpentIn(c, conn'[c], flow') = SpentIn(c, conn[c], flow)
    BY <2>1, <2>2 DEF SpentIn
  <2>4. Cutting(c)' <=> Cutting(c)
    BY <2>2 DEF Cutting
  <2> QED
    BY <2>1, <2>2, <2>3, <2>4 DEF Meter, Metered
<1> QED
  BY <1>2, <1>3 DEF Meter

\* The loop that makes the step, and the others of its connection.
LEMMA FlowOf ==
  ASSUME Shape, NEW f \in Flows, NEW pc, FlowTo(f, pc)
  PROVE  /\ f[1] \in Conns /\ f[2] \in Dirs /\ flow'[<<f[1], f[2]>>] = pc
         /\ \A d \in Dirs : d # f[2] => flow'[<<f[1], d>>] = flow[<<f[1], d>>]
         /\ flow[<<f[1], f[2]>>] = flow[f]
<1>1. f[1] \in Conns /\ f[2] \in Dirs /\ f = <<f[1], f[2]>>
  BY DEF Flows
<1>2. f \in DOMAIN flow /\ \A d \in Dirs : <<f[1], d>> \in DOMAIN flow
  BY <1>1 DEF Shape, Flows
<1> QED
  BY <1>1, <1>2 DEF FlowTo

\* Whether a loop is about to close the connection changes with that loop only.
LEMMA CuttingOf ==
  ASSUME Shape, NEW f \in Flows, NEW pc, FlowTo(f, pc)
  PROVE  /\ pc \in {"marked", "closing"} => Cutting(f[1])'
         /\ pc \notin {"marked", "closing"} /\ Cutting(f[1])' => Cutting(f[1])
         /\ flow[f] \notin {"marked", "closing"} /\ Cutting(f[1]) => Cutting(f[1])'
         /\ flow[f] \in {"marked", "closing"} => Cutting(f[1])
<1> DEFINE c == f[1]
           d == f[2]
           In(w) == w \in {"marked", "closing"}
<1>1. /\ d \in Dirs /\ flow[<<c, d>>] = flow[f] /\ flow'[<<c, d>>] = pc
      /\ \A e \in Dirs : e # d => flow'[<<c, e>>] = flow[<<c, e>>]
  BY FlowOf
<1>2. /\ Cutting(c) <=> \E e \in Dirs : In(flow[<<c, e>>])
      /\ Cutting(c)' <=> \E e \in Dirs : In(flow'[<<c, e>>])
  BY DEF Cutting
<1> HIDE DEF c, d, In
<1>3. /\ In(pc) => Cutting(c)'
      /\ In(flow[f]) => Cutting(c)
      /\ ~In(pc) /\ Cutting(c)' => Cutting(c)
      /\ ~In(flow[f]) /\ Cutting(c) => Cutting(c)'
  <2>1. (In(pc) => Cutting(c)') /\ (In(flow[f]) => Cutting(c))
    BY <1>1, <1>2
  <2>2. ASSUME ~In(pc), Cutting(c)' PROVE Cutting(c)
    BY <1>1, <1>2, <2>2
  <2>3. ASSUME ~In(flow[f]), Cutting(c) PROVE Cutting(c)'
    BY <1>1, <1>2, <2>3
  <2> QED
    BY <2>1, <2>2, <2>3
<1> QED
  BY <1>3 DEF c, In

\* What the invariant says of the connection of a loop that is under way.
LEMMA MeterFacts ==
  ASSUME Shape, Meter, NEW f \in Flows, flow[f] # "off"
  PROVE  /\ f[1] \in Conns /\ f[2] \in Dirs /\ conn[f[1]] \in Sockets
         /\ flow[<<f[1], f[2]>>] = flow[f]
         /\ conn[f[1]].pc = "live" /\ conn[f[1]].over \in Nat
         /\ conn[f[1]].enforced => conn[f[1]].closed \/ Cutting(f[1])
         /\ Cutting(f[1]) => conn[f[1]].enforced
         /\ conn[f[1]].late # {} => conn[f[1]].enforced
         /\ conn[f[1]].over <= Cardinality(SpentIn(f[1], conn[f[1]], flow))
<1>1. f[1] \in Conns /\ f[2] \in Dirs /\ f = <<f[1], f[2]>>
  BY DEF Flows
<1>2. conn[f[1]] \in Sockets /\ conn[f[1]].over \in Nat
  BY <1>1 DEF Shape, Sockets
<1>3. flow[<<f[1], f[2]>>] = flow[f]
  BY <1>1
<1>4. Metered(f[1])
  BY <1>1 DEF Meter
<1> QED
  BY <1>1, <1>2, <1>3, <1>4 DEF Metered

\* A chunk copied while another loop is about to close the connection is late;
\* before that the connection is not marked and the loop is not spent.
LEMMA CountMeter ==
  ASSUME Shape, Meter, NEW f \in Flows, Count(f)
  PROVE  Meter'
<1> DEFINE c == f[1]
           d == f[2]
           r == conn[c]
           o == IF Cutting(c) THEN [r EXCEPT !.late = @ \cup {d}] ELSE r
<1>1. FlowTo(f, "counted") /\ flow[f] = "run" /\ ~r.closed
  BY DEF Count
<1>2. /\ c \in Conns /\ d \in Dirs /\ r \in Sockets /\ flow[<<c, d>>] = "run"
      /\ r.pc = "live" /\ r.over \in Nat
      /\ r.enforced <=> Cutting(c)
      /\ r.late # {} => r.enforced
      /\ r.over <= Cardinality(SpentIn(c, r, flow))
  BY <1>1, MeterFacts DEF Sockets
<1>3. conn' = [conn EXCEPT ![c] = o]
  BY <1>2 DEF Count, Shape
<1>4. /\ o.pc = "live" /\ o.over = r.over /\ o.enforced = r.enforced /\ o.closed = r.closed
      /\ o.late = IF Cutting(c) THEN r.late \cup {d} ELSE r.late
  BY <1>2 DEF Sockets
<1>5. flow'[<<c, d>>] = "counted" /\ \A e \in Dirs : e # d => flow'[<<c, e>>] = flow[<<c, e>>]
  BY <1>1, FlowOf
<1>6. Cutting(c)' <=> Cutting(c)
  BY <1>1, CuttingOf
<1> HIDE DEF o, r, c, d
<1>7. SpentIn(c, r, flow) \subseteq SpentIn(c, o, flow')
  <2>1. CASE Cutting(c)
    BY <1>4, <1>5, <2>1 DEF SpentIn
  <2>2. CASE ~Cutting(c)
    <3>1. ~r.enforced /\ ~r.closed /\ r.late = {}
      BY <1>1, <1>2, <2>2
    <3> QED
      BY <1>2, <1>4, <1>5, <2>2, <3>1 DEF SpentIn
  <2> QED
    BY <2>1, <2>2
<1>8. o.over <= Cardinality(SpentIn(c, o, flow'))
  BY <1>2, <1>4, <1>7, SpentTransfer
<1>9. o = conn'[c] => Metered(c)'
  BY <1>2, <1>4, <1>6, <1>8 DEF Metered
<1> QED
  BY <1>1, <1>3, <1>9, LoopMeter DEF c

\* A charge that finds the quota used up ends its loop.
LEMMA ConsumeMeter ==
  ASSUME Shape, Meter, NEW f \in Flows, ConsumeState(f) \/ ConsumeCharge(f)
  PROVE  Meter'
<1> DEFINE c == f[1]
           d == f[2]
           r == conn[c]
<1>1. PICK pc \in {"run", "charging", "cut"}, over \in BOOLEAN :
         /\ FlowTo(f, pc) /\ flow[f] \in {"counted", "charging"}
         /\ pc = "charging" => conn' = conn
         /\ pc # "charging" => conn' = Charged(f, over)
         /\ over => pc = "cut"
  <2>1. CASE ConsumeState(f)
    <3>1. CASE cell[UserOf(f)].limited
      <4>1. FlowTo(f, "charging") /\ flow[f] = "counted" /\ conn' = conn
        BY <2>1, <3>1 DEF ConsumeState
      <4> QED
        BY <4>1
    <3>2. CASE ~cell[UserOf(f)].limited
      <4>1. FlowTo(f, "run") /\ flow[f] = "counted" /\ conn' = Charged(f, FALSE)
        BY <2>1, <3>2 DEF ConsumeState
      <4> QED
        BY <4>1
    <3> QED
      BY <3>1, <3>2
  <2>2. CASE ConsumeCharge(f)
    <3> DEFINE over == cell[UserOf(f)].remaining - 1 <= 0
    <3>1. /\ FlowTo(f, IF over THEN "cut" ELSE "run") /\ flow[f] = "charging"
          /\ conn' = Charged(f, over)
      BY <2>2 DEF ConsumeCharge, Exhausted
    <3> HIDE DEF over
    <3>2. CASE over
      <4>1. over = TRUE
        BY <3>2 DEF over
      <4>2. FlowTo(f, "cut") /\ conn' = Charged(f, TRUE)
        BY <3>1, <4>1
      <4> QED
        BY <3>1, <4>2
    <3>3. CASE ~over
      <4>1. over = FALSE
        BY <3>3 DEF over
      <4>2. FlowTo(f, "run") /\ conn' = Charged(f, FALSE)
        BY <3>1, <4>1
      <4> QED
        BY <3>1, <4>2
    <3> QED
      BY <3>2, <3>3
  <2> QED
    BY <2>1, <2>2
<1> DEFINE up == over /\ d \notin r.late
           o == IF pc = "charging" THEN r
                ELSE [r EXCEPT !.late = @ \ {d}, !.over = IF up THEN @ + 1 ELSE @]
<1>2. /\ c \in Conns /\ d \in Dirs /\ r \in Sockets
      /\ flow[<<c, d>>] \in {"counted", "charging"}
      /\ r.pc = "live" /\ r.over \in Nat
      /\ r.enforced => r.closed \/ Cutting(c)
      /\ Cutting(c) => r.enforced
      /\ r.late # {} => r.enforced
      /\ r.over <= Cardinality(SpentIn(c, r, flow))
  BY <1>1, MeterFacts
<1>3. conn' = [conn EXCEPT ![c] = o]
  <2>1. CASE pc = "charging"
    BY <1>1, <1>2, <2>1 DEF Shape
  <2>2. CASE pc # "charging"
    BY <1>1, <1>2, <2>2 DEF Shape, Charged
  <2> QED
    BY <2>1, <2>2
<1>4. /\ o.pc = "live" /\ o.enforced = r.enforced /\ o.closed = r.closed
      /\ o.late = IF pc = "charging" THEN r.late ELSE r.late \ {d}
      /\ o.over = IF pc # "charging" /\ up THEN r.over + 1 ELSE r.over
  BY <1>2 DEF Sockets
<1>5. flow'[<<c, d>>] = pc /\ \A e \in Dirs : e # d => flow'[<<c, e>>] = flow[<<c, e>>]
  BY <1>1, FlowOf
<1>6. Cutting(c)' <=> Cutting(c)
  BY <1>1, CuttingOf
<1>7. up => pc = "cut" /\ d \notin r.late
  BY <1>1
<1> HIDE DEF o, r, c, d, up
<1>8. SpentIn(c, r, flow) \subseteq SpentIn(c, o, flow')
  <2>1. ASSUME NEW e \in SpentIn(c, r, flow), e # d PROVE e \in SpentIn(c, o, flow')
    BY <1>4, <1>5, <2>1 DEF SpentIn
  <2>2. ASSUME d \in SpentIn(c, r, flow) PROVE d \in SpentIn(c, o, flow')
    <3>1. d \in r.late /\ r.enforced
      BY <1>2, <2>2 DEF SpentIn
    <3>2. CASE pc = "charging"
      BY <1>2, <1>4, <3>1, <3>2 DEF SpentIn
    <3>3. CASE pc \in {"run", "cut"}
      BY <1>2, <1>4, <1>5, <3>1, <3>3 DEF SpentIn
    <3> QED
      BY <1>1, <3>2, <3>3
  <2> QED
    BY <2>1, <2>2
<1>9. o.over <= Cardinality(SpentIn(c, o, flow'))
  <2>1. CASE up
    <3>1. d \notin SpentIn(c, r, flow) /\ d \in SpentIn(c, o, flow')
      BY <1>2, <1>5, <1>7, <2>1 DEF SpentIn
    <3>2. r.over + 1 <= Cardinality(SpentIn(c, o, flow'))
      BY <1>2, <1>8, <3>1, SpentRises
    <3> QED
      BY <1>4, <1>7, <2>1, <3>2
  <2>2. CASE ~up
    BY <1>2, <1>4, <1>8, <2>2, SpentTransfer
  <2> QED
    BY <2>1, <2>2
<1>10. o.late # {} => o.enforced
  BY <1>2, <1>4
<1>11. o = conn'[c] => Metered(c)'
  BY <1>2, <1>4, <1>6, <1>9, <1>10 DEF Metered
<1> QED
  BY <1>1, <1>3, <1>11, LoopMeter DEF c

\* The first loop to enforce marks the connection, the others are sent back.
LEMMA MarkMeter ==
  ASSUME Shape, Meter, NEW f \in Flows, EnforceMark(f)
  PROVE  Meter'
<1> DEFINE c == f[1]
           d == f[2]
           r == conn[c]
           o == [r EXCEPT !.enforced = TRUE]
           pc == IF r.enforced THEN "run" ELSE "marked"
<1>1. FlowTo(f, pc) /\ flow[f] = "cut" /\ conn' = [conn EXCEPT ![c] = o]
  BY DEF EnforceMark
<1>2. /\ c \in Conns /\ d \in Dirs /\ r \in Sockets /\ r.pc = "live" /\ r.over \in Nat
      /\ r.enforced => r.closed \/ Cutting(c)
      /\ r.over <= Cardinality(SpentIn(c, r, flow))
  BY <1>1, MeterFacts
<1>3. /\ o.pc = "live" /\ o.over = r.over /\ o.enforced /\ o.closed = r.closed
      /\ o.late = r.late
  BY <1>2 DEF Sockets
<1>4. flow'[<<c, d>>] = pc /\ \A e \in Dirs : e # d => flow'[<<c, e>>] = flow[<<c, e>>]
  BY <1>1, FlowOf
<1>5. o.closed \/ Cutting(c)'
  <2>1. CASE r.enforced
    <3>1. Cutting(c) => Cutting(c)'
      BY <1>1, CuttingOf
    <3> QED
      BY <1>2, <1>3, <2>1, <3>1
  <2>2. CASE ~r.enforced
    BY <1>1, <2>2, CuttingOf
  <2> QED
    BY <2>1, <2>2
<1>6. pc \in {"run", "marked"}
  OBVIOUS
<1> HIDE DEF o, r, c, d, pc
<1>7. SpentIn(c, r, flow) \subseteq SpentIn(c, o, flow')
  BY <1>3, <1>4, <1>6 DEF SpentIn
<1>8. o.over <= Cardinality(SpentIn(c, o, flow'))
  BY <1>2, <1>3, <1>7, SpentTransfer
<1>9. o = conn'[c] => Metered(c)'
  BY <1>3, <1>5, <1>8 DEF Metered
<1> QED
  BY <1>1, <1>9, LoopMeter DEF c

\* Until it closes the connection a loop stays about to close it.
LEMMA DenyMeter ==
  ASSUME Shape, Meter, NEW f \in Flows, EnforceDeny(f)
  PROVE  Meter'
<1> DEFINE c == f[1]
           d == f[2]
           r == conn[c]
<1>1. FlowTo(f, "closing") /\ flow[f] = "marked" /\ conn' = conn
  BY DEF EnforceDeny
<1>2. /\ c \in Conns /\ d \in Dirs /\ r \in Sockets /\ r.pc = "live" /\ r.over \in Nat
      /\ Cutting(c) => r.enforced
      /\ r.over <= Cardinality(SpentIn(c, r, flow))
  BY <1>1, MeterFacts
<1>3. conn' = [conn EXCEPT ![c] = r]
  BY <1>1, <1>2 DEF Shape
<1>4. flow'[<<c, d>>] = "closing" /\ \A e \in Dirs : e # d => flow'[<<c, e>>] = flow[<<c, e>>]
  BY <1>1, FlowOf
<1>5. Cutting(c) /\ Cutting(c)'
  BY <1>1, CuttingOf
<1> HIDE DEF r, c, d
<1>6. SpentIn(c, r, flow) \subseteq SpentIn(c, r, flow')
  BY <1>4 DEF SpentIn
<1>7. r.over <= Cardinality(SpentIn(c, r, flow'))
  BY <1>2, <1>6, SpentTransfer
<1>8. r = conn'[c] => Metered(c)'
  BY <1>2, <1>5, <1>7 DEF Metered
<1> QED
  BY <1>1, <1>3, <1>8, LoopMeter DEF c

LEMMA CutMeter ==
  ASSUME Shape, Meter, NEW f \in Flows, EnforceClose(f)
  PROVE  Meter'
<1> DEFINE c == f[1]
           d == f[2]
           r == conn[c]
           o == [r EXCEPT !.closed = TRUE]
<1>1. FlowTo(f, "run") /\ flow[f] = "closing" /\ conn' = [conn EXCEPT ![c] = o]
  BY DEF EnforceClose
<1>2. /\ c \in Conns /\ d \in Dirs /\ r \in Sockets /\ r.pc = "live" /\ r.over \in Nat
      /\ Cutting(c) => r.enforced
      /\ r.over <= Cardinality(SpentIn(c, r, flow))
  BY <1>1, MeterFacts
<1>3. /\ o.pc = "live" /\ o.over = r.over /\ o.enforced = r.enforced /\ o.closed
      /\ o.late = r.late
  BY <1>2 DEF Sockets
<1>4. flow'[<<c, d>>] = "run" /\ \A e \in Dirs : e # d => flow'[<<c, e>>] = flow[<<c, e>>]
  BY <1>1, FlowOf
<1>5. Cutting(c)
  BY <1>1, CuttingOf
<1> HIDE DEF o, r, c, d
<1>6. SpentIn(c, r, flow) \subseteq SpentIn(c, o, flow')
  BY <1>3, <1>4 DEF SpentIn
<1>7. o.over <= Cardinality(SpentIn(c, o, flow'))
  BY <1>2, <1>3, <1>6, SpentTransfer
<1>8. o = conn'[c] => Metered(c)'
  BY <1>2, <1>3, <1>5, <1>7 DEF Metered
<1> QED
  BY <1>1, <1>8, LoopMeter DEF c

LEMMA CloseMeter ==
  ASSUME Shape, Meter, NEW f \in Flows, Close(f)
  PROVE  Meter'
<1> DEFINE c == f[1]
           d == f[2]
           r == conn[c]
           last == \A e \in Dirs : e # d => flow[<<c, e>>] = "off"
           o == IF last THEN Idle ELSE [r EXCEPT !.closed = TRUE, !.finished = TRUE]
<1>1. FlowTo(f, "off") /\ flow[f] = "run"
  BY DEF Close
<1>2. /\ c \in Conns /\ d \in Dirs /\ r \in Sockets /\ flow[<<c, d>>] = "run"
      /\ r.pc = "live" /\ r.over \in Nat
      /\ Cutting(c) => r.enforced
      /\ r.late # {} => r.enforced
      /\ r.over <= Cardinality(SpentIn(c, r, flow))
  BY <1>1, MeterFacts
<1>3. conn' = [conn EXCEPT ![c] = o]
  BY <1>2 DEF Close, Shape
<1>4. flow'[<<c, d>>] = "off" /\ \A e \in Dirs : e # d => flow'[<<c, e>>] = flow[<<c, e>>]
  BY <1>1, FlowOf
<1>5. Cutting(c)' => Cutting(c)
  BY <1>1, CuttingOf
<1>6. CASE last
  <2>1. o.pc = "idle" /\ o.over = 0 /\ o.late = {} /\ ~o.enforced
    BY <1>6 DEF Idle
  <2>2. \A e \in Dirs : flow'[<<c, e>>] = "off"
    BY <1>4, <1>6
  <2>3. ~Cutting(c)'
    BY <2>2 DEF Cutting
  <2> HIDE DEF o, r, c, d, last
  <2>4. o = conn'[c] => Metered(c)'
    BY <2>1, <2>2, <2>3, SpentFinite DEF Metered
  <2> QED
    BY <1>1, <1>3, <2>4, LoopMeter DEF c
<1>7. CASE ~last
  <2>1. /\ o.pc = "live" /\ o.closed /\ o.over = r.over /\ o.late = r.late
        /\ o.enforced = r.enforced
    BY <1>2, <1>7 DEF Sockets
  <2> HIDE DEF o, r, c, d, last
  <2>2. SpentIn(c, r, flow) \subseteq SpentIn(c, o, flow')
    BY <1>4, <2>1 DEF SpentIn
  <2>3. o.over <= Cardinality(SpentIn(c, o, flow'))
    BY <1>2, <2>1, <2>2, SpentTransfer
  <2>4. o = conn'[c] => Metered(c)'
    BY <1>2, <1>5, <2>1, <2>3 DEF Metered
  <2> QED
    BY <1>1, <1>3, <2>4, LoopMeter DEF c
<1> QED
  BY <1>6, <1>7

\* Before it is live a connection has copied nothing.
LEMMA AdmitMeter ==
  ASSUME Shape, Meter, NEW c \in Conns,
         \/ \E u \in Users : Open(c, u)
         \/ AdmitState(c) \/ AdmitRemaining(c) \/ AdmitCooling(c) \/ AdmitTable(c) \/ Deny(c)
  PROVE  Meter'
<1>1. flow' = flow /\ conn[c].pc # "live"
  BY DEF Open, AdmitState, AdmitRemaining, AdmitCooling, AdmitTable, Deny, Goto
<1>2. \A d \in Conns : d # c => conn'[d] = conn[d]
  BY DEF Open, AdmitState, AdmitRemaining, AdmitCooling, AdmitTable, Deny, Goto, Shape
<1>3. \A d \in Conns : Cutting(d)' <=> Cutting(d)
  BY <1>1 DEF Cutting
<1>4. /\ conn'[c].over = 0 /\ conn'[c].late = {} /\ conn'[c].pc # "live"
      /\ conn'[c].enforced => conn'[c].closed
  <2>1. /\ conn[c] \in Sockets /\ conn[c].over = 0 /\ conn[c].late = {}
        /\ conn[c].enforced => conn[c].closed
    <3>1. \A d \in Dirs : flow[<<c, d>>] = "off"
      BY <1>1 DEF Meter, Metered
    <3>2. ~Cutting(c)
      BY <3>1 DEF Cutting
    <3> QED
      BY <1>1, <3>2 DEF Meter, Metered, Shape
  <2>2. CASE \E u \in Users : Open(c, u)
    <3>1. PICK u \in Users : conn' = [conn EXCEPT ![c] = [Idle EXCEPT !.pc = "state", !.user = u]]
      BY <2>2 DEF Open
    <3>2. conn'[c] = [Idle EXCEPT !.pc = "state", !.user = u]
      BY <3>1 DEF Shape
    <3> QED
      BY <3>2 DEF Idle
  <2>3. CASE Deny(c)
    <3>1. conn'[c] = Idle
      BY <2>3 DEF Deny, Shape
    <3> QED
      BY <3>1 DEF Idle
  <2>4. CASE AdmitState(c) \/ AdmitRemaining(c) \/ AdmitCooling(c) \/ AdmitTable(c)
    <3>1. PICK pc \in {"remaining", "cooling", "deny", "table", "track"} :
             conn' = [conn EXCEPT ![c].pc = pc]
      BY <2>4 DEF AdmitState, AdmitRemaining, AdmitCooling, AdmitTable, Goto
    <3>2. conn'[c] = [conn[c] EXCEPT !.pc = pc]
      BY <3>1 DEF Shape
    <3> QED
      BY <2>1, <3>1, <3>2 DEF Sockets
  <2> QED
    BY <2>2, <2>3, <2>4
<1>5. Metered(c)'
  <2>1. \A d \in Dirs : flow'[<<c, d>>] = "off"
    BY <1>1 DEF Meter, Metered
  <2>2. ~Cutting(c)'
    BY <2>1 DEF Cutting
  <2> QED
    BY <1>4, <2>1, <2>2, SpentFinite DEF Metered
<1>6. ASSUME NEW d \in Conns, d # c PROVE Metered(d)'
  BY <1>1, <1>2, <1>3, <1>6 DEF Meter, Metered
<1> QED
  BY <1>5, <1>6 DEF Meter

LEMMA TrackMeter ==
  ASSUME Shape, Meter, NEW c \in Conns, Track(c)
  PROVE  Meter'
<1>1. conn' = [conn EXCEPT ![c] = [conn[c] EXCEPT !.pc = "live"]] /\ conn[c] \in Sockets
      /\ conn[c].pc # "live"
  BY DEF Track, Shape
<1>2. \A d \in Conns, e \in Dirs :
         flow'[<<d, e>>] = IF d = c THEN "run" ELSE flow[<<d, e>>]
  BY DEF Track, Shape, Flows
<1>3. Metered(c)'
  <2>1. /\ conn[c].over = 0 /\ conn[c].late = {}
        /\ conn[c].enforced => conn[c].closed \/ Cutting(c)
        /\ \A e \in Dirs : flow[<<c, e>>] = "off"
    BY <1>1 DEF Meter, Metered
  <2>2. ~Cutting(c)
    BY <2>1 DEF Cutting
  <2>3. ~Cutting(c)'
    BY <1>2 DEF Cutting
  <2>4. /\ conn'[c].over = 0 /\ conn'[c].pc = "live" /\ conn'[c].late = {}
        /\ conn'[c].enforced = conn[c].enforced /\ conn'[c].closed = conn[c].closed
    BY <1>1, <2>1 DEF Shape, Sockets
  <2> QED
    BY <2>1, <2>2, <2>3, <2>4, SpentFinite DEF Metered
<1>4. ASSUME NEW d \in Conns, d # c PROVE Metered(d)'
  <2>1. conn'[d] = conn[d]
    BY <1>1, <1>4 DEF Shape
  <2>2. \A e \in Dirs : flow'[<<d, e>>] = flow[<<d, e>>]
    BY <1>2, <1>4
  <2>3. SpentIn(d, conn'[d], flow') = SpentIn(d, conn[d], flow)
    BY <2>1, <2>2 DEF SpentIn
  <2>4. Cutting(d)' <=> Cutting(d)
    BY <2>2 DEF Cutting
  <2> QED
    BY <2>1, <2>2, <2>3, <2>4 DEF Meter, Metered
<1> QED
  BY <1>3, <1>4 DEF Meter

LEMMA InitMeter == Init => Meter
<1> SUFFICES ASSUME Init, NEW c \in Conns PROVE Metered(c)
  BY DEF Meter
<1>1. conn[c].over = 0 /\ ~conn[c].enforced /\ conn[c].late = {}
  BY DEF Init, Idle
<1>2. \A d \in Dirs : flow[<<c, d>>] = "off"
  BY DEF Init
<1>3. ~Cutting(c)
  BY <1>2 DEF Cutting
<1> QED
  BY <1>1, <1>2, <1>3, SpentFinite DEF Metered

LEMMA StepMeter == Shape /\ Meter /\ [Next]_vars => Meter'
<1> SUFFICES ASSUME Shape, Meter, [Next]_vars PROVE Meter'
  OBVIOUS
<1>1. CASE \E c \in Conns : \/ \E u \in Users : Open(c, u)
                            \/ AdmitState(c) \/ AdmitRemaining(c) \/ AdmitCooling(c)
                            \/ AdmitTable(c) \/ Deny(c) \/ Track(c)
  BY <1>1, AdmitMeter, TrackMeter
<1>2. CASE \E f \in Flows : \/ Count(f) \/ ConsumeState(f) \/ ConsumeCharge(f)
                            \/ EnforceMark(f) \/ EnforceDeny(f)
                            \/ EnforceClose(f) \/ Close(f)
  BY <1>2, CountMeter, ConsumeMeter, MarkMeter, DenyMeter, CutMeter, CloseMeter
<1>3. CASE UNCHANGED traffic
  BY <1>3 DEF traffic, Meter, Metered, Cutting
<1>4. CASE \E h \in Handlers :
             \/ \E e \in 1..MaxEpoch, t \in Tables : Put(h, e, t)
             \/ PutCheck(h) \/ PutLift(h) \/ PutClear(h) \/ PutGrant(h)
             \/ PutLimit(h) \/ PutCool(h) \/ PutEpoch(h) \/ PutAccept(h) \/ PutDone(h)
             \/ Get(h) \/ SnapshotBegin(h) \/ SnapshotRead(h)
  <2>1. UNCHANGED traffic
    BY <1>4 DEF Put, PutCheck, PutLift, PutClear, PutGrant, PutLimit, PutCool, PutEpoch,
                PutAccept, PutDone, Get, SnapshotBegin, SnapshotRead
  <2> QED
    BY <1>3, <2>1
<1>5. CASE (\E s \in SUBSET Users : Reload(s)) \/ (\E u \in Users : CoolEnds(u)) \/ TableAges
  <2>1. UNCHANGED traffic
    BY <1>5 DEF Reload, CoolEnds, TableAges
  <2> QED
    BY <1>3, <2>1
<1>6. CASE UNCHANGED vars
  BY <1>3, <1>6 DEF vars
<1> QED
  BY <1>1, <1>2, <1>4, <1>5, <1>6 DEF Next

\* A connection takes at most one chunk per copy loop from a quota that is used
\* up, besides what its other loops copy between the mark of the first one and
\* its Close (consume, enforce), with any number of connections, copy loops and
\* tables: no connection is marked and left open.
THEOREM OvershootIsBounded == Spec => []OvershootBounded
<1>1. Shape /\ Meter => OvershootBounded
  <2> SUFFICES ASSUME Shape, Meter, NEW c \in Conns PROVE conn[c].over <= Cardinality(Dirs)
    BY DEF OvershootBounded
  <2>1. conn[c].over \in Nat /\ conn[c].over <= Cardinality(SpentIn(c, conn[c], flow))
    BY DEF Meter, Metered, Shape, Sockets
  <2>2. Cardinality(Dirs) \in Nat
    BY FS_CardinalityType, UserStatsAssumption
  <2> QED
    BY <2>1, <2>2, SpentFinite
<1> QED
  BY <1>1, InitShape, StepShape, InitMeter, StepMeter, PTL DEF Spec

-----------------------------------------------------------------------------
(* The sessions *)

Live == {c \in Conns : conn[c].pc = "live" /\ ~conn[c].finished}

\* A connection is finished only while it is live.
Opened ==
    /\ sessions = Cardinality(Live)
    /\ \A c \in Conns : conn[c].pc # "live" => ~conn[c].finished

\* Nothing was tracked or closed.
LEMMA KeepOpened ==
  ASSUME Opened, sessions' = sessions,
         \A c \in Conns : /\ conn'[c].finished = conn[c].finished
                          /\ conn'[c].pc = "live" <=> conn[c].pc = "live"
  PROVE  Opened'
<1>1. Live' = Live
  BY DEF Live
<1> QED
  BY <1>1 DEF Opened

LEMMA TrackOpened ==
  ASSUME Shape, Opened, NEW c \in Conns, Track(c)
  PROVE  Opened'
<1>1. conn' = [conn EXCEPT ![c] = [conn[c] EXCEPT !.pc = "live"]] /\ conn[c] \in Sockets
      /\ conn[c].pc = "track" /\ sessions' = sessions + 1
  BY DEF Track, Shape
<1>2. /\ conn'[c].pc = "live" /\ conn'[c].finished = conn[c].finished /\ ~conn[c].finished
      /\ \A d \in Conns : d # c => conn'[d] = conn[d]
  BY <1>1 DEF Shape, Sockets, Opened
<1>3. Live' = Live \cup {c} /\ c \notin Live
  BY <1>1, <1>2 DEF Live
<1>4. IsFiniteSet(Live)
  BY FS_Subset, UserStatsAssumption DEF Live
<1>5. Cardinality(Live') = Cardinality(Live) + 1
  BY <1>3, <1>4, FS_AddElement
<1>6. \A d \in Conns : conn'[d].pc # "live" => ~conn'[d].finished
  BY <1>2 DEF Opened
<1> QED
  BY <1>1, <1>5, <1>6 DEF Opened

\* The once of finish: only the first Close of a connection counts.
LEMMA CloseOpened ==
  ASSUME Shape, Meter, Opened, NEW f \in Flows, Close(f)
  PROVE  Opened'
<1> DEFINE c == f[1]
           o == [conn[c] EXCEPT !.closed = TRUE, !.finished = TRUE]
<1>1. /\ sessions' = IF conn[c].finished THEN sessions ELSE sessions - 1
      /\ conn' = [conn EXCEPT ![c] = Idle] \/ conn' = [conn EXCEPT ![c] = o]
  BY DEF Close, Finished
<1>2. c \in Conns /\ conn[c] \in Sockets /\ conn[c].pc = "live"
  <2>1. FlowTo(f, "off") /\ flow[f] = "run"
    BY DEF Close
  <2>2. f[1] \in Conns /\ f[2] \in Dirs /\ flow[<<f[1], f[2]>>] = "run"
    BY <2>1, FlowOf
  <2>3. conn[f[1]].pc = "live"
    BY <2>2 DEF Meter, Metered
  <2> QED
    BY <2>2, <2>3 DEF Shape
<1>3. o.pc = "live" /\ o.finished /\ Idle.pc = "idle" /\ ~Idle.finished
  BY <1>2 DEF Sockets, Idle
<1> HIDE DEF o, Idle, c
<1>4. /\ \A d \in Conns : d # c => conn'[d] = conn[d]
      /\ \/ conn'[c].pc = "live" /\ conn'[c].finished
         \/ conn'[c].pc = "idle" /\ ~conn'[c].finished
  BY <1>1, <1>2, <1>3 DEF Shape
<1>5. Live' = Live \ {c} /\ (c \in Live <=> ~conn[c].finished)
  BY <1>2, <1>4 DEF Live
<1>6. IsFiniteSet(Live)
  BY FS_Subset, UserStatsAssumption DEF Live
<1>7. Cardinality(Live') = IF c \in Live THEN Cardinality(Live) - 1 ELSE Cardinality(Live)
  BY <1>5, <1>6, FS_RemoveElement
<1>8. sessions' = Cardinality(Live')
  BY <1>1, <1>5, <1>7 DEF Opened
<1>9. \A d \in Conns : conn'[d].pc # "live" => ~conn'[d].finished
  BY <1>4 DEF Opened
<1> QED
  BY <1>8, <1>9 DEF Opened

\* An admission that ends in a denial opens no session.
LEMMA AdmitOpened ==
  ASSUME Shape, Opened, NEW c \in Conns,
         \/ \E u \in Users : Open(c, u)
         \/ AdmitState(c) \/ AdmitRemaining(c) \/ AdmitCooling(c) \/ AdmitTable(c) \/ Deny(c)
  PROVE  Opened'
<1>1. sessions' = sessions /\ conn[c].pc # "live" /\ conn[c] \in Sockets
  BY DEF Open, AdmitState, AdmitRemaining, AdmitCooling, AdmitTable, Deny, Goto, Shape
<1>2. ~conn[c].finished
  BY <1>1 DEF Opened
<1>3. \E o : conn' = [conn EXCEPT ![c] = o] /\ o.pc # "live" /\ ~o.finished
  <2>1. CASE \E u \in Users : Open(c, u)
    <3>1. PICK u \in Users : conn' = [conn EXCEPT ![c] = [Idle EXCEPT !.pc = "state", !.user = u]]
      BY <2>1 DEF Open
    <3> DEFINE o == [Idle EXCEPT !.pc = "state", !.user = u]
    <3>2. o.pc # "live" /\ ~o.finished
      BY DEF Idle
    <3> HIDE DEF o, Idle
    <3> QED
      BY <3>1, <3>2 DEF o
  <2>2. CASE Deny(c)
    <3>1. conn' = [conn EXCEPT ![c] = Idle]
      BY <2>2 DEF Deny
    <3>2. Idle.pc # "live" /\ ~Idle.finished
      BY DEF Idle
    <3> HIDE DEF Idle
    <3> QED
      BY <3>1, <3>2
  <2>3. CASE AdmitState(c) \/ AdmitRemaining(c) \/ AdmitCooling(c) \/ AdmitTable(c)
    <3>1. \E pc \in {"remaining", "cooling", "deny", "table", "track"} :
             conn' = [conn EXCEPT ![c].pc = pc]
      BY <2>3 DEF AdmitState, AdmitRemaining, AdmitCooling, AdmitTable, Goto
    <3>2. PICK pc \in {"remaining", "cooling", "deny", "table", "track"} :
             conn' = [conn EXCEPT ![c].pc = pc]
      BY <3>1
    <3> DEFINE o == [conn[c] EXCEPT !.pc = pc]
    <3>3. conn' = [conn EXCEPT ![c] = o]
      BY <3>2
    <3>4. o.pc # "live" /\ ~o.finished
      BY <1>1, <1>2 DEF Sockets
    <3> HIDE DEF o
    <3> QED
      BY <3>3, <3>4
  <2> QED
    BY <2>1, <2>2, <2>3
<1>4. /\ conn'[c].pc # "live" /\ ~conn'[c].finished
      /\ \A d \in Conns : d # c => conn'[d] = conn[d]
  BY <1>3 DEF Shape
<1>5. \A d \in Conns : /\ conn'[d].pc = "live" <=> conn[d].pc = "live"
                       /\ d # c => conn'[d].finished = conn[d].finished
  BY <1>1, <1>4
<1>6. Live' = Live
  BY <1>1, <1>4, <1>5 DEF Live
<1>7. \A d \in Conns : conn'[d].pc # "live" => ~conn'[d].finished
  BY <1>4 DEF Opened
<1> QED
  BY <1>1, <1>6, <1>7 DEF Opened

LEMMA CopyOpened ==
  ASSUME Shape, Opened, NEW f \in Flows,
         \/ Count(f) \/ ConsumeState(f) \/ ConsumeCharge(f)
         \/ EnforceMark(f) \/ EnforceDeny(f) \/ EnforceClose(f)
  PROVE  Opened'
<1>1. sessions' = sessions
  BY DEF Count, ConsumeState, ConsumeCharge, EnforceMark, EnforceDeny, EnforceClose
<1>2. PICK o \in Sockets : /\ conn' = [conn EXCEPT ![f[1]] = o]
                           /\ o.pc = conn[f[1]].pc /\ o.finished = conn[f[1]].finished
  BY LoopStep
<1>3. \A d \in Conns : conn'[d].pc = conn[d].pc /\ conn'[d].finished = conn[d].finished
  BY <1>2 DEF Shape
<1> QED
  BY <1>1, <1>3, KeepOpened

LEMMA InitOpened == Init => Opened
<1> SUFFICES ASSUME Init PROVE Opened
  OBVIOUS
<1>1. \A c \in Conns : conn[c].pc = "idle" /\ ~conn[c].finished
  BY DEF Init, Idle
<1>2. Live = {}
  BY <1>1 DEF Live
<1>3. sessions = 0
  BY DEF Init
<1> QED
  BY <1>1, <1>2, <1>3, FS_EmptySet DEF Opened

LEMMA StepOpened == Shape /\ Meter /\ Opened /\ [Next]_vars => Opened'
<1> SUFFICES ASSUME Shape, Meter, Opened, [Next]_vars PROVE Opened'
  OBVIOUS
<1>1. CASE \E c \in Conns : \/ \E u \in Users : Open(c, u)
                            \/ AdmitState(c) \/ AdmitRemaining(c) \/ AdmitCooling(c)
                            \/ AdmitTable(c) \/ Deny(c) \/ Track(c)
  BY <1>1, AdmitOpened, TrackOpened
<1>2. CASE \E f \in Flows : \/ Count(f) \/ ConsumeState(f) \/ ConsumeCharge(f)
                            \/ EnforceMark(f) \/ EnforceDeny(f)
                            \/ EnforceClose(f) \/ Close(f)
  BY <1>2, CopyOpened, CloseOpened
<1>3. ASSUME UNCHANGED traffic PROVE Opened'
  BY <1>3, KeepOpened DEF traffic
<1>4. CASE \E h \in Handlers :
             \/ \E e \in 1..MaxEpoch, t \in Tables : Put(h, e, t)
             \/ PutCheck(h) \/ PutLift(h) \/ PutClear(h) \/ PutGrant(h)
             \/ PutLimit(h) \/ PutCool(h) \/ PutEpoch(h) \/ PutAccept(h) \/ PutDone(h)
             \/ Get(h) \/ SnapshotBegin(h) \/ SnapshotRead(h)
  <2>1. UNCHANGED traffic
    BY <1>4 DEF Put, PutCheck, PutLift, PutClear, PutGrant, PutLimit, PutCool, PutEpoch,
                PutAccept, PutDone, Get, SnapshotBegin, SnapshotRead
  <2> QED
    BY <1>3, <2>1
<1>5. CASE \/ \E s \in SUBSET Users : Reload(s)
           \/ \E u \in Users : CoolEnds(u)
           \/ TableAges \/ UNCHANGED vars
  <2>1. UNCHANGED traffic
    BY <1>5 DEF Reload, CoolEnds, TableAges, vars
  <2> QED
    BY <1>3, <2>1
<1> QED
  BY <1>1, <1>2, <1>4, <1>5 DEF Next

\* The session counters are the connections tracked and not closed yet, though
\* every copy loop of a connection calls Close (newConnState, finish).
THEOREM SessionsAreExact == Spec => []SessionsExact
<1>1. Opened => SessionsExact
  BY DEF Opened, Live, SessionsExact
<1> QED
  BY <1>1, InitShape, StepShape, InitMeter, StepMeter, InitOpened, StepOpened, PTL DEF Spec

-----------------------------------------------------------------------------
(* The snapshots *)

\* A reader holds the lock and has the last number; what it has seen and what it
\* still has to see are the known lineages.
Reading(h) ==
    call[h].pc = "read" =>
       /\ snap = h /\ call[h].no = sequence
       /\ DOMAIN call[h].view \cup call[h].left = known
       /\ \A u \in DOMAIN call[h].view : call[h].view[u] <= counter[u]

\* No lineage vanishes and no counter falls after it has been shown.
Shown(h) ==
    call[h].pc = "shown" =>
       /\ call[h].no <= sequence /\ DOMAIN call[h].view \subseteq known
       /\ \A u \in DOMAIN call[h].view : call[h].view[u] <= counter[u]

\* What a reader sees is no older than what was shown before.
Later(g, h) ==
    call[g].pc = "shown" /\ call[h].pc = "read" =>
       /\ call[g].no < call[h].no
       /\ \A u \in DOMAIN call[g].view \cap DOMAIN call[h].view :
             call[g].view[u] <= call[h].view[u]

Ordered(g, h) ==
    g # h /\ call[g].pc = "shown" /\ call[h].pc = "shown" /\ call[g].no <= call[h].no =>
       /\ call[g].no # call[h].no
       /\ \A u \in DOMAIN call[g].view :
             u \in DOMAIN call[h].view /\ call[g].view[u] <= call[h].view[u]

Shots ==
    /\ \A h \in Handlers : /\ Reading(h) /\ Shown(h)
                           /\ call[h].pc = "get" => DOMAIN call[h].view = {}
    /\ \A g, h \in Handlers : Later(g, h) /\ Ordered(g, h)

LEMMA ViewsAreCounts ==
  ASSUME Shape, NEW h \in Handlers
  PROVE  /\ call[h].no \in Nat /\ call[h].left \subseteq Users
         /\ DOMAIN call[h].view \subseteq Users
         /\ \A u \in DOMAIN call[h].view : call[h].view[u] \in Nat
         /\ \A u \in Users : counter[u] \in Nat
<1>1. call[h] \in Calls
  BY DEF Shape
<1>2. PICK s \in SUBSET Users : call[h].view \in [s -> Nat]
  BY <1>1 DEF Calls, Views
<1>3. \A u \in Users : counter[u] \in Nat
  BY UserStatsAssumption DEF Shape
<1> QED
  BY <1>1, <1>2, <1>3 DEF Calls

\* A request that neither reads nor shows a snapshot.
LEMMA QuietShots ==
  ASSUME Shape, Shots, NEW h \in Handlers, NEW r, CallTo(h, r),
         r.pc \notin {"read", "shown"}, r.pc = "get" => DOMAIN r.view = {},
         UNCHANGED <<known, counter, snap, sequence>>
  PROVE  Shots'
<1>1. call'[h] = r /\ \A g \in Handlers : g # h => call'[g] = call[g]
  BY DEF Shape, CallTo
<1> QED
  BY <1>1 DEF Shots, Reading, Shown, Later, Ordered

\* Counters and lineages only grow, and lineages only when nobody reads.
LEMMA GrowShots ==
  ASSUME Shape, Shots, UNCHANGED <<call, snap, sequence>>, known \subseteq known',
         \/ known' = known
         \/ \A h \in Handlers : call[h].pc # "read",
         \A u \in Users : counter'[u] \in Nat /\ counter[u] <= counter'[u]
  PROVE  Shots'
<1>1. ASSUME NEW h \in Handlers
      PROVE  /\ Reading(h)' /\ Shown(h)'
             /\ call'[h].pc = "get" => DOMAIN call'[h].view = {}
  <2>1. ASSUME NEW u \in DOMAIN call[h].view, call[h].view[u] <= counter[u]
        PROVE  call[h].view[u] <= counter'[u]
    <3>1. call[h].view[u] \in Nat /\ counter[u] \in Nat /\ u \in Users
      BY ViewsAreCounts
    <3> QED
      BY <2>1, <3>1
  <2> QED
    BY <2>1 DEF Shots, Reading, Shown
<1>2. \A g, h \in Handlers : Later(g, h)' /\ Ordered(g, h)'
  BY DEF Shots, Later, Ordered
<1> QED
  BY <1>1, <1>2 DEF Shots

LEMMA BeginShots ==
  ASSUME Shape, Shots, NEW h \in Handlers, SnapshotBegin(h)
  PROVE  Shots'
<1> DEFINE r == [call[h] EXCEPT !.pc = "read", !.no = sequence + 1, !.left = known]
<1>1. call'[h] = r /\ \A g \in Handlers : g # h => call'[g] = call[g]
  BY DEF Shape, CallTo, SnapshotBegin
<1>2. call[h] \in Calls /\ call[h].pc = "get" /\ DOMAIN call[h].view = {}
  BY DEF Shape, Shots, SnapshotBegin
<1>3. r.pc = "read" /\ r.no = sequence + 1 /\ r.left = known /\ r.view = call[h].view
  BY <1>2 DEF Calls
<1> HIDE DEF r
<1>4. snap' = h /\ sequence' = sequence + 1 /\ UNCHANGED <<known, counter>>
  BY DEF SnapshotBegin, lineages
<1>5. \A g \in Handlers : call[g].pc # "read"
  BY UserStatsAssumption DEF Shots, Reading, SnapshotBegin
<1>6. \A g \in Handlers : call[g].no \in Nat
  BY ViewsAreCounts
<1>7. sequence \in Nat
  BY DEF Shape
<1>8. ASSUME NEW g \in Handlers
      PROVE  /\ Reading(g)' /\ Shown(g)'
             /\ call'[g].pc = "get" => DOMAIN call'[g].view = {}
  <2>1. CASE g = h
    BY <1>1, <1>2, <1>3, <1>4, <2>1 DEF Reading, Shown
  <2>2. CASE g # h
    BY <1>1, <1>4, <1>5, <1>6, <1>7, <2>2 DEF Shots, Reading, Shown
  <2> QED
    BY <2>1, <2>2
<1>9. ASSUME NEW g \in Handlers, NEW k \in Handlers
      PROVE  Later(g, k)' /\ Ordered(g, k)'
  <2>1. Later(g, k)'
    BY <1>1, <1>2, <1>3, <1>5, <1>6, <1>7 DEF Shots, Shown, Later
  <2>2. Ordered(g, k)'
    BY <1>1, <1>3 DEF Shots, Ordered
  <2> QED
    BY <2>1, <2>2
<1> QED
  BY <1>8, <1>9 DEF Shots

LEMMA ReadShots ==
  ASSUME Shape, Shots, NEW h \in Handlers, SnapshotRead(h)
  PROVE  Shots'
<1>1. PICK u \in call[h].left :
        LET last == call[h].left = {u}
        IN /\ CallTo(h, [call[h] EXCEPT !.pc = IF last THEN "shown" ELSE "read",
                                        !.left = @ \ {u},
                                        !.view = [v \in DOMAIN @ \cup {u} |->
                                                    IF v = u THEN counter[u] ELSE @[v]]])
           /\ snap' = IF last THEN None ELSE snap
  BY DEF SnapshotRead
<1> DEFINE v  == call[h].view
           w  == [x \in DOMAIN v \cup {u} |-> IF x = u THEN counter[u] ELSE v[x]]
           pc == IF call[h].left = {u} THEN "shown" ELSE "read"
           r  == [call[h] EXCEPT !.pc = pc, !.left = call[h].left \ {u}, !.view = w]
<1>2. call'[h] = r /\ \A g \in Handlers : g # h => call'[g] = call[g]
  BY <1>1 DEF Shape, CallTo
<1>3. /\ call[h] \in Calls /\ call[h].pc = "read" /\ call[h].no = sequence
      /\ snap = h /\ DOMAIN v \cup call[h].left = known
      /\ \A x \in DOMAIN v : v[x] <= counter[x]
  BY DEF Shape, Shots, Reading, SnapshotRead
<1>4. /\ r.pc = pc /\ r.no = sequence /\ r.left = call[h].left \ {u} /\ r.view = w
      /\ DOMAIN w = DOMAIN v \cup {u}
  BY <1>3 DEF Calls
<1>5. u \in Users /\ u \in known /\ counter[u] \in Nat
  BY <1>3, ViewsAreCounts
<1>6. /\ UNCHANGED <<known, counter, sequence>>
      /\ snap' = IF pc = "shown" THEN None ELSE snap
  BY <1>1 DEF SnapshotRead, lineages
<1>7. \A x \in DOMAIN w : w[x] <= counter[x]
  BY <1>3, <1>5
<1>8. ASSUME NEW g \in Handlers, call[g].pc = "shown"
      PROVE  /\ call[g].no < sequence /\ call[g].no \in Nat
             /\ \A x \in DOMAIN call[g].view \cap DOMAIN w : call[g].view[x] <= w[x]
  <2>1. call[g].no < sequence /\ call[g].no \in Nat
    BY <1>3, <1>8, ViewsAreCounts DEF Shots, Later
  <2>2. \A x \in DOMAIN call[g].view \cap DOMAIN v : call[g].view[x] <= v[x]
    BY <1>3, <1>8 DEF Shots, Later
  <2>3. u \in DOMAIN call[g].view => call[g].view[u] <= counter[u]
    BY <1>8 DEF Shots, Shown
  <2> QED
    BY <2>1, <2>2, <2>3
<1>9. pc = "shown" => DOMAIN w = known
  BY <1>3, <1>4
<1>10. pc \in {"shown", "read"} /\ sequence \in Nat /\ h # None
  BY UserStatsAssumption DEF Shape
<1>11. \A g \in Handlers : g # h => call[g].pc # "read"
  BY <1>3 DEF Shots, Reading
<1> HIDE DEF r, w, pc, v
<1>12. ASSUME NEW g \in Handlers
       PROVE  /\ Reading(g)' /\ Shown(g)'
              /\ call'[g].pc = "get" => DOMAIN call'[g].view = {}
  <2>1. CASE g = h
    <3>1. pc = "read" => DOMAIN w \cup r.left = known
      BY <1>3, <1>4, <1>5
    <3>2. DOMAIN w \subseteq known
      BY <1>3, <1>4, <1>5
    <3> QED
      BY <1>2, <1>3, <1>4, <1>6, <1>7, <1>10, <2>1, <3>1, <3>2 DEF Reading, Shown
  <2>2. CASE g # h
    BY <1>2, <1>6, <1>11, <2>2 DEF Shots, Reading, Shown
  <2> QED
    BY <2>1, <2>2
<1>13. ASSUME NEW g \in Handlers, NEW k \in Handlers
       PROVE  Later(g, k)' /\ Ordered(g, k)'
  <2>1. Later(g, k)'
    BY <1>2, <1>4, <1>8, <1>11 DEF Later
  <2>2. Ordered(g, k)'
    <3>1. CASE g # h /\ k # h
      BY <1>2, <3>1 DEF Shots, Ordered
    <3>2. CASE g # h /\ k = h
      <4>1. call[g].pc = "shown" => DOMAIN call[g].view \subseteq known
        BY DEF Shots, Shown
      <4> QED
        BY <1>2, <1>4, <1>8, <1>9, <3>2, <4>1 DEF Ordered
    <3>3. CASE g = h /\ k # h
      BY <1>2, <1>4, <1>8, <1>10, <3>3 DEF Ordered
    <3>4. CASE g = h /\ k = h
      BY <3>4 DEF Ordered
    <3> QED
      BY <3>1, <3>2, <3>3, <3>4
  <2> QED
    BY <2>1, <2>2
<1> QED
  BY <1>12, <1>13 DEF Shots

PutPcs == {"put", "lift", "clear", "grant", "limit", "cool", "epoch", "accept",
           "fresh", "applied", "conflict", "unknown"}

\* A PUT stays a PUT.
LEMMA PutRecord ==
  ASSUME Shape, NEW h \in Handlers,
         \/ \E e \in 1..MaxEpoch, t \in Tables : Put(h, e, t)
         \/ PutCheck(h) \/ PutLift(h) \/ PutClear(h) \/ PutGrant(h)
         \/ PutLimit(h) \/ PutCool(h) \/ PutEpoch(h) \/ PutAccept(h) \/ PutDone(h)
  PROVE  /\ \E r : CallTo(h, r) /\ r.pc \in PutPcs
         /\ UNCHANGED <<lineages, snap, sequence>>
<1> DEFINE r == call[h]
<1>1. r \in Calls /\ r.left \subseteq Users /\ known \in SUBSET Users
  BY DEF Shape, Calls
<1>2. CASE \E e \in 1..MaxEpoch, t \in Tables : Put(h, e, t)
  <2>1. PICK e \in 1..MaxEpoch, t \in Tables : Put(h, e, t)
    BY <1>2
  <2>2. e \in Nat
    BY UserStatsAssumption
  <2> QED
    BY <2>1, <2>2, OffFacts DEF Put, PutPcs
<1>3. CASE PutCheck(h)
  <2>1. \/ CallTo(h, [r EXCEPT !.pc = "conflict"]) \/ CallTo(h, [r EXCEPT !.pc = "unknown"])
        \/ /\ CallTo(h, Lift(r, known \ DOMAIN r.tab))
           /\ DOMAIN r.tab \subseteq known
    BY <1>3 DEF PutCheck
  <2>2. DOMAIN r.tab \subseteq known => Lift(r, known \ DOMAIN r.tab).pc \in PutPcs
    <3>1. known \ DOMAIN r.tab \in SUBSET Users
      BY <1>1
    <3> HIDE DEF r
    <3>2. DOMAIN r.tab \subseteq known =>
             Lift(r, known \ DOMAIN r.tab).pc \in {"lift", "epoch", "grant"}
      BY <1>1, <3>1, LiftFacts
    <3> QED
      BY <3>2 DEF PutPcs
  <2>3. [r EXCEPT !.pc = "conflict"].pc \in PutPcs /\ [r EXCEPT !.pc = "unknown"].pc \in PutPcs
    BY <1>1 DEF Calls, PutPcs
  <2> HIDE DEF r
  <2> QED
    BY <1>3, <2>1, <2>2, <2>3 DEF PutCheck
<1>4. CASE PutLift(h) \/ PutGrant(h)
  <2>1. \E pc \in {"clear", "limit"}, u \in Users : CallTo(h, [r EXCEPT !.pc = pc, !.cur = u])
    BY <1>1, <1>4 DEF PutLift, PutGrant
  <2>2. PICK pc \in {"clear", "limit"}, u \in Users : CallTo(h, [r EXCEPT !.pc = pc, !.cur = u])
    BY <2>1
  <2>3. [r EXCEPT !.pc = pc, !.cur = u].pc = pc /\ pc \in PutPcs
    BY <1>1 DEF Calls, PutPcs
  <2>4. UNCHANGED <<lineages, snap, sequence>>
    BY <1>4 DEF PutLift, PutGrant
  <2> HIDE DEF r
  <2> QED
    BY <2>2, <2>3, <2>4
<1>5. CASE PutClear(h)
  <2> DEFINE left == r.left \ {r.cur}
  <2>1. CallTo(h, Lift(r, left)) /\ left \in SUBSET Users /\ DOMAIN r.tab \subseteq known
    BY <1>1, <1>5 DEF PutClear, Shape, TrueCall
  <2> HIDE DEF left
  <2>2. Lift(r, left).pc \in PutPcs
    BY <1>1, <2>1, LiftFacts DEF PutPcs
  <2> QED
    BY <1>5, <2>1, <2>2 DEF PutClear
<1>6. CASE PutCool(h)
  <2> DEFINE left == r.left \ {r.cur}
  <2>1. /\ CallTo(h, Limit(r, left)) /\ left \in SUBSET Users /\ DOMAIN r.tab \subseteq known
        /\ left \subseteq DOMAIN r.tab
    BY <1>1, <1>6 DEF PutCool, Shape, TrueCall
  <2> HIDE DEF left
  <2>2. Limit(r, left).pc \in PutPcs
    BY <1>1, <2>1, LimitFacts DEF PutPcs
  <2> QED
    BY <1>6, <2>1, <2>2 DEF PutCool
<1>7. CASE PutLimit(h) \/ PutEpoch(h) \/ PutAccept(h) \/ PutDone(h)
  <2>1. \E pc \in {"cool", "accept", "fresh", "applied"} : CallTo(h, [r EXCEPT !.pc = pc])
    BY <1>7 DEF PutLimit, PutEpoch, PutAccept, PutDone
  <2>2. PICK pc \in {"cool", "accept", "fresh", "applied"} : CallTo(h, [r EXCEPT !.pc = pc])
    BY <2>1
  <2>3. [r EXCEPT !.pc = pc].pc = pc /\ pc \in PutPcs
    BY <1>1 DEF Calls, PutPcs
  <2> HIDE DEF r
  <2> QED
    BY <1>7, <2>2, <2>3 DEF PutLimit, PutEpoch, PutAccept, PutDone
<1> QED
  BY <1>2, <1>3, <1>4, <1>5, <1>6, <1>7

LEMMA InitShots == Init => Shots
<1>1. Off.pc = "off"
  BY DEF Off
<1> HIDE DEF Off
<1> QED
  BY <1>1 DEF Init, Shots, Reading, Shown, Later, Ordered

LEMMA StepShots == Shape /\ Shots /\ [Next]_vars => Shots'
<1> SUFFICES ASSUME Shape, Shots, [Next]_vars PROVE Shots'
  OBVIOUS
<1>0. ASSUME UNCHANGED <<call, snap, sequence, known, counter>> PROVE Shots'
  <2>1. \A u \in Users : counter[u] \in Nat /\ counter[u] <= counter[u]
    BY UserStatsAssumption DEF Shape
  <2>2. known \subseteq known' /\ \A u \in Users : counter'[u] \in Nat /\ counter[u] <= counter'[u]
    BY <1>0, <2>1
  <2> QED
    BY <1>0, <2>2, GrowShots
<1>1. CASE \E c \in Conns : \/ \E u \in Users : Open(c, u)
                            \/ AdmitState(c) \/ AdmitRemaining(c) \/ AdmitCooling(c)
                            \/ AdmitTable(c) \/ Deny(c) \/ Track(c)
  <2>1. UNCHANGED <<lineages, control>>
    BY <1>1 DEF Open, AdmitState, AdmitRemaining, AdmitCooling, AdmitTable, Goto, Deny, Track
  <2> QED
    BY <1>0, <2>1 DEF lineages, control
<1>2. CASE \E f \in Flows : ConsumeState(f) \/ ConsumeCharge(f) \/ EnforceMark(f) \/ EnforceDeny(f)
                            \/ EnforceClose(f) \/ Close(f)
  <2>1. UNCHANGED <<lineages, control>>
    BY <1>2 DEF ConsumeState, ConsumeCharge, EnforceMark, EnforceDeny, EnforceClose, Close
  <2> QED
    BY <1>0, <2>1 DEF lineages, control
<1>3. CASE \E f \in Flows : Count(f)
  <2>1. PICK f \in Flows : Count(f)
    BY <1>3
  <2>2. \A n \in 0..CounterMax : Saturated(n) \in Nat /\ n <= Saturated(n)
    BY UserStatsAssumption DEF Saturated
  <2>3. ASSUME NEW u \in Users PROVE counter'[u] \in Nat /\ counter[u] <= counter'[u]
    <3>1. counter[u] \in 0..CounterMax
      BY DEF Shape
    <3>2. counter'[u] \in {counter[u], Saturated(counter[u])}
      BY <2>1 DEF Count, Shape
    <3> QED
      BY <2>2, <3>1, <3>2, UserStatsAssumption
  <2>4. UNCHANGED <<call, snap, sequence, known>>
    BY <2>1 DEF Count, control
  <2> QED
    BY <2>3, <2>4, GrowShots
<1>4. CASE \E h \in Handlers :
             \/ \E e \in 1..MaxEpoch, t \in Tables : Put(h, e, t)
             \/ PutCheck(h) \/ PutLift(h) \/ PutClear(h) \/ PutGrant(h)
             \/ PutLimit(h) \/ PutCool(h) \/ PutEpoch(h) \/ PutAccept(h) \/ PutDone(h)
  <2>1. PICK h \in Handlers : /\ \E r : CallTo(h, r) /\ r.pc \in PutPcs
                              /\ UNCHANGED <<lineages, snap, sequence>>
    BY <1>4, PutRecord
  <2>2. PICK r : CallTo(h, r) /\ r.pc \in PutPcs
    BY <2>1
  <2>3. r.pc \notin {"read", "shown", "get"}
    BY <2>2 DEF PutPcs
  <2> QED
    BY <2>1, <2>2, <2>3, QuietShots DEF lineages
<1>5. CASE \E h \in Handlers : Get(h)
  <2>1. PICK h \in Handlers : Get(h)
    BY <1>5
  <2> DEFINE r == [Off EXCEPT !.pc = "get"]
  <2>2. r.pc = "get" /\ DOMAIN r.view = {}
    <3>1. DOMAIN Off.view = {}
      BY DEF Off
    <3>2. r.view = Off.view /\ r.pc = "get"
      BY OffFacts DEF Calls
    <3> QED
      BY <3>1, <3>2
  <2>3. CallTo(h, r) /\ UNCHANGED <<known, counter, snap, sequence>>
    BY <2>1 DEF Get, lineages
  <2> HIDE DEF r
  <2> QED
    BY <2>2, <2>3, QuietShots
<1>6. CASE \E h \in Handlers : SnapshotBegin(h) \/ SnapshotRead(h)
  BY <1>6, BeginShots, ReadShots
<1>7. CASE \E s \in SUBSET Users : Reload(s)
  <2>1. PICK s \in SUBSET Users : Reload(s)
    BY <1>7
  <2>2. /\ UNCHANGED <<call, snap, sequence, counter>> /\ known \subseteq known'
        /\ \A h \in Handlers : call[h].pc # "read"
    BY <2>1 DEF Reload, control, Settled
  <2>3. \A u \in Users : counter'[u] \in Nat /\ counter[u] <= counter'[u]
    BY <2>2, UserStatsAssumption DEF Shape
  <2> QED
    BY <2>2, <2>3, GrowShots
<1>8. CASE (\E u \in Users : CoolEnds(u)) \/ TableAges \/ UNCHANGED vars
  BY <1>0, <1>8 DEF CoolEnds, TableAges, vars, lineages, control
<1> QED
  BY <1>1, <1>2, <1>3, <1>4, <1>5, <1>6, <1>7, <1>8 DEF Next

\* However many GETs overlap, and whatever is reloaded between them, the snapshots
\* are ordered by their numbers (snapshotMu, nextSequence, Reconcile).
THEOREM SnapshotsAreMonotone == Spec => []SnapshotsMonotone
<1>1. Shots => SnapshotsMonotone
  BY DEF Shots, Ordered, SnapshotsMonotone
<1> QED
  BY <1>1, InitShape, StepShape, InitShots, StepShots, PTL DEF Spec

-----------------------------------------------------------------------------
(* The tables *)

BusyPcs == {"lift", "clear", "grant", "limit", "cool", "epoch", "accept", "fresh"}

\* The cell of u says what the table tab says.
Right(u, tab) ==
    /\ cell[u].limited <=> u \in DOMAIN tab
    /\ u \in DOMAIN tab => bill[u].granted = tab[u]

\* The lineages whose cells a PUT has not set yet.
Undone(r) ==
    IF r.pc \in {"lift", "clear"} THEN r.left \cup DOMAIN r.tab
    ELSE IF r.pc \in {"grant", "limit", "cool"} THEN r.left ELSE {}

\* What the PUT that holds quota.apply has done.
Progress(r) ==
    /\ DOMAIN r.tab \subseteq known
    /\ \A u \in known : u \notin Undone(r) => Right(u, r.tab)
    /\ r.pc \in {"lift", "clear"} => r.left \subseteq known \ DOMAIN r.tab
    /\ r.pc \in {"clear", "limit", "cool"} => r.cur \in r.left /\ r.cur \in known
    /\ r.pc = "clear" => ~cell[r.cur].limited
    /\ r.pc \in {"limit", "cool"} => bill[r.cur].granted = r.tab[r.cur]
    /\ r.pc = "cool" => cell[r.cur].limited
    /\ r.pc \in {"accept", "fresh"} => table.epoch = r.no
    /\ r.pc = "fresh" => table.accepted

\* One PUT at a time changes the cells, with the highest epoch so far.
Rules ==
    /\ \A h \in Handlers : call[h].pc \in BusyPcs <=> apply = h
    /\ \A h \in Handlers : call[h].pc \in BusyPcs =>
          /\ Progress(call[h])
          /\ \A g \in Applied : call[g].no < call[h].no
    /\ \A u \in Users \ known : ~cell[u].limited
    /\ \A g \in Applied : DOMAIN call[g].tab \subseteq known /\ table.accepted
    /\ NewestTableRules

\* Steps that change neither tables nor limits.
LEMMA KeepRules ==
  ASSUME Shape, Rules, UNCHANGED <<apply, known>>,
         table'.epoch = table.epoch, table'.accepted = table.accepted,
         \A u \in Users : /\ cell'[u].limited = cell[u].limited
                          /\ bill'[u].granted = bill[u].granted,
         \A h \in Handlers :
            \/ call'[h] = call[h]
            \/ /\ call[h].pc \notin BusyPcs /\ call'[h].pc \notin BusyPcs
               /\ call[h].pc # "applied" /\ call'[h].pc # "applied"
  PROVE  Rules'
<1>1. known \subseteq Users
  BY DEF Shape
<1>2. Applied' = Applied /\ \A g \in Applied : call'[g] = call[g]
  BY DEF Applied
<1>3. \A u \in known : \A tab :
         Right(u, tab) => /\ cell'[u].limited <=> u \in DOMAIN tab
                          /\ u \in DOMAIN tab => bill'[u].granted = tab[u]
  BY <1>1 DEF Right
<1>4. ASSUME NEW h \in Handlers, call'[h].pc \in BusyPcs
      PROVE  Progress(call[h])' /\ \A g \in Applied' : call'[g].no < call'[h].no
  <2>1. call'[h] = call[h]
    BY <1>4
  <2>2. Progress(call[h]) /\ \A g \in Applied : call[g].no < call[h].no
    BY <1>4, <2>1 DEF Rules
  <2>3. Progress(call[h])'
    BY <1>1, <1>3, <2>1, <2>2 DEF Progress, Right, Undone
  <2> QED
    BY <1>2, <2>1, <2>2, <2>3
<1>5. \A h \in Handlers : call'[h].pc \in BusyPcs <=> apply' = h
  BY DEF Rules
<1>6. NewestTableRules'
  BY <1>1, <1>2 DEF Rules, NewestTableRules
<1>7. \A u \in Users \ known' : ~cell'[u].limited
  BY DEF Rules
<1>8. \A g \in Applied' : DOMAIN call'[g].tab \subseteq known' /\ table'.accepted
  BY <1>2 DEF Rules
<1> QED
  BY <1>4, <1>5, <1>6, <1>7, <1>8 DEF Rules

\* A step of the PUT that holds quota.apply.
LEMMA BusyRules ==
  ASSUME Shape, Rules, NEW h \in Handlers, NEW s, CallTo(h, s), s.pc \in BusyPcs,
         s.no = call[h].no, call[h].pc # "applied", apply \in {h, None}, apply' = h,
         \A g \in Applied : call[g].no < call[h].no,
         UNCHANGED known, table.accepted => table'.accepted,
         \A u \in Users \ known : cell'[u].limited = cell[u].limited,
         Progress(call[h])'
  PROVE  Rules'
<1>1. call'[h] = s /\ \A g \in Handlers : g # h => call'[g] = call[g]
  BY DEF Shape, CallTo
<1>2. Applied' = Applied /\ h \notin Applied
  BY <1>1 DEF Applied, BusyPcs
<1>3. \A g \in Handlers : g # h => call[g].pc \notin BusyPcs
  BY UserStatsAssumption DEF Rules
<1>4. \A g \in Handlers : call'[g].pc \in BusyPcs <=> apply' = g
  BY <1>1, <1>3
<1>5. \A g \in Applied : call'[g] = call[g]
  BY <1>1, <1>2 DEF Applied
<1>6. ASSUME NEW g \in Handlers, call'[g].pc \in BusyPcs
      PROVE  Progress(call[g])' /\ \A k \in Applied' : call'[k].no < call'[g].no
  <2>1. g = h
    BY <1>4, <1>6
  <2> QED
    BY <1>1, <1>2, <1>5, <2>1
<1>7. \A u \in Users \ known' : ~cell'[u].limited
  BY DEF Rules
<1>8. \A g \in Applied' : DOMAIN call'[g].tab \subseteq known' /\ table'.accepted
  BY <1>2, <1>5 DEF Rules
<1>9. NewestTableRules'
  BY UserStatsAssumption DEF NewestTableRules
<1> QED
  BY <1>4, <1>6, <1>7, <1>8, <1>9 DEF Rules

LEMMA CheckRules ==
  ASSUME Shape, Rules, NEW h \in Handlers, PutCheck(h)
  PROVE  Rules'
<1> DEFINE r == call[h]
           left == known \ DOMAIN r.tab
           s == Lift(r, left)
<1>1. r \in Calls /\ r.pc = "put" /\ apply = None /\ known \in SUBSET Users
  BY DEF Shape, PutCheck
<1>2. CASE StaleEpoch(r.no) \/ ~(DOMAIN r.tab \subseteq known)
  <2>1. \E pc \in {"conflict", "unknown"} : CallTo(h, [r EXCEPT !.pc = pc])
    BY <1>2 DEF PutCheck
  <2>2. PICK pc \in {"conflict", "unknown"} : CallTo(h, [r EXCEPT !.pc = pc])
    BY <2>1
  <2>3. call'[h].pc = pc /\ \A g \in Handlers : g # h => call'[g] = call[g]
    BY <1>1, <2>2 DEF CallTo, Calls, Shape
  <2>4. apply' = apply /\ UNCHANGED <<lineages, gate, bill>>
    BY <1>1, <1>2 DEF PutCheck
  <2>5. \A g \in Handlers :
            \/ call'[g] = call[g]
            \/ /\ call[g].pc \notin BusyPcs /\ call'[g].pc \notin BusyPcs
               /\ call[g].pc # "applied" /\ call'[g].pc # "applied"
    BY <1>1, <2>2, <2>3 DEF BusyPcs
  <2> QED
    BY <2>4, <2>5, KeepRules DEF lineages, gate
<1>3. CASE ~StaleEpoch(r.no) /\ DOMAIN r.tab \subseteq known
  <2>1. CallTo(h, s) /\ apply' = h /\ UNCHANGED <<lineages, gate, bill>>
    BY <1>3 DEF PutCheck
  <2>2. left \in SUBSET Users /\ left \cap DOMAIN r.tab = {} /\ known = left \cup DOMAIN r.tab
    BY <1>1, <1>3
  <2> HIDE DEF left
  <2>3. /\ s.tab = r.tab /\ s.no = r.no
        /\ s.pc = (IF left # {} THEN "lift" ELSE IF DOMAIN r.tab = {} THEN "epoch" ELSE "grant")
        /\ s.left = IF left # {} THEN left ELSE DOMAIN r.tab
    <3>1. /\ r \in Calls /\ left \in SUBSET Users /\ known \in SUBSET Users
          /\ DOMAIN r.tab \subseteq known
      BY <1>1, <1>3, <2>2
    <3> HIDE DEF r
    <3> QED
      BY <3>1, LiftFacts
  <2> HIDE DEF s
  <2>4. call'[h] = s
    BY <2>1 DEF CallTo, Shape
  <2>5. Progress(call[h])'
    BY <1>3, <2>1, <2>2, <2>3, <2>4 DEF Progress, Undone, lineages
  <2>6. \A g \in Applied : call[g].no < r.no
    <3>1. \A g \in Handlers : call[g].no \in Nat
      BY ViewsAreCounts
    <3> QED
      BY <1>1, <1>3, <3>1 DEF StaleEpoch, Rules, NewestTableRules, Applied
  <2>7. s.pc \in BusyPcs
    BY <2>3 DEF BusyPcs
  <2> QED
    BY <1>1, <2>1, <2>3, <2>5, <2>6, <2>7, BusyRules DEF lineages, gate
<1> QED
  BY <1>2, <1>3

LEMMA LiftRules ==
  ASSUME Shape, Rules, NEW h \in Handlers, PutLift(h) \/ PutClear(h)
  PROVE  Rules'
<1> DEFINE r == call[h]
<1>1. /\ r \in Calls /\ known \in SUBSET Users /\ r.left \in SUBSET Users
      /\ r.pc \in {"lift", "clear"} /\ DOMAIN r.tab \subseteq known
  BY DEF Shape, Calls, TrueCall, PutLift, PutClear
<1>2. /\ Progress(r) /\ apply = h /\ \A g \in Applied : call[g].no < r.no
      /\ r.left \subseteq known \ DOMAIN r.tab
  BY <1>1 DEF Rules, BusyPcs, Progress
<1>3. UNCHANGED <<lineages, table, apply>>
  BY DEF PutLift, PutClear
<1>4. CASE PutLift(h)
  <2>1. PICK u \in r.left : /\ cell' = [cell EXCEPT ![u].limited = FALSE]
                            /\ CallTo(h, [r EXCEPT !.pc = "clear", !.cur = u])
    BY <1>4 DEF PutLift
  <2> DEFINE s == [r EXCEPT !.pc = "clear", !.cur = u]
  <2>2. /\ s.pc = "clear" /\ s.cur = u /\ s.left = r.left /\ s.tab = r.tab /\ s.no = r.no
    BY <1>1 DEF Calls
  <2>3. CallTo(h, s) /\ call'[h] = s
    BY <2>1 DEF CallTo, Shape
  <2>4. /\ ~cell'[u].limited /\ u \in Users
        /\ \A x \in Users : x # u => cell'[x] = cell[x]
    BY <1>1, <2>1 DEF Shape, Cells
  <2>5. u \in known /\ bill' = bill /\ known' = known
    BY <1>2, <1>3, <1>4 DEF PutLift, lineages
  <2> HIDE DEF s
  <2>6. \A x \in known : x \notin Undone(s) =>
           /\ cell'[x].limited <=> x \in DOMAIN s.tab
           /\ x \in DOMAIN s.tab => bill'[x].granted = s.tab[x]
    <3>1. Undone(s) = Undone(r) /\ u \in Undone(r)
      BY <1>1, <2>2 DEF Undone
    <3>2. \A x \in known : x \notin Undone(r) => Right(x, r.tab)
      BY <1>2 DEF Progress
    <3> QED
      BY <1>1, <2>2, <2>4, <2>5, <3>1, <3>2 DEF Right
  <2>7. Progress(call[h])'
    BY <1>1, <1>2, <2>2, <2>3, <2>4, <2>5, <2>6 DEF Progress, Undone, Right
  <2>8. s.pc \in BusyPcs /\ r.pc # "applied"
    BY <1>1, <2>2 DEF BusyPcs
  <2>9. \A x \in Users \ known : cell'[x].limited = cell[x].limited
    BY <2>4, <2>5
  <2> QED
    BY <1>2, <1>3, <2>2, <2>3, <2>5, <2>7, <2>8, <2>9, BusyRules
<1>5. CASE PutClear(h)
  <2> DEFINE u == r.cur
             left == r.left \ {u}
             s == Lift(r, left)
  <2>1. /\ cell' = [cell EXCEPT ![u].remaining = 0] /\ CallTo(h, s)
        /\ bill' = [bill EXCEPT ![u] = [granted |-> None, spent |-> 0]]
    BY <1>5 DEF PutClear
  <2>2. u \in r.left /\ u \in known /\ u \in Users /\ ~cell[u].limited /\ r.pc = "clear"
    BY <1>1, <1>2, <1>5 DEF PutClear, Progress
  <2>3. left \in SUBSET Users /\ left \subseteq known \ DOMAIN r.tab
    BY <1>1, <1>2
  <2>4. \A x \in Users : cell'[x].limited = cell[x].limited
    BY <2>1 DEF Shape, Cells
  <2>5. \A x \in Users : x # u => bill'[x] = bill[x]
    BY <2>1 DEF Shape
  <2>6. \A x \in known : x \notin left \cup DOMAIN r.tab => ~cell'[x].limited
    <3>1. \A x \in known : x \notin r.left \cup DOMAIN r.tab => ~cell[x].limited
      BY <1>1, <1>2 DEF Progress, Undone, Right
    <3> QED
      BY <1>1, <2>2, <2>4, <3>1
  <2> HIDE DEF left
  <2>7. /\ s.tab = r.tab /\ s.no = r.no
        /\ s.pc = (IF left # {} THEN "lift" ELSE IF DOMAIN r.tab = {} THEN "epoch" ELSE "grant")
        /\ s.left = IF left # {} THEN left ELSE DOMAIN r.tab
    <3>1. /\ r \in Calls /\ left \in SUBSET Users /\ known \in SUBSET Users
          /\ DOMAIN r.tab \subseteq known
      BY <1>1, <2>3
    <3> HIDE DEF r
    <3> QED
      BY <3>1, LiftFacts
  <2> HIDE DEF s
  <2>8. call'[h] = s /\ known' = known
    BY <1>3, <2>1 DEF CallTo, Shape, lineages
  <2>9. \A x \in known : x \notin Undone(s) =>
           /\ cell'[x].limited <=> x \in DOMAIN s.tab
           /\ x \in DOMAIN s.tab => bill'[x].granted = s.tab[x]
    BY <2>6, <2>7 DEF Undone
  <2>10. Progress(call[h])'
    BY <1>1, <2>3, <2>7, <2>8, <2>9 DEF Progress, Undone, Right
  <2>11. s.pc \in BusyPcs /\ r.pc # "applied"
    BY <1>1, <2>7 DEF BusyPcs
  <2> QED
    BY <1>2, <1>3, <2>1, <2>4, <2>7, <2>8, <2>10, <2>11, BusyRules
<1> QED
  BY <1>4, <1>5

\* The grant of u: its cell is right once it is limited.
LEMMA GrantRules ==
  ASSUME Shape, Rules, NEW h \in Handlers, PutGrant(h) \/ PutLimit(h) \/ PutCool(h)
  PROVE  Rules'
<1> DEFINE r == call[h]
<1>1. /\ r \in Calls /\ known \in SUBSET Users /\ r.left \in SUBSET Users
      /\ r.pc \in {"grant", "limit", "cool"} /\ DOMAIN r.tab \subseteq known
      /\ r.left \subseteq DOMAIN r.tab
  BY DEF Shape, Calls, TrueCall, PutGrant, PutLimit, PutCool
<1>2. /\ Progress(r) /\ apply = h /\ \A g \in Applied : call[g].no < r.no
      /\ \A x \in known : x \notin r.left => Right(x, r.tab)
  BY <1>1 DEF Rules, BusyPcs, Progress, Undone
<1>3. UNCHANGED <<lineages, table, apply>> /\ known' = known
  BY DEF PutGrant, PutLimit, PutCool, lineages
<1>4. CASE PutGrant(h)
  <2>1. PICK u \in r.left :
          /\ cell' = [cell EXCEPT ![u].remaining = r.tab[u]]
          /\ bill' = [bill EXCEPT ![u] = [granted |-> r.tab[u], spent |-> 0]]
          /\ CallTo(h, [r EXCEPT !.pc = "limit", !.cur = u])
    BY <1>4 DEF PutGrant
  <2> DEFINE s == [r EXCEPT !.pc = "limit", !.cur = u]
  <2>2. s.pc = "limit" /\ s.cur = u /\ s.left = r.left /\ s.tab = r.tab /\ s.no = r.no
    BY <1>1 DEF Calls
  <2>3. CallTo(h, s) /\ call'[h] = s
    BY <2>1 DEF CallTo, Shape
  <2>4. u \in known /\ u \in Users
    BY <1>1
  <2>5. \A x \in Users : cell'[x].limited = cell[x].limited
    BY <2>1 DEF Shape, Cells
  <2>6. bill'[u].granted = r.tab[u] /\ \A x \in Users : x # u => bill'[x] = bill[x]
    BY <2>1, <2>4 DEF Shape
  <2> HIDE DEF s
  <2>7. \A x \in known : x \notin Undone(s) =>
           /\ cell'[x].limited <=> x \in DOMAIN s.tab
           /\ x \in DOMAIN s.tab => bill'[x].granted = s.tab[x]
    BY <1>1, <1>2, <2>2, <2>5, <2>6 DEF Undone, Right
  <2>8. Progress(call[h])'
    BY <1>1, <1>3, <2>2, <2>3, <2>4, <2>6, <2>7 DEF Progress, Undone, Right
  <2>9. s.pc \in BusyPcs /\ r.pc # "applied"
    BY <1>1, <2>2 DEF BusyPcs
  <2> QED
    BY <1>2, <1>3, <2>2, <2>3, <2>5, <2>8, <2>9, BusyRules
<1>5. CASE PutLimit(h)
  <2> DEFINE u == r.cur
             s == [r EXCEPT !.pc = "cool"]
  <2>1. cell' = [cell EXCEPT ![u].limited = TRUE] /\ CallTo(h, s) /\ bill' = bill
    BY <1>5 DEF PutLimit
  <2>2. u \in r.left /\ u \in known /\ u \in Users /\ bill[u].granted = r.tab[u]
    BY <1>1, <1>2, <1>5 DEF PutLimit, Progress
  <2>3. s.pc = "cool" /\ s.cur = u /\ s.left = r.left /\ s.tab = r.tab /\ s.no = r.no
    BY <1>1 DEF Calls
  <2>4. call'[h] = s
    BY <2>1 DEF CallTo, Shape
  <2>5. cell'[u].limited /\ \A x \in Users : x # u => cell'[x] = cell[x]
    BY <2>1, <2>2 DEF Shape, Cells
  <2> HIDE DEF s, u
  <2>6. \A x \in known : x \notin Undone(s) =>
           /\ cell'[x].limited <=> x \in DOMAIN s.tab
           /\ x \in DOMAIN s.tab => bill'[x].granted = s.tab[x]
    BY <1>1, <1>2, <2>1, <2>2, <2>3, <2>5 DEF Undone, Right
  <2>7. Progress(call[h])'
    BY <1>1, <1>3, <2>1, <2>2, <2>3, <2>4, <2>5, <2>6 DEF Progress, Undone, Right
  <2>8. s.pc \in BusyPcs /\ r.pc # "applied"
    BY <1>1, <2>3 DEF BusyPcs
  <2>9. \A x \in Users \ known : cell'[x].limited = cell[x].limited
    BY <2>2, <2>5
  <2> QED
    BY <1>2, <1>3, <2>1, <2>3, <2>7, <2>8, <2>9, BusyRules
<1>6. CASE PutCool(h)
  <2> DEFINE u == r.cur
             left == r.left \ {u}
             s == Limit(r, left)
  <2>1. cell' = [cell EXCEPT ![u].cooling = FALSE] /\ CallTo(h, s) /\ bill' = bill
    BY <1>6 DEF PutCool
  <2>2. /\ u \in r.left /\ u \in known /\ u \in Users
        /\ cell[u].limited /\ bill[u].granted = r.tab[u]
    BY <1>1, <1>2, <1>6 DEF PutCool, Progress
  <2>3. left \in SUBSET Users /\ left \subseteq DOMAIN r.tab
    BY <1>1
  <2>4. \A x \in Users : cell'[x].limited = cell[x].limited
    BY <2>1 DEF Shape, Cells
  <2>5. Right(u, r.tab)
    BY <1>1, <2>2 DEF Right
  <2>6. \A x \in known : x \notin left => Right(x, r.tab)
    BY <1>2, <2>5
  <2> HIDE DEF left
  <2>7. /\ s.tab = r.tab /\ s.no = r.no /\ s.left = left
        /\ s.pc = IF left = {} THEN "epoch" ELSE "grant"
    <3>1. /\ r \in Calls /\ left \in SUBSET Users /\ known \in SUBSET Users
          /\ DOMAIN r.tab \subseteq known /\ left \subseteq DOMAIN r.tab
      BY <1>1, <2>3
    <3> HIDE DEF r
    <3> QED
      BY <3>1, LimitFacts
  <2> HIDE DEF s
  <2>8. call'[h] = s
    BY <2>1 DEF CallTo, Shape
  <2>9. \A x \in known : x \notin Undone(s) =>
           /\ cell'[x].limited <=> x \in DOMAIN s.tab
           /\ x \in DOMAIN s.tab => bill'[x].granted = s.tab[x]
    BY <1>1, <2>1, <2>4, <2>6, <2>7 DEF Undone, Right
  <2>10. Progress(call[h])'
    BY <1>1, <1>3, <2>7, <2>8, <2>9 DEF Progress, Undone, Right
  <2>11. s.pc \in BusyPcs /\ r.pc # "applied"
    BY <1>1, <2>7 DEF BusyPcs
  <2> QED
    BY <1>2, <1>3, <2>1, <2>4, <2>7, <2>8, <2>10, <2>11, BusyRules
<1> QED
  BY <1>4, <1>5, <1>6

\* The three stores that publish the table.
LEMMA PublishRules ==
  ASSUME Shape, Rules, NEW h \in Handlers, PutEpoch(h) \/ PutAccept(h)
  PROVE  Rules'
<1> DEFINE r == call[h]
<1>1. r \in Calls /\ r.pc \in {"epoch", "accept"}
  BY DEF Shape, PutEpoch, PutAccept
<1>2. /\ Progress(r) /\ apply = h /\ \A g \in Applied : call[g].no < r.no
      /\ \A x \in known : Right(x, r.tab)
  BY <1>1 DEF Rules, BusyPcs, Progress, Undone
<1>3. \E pc \in {"accept", "fresh"} :
         /\ CallTo(h, [r EXCEPT !.pc = pc])
         /\ table'.epoch = r.no /\ (table.accepted => table'.accepted)
         /\ pc = "fresh" => table'.accepted
  <2>1. r.pc = "accept" => table.epoch = r.no
    BY <1>2 DEF Progress
  <2> QED
    BY <2>1 DEF PutEpoch, PutAccept, Shape
<1>4. PICK pc \in {"accept", "fresh"} :
         /\ CallTo(h, [r EXCEPT !.pc = pc])
         /\ table'.epoch = r.no /\ (table.accepted => table'.accepted)
         /\ pc = "fresh" => table'.accepted
  BY <1>3
<1> DEFINE s == [r EXCEPT !.pc = pc]
<1>5. s.pc = pc /\ s.tab = r.tab /\ s.no = r.no
  BY <1>1 DEF Calls
<1>6. CallTo(h, s) /\ call'[h] = s
  BY <1>4 DEF CallTo, Shape
<1>7. UNCHANGED <<lineages, cell, bill, apply>> /\ known' = known
  BY DEF PutEpoch, PutAccept, lineages
<1> HIDE DEF s
<1>8. Progress(call[h])'
  BY <1>2, <1>4, <1>5, <1>6, <1>7 DEF Progress, Undone, Right
<1>9. s.pc \in BusyPcs /\ r.pc # "applied"
  BY <1>1, <1>5 DEF BusyPcs
<1> QED
  BY <1>2, <1>4, <1>5, <1>6, <1>7, <1>8, <1>9, BusyRules

LEMMA DoneRules ==
  ASSUME Shape, Rules, NEW h \in Handlers, PutDone(h)
  PROVE  Rules'
<1> DEFINE r == call[h]
           s == [r EXCEPT !.pc = "applied"]
<1>1. r \in Calls /\ r.pc = "fresh" /\ r.no \in Nat
  BY DEF Shape, PutDone, Calls
<1>2. /\ apply = h /\ \A g \in Applied : call[g].no < r.no
      /\ \A x \in known : Right(x, r.tab)
      /\ DOMAIN r.tab \subseteq known /\ table.epoch = r.no /\ table.accepted
  BY <1>1 DEF Rules, BusyPcs, Progress, Undone
<1>3. s.pc = "applied" /\ s.tab = r.tab /\ s.no = r.no
  BY <1>1 DEF Calls
<1>4. call'[h] = s /\ \A g \in Handlers : g # h => call'[g] = call[g]
  BY DEF PutDone, CallTo, Shape
<1>5. /\ UNCHANGED <<lineages, cell, bill>> /\ known' = known /\ apply' = None
      /\ table'.epoch = table.epoch /\ table'.accepted = table.accepted
  BY DEF PutDone, lineages, Shape
<1> HIDE DEF s
<1>6. Applied' = Applied \cup {h} /\ h \notin Applied
  BY <1>1, <1>3, <1>4 DEF Applied
<1>7. \A g \in Handlers : call'[g].pc \notin BusyPcs /\ apply' # g
  BY <1>2, <1>3, <1>4, <1>5, UserStatsAssumption DEF Rules, BusyPcs
<1>8. \A g \in Applied' : DOMAIN call'[g].tab \subseteq known' /\ table'.accepted
  BY <1>2, <1>3, <1>4, <1>5, <1>6 DEF Rules, Applied
<1>9. NewestTableRules'
  <2>1. \A g \in Applied' : call'[g].no <= call'[h].no
    <3>1. \A g \in Handlers : call[g].no \in Nat
      BY ViewsAreCounts
    <3> QED
      BY <1>2, <1>3, <1>4, <1>6, <3>1 DEF Applied
  <2>2. \A u \in known' : /\ cell'[u].limited <=> u \in DOMAIN call'[h].tab
                          /\ u \in DOMAIN call'[h].tab => bill'[u].granted = call'[h].tab[u]
    BY <1>2, <1>3, <1>4, <1>5 DEF Right
  <2>3. table'.epoch = call'[h].no /\ h \in Applied'
    BY <1>2, <1>3, <1>4, <1>5, <1>6
  <2> QED
    BY <2>1, <2>2, <2>3 DEF NewestTableRules
<1>10. \A u \in Users \ known' : ~cell'[u].limited
  BY <1>5 DEF Rules
<1> QED
  BY <1>7, <1>8, <1>9, <1>10 DEF Rules

\* A reload waits for the requests; new lineages have no limit.
LEMMA ReloadRules ==
  ASSUME Shape, Rules, NEW users \in SUBSET Users, Reload(users)
  PROVE  Rules'
<1>1. /\ UNCHANGED <<cell, table, call, apply, bill>> /\ known \subseteq known'
      /\ known' \subseteq Users
  BY DEF Reload, gate, control, Shape
<1>2. \A h \in Handlers : call[h].pc \notin BusyPcs
  BY DEF Reload, Settled, BusyPcs
<1>3. Applied' = Applied
  BY <1>1 DEF Applied
<1>4. NewestTableRules'
  <2> SUFFICES ASSUME apply' = None, Applied' # {}
               PROVE  \E h \in Applied' :
                        /\ \A g \in Applied' : call'[g].no <= call'[h].no
                        /\ table'.epoch = call'[h].no
                        /\ \A u \in known' :
                              /\ cell'[u].limited <=> u \in DOMAIN call'[h].tab
                              /\ u \in DOMAIN call'[h].tab => bill'[u].granted = call'[h].tab[u]
    BY DEF NewestTableRules
  <2>1. PICK h \in Applied :
          /\ \A g \in Applied : call[g].no <= call[h].no
          /\ table.epoch = call[h].no
          /\ \A u \in known : /\ cell[u].limited <=> u \in DOMAIN call[h].tab
                              /\ u \in DOMAIN call[h].tab => bill[u].granted = call[h].tab[u]
    BY <1>1, <1>3 DEF Rules, NewestTableRules
  <2>2. ASSUME NEW u \in known', u \notin known
        PROVE  ~cell[u].limited /\ u \notin DOMAIN call[h].tab
    BY <1>1, <2>2 DEF Rules
  <2> QED
    BY <1>1, <1>3, <2>1, <2>2
<1> QED
  BY <1>1, <1>2, <1>3, <1>4 DEF Rules

\* The data plane charges and throttles a cell; it does not touch its limit.
LEMMA TrafficRules ==
  ASSUME Shape, Rules,
         \/ \E c \in Conns : \/ \E u \in Users : Open(c, u)
                             \/ AdmitState(c) \/ AdmitRemaining(c) \/ AdmitCooling(c)
                             \/ AdmitTable(c) \/ Deny(c) \/ Track(c)
         \/ \E f \in Flows : \/ Count(f) \/ ConsumeState(f) \/ ConsumeCharge(f)
                             \/ EnforceMark(f) \/ EnforceDeny(f)
                             \/ EnforceClose(f) \/ Close(f)
         \/ \E u \in Users : CoolEnds(u)
  PROVE  Rules'
<1>1. UNCHANGED <<known, table, control>>
  BY DEF Open, AdmitState, AdmitRemaining, AdmitCooling, AdmitTable, Goto, Deny, Track, Count,
         ConsumeState, ConsumeCharge, EnforceMark, EnforceDeny, EnforceClose, Close, CoolEnds,
         lineages, gate
<1>2. \/ cell' = cell
      \/ \E u : cell' = [cell EXCEPT ![u].cooling = TRUE]
      \/ \E u : cell' = [cell EXCEPT ![u].cooling = FALSE]
      \/ \E u, n : cell' = [cell EXCEPT ![u].remaining = n]
  BY DEF Open, AdmitState, AdmitRemaining, AdmitCooling, AdmitTable, Goto, Deny, Track, Count,
         ConsumeState, ConsumeCharge, EnforceMark, EnforceDeny, EnforceClose, Close, CoolEnds, gate
<1>3. bill' = bill \/ \E u : bill' = [bill EXCEPT ![u].spent = @ + 1]
  BY DEF Open, AdmitState, AdmitRemaining, AdmitCooling, AdmitTable, Goto, Deny, Track, Count,
         ConsumeState, ConsumeCharge, EnforceMark, EnforceDeny, EnforceClose, Close, CoolEnds
<1>4. \A u \in Users : cell'[u].limited = cell[u].limited
  BY <1>2 DEF Shape, Cells
<1>5. \A u \in Users : bill'[u].granted = bill[u].granted
  BY <1>3 DEF Shape
<1> QED
  BY <1>1, <1>4, <1>5, KeepRules DEF control

\* Requests that hold no lock of the tables.
LEMMA OtherRules ==
  ASSUME Shape, Rules, NEW h \in Handlers,
         \/ \E e \in 1..MaxEpoch, t \in Tables : Put(h, e, t)
         \/ Get(h) \/ SnapshotBegin(h) \/ SnapshotRead(h)
  PROVE  Rules'
<1>1. call[h] \in Calls /\ call[h].pc \in {"off", "get", "read"}
  BY DEF Shape, Put, Get, SnapshotBegin, SnapshotRead
<1>2. call'[h].pc \in {"put", "get", "read", "shown"}
  <2>1. CASE \E e \in 1..MaxEpoch, t \in Tables : Put(h, e, t)
    <3>1. PICK e \in 1..MaxEpoch, t \in Tables : Put(h, e, t)
      BY <2>1
    <3>2. e \in Nat
      BY UserStatsAssumption
    <3>3. call'[h] = [Off EXCEPT !.pc = "put", !.no = e, !.tab = t]
      BY <3>1 DEF Put, CallTo, Shape
    <3> QED
      BY <3>2, <3>3, OffFacts
  <2>2. CASE Get(h)
    <3>1. call'[h] = [Off EXCEPT !.pc = "get"]
      BY <2>2 DEF Get, CallTo, Shape
    <3> QED
      BY <3>1, OffFacts
  <2>3. CASE SnapshotBegin(h)
    <3>1. call'[h] = [call[h] EXCEPT !.pc = "read", !.no = sequence + 1, !.left = known]
      BY <2>3 DEF SnapshotBegin, CallTo, Shape
    <3> QED
      BY <1>1, <3>1 DEF Calls
  <2>4. CASE SnapshotRead(h)
    <3>1. PICK u \in call[h].left :
            CallTo(h, [call[h] EXCEPT !.pc = IF call[h].left = {u} THEN "shown" ELSE "read",
                                      !.left = @ \ {u},
                                      !.view = [v \in DOMAIN @ \cup {u} |->
                                                  IF v = u THEN counter[u] ELSE @[v]]])
      BY <2>4 DEF SnapshotRead
    <3> DEFINE w  == [x \in DOMAIN call[h].view \cup {u} |->
                        IF x = u THEN counter[u] ELSE call[h].view[x]]
               pc == IF call[h].left = {u} THEN "shown" ELSE "read"
    <3>2. call'[h] = [call[h] EXCEPT !.pc = pc, !.left = call[h].left \ {u}, !.view = w]
      BY <3>1 DEF CallTo, Shape
    <3>3. pc \in {"shown", "read"}
      OBVIOUS
    <3> HIDE DEF w, pc
    <3> QED
      BY <1>1, <3>2, <3>3 DEF Calls
  <2> QED
    BY <2>1, <2>2, <2>3, <2>4
<1>3. \A g \in Handlers : g # h => call'[g] = call[g]
  BY DEF Put, Get, SnapshotBegin, SnapshotRead, CallTo, Shape
<1>4. UNCHANGED <<apply, lineages, gate, bill>>
  BY DEF Put, Get, SnapshotBegin, SnapshotRead
<1>5. \A g \in Handlers :
            \/ call'[g] = call[g]
            \/ /\ call[g].pc \notin BusyPcs /\ call'[g].pc \notin BusyPcs
               /\ call[g].pc # "applied" /\ call'[g].pc # "applied"
  BY <1>1, <1>2, <1>3 DEF BusyPcs
<1> QED
  BY <1>4, <1>5, KeepRules DEF lineages, gate

LEMMA InitRules == Init => Rules
<1> SUFFICES ASSUME Init PROVE Rules
  OBVIOUS
<1>1. \A h \in Handlers : call[h].pc = "off"
  <2>1. Off.pc = "off"
    BY DEF Off
  <2> HIDE DEF Off
  <2> QED
    BY <2>1 DEF Init
<1>2. apply = None /\ \A u \in Users : ~cell[u].limited
  BY DEF Init
<1>3. Applied = {}
  BY <1>1 DEF Applied
<1> QED
  BY <1>1, <1>2, <1>3, UserStatsAssumption DEF Rules, NewestTableRules, BusyPcs

LEMMA StepRules == Shape /\ Rules /\ [Next]_vars => Rules'
<1> SUFFICES ASSUME Shape, Rules, [Next]_vars PROVE Rules'
  OBVIOUS
<1>1. CASE \/ \E c \in Conns : \/ \E u \in Users : Open(c, u)
                               \/ AdmitState(c) \/ AdmitRemaining(c) \/ AdmitCooling(c)
                               \/ AdmitTable(c) \/ Deny(c) \/ Track(c)
           \/ \E f \in Flows : \/ Count(f) \/ ConsumeState(f) \/ ConsumeCharge(f)
                               \/ EnforceMark(f) \/ EnforceDeny(f)
                               \/ EnforceClose(f) \/ Close(f)
           \/ \E u \in Users : CoolEnds(u)
  BY <1>1, TrafficRules
<1>2. CASE \E h \in Handlers :
             \/ \E e \in 1..MaxEpoch, t \in Tables : Put(h, e, t)
             \/ Get(h) \/ SnapshotBegin(h) \/ SnapshotRead(h)
  BY <1>2, OtherRules
<1>3. CASE \E h \in Handlers :
             \/ PutCheck(h) \/ PutLift(h) \/ PutClear(h) \/ PutGrant(h)
             \/ PutLimit(h) \/ PutCool(h) \/ PutEpoch(h) \/ PutAccept(h) \/ PutDone(h)
  BY <1>3, CheckRules, LiftRules, GrantRules, PublishRules, DoneRules
<1>4. CASE \E s \in SUBSET Users : Reload(s)
  BY <1>4, ReloadRules
<1>5. CASE TableAges \/ UNCHANGED vars
  <2>1. /\ UNCHANGED <<apply, known, cell, bill, call>>
        /\ table'.epoch = table.epoch /\ table'.accepted = table.accepted
    BY <1>5 DEF TableAges, vars, lineages, control, gate, Shape
  <2> QED
    BY <2>1, KeepRules
<1> QED
  BY <1>1, <1>2, <1>3, <1>4, <1>5 DEF Next

\* Between two PUTs the cells are those of the accepted table with the highest
\* epoch (quota.apply, ApplyQuotaTable), with any tables, lineages and requests.
THEOREM NewestTableRulesAlways == Spec => []NewestTableRules
<1>1. Rules => NewestTableRules
  BY DEF Rules
<1> QED
  BY <1>1, InitShape, StepShape, InitRules, StepRules, PTL DEF Spec

-----------------------------------------------------------------------------
(* The charges *)

\* What remains is what was granted less what was charged to it.
Ledger ==
    \A u \in Users :
       bill[u].granted # None => cell[u].remaining = bill[u].granted - bill[u].spent

LEMMA BillFacts ==
  ASSUME Shape, NEW u \in Users
  PROVE  /\ cell[u].remaining \in Int /\ bill[u].spent \in Nat
         /\ bill[u].granted # None => bill[u].granted \in Nat
BY DEF Shape, Cells, Bills

\* Nothing was granted or charged.
LEMMA KeepLedger ==
  ASSUME Ledger, bill' = bill, \A u \in Users : cell'[u].remaining = cell[u].remaining
  PROVE  Ledger'
BY DEF Ledger

LEMMA StepLedger == Shape /\ Ledger /\ [Next]_vars => Ledger'
<1> SUFFICES ASSUME Shape, Ledger, [Next]_vars PROVE Ledger'
  OBVIOUS
<1>1. CASE \E c \in Conns : \/ \E u \in Users : Open(c, u)
                            \/ AdmitState(c) \/ AdmitRemaining(c) \/ AdmitCooling(c)
                            \/ AdmitTable(c) \/ Deny(c) \/ Track(c)
  <2>1. /\ bill' = bill
        /\ \/ cell' = cell
           \/ \E u : cell' = [cell EXCEPT ![u].cooling = TRUE]
    BY <1>1 DEF Open, AdmitState, AdmitRemaining, AdmitCooling, AdmitTable, Goto, Deny, Track, gate
  <2>2. \A u \in Users : cell'[u].remaining = cell[u].remaining
    BY <2>1 DEF Shape, Cells
  <2> QED
    BY <2>1, <2>2, KeepLedger
<1>2. CASE \E f \in Flows : Count(f) \/ ConsumeState(f) \/ EnforceMark(f) \/ EnforceDeny(f)
                            \/ EnforceClose(f) \/ Close(f)
  <2>1. /\ bill' = bill
        /\ \/ cell' = cell
           \/ \E u : cell' = [cell EXCEPT ![u].cooling = TRUE]
    BY <1>2 DEF Count, ConsumeState, EnforceMark, EnforceDeny, EnforceClose, Close, gate
  <2>2. \A u \in Users : cell'[u].remaining = cell[u].remaining
    BY <2>1 DEF Shape, Cells
  <2> QED
    BY <2>1, <2>2, KeepLedger
<1>3. CASE \E f \in Flows : ConsumeCharge(f)
  <2>1. PICK f \in Flows : ConsumeCharge(f)
    BY <1>3
  <2> DEFINE x == UserOf(f)
  <2>2. /\ cell' = [cell EXCEPT ![x].remaining = cell[x].remaining - 1]
        /\ bill' = [bill EXCEPT ![x].spent = @ + 1]
    BY <2>1 DEF ConsumeCharge
  <2> HIDE DEF x
  <2>3. ASSUME NEW u \in Users, bill'[u].granted # None
        PROVE  cell'[u].remaining = bill'[u].granted - bill'[u].spent
    <3>1. CASE u = x
      <4>1. /\ cell'[u].remaining = cell[u].remaining - 1 /\ bill'[u].spent = bill[u].spent + 1
            /\ bill'[u].granted = bill[u].granted
        BY <2>2, <3>1 DEF Shape, Cells
      <4> QED
        BY <2>3, <4>1, BillFacts DEF Ledger
    <3>2. CASE u # x
      <4>1. cell'[u] = cell[u] /\ bill'[u] = bill[u]
        BY <2>2, <3>2 DEF Shape
      <4> QED
        BY <2>3, <4>1 DEF Ledger
    <3> QED
      BY <3>1, <3>2
  <2> QED
    BY <2>3 DEF Ledger
<1>4. CASE \E h \in Handlers :
             \/ \E e \in 1..MaxEpoch, t \in Tables : Put(h, e, t)
             \/ PutCheck(h) \/ PutEpoch(h) \/ PutAccept(h) \/ PutDone(h)
             \/ Get(h) \/ SnapshotBegin(h) \/ SnapshotRead(h)
  <2>1. bill' = bill /\ cell' = cell
    BY <1>4 DEF Put, PutCheck, PutEpoch, PutAccept, PutDone, Get, SnapshotBegin, SnapshotRead, gate
  <2> QED
    BY <2>1, KeepLedger
<1>5. CASE \E h \in Handlers : PutLift(h) \/ PutLimit(h) \/ PutCool(h)
  <2>1. /\ bill' = bill
        /\ \/ \E u : cell' = [cell EXCEPT ![u].limited = FALSE]
           \/ \E u : cell' = [cell EXCEPT ![u].limited = TRUE]
           \/ \E u : cell' = [cell EXCEPT ![u].cooling = FALSE]
    BY <1>5 DEF PutLift, PutLimit, PutCool
  <2>2. \A u \in Users : cell'[u].remaining = cell[u].remaining
    BY <2>1 DEF Shape, Cells
  <2> QED
    BY <2>1, <2>2, KeepLedger
<1>6. CASE \E h \in Handlers : PutClear(h) \/ PutGrant(h)
  <2>1. PICK x : \E g : \/ /\ g = None
                           /\ cell' = [cell EXCEPT ![x].remaining = 0]
                           /\ bill' = [bill EXCEPT ![x] = [granted |-> None, spent |-> 0]]
                        \/ /\ g \in Nat
                           /\ cell' = [cell EXCEPT ![x].remaining = g]
                           /\ bill' = [bill EXCEPT ![x] = [granted |-> g, spent |-> 0]]
    <3>1. CASE \E h \in Handlers : PutClear(h)
      BY <3>1 DEF PutClear
    <3>2. CASE \E h \in Handlers : PutGrant(h)
      <4>1. PICK h \in Handlers : PutGrant(h)
        BY <3>2
      <4>2. PICK u \in call[h].left :
              /\ cell' = [cell EXCEPT ![u].remaining = call[h].tab[u]]
              /\ bill' = [bill EXCEPT ![u] = [granted |-> call[h].tab[u], spent |-> 0]]
        BY <4>1 DEF PutGrant
      <4>3. call[h].tab \in Tables \cup {<<>>} /\ u \in DOMAIN call[h].tab
        BY <4>1 DEF Shape, Calls, TrueCall, PutGrant
      <4>4. call[h].tab \in Tables
        BY <4>3
      <4>5. call[h].tab[u] \in Nat
        BY <4>3, <4>4, UserStatsAssumption
      <4> QED
        BY <4>2, <4>5
    <3> QED
      BY <1>6, <3>1, <3>2
  <2>2. ASSUME NEW u \in Users, bill'[u].granted # None
        PROVE  cell'[u].remaining = bill'[u].granted - bill'[u].spent
    <3>1. CASE u = x
      BY <2>1, <2>2, <3>1 DEF Shape, Cells
    <3>2. CASE u # x
      <4>1. cell'[u] = cell[u] /\ bill'[u] = bill[u]
        BY <2>1, <3>2 DEF Shape
      <4> QED
        BY <2>2, <4>1 DEF Ledger
    <3> QED
      BY <3>1, <3>2
  <2> QED
    BY <2>2 DEF Ledger
<1>7. CASE \E u \in Users : CoolEnds(u)
  <2>1. bill' = bill /\ \E u : cell' = [cell EXCEPT ![u].cooling = FALSE]
    BY <1>7 DEF CoolEnds
  <2>2. \A u \in Users : cell'[u].remaining = cell[u].remaining
    BY <2>1 DEF Shape, Cells
  <2> QED
    BY <2>1, <2>2, KeepLedger
<1>8. CASE (\E s \in SUBSET Users : Reload(s)) \/ TableAges \/ UNCHANGED vars
  <2>1. bill' = bill /\ cell' = cell
    BY <1>8 DEF Reload, TableAges, vars, gate
  <2> QED
    BY <2>1, KeepLedger
<1> QED
  BY <1>1, <1>2, <1>3, <1>4, <1>5, <1>6, <1>7, <1>8 DEF Next

\* Only a charge cuts a connection,
LEMMA CutBy ==
  ASSUME Shape, [Next]_vars, NEW f \in Flows, flow[f] = "charging", flow'[f] = "cut"
  PROVE  ConsumeCharge(f)
<1>1. flow \in [Flows -> FlowPcs] /\ flow' # flow
  BY DEF Shape
<1>2. CASE \E c \in Conns : Track(c)
  BY <1>1, <1>2 DEF Track
<1>3. CASE \E g \in Flows : \/ Count(g) \/ ConsumeState(g) \/ ConsumeCharge(g)
                            \/ EnforceMark(g) \/ EnforceDeny(g)
                            \/ EnforceClose(g) \/ Close(g)
  <2>1. PICK g \in Flows : \/ Count(g) \/ ConsumeState(g) \/ ConsumeCharge(g)
                           \/ EnforceMark(g) \/ EnforceDeny(g)
                           \/ EnforceClose(g) \/ Close(g)
    BY <1>3
  <2>2. \E pc : FlowTo(g, pc) /\ (pc = "cut" => ConsumeCharge(g))
    <3>1. CASE Count(g) \/ Close(g) \/ EnforceDeny(g) \/ EnforceClose(g)
      BY <3>1 DEF Count, Close, EnforceDeny, EnforceClose
    <3>2. CASE ConsumeState(g)
      <4>1. FlowTo(g, "charging") \/ FlowTo(g, "run")
        BY <3>2 DEF ConsumeState
      <4> QED
        BY <4>1
    <3>3. CASE ConsumeCharge(g)
      BY <3>3 DEF ConsumeCharge
    <3>4. CASE EnforceMark(g)
      BY <3>4 DEF EnforceMark
    <3> QED
      BY <2>1, <3>1, <3>2, <3>3, <3>4
  <2> QED
    BY <1>1, <2>2 DEF FlowTo
<1>4. CASE \/ \E c \in Conns : \/ \E u \in Users : Open(c, u)
                               \/ AdmitState(c) \/ AdmitRemaining(c) \/ AdmitCooling(c)
                               \/ AdmitTable(c) \/ Deny(c)
           \/ \E u \in Users : CoolEnds(u)
           \/ \E s \in SUBSET Users : Reload(s)
           \/ TableAges \/ UNCHANGED vars
  BY <1>1, <1>4 DEF Open, AdmitState, AdmitRemaining, AdmitCooling, AdmitTable, Goto, Deny,
                    CoolEnds, Reload, TableAges, vars, traffic
<1>5. CASE \E h \in Handlers :
             \/ \E e \in 1..MaxEpoch, t \in Tables : Put(h, e, t)
             \/ PutCheck(h) \/ PutLift(h) \/ PutClear(h) \/ PutGrant(h)
             \/ PutLimit(h) \/ PutCool(h) \/ PutEpoch(h) \/ PutAccept(h) \/ PutDone(h)
             \/ Get(h) \/ SnapshotBegin(h) \/ SnapshotRead(h)
  BY <1>1, <1>5 DEF Put, PutCheck, PutLift, PutClear, PutGrant, PutLimit, PutCool, PutEpoch,
                    PutAccept, PutDone, Get, SnapshotBegin, SnapshotRead, traffic
<1> QED
  BY <1>2, <1>3, <1>4, <1>5 DEF Next

\* and only the load of the remaining quota turns one away as exhausted.
LEMMA DeniedBy ==
  ASSUME Shape, [Next]_vars, NEW c \in Conns, conn[c].pc = "remaining", conn'[c].pc = "deny"
  PROVE  AdmitRemaining(c)
<1>1. conn \in [Conns -> Sockets] /\ conn' # conn
  BY DEF Shape
<1>2. CASE \E d \in Conns : \/ AdmitState(d) \/ AdmitRemaining(d) \/ AdmitCooling(d)
                            \/ AdmitTable(d) \/ Track(d)
  <2>1. PICK d \in Conns : \/ AdmitState(d) \/ AdmitRemaining(d) \/ AdmitCooling(d)
                           \/ AdmitTable(d) \/ Track(d)
    BY <1>2
  <2>2. \E pc : conn' = [conn EXCEPT ![d].pc = pc]
    BY <2>1 DEF AdmitState, AdmitRemaining, AdmitCooling, AdmitTable, Track, Goto
  <2>3. d = c
    BY <1>1, <2>2
  <2> QED
    BY <2>1, <2>3 DEF AdmitState, AdmitCooling, AdmitTable, Track
<1>3. CASE \E d \in Conns : (\E u \in Users : Open(d, u)) \/ Deny(d)
  <2>1. PICK d \in Conns : (\E u \in Users : Open(d, u)) \/ Deny(d)
    BY <1>3
  <2>2. \E o : conn' = [conn EXCEPT ![d] = o]
    BY <2>1 DEF Open, Deny
  <2>3. d = c
    BY <1>1, <2>2
  <2> QED
    BY <2>1, <2>3 DEF Open, Deny
<1>4. CASE \E f \in Flows : \/ Count(f) \/ ConsumeState(f) \/ ConsumeCharge(f)
                            \/ EnforceMark(f) \/ EnforceDeny(f)
                            \/ EnforceClose(f) \/ Close(f)
  <2>1. PICK f \in Flows : \/ Count(f) \/ ConsumeState(f) \/ ConsumeCharge(f)
                           \/ EnforceMark(f) \/ EnforceDeny(f)
                           \/ EnforceClose(f) \/ Close(f)
    BY <1>4
  <2> DEFINE d == f[1]
  <2>2. d \in Conns /\ conn[d] \in Sockets /\ Idle.pc = "idle"
    BY <1>1 DEF Flows, Idle
  <2>3. \E o : conn' = [conn EXCEPT ![d] = o] /\ (o.pc = conn[d].pc \/ o.pc = "idle")
    <3>1. CASE Close(f)
      <4> DEFINE o == [conn[d] EXCEPT !.closed = TRUE, !.finished = TRUE]
      <4>1. conn' = [conn EXCEPT ![d] = o] \/ conn' = [conn EXCEPT ![d] = Idle]
        BY <3>1 DEF Close
      <4>2. o.pc = conn[d].pc
        BY <2>2 DEF Sockets
      <4> HIDE DEF o, Idle
      <4> QED
        BY <2>2, <4>1, <4>2
    <3>2. CASE ~Close(f)
      BY <2>1, <3>2, LoopStep
    <3> QED
      BY <3>1, <3>2
  <2> HIDE DEF d
  <2> QED
    BY <1>1, <2>2, <2>3
<1>5. CASE \/ \E u \in Users : CoolEnds(u)
           \/ \E s \in SUBSET Users : Reload(s)
           \/ TableAges \/ UNCHANGED vars
  BY <1>1, <1>5 DEF CoolEnds, Reload, TableAges, vars, traffic
<1>6. CASE \E h \in Handlers :
             \/ \E e \in 1..MaxEpoch, t \in Tables : Put(h, e, t)
             \/ PutCheck(h) \/ PutLift(h) \/ PutClear(h) \/ PutGrant(h)
             \/ PutLimit(h) \/ PutCool(h) \/ PutEpoch(h) \/ PutAccept(h) \/ PutDone(h)
             \/ Get(h) \/ SnapshotBegin(h) \/ SnapshotRead(h)
  BY <1>1, <1>6 DEF Put, PutCheck, PutLift, PutClear, PutGrant, PutLimit, PutCool, PutEpoch,
                    PutAccept, PutDone, Get, SnapshotBegin, SnapshotRead, traffic
<1> QED
  BY <1>2, <1>3, <1>4, <1>5, <1>6 DEF Next

\* Nobody is cut, or turned away as exhausted, before the quota that the current
\* table grants is used up, while tables are exchanged (consume, exhausted).
THEOREM GateIsAlwaysJustified == Spec => GateIsJustified
<1> DEFINE Justified ==
      \A u \in Users :
          /\ \/ \E f \in Flows : UserOf(f) = u /\ flow[f] = "charging" /\ flow'[f] = "cut"
             \/ \E c \in Conns : /\ conn[c].user = u
                                 /\ conn[c].pc = "remaining" /\ conn'[c].pc = "deny"
          /\ bill[u].granted # None
          => bill'[u].spent >= bill[u].granted
<1>1. Shape /\ Ledger /\ [Next]_vars => [Justified]_vars
  <2> SUFFICES ASSUME Shape, Ledger, [Next]_vars, NEW u \in Users, bill[u].granted # None,
                      \/ \E f \in Flows : UserOf(f) = u /\ flow[f] = "charging" /\ flow'[f] = "cut"
                      \/ \E c \in Conns : /\ conn[c].user = u
                                          /\ conn[c].pc = "remaining" /\ conn'[c].pc = "deny"
               PROVE  bill'[u].spent >= bill[u].granted
    OBVIOUS
  <2>1. /\ cell[u].remaining = bill[u].granted - bill[u].spent
        /\ cell[u].remaining \in Int /\ bill[u].spent \in Nat /\ bill[u].granted \in Nat
    BY BillFacts DEF Ledger
  <2>2. CASE \E f \in Flows : UserOf(f) = u /\ flow[f] = "charging" /\ flow'[f] = "cut"
    <3>1. PICK f \in Flows : UserOf(f) = u /\ flow[f] = "charging" /\ flow'[f] = "cut"
      BY <2>2
    <3>2. ConsumeCharge(f)
      BY <3>1, CutBy
    <3>3. bill'[u].spent = bill[u].spent + 1
      BY <3>1, <3>2 DEF ConsumeCharge, Shape
    <3>4. cell[u].remaining - 1 <= 0
      BY <3>1, <3>2 DEF ConsumeCharge, FlowTo, Exhausted, Shape
    <3> QED
      BY <2>1, <3>3, <3>4
  <2>3. CASE \E c \in Conns : /\ conn[c].user = u
                              /\ conn[c].pc = "remaining" /\ conn'[c].pc = "deny"
    <3>1. PICK c \in Conns : /\ conn[c].user = u
                             /\ conn[c].pc = "remaining" /\ conn'[c].pc = "deny"
      BY <2>3
    <3>2. AdmitRemaining(c)
      BY <3>1, DeniedBy
    <3>3. bill' = bill /\ cell[u].remaining <= 0
      BY <3>1, <3>2 DEF AdmitRemaining, Goto, Shape, Sockets
    <3> QED
      BY <2>1, <3>3
  <2> QED
    BY <2>2, <2>3
<1>2. Init => Ledger
  BY DEF Init, Ledger
<1>3. GateIsJustified <=> [][Justified]_vars
  BY DEF GateIsJustified
<1> HIDE DEF Justified
<1> QED
  BY <1>1, <1>2, <1>3, InitShape, StepShape, StepLedger, PTL DEF Spec
=============================================================================
