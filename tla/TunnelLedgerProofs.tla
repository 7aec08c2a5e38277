----------------------------- MODULE TunnelLedgerProofs -----------------------------
(***************************************************************************)
(* The ledger of tunnel events, proved for any number of instances,        *)
(* processes, sessions and bindings, any sizes of windows and budgets, and *)
(* any number of failed or unseen transactions: every event of a process   *)
(* is recorded at most once and in its order, and no two instances of a    *)
(* logical tunnel ever get the same generation, not even when retention    *)
(* has removed the first.  And what the observer calls complete is in the  *)
(* database.                                                               *)
(***************************************************************************)
EXTENDS TunnelLedger, SequenceTheorems, FiniteSetTheorems, TLAPS

Keys       == Epochs \X Processes \X Instances
SourceKeys == Epochs \X Processes

States       == {"none", "starting", "registered", "closed", "settled", "gone"}
SourceStates == {"none", "ready", "truncated", "unavailable"}
GapCodes     == {"collector_gap", "event_gap", "source_overflow", "source_not_ready"}

Events  == [of : Instances, state : States]
Sources == [collector : Nat, last : Nat, dropped : Nat, state : SourceStates]
EventRows    == [scope : Epochs, process : Processes, code : GapCodes \cup {"event"},
            seq : Nat, of : Nat]

SnapshotFields == {"process", "state", "first", "events", "objects", "dropped"}
InstanceFields == {"id", "tunnel", "generation", "state"}
TableFields    == {"sources", "tunnels", "instances", "rows", "pruned", "tunnelId", "instanceId"}
WorkFields     == {"snapshot", "hash", "tx", "processed", "offset", "remaining"}

TrueSnapshot(v) ==
  /\ DOMAIN v = SnapshotFields
  /\ v.process \in 0 .. MaxProcesses /\ v.state \in SourceStates
  /\ v.first \in Nat /\ v.dropped \in Nat /\ v.events \in Seq(Events)

TrueTables(d) ==
  /\ DOMAIN d = TableFields
  /\ d.sources \in [SourceKeys -> Sources]
  /\ d.rows \in Seq(EventRows)
  /\ DOMAIN d.instances = Keys
  /\ \A k \in Keys : DOMAIN d.instances[k] = InstanceFields /\ d.instances[k].id \in Nat
  /\ d.instanceId \in Nat /\ d.pruned \in BOOLEAN

\* The position of every source in the tables, and what it is when the
\* transaction under way is committed.
Positions    == [s \in SourceKeys |-> tables.sources[s].last]
Reached(w)   == [Positions EXCEPT ![<<Scope, w.snapshot.process>>] = w.processed]

\* No row is ahead of the position of its source, and none repeats or precedes an
\* event recorded before it.
Ordered(rows, last) ==
  \A n \in 1 .. Len(rows) : Native(rows[n]) =>
    /\ rows[n].seq <= last[RowSource(rows[n])]
    /\ \A m \in 1 .. n - 1 :
         Native(rows[m]) /\ RowSource(rows[m]) = RowSource(rows[n]) => rows[m].seq < rows[n].seq

\* Every event follows the one before it or a row that says that some are
\* missing.
EventOf(rows, n, s) == Native(rows[n]) /\ RowSource(rows[n]) = s

NoneAfter(rows, s, m) == \A n \in m + 1 .. Len(rows) : ~EventOf(rows, n, s)

Explains(rows, m, s, seq) ==
  RowSource(rows[m]) = s
    /\ (rows[m].code = "event_gap" \/ (Native(rows[m]) /\ rows[m].seq = seq - 1))

Linked(rows) ==
  \A n \in 1 .. Len(rows) : Native(rows[n]) =>
    \/ rows[n].seq = 1
    \/ \E m \in 1 .. n - 1 :
         /\ Explains(rows, m, RowSource(rows[n]), rows[n].seq)
         /\ \A k \in m + 1 .. n - 1 : ~EventOf(rows, k, RowSource(rows[n]))

\* The last event of a source is the one its position names.
EndsAt(rows, s, p) ==
  \/ p = 0 /\ NoneAfter(rows, s, 0)
  \/ \E m \in 1 .. Len(rows) :
       EventOf(rows, m, s) /\ rows[m].seq = p /\ NoneAfter(rows, s, m)

Told(rows, last) == Linked(rows) /\ \A s \in SourceKeys : EndsAt(rows, s, last[s])

\* What is missing before the next event is said at the end of the rows.
GapAtEnd(rows, s) ==
  \E m \in 1 .. Len(rows) :
    RowSource(rows[m]) = s /\ rows[m].code = "event_gap" /\ NoneAfter(rows, s, m)

NextIsTold(w) ==
  \/ w.snapshot.events = <<>> \/ w.snapshot.first <= w.processed + 1
  \/ GapAtEnd(w.tx.rows, <<Scope, w.snapshot.process>>)

AgentInv ==
  /\ DOMAIN native = {"process", "state", "log"}
  /\ native.process \in Processes /\ native.log \in Seq(Events)
  /\ frame # <<>> => TrueSnapshot(frame[1])

MonitorInv ==
  /\ collector \in Nat /\ binding \in 1 .. MaxEpochs
  /\ report # <<>> => TrueSnapshot(report[1])
  /\ observer # <<>> => observer[1].process \in 0 .. MaxProcesses

TablesInv ==
  /\ TrueTables(tables) /\ Ordered(tables.rows, Positions)
  /\ tables.pruned \/ Told(tables.rows, Positions)

\* A transaction works on a copy of the tables in which only the rows are ahead.
TrueWork(w) ==
  /\ DOMAIN w = WorkFields
  /\ TrueSnapshot(w.snapshot) /\ w.snapshot.process # NoProcess
  /\ w.hash[3] \in Nat /\ w.processed \in Nat
  /\ TrueTables(w.tx) /\ w.tx.sources = tables.sources
  /\ Ordered(w.tx.rows, Reached(w))
  /\ w.tx.pruned = tables.pruned
  /\ tables.pruned \/ (Told(w.tx.rows, Reached(w)) /\ NextIsTold(w))

WorkInv == work # <<>> => TrueWork(work[1])

LedgerInv == AgentInv /\ MonitorInv /\ TablesInv /\ WorkInv

------------------------------------------------------------------------------------
(* The operators *)

LEMMA ScopeFacts ==
  ASSUME MonitorInv
  PROVE  Scope \in Epochs /\ Owner \in Epochs
BY TunnelAssumption DEF MonitorInv, Scope, Owner, Epochs

\* upsert touches neither the rows nor the sources.
LEMMA UpsertFacts ==
  ASSUME NEW d, TrueTables(d), NEW p, NEW o
  PROVE  LET u == Upsert(d, p, o)
         IN  TrueTables(u) /\ u.rows = d.rows /\ u.sources = d.sources /\ u.pruned = d.pruned
<1> DEFINE k == InstanceKey(p, o.of)
           t == TunnelKey(p, o.of)
           a == AddTunnel(d, t)
           b == AddInstance(a, t, k, o.state)
           c == [d EXCEPT !.instances[k].state = o.state]
<1>1. /\ DOMAIN a = TableFields /\ a.rows = d.rows /\ a.sources = d.sources
      /\ a.pruned = d.pruned
      /\ a.instances = d.instances /\ a.instanceId = d.instanceId
  BY DEF AddTunnel, TrueTables, TableFields
<1>2. TrueTables(b) /\ b.rows = d.rows /\ b.sources = d.sources /\ b.pruned = d.pruned
  <2> DEFINE r == [id |-> a.instanceId + 1, tunnel |-> a.tunnels[t].id,
                   generation |-> a.tunnels[t].generation + 1, state |-> o.state]
  <2>1. /\ DOMAIN b = TableFields /\ b.rows = a.rows /\ b.sources = a.sources
        /\ b.pruned = a.pruned
        /\ b.instances = [a.instances EXCEPT ![k] = r]
        /\ b.instanceId = a.instanceId + 1
    BY <1>1 DEF AddInstance, TableFields
  <2>2. DOMAIN r = InstanceFields /\ r.id \in Nat
    BY <1>1 DEF InstanceFields, TrueTables
  <2> HIDE DEF r, k, t
  <2>3. \A j \in Keys : b.instances[j] = r \/ b.instances[j] = d.instances[j]
    BY <1>1, <2>1 DEF TrueTables
  <2>4. DOMAIN b.instances = Keys
    BY <1>1, <2>1 DEF TrueTables
  <2> HIDE DEF b, a
  <2> QED
    BY <1>1, <2>1, <2>2, <2>3, <2>4 DEF TrueTables
<1>3. TrueTables(c) /\ c.rows = d.rows /\ c.sources = d.sources /\ c.pruned = d.pruned
  <2> DEFINE r == [d.instances[k] EXCEPT !.state = o.state]
  <2>1. /\ DOMAIN c = TableFields /\ c.rows = d.rows /\ c.sources = d.sources
        /\ c.pruned = d.pruned
        /\ c.instances = [d.instances EXCEPT ![k] = r]
        /\ c.instanceId = d.instanceId
    BY DEF TableFields, TrueTables
  <2>2. k \in Keys => DOMAIN r = InstanceFields /\ r.id \in Nat
    BY DEF InstanceFields, TrueTables
  <2> HIDE DEF r, k
  <2>3. \A j \in Keys : c.instances[j] = IF j = k THEN r ELSE d.instances[j]
    BY <2>1 DEF TrueTables
  <2>4. DOMAIN c.instances = Keys
    BY <2>1 DEF TrueTables
  <2> HIDE DEF c
  <2> QED
    BY <2>1, <2>2, <2>3, <2>4 DEF TrueTables
<1> HIDE DEF a, b, c
<1>4. Upsert(d, p, o) \in {b, d, c}
  BY DEF Upsert, a, b, c
<1> QED
  BY <1>2, <1>3, <1>4

LEMMA WhenType ==
  ASSUME NEW missing, NEW S, NEW code \in S
  PROVE  When(missing, code) \in Seq(S)
BY DEF When

\* Every gap is named, and none is an event.
LEMMA GapFacts ==
  ASSUME NEW v, NEW old
  PROVE  LET gaps == Gaps(v, old)
         IN  /\ gaps \in Seq(GapCodes)
             /\ (v.events # <<>> /\ v.first > old.last + 1)
                  => \E n \in 1 .. Len(gaps) : gaps[n] = "event_gap"
<1> DEFINE a == When(old.collector # collector, "collector_gap")
           b == When(v.events # <<>> /\ v.first > old.last + 1, "event_gap")
           c == When(v.dropped \notin {0, old.dropped}, "source_overflow")
           d == When(v.state \notin {"ready", old.state}, "source_not_ready")
<1>1. a \in Seq(GapCodes) /\ b \in Seq(GapCodes) /\ c \in Seq(GapCodes) /\ d \in Seq(GapCodes)
  BY WhenType DEF GapCodes
<1>2. Gaps(v, old) = a \o b \o c \o d
  BY DEF Gaps
<1>3. v.events # <<>> /\ v.first > old.last + 1 => b = <<"event_gap">>
  BY DEF When
<1> HIDE DEF a, b, c, d
<1>4. b = <<"event_gap">> => LET n == Len(a) + 1
                             IN  n \in 1 .. Len(a \o b \o c \o d)
                                 /\ (a \o b \o c \o d)[n] = "event_gap"
  BY <1>1
<1> QED
  BY <1>1, <1>2, <1>3, <1>4

\* Appending gaps changes nothing about the events.
LEMMA GapsKeepOrder ==
  ASSUME NEW r \in Seq(EventRows), NEW g \in Seq(EventRows), NEW last, Ordered(r, last),
         \A n \in 1 .. Len(g) : ~Native(g[n])
  PROVE  r \o g \in Seq(EventRows) /\ Ordered(r \o g, last)
<1>1. /\ r \o g \in Seq(EventRows) /\ Len(r \o g) = Len(r) + Len(g)
      /\ Len(r) \in Nat /\ Len(g) \in Nat
      /\ \A n \in 1 .. Len(r \o g) : (r \o g)[n] = IF n <= Len(r) THEN r[n] ELSE g[n - Len(r)]
  OBVIOUS
<1> DEFINE rg == r \o g
<1> HIDE DEF rg
<1>2. \A n \in 1 .. Len(rg) : Native(rg[n]) => n \in 1 .. Len(r) /\ rg[n] = r[n]
  BY <1>1 DEF rg
<1>3. ASSUME NEW n \in 1 .. Len(rg), Native(rg[n])
      PROVE  /\ rg[n].seq <= last[RowSource(rg[n])]
             /\ \A m \in 1 .. n - 1 :
                  Native(rg[m]) /\ RowSource(rg[m]) = RowSource(rg[n]) => rg[m].seq < rg[n].seq
  <2>1. n \in 1 .. Len(r) /\ rg[n] = r[n]
    BY <1>2, <1>3
  <2>2. \A m \in 1 .. n - 1 : m \in 1 .. Len(r) /\ m \in 1 .. Len(rg) /\ rg[m] = r[m]
    BY <1>1, <2>1 DEF rg
  <2> QED
    BY <1>3, <2>1, <2>2 DEF Ordered
<1> QED
  BY <1>1, <1>3 DEF Ordered, rg

\* An event later than the position of its source keeps the order, and the
\* position moves to it.
LEMMA EventKeepsOrder ==
  ASSUME NEW r \in Seq(EventRows), NEW e \in EventRows, NEW last \in [SourceKeys -> Nat],
         Ordered(r, last), last[RowSource(e)] < e.seq
  PROVE  /\ Append(r, e) \in Seq(EventRows)
         /\ Ordered(Append(r, e), [last EXCEPT ![RowSource(e)] = e.seq])
<1> DEFINE re == Append(r, e)
           s  == RowSource(e)
           to == [last EXCEPT ![s] = e.seq]
<1>1. /\ re \in Seq(EventRows) /\ Len(re) = Len(r) + 1 /\ Len(r) \in Nat
      /\ re[Len(r) + 1] = e /\ \A n \in 1 .. Len(r) : re[n] = r[n]
  OBVIOUS
<1>2. \A x \in EventRows : RowSource(x) \in SourceKeys /\ x.seq \in Nat
  BY DEF EventRows, RowSource, SourceKeys
<1>3. /\ to[s] = e.seq
      /\ \A x \in SourceKeys : to[x] \in Nat /\ last[x] \in Nat /\ last[x] <= to[x]
  BY <1>2
<1> HIDE DEF re, s, to
<1>4. \A n \in 1 .. Len(r) : Native(r[n]) => r[n].seq <= last[RowSource(r[n])]
  BY DEF Ordered
<1>5. ASSUME NEW n \in 1 .. Len(re), Native(re[n])
      PROVE  /\ re[n].seq <= to[RowSource(re[n])]
             /\ \A m \in 1 .. n - 1 :
                  Native(re[m]) /\ RowSource(re[m]) = RowSource(re[n]) => re[m].seq < re[n].seq
  <2>1. CASE n \in 1 .. Len(r)
    <3>1. re[n] = r[n] /\ r[n] \in EventRows
      BY <1>1, <2>1
    <3>2. \A m \in 1 .. n - 1 : m \in 1 .. Len(r) /\ re[m] = r[m]
      BY <1>1, <2>1
    <3>3. r[n].seq <= to[RowSource(r[n])]
      BY <1>2, <1>3, <1>4, <1>5, <2>1, <3>1
    <3> QED
      BY <1>5, <2>1, <3>1, <3>2, <3>3 DEF Ordered
  <2>2. CASE n = Len(r) + 1
    <3>1. re[n] = e /\ e.seq <= to[s]
      BY <1>1, <1>2, <1>3, <2>2
    <3>2. ASSUME NEW m \in 1 .. n - 1, Native(re[m]), RowSource(re[m]) = s
          PROVE  re[m].seq < e.seq
      <4>1. m \in 1 .. Len(r) /\ re[m] = r[m] /\ r[m] \in EventRows
        BY <1>1, <2>2
      <4>2. r[m].seq <= last[s]
        BY <1>4, <3>2, <4>1
      <4> QED
        BY <1>2, <1>3, <4>1, <4>2 DEF s
    <3> QED
      BY <3>1, <3>2 DEF s
  <2> QED
    BY <1>1, <2>1, <2>2
<1> QED
  BY <1>1, <1>5 DEF Ordered, re, s, to

\* Forgetting the oldest row changes nothing about the others.
LEMMA SuffixKeepsOrder ==
  ASSUME NEW r \in Seq(EventRows), NEW last, Ordered(r, last), NEW n \in {0, 1}, n <= Len(r)
  PROVE  SubSeq(r, n + 1, Len(r)) \in Seq(EventRows) /\ Ordered(SubSeq(r, n + 1, Len(r)), last)
<1> DEFINE q == SubSeq(r, n + 1, Len(r))
<1>1. /\ q \in Seq(EventRows) /\ Len(q) = Len(r) - n /\ Len(r) \in Nat
      /\ \A i \in 1 .. Len(q) : q[i] = r[i + n] /\ i + n \in 1 .. Len(r)
  OBVIOUS
<1> HIDE DEF q
<1>2. ASSUME NEW i \in 1 .. Len(q), Native(q[i])
      PROVE  /\ q[i].seq <= last[RowSource(q[i])]
             /\ \A m \in 1 .. i - 1 :
                  Native(q[m]) /\ RowSource(q[m]) = RowSource(q[i]) => q[m].seq < q[i].seq
  <2>1. i \in Int /\ n \in Int /\ \A m \in 1 .. i - 1 : m \in 1 .. Len(q)
    BY <1>1
  <2>2. \A m \in 1 .. i - 1 : q[m] = r[m + n] /\ m + n \in 1 .. (i + n) - 1
    BY <1>1, <2>1
  <2> QED
    BY <1>1, <1>2, <2>2 DEF Ordered
<1> QED
  BY <1>1, <1>2 DEF Ordered, q

\* Nor do gaps change what explains the events.
LEMMA GapsKeepTold ==
  ASSUME NEW r \in Seq(EventRows), NEW g \in Seq(EventRows), NEW last, Told(r, last),
         \A n \in 1 .. Len(g) : ~Native(g[n])
  PROVE  Told(r \o g, last)
<1> DEFINE rg == r \o g
<1>1. /\ Len(rg) = Len(r) + Len(g) /\ Len(r) \in Nat /\ Len(g) \in Nat
      /\ \A n \in 1 .. Len(r) : rg[n] = r[n] /\ n \in 1 .. Len(rg)
      /\ \A n \in Len(r) + 1 .. Len(rg) : rg[n] = g[n - Len(r)] /\ n - Len(r) \in 1 .. Len(g)
  OBVIOUS
<1> HIDE DEF rg
<1>2. \A n \in 1 .. Len(rg) : Native(rg[n]) => n \in 1 .. Len(r)
  BY <1>1
<1>3. \A m \in 0 .. Len(r) : \A s : NoneAfter(r, s, m) => NoneAfter(rg, s, m)
  <2> SUFFICES ASSUME NEW m \in 0 .. Len(r), NEW s, NoneAfter(r, s, m),
                      NEW n \in m + 1 .. Len(rg), EventOf(rg, n, s)
               PROVE  FALSE
    BY DEF NoneAfter
  <2>1. n \in 1 .. Len(rg)
    BY <1>1
  <2>2. n \in m + 1 .. Len(r) /\ EventOf(r, n, s)
    BY <1>1, <1>2, <2>1 DEF EventOf
  <2> QED
    BY <2>2 DEF NoneAfter
<1>4. Linked(rg)
  <2> SUFFICES ASSUME NEW n \in 1 .. Len(rg), Native(rg[n]), rg[n].seq # 1
               PROVE  \E m \in 1 .. n - 1 :
                        /\ Explains(rg, m, RowSource(rg[n]), rg[n].seq)
                        /\ \A k \in m + 1 .. n - 1 : ~EventOf(rg, k, RowSource(rg[n]))
    BY DEF Linked
  <2>1. n \in 1 .. Len(r) /\ rg[n] = r[n]
    BY <1>1, <1>2
  <2>2. PICK m \in 1 .. n - 1 :
          /\ Explains(r, m, RowSource(r[n]), r[n].seq)
          /\ \A k \in m + 1 .. n - 1 : ~EventOf(r, k, RowSource(r[n]))
    BY <2>1 DEF Told, Linked
  <2>3. m \in 1 .. Len(r) /\ \A k \in m + 1 .. n - 1 : k \in 1 .. Len(r)
    BY <1>1, <2>1
  <2> QED
    BY <1>1, <2>1, <2>2, <2>3 DEF Explains, EventOf
<1>5. ASSUME NEW s \in SourceKeys
      PROVE  EndsAt(rg, s, last[s])
  <2>1. EndsAt(r, s, last[s])
    BY DEF Told
  <2>2. 0 \in 0 .. Len(r) /\ \A m \in 1 .. Len(r) : m \in 0 .. Len(r)
    BY <1>1
  <2> QED
    BY <1>1, <1>3, <2>1, <2>2 DEF EndsAt, EventOf
<1> QED
  BY <1>4, <1>5 DEF Told, rg

\* A gap that is among them is at the end.
LEMMA GapIsAtEnd ==
  ASSUME NEW r \in Seq(EventRows), NEW g \in Seq(EventRows), NEW s,
         \A n \in 1 .. Len(g) : ~Native(g[n]),
         NEW i \in 1 .. Len(g), g[i].code = "event_gap", RowSource(g[i]) = s
  PROVE  GapAtEnd(r \o g, s)
<1> DEFINE rg == r \o g
<1>1. /\ Len(rg) = Len(r) + Len(g) /\ Len(r) \in Nat /\ Len(g) \in Nat
      /\ \A n \in Len(r) + 1 .. Len(rg) : rg[n] = g[n - Len(r)] /\ n - Len(r) \in 1 .. Len(g)
  OBVIOUS
<1> HIDE DEF rg
<1>2. /\ Len(r) + i \in 1 .. Len(rg) /\ rg[Len(r) + i] = g[i]
  BY <1>1
<1>3. NoneAfter(rg, s, Len(r) + i)
  BY <1>1 DEF NoneAfter, EventOf
<1> QED
  BY <1>2, <1>3 DEF GapAtEnd, rg

\* An event that follows the position of its source, or a gap, is explained.
LEMMA EventKeepsTold ==
  ASSUME NEW r \in Seq(EventRows), NEW e \in EventRows, NEW last \in [SourceKeys -> Nat],
         Told(r, last), Native(e),
         e.seq = last[RowSource(e)] + 1 \/ GapAtEnd(r, RowSource(e))
  PROVE  Told(Append(r, e), [last EXCEPT ![RowSource(e)] = e.seq])
<1> DEFINE re == Append(r, e)
           s  == RowSource(e)
           to == [last EXCEPT ![s] = e.seq]
<1>1. /\ Len(re) = Len(r) + 1 /\ Len(r) \in Nat
      /\ re[Len(r) + 1] = e /\ \A n \in 1 .. Len(r) : re[n] = r[n] /\ n \in 1 .. Len(re)
  OBVIOUS
<1>2. s \in SourceKeys /\ e.seq \in Nat
  BY DEF EventRows, RowSource, SourceKeys
<1>3. /\ to[s] = e.seq /\ last[s] \in Nat
      /\ \A x \in SourceKeys : x # s => to[x] = last[x]
  BY <1>2
<1> HIDE DEF re, to
<1>4. ASSUME NEW n \in 1 .. Len(r), Native(r[n]), r[n].seq # 1
      PROVE  \E m \in 1 .. n - 1 :
               /\ Explains(re, m, RowSource(re[n]), re[n].seq)
               /\ \A k \in m + 1 .. n - 1 : ~EventOf(re, k, RowSource(re[n]))
  <2>1. PICK m \in 1 .. n - 1 :
          /\ Explains(r, m, RowSource(r[n]), r[n].seq)
          /\ \A k \in m + 1 .. n - 1 : ~EventOf(r, k, RowSource(r[n]))
    BY <1>4 DEF Told, Linked
  <2>2. re[n] = r[n] /\ m \in 1 .. Len(r) /\ \A k \in m + 1 .. n - 1 : k \in 1 .. Len(r)
    BY <1>1
  <2> QED
    BY <1>1, <2>1, <2>2 DEF Explains, EventOf
<1>5. e.seq = 1 \/ \E m \in 1 .. Len(r) : Explains(r, m, s, e.seq) /\ NoneAfter(r, s, m)
  <2>1. CASE GapAtEnd(r, s)
    BY <2>1 DEF GapAtEnd, Explains
  <2>2. CASE e.seq = last[s] + 1 /\ last[s] = 0
    BY <2>2
  <2>3. CASE e.seq = last[s] + 1 /\ last[s] # 0
    <3>1. PICK m \in 1 .. Len(r) : EventOf(r, m, s) /\ r[m].seq = last[s] /\ NoneAfter(r, s, m)
      BY <1>2, <2>3 DEF Told, EndsAt
    <3>2. r[m].seq = e.seq - 1
      BY <1>3, <2>3, <3>1
    <3> QED
      BY <3>1, <3>2 DEF Explains, EventOf
  <2> QED
    BY <2>1, <2>2, <2>3 DEF s
<1>6. e.seq # 1 => \E m \in 1 .. Len(r) :
        Explains(re, m, s, e.seq) /\ \A k \in m + 1 .. Len(r) : ~EventOf(re, k, s)
  <2> SUFFICES ASSUME NEW m \in 1 .. Len(r), Explains(r, m, s, e.seq), NoneAfter(r, s, m)
               PROVE  Explains(re, m, s, e.seq) /\ \A k \in m + 1 .. Len(r) : ~EventOf(re, k, s)
    BY <1>5
  <2>1. \A k \in m + 1 .. Len(r) : k \in 1 .. Len(r)
    BY <1>1
  <2> QED
    BY <1>1, <2>1 DEF Explains, EventOf, NoneAfter
<1> HIDE DEF s
<1>7. Linked(re)
  <2> SUFFICES ASSUME NEW n \in 1 .. Len(re), Native(re[n]), re[n].seq # 1
               PROVE  \E m \in 1 .. n - 1 :
                        /\ Explains(re, m, RowSource(re[n]), re[n].seq)
                        /\ \A k \in m + 1 .. n - 1 : ~EventOf(re, k, RowSource(re[n]))
    BY DEF Linked
  <2>1. CASE n \in 1 .. Len(r)
    BY <1>1, <1>4, <2>1
  <2>2. CASE n = Len(r) + 1
    <3>1. re[n] = e /\ RowSource(e) = s /\ n - 1 = Len(r)
      BY <1>1, <2>2 DEF s
    <3> QED
      BY <1>6, <3>1
  <2> QED
    BY <1>1, <2>1, <2>2
<1>8. ASSUME NEW x \in SourceKeys
      PROVE  EndsAt(re, x, to[x])
  <2>1. CASE x = s
    <3>1. EventOf(re, Len(re), s) /\ re[Len(re)].seq = to[s] /\ Len(re) \in 1 .. Len(re)
      BY <1>1, <1>3 DEF EventOf, s
    <3>2. NoneAfter(re, s, Len(re))
      BY <1>1 DEF NoneAfter
    <3> QED
      BY <2>1, <3>1, <3>2 DEF EndsAt
  <2>2. CASE x # s
    <3>1. EndsAt(r, x, last[x]) /\ to[x] = last[x]
      BY <1>3, <2>2 DEF Told
    <3>2. \A m \in 0 .. Len(r) : NoneAfter(r, x, m) => NoneAfter(re, x, m)
      <4> SUFFICES ASSUME NEW m \in 0 .. Len(r), NoneAfter(r, x, m),
                          NEW n \in m + 1 .. Len(re), EventOf(re, n, x)
                   PROVE  FALSE
        BY DEF NoneAfter
      <4>1. CASE n = Len(r) + 1
        BY <1>1, <2>2, <4>1 DEF EventOf, s
      <4>2. CASE n # Len(r) + 1
        <5>1. n \in m + 1 .. Len(r) /\ n \in 1 .. Len(r)
          BY <1>1, <4>2
        <5> QED
          BY <1>1, <5>1 DEF EventOf, NoneAfter
      <4> QED
        BY <4>1, <4>2
    <3>3. 0 \in 0 .. Len(r) /\ \A m \in 1 .. Len(r) : m \in 0 .. Len(r)
      BY <1>1
    <3> QED
      BY <1>1, <3>1, <3>2, <3>3 DEF EndsAt, EventOf
  <2> QED
    BY <2>1, <2>2
<1> QED
  BY <1>7, <1>8 DEF Told, re, s, to

LEMMA PositionsType ==
  ASSUME TablesInv
  PROVE  Positions \in [SourceKeys -> Nat]
BY DEF TablesInv, TrueTables, Positions, Sources

------------------------------------------------------------------------------------
(* What a step leaves alone *)

LEMMA StoreStays ==
  ASSUME TablesInv, tables' = tables
  PROVE  TablesInv'
<1>1. Positions' = Positions
  BY DEF Positions, SourceKeys
<1>2. TrueTables(tables)' /\ Ordered(tables.rows, Positions)'
  BY <1>1 DEF TablesInv, TrueTables, Ordered, RowSource, Native
<1>3. (tables.pruned \/ Told(tables.rows, Positions))'
  BY <1>1 DEF TablesInv, Told, Linked, EndsAt, Explains, EventOf, NoneAfter, RowSource, Native
<1> QED
  BY <1>2, <1>3 DEF TablesInv

LEMMA StoreBecomes ==
  ASSUME TrueTables(tables'), Ordered(tables'.rows, Positions'),
         tables'.pruned \/ Told(tables'.rows, Positions')
  PROVE  TablesInv'
<1>1. (TrueTables(tables) /\ Ordered(tables.rows, Positions))'
  BY DEF TrueTables, Ordered, RowSource, Native
<1>2. (tables.pruned \/ Told(tables.rows, Positions))'
  BY DEF Told, Linked, EndsAt, Explains, EventOf, NoneAfter, RowSource, Native
<1> QED
  BY <1>1, <1>2 DEF TablesInv

LEMMA WorkHead ==
  ASSUME NEW w, TrueWork(w), work'[1] = w, tables' = tables, side' = side, binding' = binding
  PROVE  WorkInv'
<1>1. Reached(work[1])' = Reached(w) /\ Scope' = Scope
  BY DEF Reached, Positions, Scope, SourceKeys
<1>2. (/\ DOMAIN work[1] = WorkFields
       /\ TrueSnapshot(work[1].snapshot) /\ work[1].snapshot.process # NoProcess
       /\ work[1].hash[3] \in Nat /\ work[1].processed \in Nat)'
  BY DEF TrueWork, TrueSnapshot
<1>3. (/\ TrueTables(work[1].tx) /\ work[1].tx.sources = tables.sources
       /\ work[1].tx.pruned = tables.pruned)'
  BY DEF TrueWork, TrueTables
<1>4. Ordered(work[1].tx.rows, Reached(work[1]))'
  BY <1>1 DEF TrueWork, Ordered, RowSource, Native
<1>5. (tables.pruned \/ Told(work[1].tx.rows, Reached(work[1])))'
  <2>1. tables.pruned \/ Told(w.tx.rows, Reached(w))
    BY DEF TrueWork
  <2>2. Linked(w.tx.rows) => Linked(work[1].tx.rows)'
    BY DEF Linked, Explains, EventOf, RowSource, Native
  <2>3. ASSUME NEW s \in SourceKeys, EndsAt(w.tx.rows, s, Reached(w)[s])
        PROVE  EndsAt(work[1].tx.rows, s, Reached(work[1])[s])'
    BY <1>1, <2>3 DEF EndsAt, EventOf, NoneAfter, RowSource, Native
  <2>4. SourceKeys' = SourceKeys
    BY DEF SourceKeys
  <2> QED
    BY <2>1, <2>2, <2>3, <2>4 DEF Told
<1>6. (tables.pruned \/ NextIsTold(work[1]))'
  BY <1>1 DEF TrueWork, NextIsTold, GapAtEnd, EventOf, NoneAfter, RowSource, Native
<1> QED
  BY <1>2, <1>3, <1>4, <1>5, <1>6 DEF WorkInv, TrueWork

LEMMA WorkBecomes ==
  ASSUME NEW w, TrueWork(w), work' = <<w>>, tables' = tables, side' = side, binding' = binding
  PROVE  WorkInv'
<1>1. work'[1] = w
  OBVIOUS
<1> QED
  BY <1>1, WorkHead

LEMMA WorkStays ==
  ASSUME WorkInv, tables' = tables, work' = work, side' = side, binding' = binding
  PROVE  WorkInv'
<1>1. CASE work # <<>>
  <2>1. TrueWork(work[1]) /\ work'[1] = work[1]
    BY <1>1 DEF WorkInv
  <2> QED
    BY <2>1, WorkHead
<1> QED
  BY <1>1 DEF WorkInv

LEMMA AgentStays ==
  ASSUME AgentInv, native' = native, frame' = frame
  PROVE  AgentInv'
BY DEF AgentInv, TrueSnapshot

LEMMA MonitorStays ==
  ASSUME MonitorInv, collector' = collector, binding' = binding, report' = report,
         observer' = observer
  PROVE  MonitorInv'
BY DEF MonitorInv, TrueSnapshot

LEMMA NoWork ==
  ASSUME work' = <<>>
  PROVE  WorkInv'
BY DEF WorkInv

------------------------------------------------------------------------------------
(* The native process and its snapshots *)

LEMMA FollowsType ==
  ASSUME NEW s
  PROVE  Follows(s) \subseteq States
<1>1. CASE s = "none"
  BY <1>1 DEF Follows, States
<1>2. CASE s = "starting"
  BY <1>2 DEF Follows, States
<1>3. CASE s = "registered"
  BY <1>3 DEF Follows, States
<1>4. CASE s = "closed"
  BY <1>4 DEF Follows, States
<1>5. CASE s \notin {"none", "starting", "registered", "closed"}
  <2>1. Follows(s) = {}
    BY <1>5 DEF Follows
  <2> QED
    BY <2>1
<1> QED
  BY <1>1, <1>2, <1>3, <1>4, <1>5

LEMMA ProcessSteps ==
  ASSUME LedgerInv, NEW i \in Instances, Emit(i) \/ Retire(i)
  PROVE  LedgerInv'
<1>1. AgentInv'
  <2>1. CASE Emit(i)
    <3>1. PICK s \in Follows(native.state[i]) :
            native' = [native EXCEPT !.state[i] = s, !.log = Append(@, [of |-> i, state |-> s])]
      BY <2>1 DEF Emit
    <3>2. [of |-> i, state |-> s] \in Events
      BY FollowsType DEF Events
    <3> DEFINE e == [of |-> i, state |-> s]
    <3>3. /\ DOMAIN native' = DOMAIN native /\ native'.process = native.process
          /\ native'.log = Append(native.log, e)
      BY <3>1 DEF LedgerInv, AgentInv
    <3> HIDE DEF e
    <3>4. native'.log \in Seq(Events)
      BY <3>2, <3>3 DEF LedgerInv, AgentInv, e
    <3> QED
      BY <2>1, <3>3, <3>4 DEF Emit, AgentInv, LedgerInv, TrueSnapshot
  <2>2. CASE Retire(i)
    BY <2>2 DEF Retire, AgentInv, LedgerInv, TrueSnapshot
  <2> QED
    BY <2>1, <2>2
<1>2. UNCHANGED <<side, binding, known, observer, report, collector, tables, work>>
  BY DEF Emit, Retire, monitorVars, storeVars
<1> QED
  BY <1>1, <1>2, StoreStays, WorkStays DEF LedgerInv, MonitorInv, TrueSnapshot

LEMMA BlankIsTrue == TrueSnapshot(Blank)
<1>1. 0 \in 0 .. MaxProcesses /\ <<>> \in Seq(Events)
  BY TunnelAssumption
<1>2. /\ DOMAIN Blank = SnapshotFields /\ Blank.process = 0 /\ Blank.state = "unavailable"
      /\ Blank.first = 0 /\ Blank.dropped = 0 /\ Blank.events = <<>>
  BY DEF Blank, SnapshotFields, NoProcess
<1> QED
  BY <1>1, <1>2 DEF TrueSnapshot, SourceStates

LEMMA SnapshotEventsStep ==
  ASSUME LedgerInv, SnapshotEvents
  PROVE  LedgerInv'
<1> DEFINE log == native.log
<1>1. log \in Seq(Events) /\ First(log) \in Nat \ {0}
  BY TunnelAssumption DEF LedgerInv, AgentInv, First
<1>2. SubSeq(log, First(log), Len(log)) \in Seq(Events)
  BY <1>1
<1>3. PICK objects \in Inventories :
        frame' = <<[Blank EXCEPT !.process = native.process,
                                 !.first   = IF log = <<>> THEN 0 ELSE First(log),
                                 !.events  = SubSeq(log, First(log), Len(log)),
                                 !.objects = objects,
                                 !.dropped = IF Len(log) > Ring THEN Len(log) - Ring ELSE 0]>>
  BY DEF SnapshotEvents
<1>4. TrueSnapshot(frame'[1])
  <2>1. native.process \in 0 .. MaxProcesses
    BY DEF LedgerInv, AgentInv, Processes
  <2>2. (IF Len(log) > Ring THEN Len(log) - Ring ELSE 0) \in Nat
    BY <1>1, TunnelAssumption
  <2>3. frame'[1] = [process |-> native.process, state |-> "unavailable",
                     first   |-> IF log = <<>> THEN 0 ELSE First(log),
                     events  |-> SubSeq(log, First(log), Len(log)),
                     objects |-> objects,
                     dropped |-> IF Len(log) > Ring THEN Len(log) - Ring ELSE 0]
    BY <1>3 DEF Blank
  <2> QED
    BY <1>1, <1>2, <2>1, <2>2, <2>3 DEF TrueSnapshot, SnapshotFields, SourceStates
<1>5. AgentInv'
  BY <1>4 DEF SnapshotEvents, LedgerInv, AgentInv, TrueSnapshot
<1> QED
  BY <1>5, StoreStays, WorkStays
  DEF SnapshotEvents, LedgerInv, MonitorInv, TrueSnapshot, monitorVars, storeVars

LEMMA SnapshotNothingStep ==
  ASSUME LedgerInv, SnapshotNothing
  PROVE  LedgerInv'
<1>1. MonitorInv'
  BY BlankIsTrue DEF SnapshotNothing, LedgerInv, MonitorInv, TrueSnapshot
<1> QED
  BY <1>1, StoreStays, WorkStays
  DEF SnapshotNothing, LedgerInv, AgentInv, TrueSnapshot, agentVars

\* A snapshot remains one when its objects and its state are filled in.
LEMMA FilledIsTrue ==
  ASSUME NEW v, TrueSnapshot(v), NEW state \in SourceStates, NEW objects
  PROVE  TrueSnapshot([v EXCEPT !.state = state, !.objects = objects])
<1> DEFINE u == [v EXCEPT !.state = state, !.objects = objects]
<1>1. /\ DOMAIN u = SnapshotFields /\ u.process = v.process /\ u.state = state
      /\ u.first = v.first /\ u.dropped = v.dropped /\ u.events = v.events
  BY DEF TrueSnapshot, SnapshotFields
<1> HIDE DEF u
<1>2. TrueSnapshot(u)
  BY <1>1 DEF TrueSnapshot
<1> QED
  BY <1>2 DEF u

LEMMA SnapshotObjectsStep ==
  ASSUME LedgerInv, SnapshotObjects \/ SnapshotNoObjects
  PROVE  LedgerInv'
<1>1. TrueSnapshot(frame[1])
  BY DEF SnapshotObjects, SnapshotNoObjects, LedgerInv, AgentInv
<1>2. TrueSnapshot(report'[1])
  <2>1. CASE SnapshotObjects
    <3> DEFINE shown == [n \in DOMAIN frame[1].objects |-> Shown(frame[1].objects[n])]
    <3>1. report'[1] = [frame[1] EXCEPT !.state = "ready", !.objects = shown]
      BY <2>1 DEF SnapshotObjects
    <3> HIDE DEF shown
    <3>2. "ready" \in SourceStates
      BY DEF SourceStates
    <3>3. TrueSnapshot([frame[1] EXCEPT !.state = "ready", !.objects = shown])
      BY <1>1, <3>2, FilledIsTrue, Zenon
    <3> QED
      BY <3>1, <3>3
  <2>2. CASE SnapshotNoObjects
    <3>1. PICK state \in {"unavailable", "truncated"} :
            report' = <<[frame[1] EXCEPT !.state = state, !.objects = <<>>]>>
      BY <2>2 DEF SnapshotNoObjects
    <3> QED
      BY <1>1, <3>1, FilledIsTrue DEF SourceStates
  <2> QED
    BY <2>1, <2>2
<1>3. frame' = <<>> /\ UNCHANGED <<side, native, collector, known, observer, work, binding, tables>>
  BY DEF SnapshotObjects, SnapshotNoObjects, storeVars
<1>4. AgentInv' /\ MonitorInv'
  <2>1. DOMAIN native' = DOMAIN native
    BY <1>3
  <2>2. TrueSnapshot(report[1])' 
    BY <1>2 DEF TrueSnapshot
  <2> QED
    BY <1>3, <2>1, <2>2 DEF LedgerInv, AgentInv, MonitorInv
<1> QED
  BY <1>3, <1>4, StoreStays, WorkStays DEF LedgerInv

------------------------------------------------------------------------------------
(* The worker *)

LEMMA LastSequenceType ==
  ASSUME NEW v, TrueSnapshot(v)
  PROVE  LastSequence(v) \in Int
BY DEF TrueSnapshot, LastSequence

LEMMA AttributedIsTrue ==
  ASSUME MonitorInv, report # <<>>
  PROVE  TrueSnapshot(Attributed)
<1>1. TrueSnapshot(report[1])
  BY DEF MonitorInv
<1>2. CASE observer # <<>> /\ report[1].process = NoProcess
  <2> DEFINE p == observer[1].process
             u == [report[1] EXCEPT !.process = p]
  <2>1. p \in 0 .. MaxProcesses
    BY <1>2 DEF MonitorInv
  <2>2. Attributed = u
    BY <1>2 DEF Attributed
  <2> HIDE DEF p
  <2>3. /\ DOMAIN u = SnapshotFields /\ u.process = p /\ u.state = report[1].state
        /\ u.first = report[1].first /\ u.dropped = report[1].dropped
        /\ u.events = report[1].events
    BY <1>1 DEF TrueSnapshot, SnapshotFields
  <2> HIDE DEF u
  <2>4. TrueSnapshot(u)
    BY <1>1, <2>1, <2>3 DEF TrueSnapshot
  <2> QED
    BY <2>2, <2>4
<1> QED
  BY <1>1, <1>2 DEF Attributed

LEMMA BeginSliceStep ==
  ASSUME LedgerInv, BeginSlice
  PROVE  LedgerInv'
<1> DEFINE v    == Attributed
           s    == <<Scope, v.process>>
           old  == tables.sources[s]
           gaps == Gaps(v, old)
           g    == [n \in DOMAIN gaps |-> Row(Scope, v.process, gaps[n], 0, 0)]
           tx   == [tables EXCEPT !.rows = @ \o g]
           w    == [snapshot  |-> v, hash |-> Hash, tx |-> tx,
                    processed |-> old.last, offset |-> Offset, remaining |-> Budget]
<1>1. /\ v.process # NoProcess /\ report # <<>>
      /\ work' = <<w>>
      /\ UNCHANGED <<agentVars, monitorVars, storeVars>>
  BY DEF BeginSlice, Progress
<1>2. TrueSnapshot(v) /\ collector \in Nat
  BY <1>1, AttributedIsTrue DEF LedgerInv, MonitorInv
<1>3. Scope \in Epochs /\ v.process \in Processes
  BY <1>1, <1>2, ScopeFacts, TunnelAssumption
  DEF LedgerInv, TrueSnapshot, Processes, NoProcess
<1>4. s \in SourceKeys /\ old.last \in Nat /\ old.last = Positions[s]
  BY <1>3 DEF LedgerInv, TablesInv, TrueTables, SourceKeys, Sources, Positions
<1>5. /\ gaps \in Seq(GapCodes)
      /\ v.events = <<>> \/ v.first <= old.last + 1
         \/ \E n \in 1 .. Len(gaps) : gaps[n] = "event_gap"
  <2>1. v.first \in Nat /\ old.last \in Nat
    BY <1>2, <1>4 DEF TrueSnapshot
  <2> QED
    BY <2>1, GapFacts
<1> HIDE DEF v, old, gaps
<1>6. /\ g \in Seq(EventRows) /\ \A n \in 1 .. Len(g) : ~Native(g[n])
      /\ v.events = <<>> \/ v.first <= old.last + 1
         \/ \E n \in 1 .. Len(g) : g[n].code = "event_gap" /\ RowSource(g[n]) = s
  <2>1. Len(gaps) \in Nat /\ DOMAIN gaps = 1 .. Len(gaps)
        /\ \A n \in 1 .. Len(gaps) : gaps[n] \in GapCodes
    BY <1>5
  <2>2. \A n \in 1 .. Len(gaps) :
          g[n] \in EventRows /\ g[n].code = gaps[n] /\ RowSource(g[n]) = s
    BY <1>3, <2>1 DEF Row, EventRows, RowSource
  <2>3. DOMAIN g = 1 .. Len(gaps) /\ g \in [1 .. Len(gaps) -> EventRows]
    BY <2>1, <2>2
  <2> HIDE DEF g
  <2>4. g \in Seq(EventRows) /\ Len(g) = Len(gaps)
    BY <2>1, <2>3
  <2> QED
    BY <1>5, <2>1, <2>2, <2>4 DEF Native, GapCodes
<1> HIDE DEF g
<1>7. /\ tables.rows \o g \in Seq(EventRows)
      /\ Ordered(tables.rows \o g, Positions)
      /\ tables.pruned \/ Told(tables.rows \o g, Positions)
  BY <1>6, GapsKeepOrder, GapsKeepTold DEF LedgerInv, TablesInv, TrueTables
<1>8. /\ DOMAIN tx = TableFields /\ tx.rows = tables.rows \o g /\ tx.sources = tables.sources
      /\ tx.pruned = tables.pruned
      /\ tx.instances = tables.instances /\ tx.instanceId = tables.instanceId
  BY DEF LedgerInv, TablesInv, TrueTables, TableFields
<1> HIDE DEF tx
<1>9. TrueTables(tx)
  BY <1>7, <1>8 DEF LedgerInv, TablesInv, TrueTables
<1>10. /\ DOMAIN w = WorkFields /\ w.snapshot = v /\ w.hash[3] = collector
       /\ w.processed = old.last /\ w.tx = tx
  BY DEF WorkFields, Hash
<1> HIDE DEF w
<1>11. Reached(w) = Positions
  BY <1>4, <1>10 DEF Reached, s, Positions
<1>12. TrueWork(w)
  <2>1. NextIsTold(w)
    <3>1. v.events = <<>> \/ v.first <= old.last + 1 \/ GapAtEnd(tables.rows \o g, s)
      BY <1>6, GapIsAtEnd DEF LedgerInv, TablesInv, TrueTables
    <3> QED
      BY <1>8, <1>10, <3>1 DEF NextIsTold, s
  <2> QED
    BY <1>1, <1>2, <1>4, <1>7, <1>8, <1>9, <1>10, <1>11, <2>1 DEF TrueWork
<1>13. WorkInv'
  BY <1>1, <1>12, WorkBecomes DEF agentVars, storeVars
<1> QED
  BY <1>1, <1>13, AgentStays, MonitorStays, StoreStays
  DEF LedgerInv, agentVars, monitorVars, storeVars


LEMMA SettledIsTrue ==
  ASSUME NEW d, TrueTables(d), NEW k, NEW c \in BOOLEAN
  PROVE  LET u == IF c THEN [d EXCEPT !.instances[k].state = "settled"] ELSE d
         IN  TrueTables(u) /\ u.rows = d.rows /\ u.sources = d.sources /\ u.pruned = d.pruned
<1> DEFINE r == [d.instances[k] EXCEPT !.state = "settled"]
           u == [d EXCEPT !.instances[k].state = "settled"]
<1>1. /\ DOMAIN u = TableFields /\ u.rows = d.rows /\ u.sources = d.sources
      /\ u.pruned = d.pruned
      /\ u.instances = [d.instances EXCEPT ![k] = r] /\ u.instanceId = d.instanceId
  BY DEF TableFields, TrueTables
<1>2. k \in Keys => DOMAIN r = InstanceFields /\ r.id \in Nat
  BY DEF InstanceFields, TrueTables
<1> HIDE DEF r, u
<1>3. /\ DOMAIN u.instances = Keys
      /\ \A j \in Keys : u.instances[j] = IF j = k THEN r ELSE d.instances[j]
  BY <1>1 DEF TrueTables
<1>4. TrueTables(u)
  BY <1>1, <1>2, <1>3 DEF TrueTables
<1> QED
  BY <1>1, <1>4 DEF u

LEMMA WriteEventStep ==
  ASSUME LedgerInv, WriteEvent
  PROVE  LedgerInv'
<1> DEFINE w   == work[1]
           v   == w.snapshot
           seq == NextSequence(w)
           e   == v.events[seq - v.first + 1]
           k   == InstanceKey(v.process, e.of)
           d1  == Upsert(w.tx, v.process, e)
           row == Row(Scope, v.process, "event", seq, d1.instances[k].id)
           d2  == [d1 EXCEPT !.rows = Append(@, row)]
           d3  == IF e.state = "settled"
                  THEN [d2 EXCEPT !.instances[k].state = "settled"] ELSE d2
           n   == [w EXCEPT !.tx = d3, !.processed = seq, !.remaining = @ - 1]
<1>1. /\ work # <<>> /\ MoreEvents(w)
      /\ work' = <<n>>
      /\ UNCHANGED <<agentVars, monitorVars, storeVars>>
  BY DEF WriteEvent
<1>2. TrueWork(w) /\ Positions \in [SourceKeys -> Nat]
  BY <1>1, PositionsType DEF LedgerInv, WorkInv
<1>3. TrueSnapshot(v) /\ v.process \in Processes /\ w.processed \in Nat
  BY <1>2 DEF TrueWork, TrueSnapshot, Processes, NoProcess
<1>4. /\ seq \in Nat /\ seq > w.processed /\ seq >= v.first
      /\ v.events # <<>> /\ seq <= v.first + Len(v.events) - 1
      /\ v.first <= w.processed + 1 => seq = w.processed + 1
  <2>1. v.first \in Nat /\ v.events \in Seq(Events) /\ Len(v.events) \in Nat
    BY <1>3 DEF TrueSnapshot
  <2>2. seq = IF v.first > w.processed + 1 THEN v.first ELSE w.processed + 1
    BY DEF NextSequence
  <2>3. seq <= IF v.events = <<>> THEN 0 ELSE v.first + Len(v.events) - 1
    BY <1>1 DEF MoreEvents, LastSequence
  <2> HIDE DEF w, v, seq
  <2> QED
    BY <1>3, <2>1, <2>2, <2>3
<1>5. e \in Events
  BY <1>3, <1>4 DEF TrueSnapshot
<1>6. Scope \in Epochs /\ k \in Keys
  BY <1>3, <1>5, ScopeFacts DEF LedgerInv, InstanceKey, Keys, Events
<1> HIDE DEF w
<1>7. /\ TrueTables(d1) /\ d1.rows = w.tx.rows /\ d1.sources = w.tx.sources
      /\ d1.pruned = w.tx.pruned
  BY <1>2, UpsertFacts DEF TrueWork
<1> HIDE DEF d1, k, e, v, seq
<1>8. /\ row \in EventRows /\ row.seq = seq /\ RowSource(row) = <<Scope, v.process>>
      /\ RowSource(row) \in SourceKeys /\ Native(row)
  BY <1>3, <1>4, <1>6, <1>7 DEF Row, EventRows, RowSource, SourceKeys, TrueTables, Native
<1> HIDE DEF row
<1> DEFINE last == Reached(w)
           rows == Append(d1.rows, row)
<1>9. /\ last \in [SourceKeys -> Nat] /\ last[RowSource(row)] = w.processed
      /\ [last EXCEPT ![RowSource(row)] = seq] = [Positions EXCEPT ![<<Scope, v.process>>] = seq]
  BY <1>2, <1>3, <1>8 DEF Reached, v
<1> HIDE DEF last
<1>10. Ordered(d1.rows, last) /\ d1.rows \in Seq(EventRows)
  BY <1>2, <1>7 DEF TrueWork, TrueTables, last
<1>11. rows \in Seq(EventRows) /\ Ordered(rows, [last EXCEPT ![RowSource(row)] = row.seq])
  BY <1>4, <1>8, <1>9, <1>10, EventKeepsOrder
<1>12. tables.pruned \/ Told(rows, [last EXCEPT ![RowSource(row)] = row.seq])
  <2>1. CASE ~tables.pruned
    <3>1. Told(d1.rows, last) /\ NextIsTold(w)
      BY <1>2, <1>7, <2>1 DEF TrueWork, last
    <3>2. row.seq = last[RowSource(row)] + 1 \/ GapAtEnd(d1.rows, RowSource(row))
      BY <1>4, <1>7, <1>8, <1>9, <3>1 DEF NextIsTold, v
    <3> QED
      BY <1>8, <1>9, <1>10, <3>1, <3>2, EventKeepsTold
  <2> QED
    BY <2>1
<1> HIDE DEF rows
<1>13. /\ DOMAIN d2 = TableFields /\ d2.rows = rows /\ d2.sources = d1.sources
       /\ d2.pruned = d1.pruned
       /\ d2.instances = d1.instances /\ d2.instanceId = d1.instanceId
  BY <1>7 DEF TrueTables, TableFields, rows
<1> HIDE DEF d2
<1>14. TrueTables(d2)
  BY <1>7, <1>11, <1>13 DEF TrueTables
<1>15. TrueTables(d3) /\ d3.rows = rows /\ d3.sources = d1.sources /\ d3.pruned = d1.pruned
  BY <1>13, <1>14, SettledIsTrue
<1> HIDE DEF d3
<1>16. /\ DOMAIN n = WorkFields /\ n.snapshot = v /\ n.hash = w.hash
       /\ n.tx = d3 /\ n.processed = seq
  BY <1>2 DEF TrueWork, WorkFields, v
<1> HIDE DEF n
<1>17. Reached(n) = [last EXCEPT ![RowSource(row)] = row.seq]
  BY <1>8, <1>9, <1>16 DEF Reached
<1>18. TrueWork(n)
  <2>1. NextIsTold(n)
    <3>1. v.first \in Nat
      BY <1>3 DEF TrueSnapshot
    <3> QED
      BY <1>4, <1>16, <3>1 DEF NextIsTold
  <2> QED
    BY <1>2, <1>3, <1>4, <1>7, <1>11, <1>15, <1>16, <1>17, <1>12, <2>1 DEF TrueWork, v
<1>19. WorkInv'
  BY <1>1, <1>18, WorkBecomes DEF agentVars, storeVars
<1> QED
  BY <1>1, <1>19, AgentStays, MonitorStays, StoreStays
  DEF LedgerInv, agentVars, monitorVars, storeVars

LEMMA WriteObjectStep ==
  ASSUME LedgerInv, WriteObject
  PROVE  LedgerInv'
<1> DEFINE w  == work[1]
           tx == Upsert(w.tx, w.snapshot.process, w.snapshot.objects[w.offset + 1])
           n  == [w EXCEPT !.tx = tx, !.offset = @ + 1, !.remaining = @ - 1]
<1>1. /\ work # <<>> /\ work' = <<n>>
      /\ UNCHANGED <<agentVars, monitorVars, storeVars>>
  BY DEF WriteObject
<1>2. TrueWork(w)
  BY <1>1 DEF LedgerInv, WorkInv
<1> HIDE DEF w
<1>3. TrueTables(tx) /\ tx.rows = w.tx.rows /\ tx.sources = w.tx.sources /\ tx.pruned = w.tx.pruned
  BY <1>2, UpsertFacts DEF TrueWork
<1> HIDE DEF tx
<1>4. /\ DOMAIN n = WorkFields /\ n.snapshot = w.snapshot /\ n.hash = w.hash
      /\ n.tx = tx /\ n.processed = w.processed
  BY <1>2 DEF TrueWork, WorkFields
<1> HIDE DEF n
<1>5. Reached(n) = Reached(w)
  BY <1>4 DEF Reached
<1>6. TrueWork(n)
  <2>1. NextIsTold(w) => NextIsTold(n)
    BY <1>3, <1>4 DEF NextIsTold
  <2> QED
    BY <1>2, <1>3, <1>4, <1>5, <2>1 DEF TrueWork
<1>7. WorkInv'
  BY <1>1, <1>6, WorkBecomes DEF agentVars, storeVars
<1> QED
  BY <1>1, <1>7, AgentStays, MonitorStays, StoreStays
  DEF LedgerInv, agentVars, monitorVars, storeVars

\* The positions of a committed transaction are those it has reached.
LEMMA WrittenFacts ==
  ASSUME NEW w, LedgerInv, TrueWork(w)
  PROVE  /\ TrueTables(Written(w)) /\ Written(w).rows = w.tx.rows
         /\ Written(w).pruned = tables.pruned
         /\ [s \in SourceKeys |-> Written(w).sources[s].last] = Reached(w)
<1> DEFINE d   == Written(w)
           key == <<Scope, w.snapshot.process>>
           src == [collector |-> w.hash[3], last |-> w.processed,
                   dropped |-> w.snapshot.dropped, state |-> w.snapshot.state]
<1>1. /\ TrueTables(w.tx) /\ w.tx.sources = tables.sources /\ TrueSnapshot(w.snapshot)
      /\ w.tx.pruned = tables.pruned
  BY DEF TrueWork
<1>2. /\ DOMAIN d = TableFields /\ d.rows = w.tx.rows /\ d.pruned = w.tx.pruned
      /\ d.instances = w.tx.instances /\ d.instanceId = w.tx.instanceId
      /\ d.sources = [w.tx.sources EXCEPT ![key] = src]
  BY <1>1 DEF Written, TrueTables, TableFields
<1>3. src \in Sources /\ src.last = w.processed
  BY <1>1 DEF TrueWork, TrueSnapshot, Sources
<1> HIDE DEF src, d
<1>4. d.sources \in [SourceKeys -> Sources]
  BY <1>1, <1>2, <1>3 DEF TrueTables
<1>5. TrueTables(d)
  BY <1>1, <1>2, <1>4 DEF TrueTables
<1>6. \A s \in SourceKeys : d.sources[s].last = Reached(w)[s]
  BY <1>1, <1>2, <1>3 DEF Reached, Positions, TrueTables
<1>7. Reached(w) = [s \in SourceKeys |-> Reached(w)[s]]
  BY DEF Reached, Positions
<1> QED
  BY <1>1, <1>2, <1>5, <1>6, <1>7 DEF d

LEMMA CommitSliceStep ==
  ASSUME LedgerInv, NEW told \in BOOLEAN, CommitSlice(told)
  PROVE  LedgerInv'
<1> DEFINE w == work[1]
<1>1. /\ work # <<>> /\ work' = <<>> /\ tables' = Written(w)
      /\ UNCHANGED <<agentVars, report, collector, binding>>
  BY DEF CommitSlice
<1>2. TrueWork(w)
  BY <1>1 DEF LedgerInv, WorkInv
<1>3. TrueSnapshot(w.snapshot) /\ Ordered(w.tx.rows, Reached(w))
  BY <1>2 DEF TrueWork
<1>4. TablesInv'
  <2>1. Positions' = Reached(w)
    BY <1>1, <1>2, WrittenFacts DEF Positions, SourceKeys
  <2>2. /\ TrueTables(Written(w)) /\ Ordered(Written(w).rows, Reached(w))
        /\ Written(w).pruned \/ Told(Written(w).rows, Reached(w))
    BY <1>2, <1>3, WrittenFacts DEF TrueWork
  <2> HIDE DEF w
  <2> QED
    BY <1>1, <2>1, <2>2, StoreBecomes
<1>5. observer' # <<>> => observer'[1].process \in 0 .. MaxProcesses
  <2>1. CASE told
    BY <1>3, <2>1 DEF CommitSlice, TrueSnapshot
  <2>2. CASE ~told
    BY <2>2 DEF CommitSlice, LedgerInv, MonitorInv
  <2> QED
    BY <2>1, <2>2
<1>6. MonitorInv'
  BY <1>1, <1>5 DEF LedgerInv, MonitorInv, TrueSnapshot
<1> QED
  BY <1>1, <1>4, <1>6, AgentStays, NoWork DEF LedgerInv, agentVars

LEMMA OtherWorkerSteps ==
  ASSUME LedgerInv, SkipSlice \/ LoseSlice \/ Forget
  PROVE  LedgerInv'
<1>1. /\ work' = <<>> /\ UNCHANGED <<agentVars, report, collector, binding, tables>>
      /\ observer' = observer \/ observer' = <<>>
         \/ (observer' # <<>> /\ observer'[1].process = NoProcess)
  BY DEF SkipSlice, LoseSlice, Forget, monitorVars, storeVars
<1>2. observer' # <<>> => observer'[1].process \in 0 .. MaxProcesses
  BY <1>1, TunnelAssumption DEF LedgerInv, MonitorInv, NoProcess
<1>3. MonitorInv'
  BY <1>1, <1>2 DEF LedgerInv, MonitorInv, TrueSnapshot
<1> QED
  BY <1>1, <1>3, AgentStays, StoreStays, NoWork DEF LedgerInv, agentVars

------------------------------------------------------------------------------------
(* Restarts, bindings and retention *)

LEMMA RestartSteps ==
  ASSUME LedgerInv, NativeRestart \/ Reconnect \/ MonitorRestart
  PROVE  LedgerInv'
<1>1. /\ native' = native \/ (native.process < MaxProcesses /\ native' = Reborn)
      /\ frame' = <<>> /\ report' = <<>> /\ collector' = collector + 1
      /\ observer' = observer \/ observer' = <<>>
      /\ work' = work \/ work' = <<>>
      /\ UNCHANGED <<side, binding, tables>>
  BY DEF NativeRestart, Reconnect, MonitorRestart, storeVars
<1>2. AgentInv'
  <2>1. CASE native' = native
    BY <1>1, <2>1 DEF LedgerInv, AgentInv
  <2>2. CASE native.process < MaxProcesses /\ native' = Reborn
    <3>1. /\ DOMAIN native' = {"process", "state", "log"}
          /\ native'.process = native.process + 1 /\ native'.log = <<>>
      BY <2>2 DEF Reborn
    <3> QED
      BY <1>1, <2>2, <3>1, TunnelAssumption DEF LedgerInv, AgentInv, Processes
  <2> QED
    BY <1>1, <2>1, <2>2
<1>3. MonitorInv'
  BY <1>1 DEF LedgerInv, MonitorInv
<1> QED
  BY <1>1, <1>2, <1>3, StoreStays, WorkStays, NoWork DEF LedgerInv

LEMMA BindingSteps ==
  ASSUME LedgerInv, Rebind \/ Learn
  PROVE  LedgerInv'
<1>1. CASE Rebind
  <2>1. /\ work' = <<>> /\ binding' \in 1 .. MaxEpochs
        /\ UNCHANGED <<agentVars, monitorVars, tables>>
    BY <1>1, TunnelAssumption DEF Rebind, LedgerInv, MonitorInv
  <2>2. MonitorInv'
    BY <2>1 DEF LedgerInv, MonitorInv, TrueSnapshot, monitorVars
  <2> QED
    BY <2>1, <2>2, AgentStays, StoreStays, NoWork DEF LedgerInv, agentVars
<1>2. CASE Learn
  BY <1>2, AgentStays, MonitorStays, StoreStays, WorkStays
  DEF Learn, LedgerInv, agentVars, storeVars
<1> QED
  BY <1>1, <1>2

LEMMA WithoutInstancesFacts ==
  ASSUME NEW d, TrueTables(d), NEW old
  PROVE  LET u == WithoutInstances(d, old)
         IN  TrueTables(u) /\ u.rows = d.rows /\ u.sources = d.sources /\ u.pruned = d.pruned
<1> DEFINE u == WithoutInstances(d, old)
<1>1. /\ DOMAIN u = TableFields /\ u.rows = d.rows /\ u.sources = d.sources
      /\ u.pruned = d.pruned
      /\ u.instances = [k \in DOMAIN d.instances |-> IF k \in old THEN NoInstance
                                                                  ELSE d.instances[k]]
      /\ u.instanceId = d.instanceId
  BY DEF WithoutInstances, TrueTables, TableFields
<1>2. DOMAIN NoInstance = InstanceFields /\ NoInstance.id \in Nat
  BY DEF NoInstance, InstanceFields
<1> HIDE DEF u
<1>3. TrueTables(u)
  BY <1>1, <1>2 DEF TrueTables
<1> QED
  BY <1>1, <1>3 DEF u

\* A source is forgotten only when no row is left of it.
LEMMA WithoutSourcesFacts ==
  ASSUME NEW d, TrueTables(d)
  PROVE  LET u == WithoutSources(d)
         IN  /\ TrueTables(u) /\ u.rows = d.rows /\ u.pruned = d.pruned
             /\ \A s \in SourceKeys : u.sources[s] \in {d.sources[s], NoSource}
             /\ \A n \in DOMAIN d.rows :
                  u.sources[RowSource(d.rows[n])] = d.sources[RowSource(d.rows[n])]
<1> DEFINE u == WithoutSources(d)
           keeps(s) == \/ Observed(s) \/ RowsOf(d, s) # {}
                       \/ \E k \in DOMAIN d.instances :
                            d.instances[k] # NoInstance /\ SourceOf(k) = s
<1>1. /\ DOMAIN u = TableFields /\ u.rows = d.rows /\ u.instances = d.instances
      /\ u.instanceId = d.instanceId /\ u.pruned = d.pruned
      /\ u.sources = [s \in DOMAIN d.sources |-> IF keeps(s) THEN d.sources[s] ELSE NoSource]
  BY DEF WithoutSources, TrueTables, TableFields
<1>2. NoSource \in Sources
  BY DEF NoSource, Sources, SourceStates
<1>3. \A n \in DOMAIN d.rows : RowSource(d.rows[n]) \in SourceKeys /\ keeps(RowSource(d.rows[n]))
  <2>1. \A n \in DOMAIN d.rows : n \in RowsOf(d, RowSource(d.rows[n])) /\ d.rows[n] \in EventRows
    BY DEF RowsOf, RowSource, TrueTables
  <2> QED
    BY <2>1 DEF EventRows, RowSource, SourceKeys
<1> HIDE DEF u, keeps
<1>4. /\ u.sources \in [SourceKeys -> Sources]
      /\ \A s \in SourceKeys : u.sources[s] \in {d.sources[s], NoSource}
  BY <1>1, <1>2 DEF TrueTables
<1>5. TrueTables(u)
  BY <1>1, <1>4 DEF TrueTables
<1>6. \A n \in DOMAIN d.rows :
        u.sources[RowSource(d.rows[n])] = d.sources[RowSource(d.rows[n])]
  BY <1>1, <1>3 DEF TrueTables
<1> QED
  BY <1>1, <1>4, <1>5, <1>6 DEF u

LEMMA PruneStep ==
  ASSUME LedgerInv, Prune
  PROVE  LedgerInv'
<1>1. /\ work' = <<>> /\ UNCHANGED <<agentVars, monitorVars, binding>>
  BY DEF Prune
<1>2. PICK n \in {0, 1}, quiet \in BOOLEAN :
        /\ n <= Len(tables.rows)
        /\ LET cut == [tables EXCEPT !.rows = SubSeq(@, n + 1, Len(@)), !.pruned = @ \/ n > 0]
           IN  \E old \in SUBSET Expired(cut) :
                 tables' = IF quiet THEN WithoutSources(WithoutInstances(cut, old))
                                    ELSE WithoutInstances(cut, old)
  BY DEF Prune
<1> DEFINE q   == SubSeq(tables.rows, n + 1, Len(tables.rows))
           cut == [tables EXCEPT !.rows = q, !.pruned = @ \/ n > 0]
<1>3. PICK old : tables' = IF quiet THEN WithoutSources(WithoutInstances(cut, old))
                                    ELSE WithoutInstances(cut, old)
  BY <1>2
<1>4. q \in Seq(EventRows) /\ Ordered(q, Positions)
  BY <1>2, SuffixKeepsOrder DEF LedgerInv, TablesInv, TrueTables
<1> HIDE DEF q
<1>5. /\ DOMAIN cut = TableFields /\ cut.rows = q /\ cut.sources = tables.sources
      /\ cut.pruned \in BOOLEAN /\ (n = 1 \/ tables.pruned => cut.pruned = TRUE)
      /\ cut.instances = tables.instances /\ cut.instanceId = tables.instanceId
  <2>1. DOMAIN tables = TableFields /\ tables.pruned \in BOOLEAN
    BY DEF LedgerInv, TablesInv, TrueTables
  <2> DEFINE pruned == tables.pruned \/ n > 0
  <2>2. pruned \in BOOLEAN /\ (n = 1 \/ tables.pruned => pruned = TRUE)
    BY <2>1
  <2> HIDE DEF pruned
  <2>3. cut = [tables EXCEPT !.rows = q, !.pruned = pruned]
    BY DEF pruned
  <2> HIDE DEF cut
  <2>4. /\ DOMAIN cut = TableFields /\ cut.rows = q /\ cut.sources = tables.sources
        /\ cut.instances = tables.instances /\ cut.instanceId = tables.instanceId
        /\ cut.pruned = pruned
    BY <2>1, <2>3 DEF TableFields
  <2> QED
    BY <2>2, <2>4
<1> HIDE DEF cut
<1>6. TrueTables(cut)
  BY <1>4, <1>5 DEF LedgerInv, TablesInv, TrueTables
<1> DEFINE d == WithoutInstances(cut, old)
<1>7. TrueTables(d) /\ d.rows = q /\ d.sources = tables.sources /\ d.pruned = cut.pruned
  BY <1>5, <1>6, WithoutInstancesFacts
<1> HIDE DEF d
<1>8. /\ TrueTables(tables') /\ tables'.rows = q /\ tables'.pruned = cut.pruned
      /\ \A s \in SourceKeys : tables'.sources[s] \in {tables.sources[s], NoSource}
      /\ \A m \in DOMAIN q : tables'.sources[RowSource(q[m])] = tables.sources[RowSource(q[m])]
  <2>1. CASE quiet
    BY <1>3, <1>7, <2>1, WithoutSourcesFacts DEF d
  <2>2. CASE ~quiet
    BY <1>3, <1>7, <2>2 DEF d
  <2> QED
    BY <2>1, <2>2
<1>9. \A m \in 1 .. Len(q) :
        RowSource(q[m]) \in SourceKeys /\ Positions'[RowSource(q[m])] = Positions[RowSource(q[m])]
  <2>1. \A m \in 1 .. Len(q) : q[m] \in EventRows /\ m \in DOMAIN q
    BY <1>4
  <2>2. \A m \in 1 .. Len(q) : RowSource(q[m]) \in SourceKeys
    BY <2>1 DEF EventRows, RowSource, SourceKeys
  <2> QED
    BY <1>8, <2>1, <2>2 DEF Positions, SourceKeys
<1>10. Ordered(q, Positions')
  BY <1>4, <1>9 DEF Ordered
<1>11. tables'.pruned \/ Told(q, Positions')
  <2>1. CASE n = 0 /\ ~tables.pruned
    <3>1. q = tables.rows /\ Told(q, Positions)
      <4>1. tables.rows \in Seq(EventRows) /\ Told(tables.rows, Positions)
        BY <2>1 DEF LedgerInv, TablesInv, TrueTables
      <4>2. q = SubSeq(tables.rows, 1, Len(tables.rows))
        BY <2>1 DEF q
      <4> QED
        BY <4>1, <4>2, SubSeqFull
    <3>2. ASSUME NEW s \in SourceKeys
          PROVE  EndsAt(q, s, Positions'[s])
      <4>1. EndsAt(q, s, Positions[s])
        BY <3>1 DEF Told
      <4>2. CASE \E m \in 1 .. Len(q) : EventOf(q, m, s)
        <5>1. Positions'[s] = Positions[s]
          BY <1>9, <4>2 DEF EventOf
        <5> QED
          BY <4>1, <5>1
      <4>3. CASE \A m \in 1 .. Len(q) : ~EventOf(q, m, s)
        <5>1. NoneAfter(q, s, 0) /\ Positions[s] = 0
          BY <4>1, <4>3 DEF EndsAt, NoneAfter
        <5>2. Positions'[s] = 0
          <6>1. NoSource.last = 0
            BY DEF NoSource
          <6>2. Positions[s] = tables.sources[s].last /\ Positions'[s] = tables'.sources[s].last
            BY DEF Positions, SourceKeys
          <6> QED
            BY <1>8, <5>1, <6>1, <6>2
        <5> QED
          BY <5>1, <5>2 DEF EndsAt
      <4> QED
        BY <4>2, <4>3
    <3> QED
      BY <3>1, <3>2 DEF Told
  <2>2. CASE n = 1 \/ tables.pruned
    BY <1>5, <1>8, <2>2
  <2> QED
    BY <2>1, <2>2 DEF LedgerInv, TablesInv, TrueTables
<1>12. TablesInv'
  BY <1>8, <1>10, <1>11, StoreBecomes
<1> QED
  BY <1>1, <1>12, AgentStays, MonitorStays, NoWork DEF LedgerInv, agentVars, monitorVars

------------------------------------------------------------------------------------
(* The theorems *)

LEMMA InitEstablishes ==
  ASSUME TunnelInit
  PROVE  LedgerInv
<1>1. AgentInv /\ MonitorInv /\ WorkInv
  <2>1. 1 \in Processes /\ 1 \in 1 .. MaxEpochs
    BY TunnelAssumption DEF Processes
  <2>2. DOMAIN native = {"process", "state", "log"} /\ native.process = 1 /\ native.log = <<>>
    BY DEF TunnelInit
  <2> QED
    BY <2>1, <2>2 DEF TunnelInit, AgentInv, MonitorInv, WorkInv
<1>2. /\ TrueTables(Empty) /\ Empty.rows = <<>>
      /\ \A s \in SourceKeys : Empty.sources[s].last = 0
  <2>1. /\ DOMAIN Empty = TableFields /\ Empty.rows = <<>> /\ Empty.instanceId = 0
        /\ Empty.pruned = FALSE
        /\ Empty.sources = [k \in SourceKeys |-> NoSource]
        /\ Empty.instances = [k \in Keys |-> NoInstance]
    BY DEF Empty, TableFields, SourceKeys, Keys
  <2>2. NoSource \in Sources /\ NoSource.last = 0
    BY DEF NoSource, Sources, SourceStates
  <2>3. DOMAIN NoInstance = InstanceFields /\ NoInstance.id \in Nat
    BY DEF NoInstance, InstanceFields
  <2>4. Empty.sources \in [SourceKeys -> Sources] /\ Empty.pruned \in BOOLEAN
        /\ Empty.rows \in Seq(EventRows)
    <3>1. <<>> \in Seq(EventRows)
      OBVIOUS
    <3>2. [k \in SourceKeys |-> NoSource] \in [SourceKeys -> Sources]
      BY <2>2
    <3> QED
      BY <2>1, <3>1, <3>2
  <2> QED
    BY <2>1, <2>2, <2>3, <2>4 DEF TrueTables
<1>3. TablesInv
  <2>1. tables = Empty /\ Len(tables.rows) = 0
    BY <1>2 DEF TunnelInit
  <2>2. Ordered(tables.rows, Positions) /\ Linked(tables.rows)
    BY <2>1 DEF Ordered, Linked
  <2>3. \A s \in SourceKeys : EndsAt(tables.rows, s, Positions[s])
    BY <1>2, <2>1 DEF EndsAt, NoneAfter, Positions
  <2> QED
    BY <1>2, <2>1, <2>2, <2>3 DEF TablesInv, Told
<1> QED
  BY <1>1, <1>3 DEF LedgerInv

LEMMA StepKeeps ==
  ASSUME LedgerInv, [TunnelNext]_tunnelVars
  PROVE  LedgerInv'
<1>1. CASE \E i \in Instances : Emit(i) \/ Retire(i)
  BY <1>1, ProcessSteps
<1>2. CASE Snapshot
  BY <1>2, SnapshotEventsStep, SnapshotObjectsStep DEF Snapshot
<1>3. CASE SnapshotNothing \/ SnapshotNoObjects
  BY <1>3, SnapshotNothingStep, SnapshotObjectsStep
<1>4. CASE Slice
  BY <1>4, BeginSliceStep, WriteEventStep, WriteObjectStep, CommitSliceStep DEF Slice
<1>5. CASE SkipSlice \/ Forget \/ LoseSlice
  BY <1>5, OtherWorkerSteps
<1>6. CASE CommitSlice(FALSE)
  BY <1>6, CommitSliceStep
<1>7. CASE NativeRestart \/ Reconnect \/ MonitorRestart
  BY <1>7, RestartSteps
<1>8. CASE Rebind \/ Learn
  BY <1>8, BindingSteps
<1>9. CASE Prune
  BY <1>9, PruneStep
<1>10. CASE UNCHANGED tunnelVars
  BY <1>10, AgentStays, MonitorStays, StoreStays, WorkStays
  DEF LedgerInv, tunnelVars, agentVars, monitorVars, storeVars
<1> QED
  BY <1>1, <1>2, <1>3, <1>4, <1>5, <1>6, <1>7, <1>8, <1>9, <1>10 DEF TunnelNext

LEMMA InvariantIsEnough ==
  ASSUME LedgerInv
  PROVE  RecordedInOrder
<1>1. /\ tables.rows \in Seq(EventRows) /\ DOMAIN tables.rows = 1 .. Len(tables.rows)
      /\ Ordered(tables.rows, Positions)
  BY DEF LedgerInv, TablesInv, TrueTables
<1>2. \A n \in 1 .. Len(tables.rows) :
        Positions[RowSource(tables.rows[n])] = tables.sources[RowSource(tables.rows[n])].last
  <2>1. \A n \in 1 .. Len(tables.rows) : tables.rows[n] \in EventRows
    BY <1>1
  <2>2. \A n \in 1 .. Len(tables.rows) : RowSource(tables.rows[n]) \in SourceKeys
    BY <2>1 DEF EventRows, RowSource, SourceKeys
  <2> QED
    BY <2>2 DEF Positions
<1> QED
  BY <1>1, <1>2 DEF Ordered, RecordedInOrder

LEMMA HistoryIsEnough ==
  ASSUME LedgerInv
  PROVE  MissingIsShown
<1>1. /\ tables.rows \in Seq(EventRows) /\ DOMAIN tables.rows = 1 .. Len(tables.rows)
      /\ tables.pruned \/ Linked(tables.rows)
  BY DEF LedgerInv, TablesInv, TrueTables, Told
<1> QED
  BY <1>1 DEF Linked, Explains, EventOf, MissingIsShown

\* What holds of the tables and of the copy a transaction works on, whatever
\* restarts, reconnects, fails or is pruned: the inductive invariant.
THEOREM LedgerIsTrue == TunnelSpec => []LedgerInv
BY InitEstablishes, StepKeeps, PTL DEF TunnelSpec

\* Every event of a process is recorded at most once and in its order, and the
\* position kept with its source is never behind (IngestTunnelSlice).
THEOREM EventsAreRecordedInOrder == TunnelSpec => []RecordedInOrder
BY LedgerIsTrue, InvariantIsEnough, PTL

\* As long as retention has taken nothing, every event that is missing between two
\* recorded ones is announced by a row (gap, IngestTunnelSlice).
THEOREM MissingEventsAreShown == TunnelSpec => []MissingIsShown
BY LedgerIsTrue, HistoryIsEnough, PTL

------------------------------------------------------------------------------------
TunnelKeys == Epochs \X (0 .. MaxProcesses) \X (0 .. MaxInstances)
Numbered   == [id : Nat, generation : Nat]

\* What was ever committed and what the tables hold.
Known(d, born) == born \cup Born(d)

\* Every number of a tunnel is below the counter, and every generation below
\* that of its tunnel as long as there is one.
Fresh(d, born) ==
  /\ d.tunnelId \in Nat /\ d.tunnels \in [TunnelKeys -> Numbered]
  /\ \A t \in TunnelKeys : /\ d.tunnels[t].id <= d.tunnelId
                           /\ d.tunnels[t].id = 0 => d.tunnels[t] = NoTunnel
  /\ \A t, u \in TunnelKeys : d.tunnels[t].id = d.tunnels[u].id => t = u \/ d.tunnels[t].id = 0
  /\ \A a \in Known(d, born) :
       /\ a[1] \in 1 .. d.tunnelId /\ a[2] \in Nat
       /\ \A t \in TunnelKeys : d.tunnels[t].id = a[1] => a[2] <= d.tunnels[t].generation
  /\ \A a, b \in Known(d, born) : a[1] = b[1] /\ a[2] = b[2] => a[3] = b[3]

FreshInv ==
  /\ DOMAIN past = {"born", "lost"}
  /\ Fresh(tables, past.born)
  /\ work # <<>> => Fresh(work[1].tx, past.born)

\* The shape of the tables, whatever their rows are.
Shaped(d) ==
  /\ DOMAIN d = TableFields /\ DOMAIN d.instances = Keys
  /\ \A k \in Keys : DOMAIN d.instances[k] = InstanceFields

\* Fewer instances, or fewer tunnels, are as fresh.
LEMMA FewerAreFresh ==
  ASSUME NEW d, NEW u, NEW born, Fresh(d, born), Born(u) \subseteq Known(d, born),
         u.tunnelId = d.tunnelId, u.tunnels \in [TunnelKeys -> Numbered],
         \A t \in TunnelKeys : u.tunnels[t] \in {d.tunnels[t], NoTunnel}
  PROVE  Fresh(u, born)
<1>1. Known(u, born) \subseteq Known(d, born)
  BY DEF Known
<1>2. NoTunnel.id = 0 /\ NoTunnel.generation = 0
  BY DEF NoTunnel
<1>3. \A t \in TunnelKeys : u.tunnels[t] = NoTunnel \/ u.tunnels[t] = d.tunnels[t]
  OBVIOUS
<1>4. u.tunnelId \in Nat /\ 0 <= u.tunnelId
  BY DEF Fresh
<1>5. \A t \in TunnelKeys : /\ u.tunnels[t].id <= u.tunnelId
                            /\ u.tunnels[t].id = 0 => u.tunnels[t] = NoTunnel
  BY <1>2, <1>3, <1>4 DEF Fresh
<1>6. \A t, v \in TunnelKeys :
        u.tunnels[t].id = u.tunnels[v].id => t = v \/ u.tunnels[t].id = 0
  BY <1>2, <1>3 DEF Fresh
<1>7. ASSUME NEW a \in Known(u, born)
      PROVE  /\ a[1] \in 1 .. u.tunnelId /\ a[2] \in Nat
             /\ \A t \in TunnelKeys : u.tunnels[t].id = a[1] => a[2] <= u.tunnels[t].generation
  <2>1. a \in Known(d, born)
    BY <1>1
  <2>2. a[1] \in 1 .. d.tunnelId /\ a[2] \in Nat /\ a[1] # 0
    BY <1>4, <2>1 DEF Fresh
  <2> QED
    BY <1>2, <1>3, <2>1, <2>2 DEF Fresh
<1>8. \A a, b \in Known(u, born) : a[1] = b[1] /\ a[2] = b[2] => a[3] = b[3]
  BY <1>1 DEF Fresh
<1> QED
  BY <1>4, <1>5, <1>6, <1>7, <1>8 DEF Fresh

\* The rows and the sources do not matter.
LEMMA SameAreFresh ==
  ASSUME NEW d, NEW u, NEW born, Fresh(d, born), u.instances = d.instances,
         u.tunnelId = d.tunnelId, u.tunnels = d.tunnels
  PROVE  Fresh(u, born)
<1>1. Born(u) \subseteq Known(d, born)
  BY DEF Born, Known
<1>2. u.tunnels \in [TunnelKeys -> Numbered]
      /\ \A t \in TunnelKeys : u.tunnels[t] \in {d.tunnels[t], NoTunnel}
  BY DEF Fresh
<1> QED
  BY <1>1, <1>2, FewerAreFresh

\* A new tunnel gets a new number.
LEMMA AddTunnelIsFresh ==
  ASSUME NEW d, TrueTables(d), NEW born, Fresh(d, born), NEW t
  PROVE  LET u == AddTunnel(d, t)
         IN  /\ Fresh(u, born) /\ u.instances = d.instances /\ u.instanceId = d.instanceId
             /\ t \in TunnelKeys => u.tunnels[t].id > 0
<1> DEFINE u == [d EXCEPT !.tunnels[t] = [id |-> d.tunnelId + 1, generation |-> 0],
                          !.tunnelId = @ + 1]
           r == [id |-> d.tunnelId + 1, generation |-> 0]
<1>1. CASE d.tunnels[t] # NoTunnel
  <2>1. AddTunnel(d, t) = d
    BY <1>1 DEF AddTunnel
  <2>2. t \in TunnelKeys => d.tunnels[t].id \in Nat /\ d.tunnels[t].id # 0
    BY <1>1 DEF Fresh, Numbered
  <2> QED
    BY <2>1, <2>2
<1>2. CASE d.tunnels[t] = NoTunnel
  <2>1. AddTunnel(d, t) = u
    BY <1>2 DEF AddTunnel
  <2>2. /\ u.instances = d.instances /\ u.instanceId = d.instanceId
        /\ u.tunnels = [d.tunnels EXCEPT ![t] = r] /\ u.tunnelId = d.tunnelId + 1
    BY DEF TrueTables, TableFields
  <2>3. r.id = d.tunnelId + 1 /\ r.generation = 0 /\ d.tunnelId \in Nat /\ r \in Numbered
    BY DEF Fresh, Numbered
  <2> HIDE DEF u, r
  <2>4. /\ u.tunnels \in [TunnelKeys -> Numbered]
        /\ \A v \in TunnelKeys : u.tunnels[v] = IF v = t THEN r ELSE d.tunnels[v]
    BY <2>2, <2>3 DEF Fresh
  <2>5. Known(u, born) = Known(d, born)
    BY <2>2 DEF Known, Born
  <2>6. \A v \in TunnelKeys : d.tunnels[v].id \in Nat /\ d.tunnels[v].generation \in Nat
    BY DEF Fresh, Numbered
  <2>7. \A v \in TunnelKeys : /\ u.tunnels[v].id <= u.tunnelId
                              /\ u.tunnels[v].id = 0 => u.tunnels[v] = NoTunnel
    BY <2>2, <2>3, <2>4, <2>6 DEF Fresh
  <2>8. \A v, x \in TunnelKeys :
          u.tunnels[v].id = u.tunnels[x].id => v = x \/ u.tunnels[v].id = 0
    BY <2>3, <2>4, <2>6 DEF Fresh
  <2>9. ASSUME NEW a \in Known(d, born)
        PROVE  /\ a[1] \in 1 .. u.tunnelId /\ a[2] \in Nat
               /\ \A v \in TunnelKeys : u.tunnels[v].id = a[1] => a[2] <= u.tunnels[v].generation
    <3>1. a[1] \in 1 .. d.tunnelId /\ a[2] \in Nat
          /\ \A v \in TunnelKeys : d.tunnels[v].id = a[1] => a[2] <= d.tunnels[v].generation
      BY DEF Fresh
    <3> QED
      BY <2>2, <2>3, <2>4, <3>1
  <2>10. Fresh(u, born)
    BY <2>2, <2>3, <2>4, <2>5, <2>7, <2>8, <2>9 DEF Fresh
  <2> QED
    BY <2>1, <2>2, <2>3, <2>4, <2>10
<1> QED
  BY <1>1, <1>2

\* A new instance gets a new generation of its tunnel.
LEMMA AddInstanceIsFresh ==
  ASSUME NEW d, DOMAIN d = TableFields, DOMAIN d.instances = Keys, NEW born, Fresh(d, born),
         NEW t, t \in TunnelKeys => d.tunnels[t].id > 0,
         NEW k, k \in Keys => t \in TunnelKeys, NEW state
  PROVE  Fresh(AddInstance(d, t, k, state), born)
<1> DEFINE u == AddInstance(d, t, k, state)
           r == [d.tunnels[t] EXCEPT !.generation = @ + 1]
           i == [id |-> d.instanceId + 1, tunnel |-> d.tunnels[t].id,
                 generation |-> d.tunnels[t].generation + 1, state |-> state]
           new == <<d.tunnels[t].id, d.tunnels[t].generation + 1, d.instanceId + 1>>
<1>1. /\ u.tunnels = [d.tunnels EXCEPT ![t] = r] /\ u.tunnelId = d.tunnelId
      /\ u.instances = [d.instances EXCEPT ![k] = i]
  BY DEF AddInstance, TableFields
<1>2. \A v \in TunnelKeys : /\ d.tunnels[v] \in Numbered
                            /\ d.tunnels[v].id \in Nat /\ d.tunnels[v].generation \in Nat
  BY DEF Fresh, Numbered
<1>3. t \in TunnelKeys => /\ r \in Numbered /\ r.id = d.tunnels[t].id
                          /\ r.generation = d.tunnels[t].generation + 1
  BY <1>2 DEF Numbered
<1>4. i.tunnel = new[1] /\ i.generation = new[2] /\ i.id = new[3]
      /\ new[1] = d.tunnels[t].id /\ new[2] = d.tunnels[t].generation + 1
  OBVIOUS
<1> HIDE DEF u, r, i
<1>5. /\ u.tunnels \in [TunnelKeys -> Numbered]
      /\ \A v \in TunnelKeys : u.tunnels[v] = IF v = t THEN r ELSE d.tunnels[v]
  BY <1>1, <1>3 DEF Fresh
<1>6. \A v \in TunnelKeys : /\ u.tunnels[v].id = d.tunnels[v].id
                            /\ u.tunnels[v].generation \in Nat
                            /\ d.tunnels[v].generation <= u.tunnels[v].generation
  BY <1>2, <1>3, <1>5
<1>7. \A a \in Known(u, born) : a \in Known(d, born) \/ (k \in Keys /\ a = new)
  <2> SUFFICES ASSUME NEW j \in DOMAIN u.instances, u.instances[j] # NoInstance,
                      NEW a, a = <<u.instances[j].tunnel, u.instances[j].generation,
                                   u.instances[j].id>>
               PROVE  a \in Born(d) \/ (k \in Keys /\ a = new)
    BY DEF Known, Born
  <2>1. j \in Keys /\ u.instances[j] = IF j = k THEN i ELSE d.instances[j]
    BY <1>1
  <2>2. CASE j = k
    BY <1>4, <2>1, <2>2
  <2>3. CASE j # k
    BY <2>1, <2>3 DEF Born
  <2> QED
    BY <2>2, <2>3
<1>8. \A a \in Known(d, born) : a[1] = new[1] /\ k \in Keys => a[2] < new[2]
  BY <1>2, <1>4 DEF Fresh
<1>9. \A v \in TunnelKeys : /\ u.tunnels[v].id <= u.tunnelId
                            /\ u.tunnels[v].id = 0 => u.tunnels[v] = NoTunnel
  <2> SUFFICES ASSUME NEW v \in TunnelKeys
               PROVE  /\ u.tunnels[v].id <= u.tunnelId
                      /\ u.tunnels[v].id = 0 => u.tunnels[v] = NoTunnel
    OBVIOUS
  <2>1. CASE v # t \/ d.tunnels[t].id > 0
    BY <1>1, <1>2, <1>5, <1>6, <2>1 DEF Fresh
  <2> QED
    BY <2>1
<1>10. \A v, x \in TunnelKeys :
         u.tunnels[v].id = u.tunnels[x].id => v = x \/ u.tunnels[v].id = 0
  BY <1>6 DEF Fresh
<1>11. ASSUME NEW a \in Known(u, born)
       PROVE  /\ a[1] \in 1 .. u.tunnelId /\ a[2] \in Nat
              /\ \A v \in TunnelKeys : u.tunnels[v].id = a[1] => a[2] <= u.tunnels[v].generation
  <2>1. CASE a \in Known(d, born)
    <3>1. a[1] \in 1 .. d.tunnelId /\ a[2] \in Nat
          /\ \A v \in TunnelKeys : d.tunnels[v].id = a[1] => a[2] <= d.tunnels[v].generation
      BY <2>1 DEF Fresh
    <3> QED
      BY <1>1, <1>2, <1>6, <3>1
  <2>2. CASE k \in Keys /\ a = new
    <3>1. t \in TunnelKeys /\ d.tunnels[t].id > 0 /\ d.tunnels[t].id <= d.tunnelId
          /\ d.tunnelId \in Nat
      BY <2>2 DEF Fresh
    <3>2. a[1] \in 1 .. u.tunnelId /\ a[2] \in Nat
      BY <1>1, <1>2, <1>4, <2>2, <3>1
    <3>3. \A v \in TunnelKeys : u.tunnels[v].id = a[1] => v = t
      BY <1>4, <1>6, <2>2, <3>1 DEF Fresh
    <3> QED
      BY <1>3, <1>4, <1>5, <2>2, <3>1, <3>2, <3>3
  <2> QED
    BY <1>7, <2>1, <2>2
<1>12. \A a, b \in Known(u, born) : a[1] = b[1] /\ a[2] = b[2] => a[3] = b[3]
  <2> SUFFICES ASSUME NEW a \in Known(u, born), NEW b \in Known(u, born),
                      a[1] = b[1], a[2] = b[2]
               PROVE  a[3] = b[3]
    OBVIOUS
  <2>0. a[2] \in Nat /\ b[2] \in Nat
    BY <1>11
  <2>1. CASE a \in Known(d, born) /\ b \in Known(d, born)
    BY <2>1 DEF Fresh
  <2>2. CASE k \in Keys /\ a = new /\ b = new
    BY <2>2
  <2>3. CASE k \in Keys /\ a = new /\ b \in Known(d, born)
    BY <1>8, <2>0, <2>3
  <2>4. CASE k \in Keys /\ b = new /\ a \in Known(d, born)
    BY <1>8, <2>0, <2>4
  <2> QED
    BY <1>7, <2>1, <2>2, <2>3, <2>4
<1>13. u.tunnelId \in Nat
  BY <1>1 DEF Fresh
<1> QED
  BY <1>5, <1>9, <1>10, <1>11, <1>12, <1>13 DEF Fresh, u

\* An instance that is there gets another state.
LEMMA StateIsFresh ==
  ASSUME NEW d, Shaped(d), NEW born, Fresh(d, born), NEW k, NEW state,
         k \in Keys => d.instances[k] # NoInstance
  PROVE  Fresh([d EXCEPT !.instances[k].state = state], born)
<1> DEFINE u == [d EXCEPT !.instances[k].state = state]
           r == [d.instances[k] EXCEPT !.state = state]
<1>1. /\ u.tunnels = d.tunnels /\ u.tunnelId = d.tunnelId
      /\ u.instances = [d.instances EXCEPT ![k] = r]
  BY DEF Shaped, TableFields
<1>2. k \in Keys => /\ r.tunnel = d.instances[k].tunnel /\ r.id = d.instances[k].id
                    /\ r.generation = d.instances[k].generation
  BY DEF Shaped, InstanceFields
<1> HIDE DEF u, r
<1>3. /\ DOMAIN u.instances = Keys /\ DOMAIN d.instances = Keys
      /\ \A j \in Keys : u.instances[j] = IF j = k THEN r ELSE d.instances[j]
  BY <1>1 DEF Shaped
<1>4. Born(u) \subseteq Born(d)
  <2> SUFFICES ASSUME NEW j \in Keys, u.instances[j] # NoInstance
               PROVE  <<u.instances[j].tunnel, u.instances[j].generation, u.instances[j].id>>
                        \in Born(d)
    BY <1>3 DEF Born
  <2>1. d.instances[j] # NoInstance
    BY <1>3
  <2>2. /\ u.instances[j].tunnel = d.instances[j].tunnel
        /\ u.instances[j].generation = d.instances[j].generation
        /\ u.instances[j].id = d.instances[j].id
    BY <1>2, <1>3
  <2> QED
    BY <1>3, <2>1, <2>2 DEF Born
<1>5. u.tunnels \in [TunnelKeys -> Numbered]
      /\ \A t \in TunnelKeys : u.tunnels[t] \in {d.tunnels[t], NoTunnel}
  BY <1>1 DEF Fresh
<1>6. Fresh(u, born)
  BY <1>1, <1>4, <1>5, FewerAreFresh DEF Known
<1> QED
  BY <1>6 DEF u

\* Whatever upsert finds, the instance is there afterwards.
LEMMA UpsertIsFresh ==
  ASSUME MonitorInv, NEW d, TrueTables(d), NEW born, Fresh(d, born), NEW p \in Processes, NEW o
  PROVE  /\ Fresh(Upsert(d, p, o), born)
         /\ InstanceKey(p, o.of) \in Keys =>
              Upsert(d, p, o).instances[InstanceKey(p, o.of)] # NoInstance
<1> DEFINE k == InstanceKey(p, o.of)
           t == TunnelKey(p, o.of)
           a == AddTunnel(d, t)
           b == AddInstance(a, t, k, o.state)
           c == [d EXCEPT !.instances[k].state = o.state]
<1>1. k \in Keys => t \in TunnelKeys
  <2>1. k \in Keys => o.of \in Instances
    BY DEF InstanceKey, Keys
  <2>2. Owner \in Epochs
    BY ScopeFacts
  <2>3. o.of \in Instances => o.of \in 0 .. MaxInstances
    BY TunnelAssumption DEF Instances
  <2>4. p \in 0 .. MaxProcesses /\ 0 \in 0 .. MaxProcesses /\ 0 \in 0 .. MaxInstances
    BY TunnelAssumption DEF Processes
  <2> QED
    BY <2>1, <2>2, <2>3, <2>4 DEF TunnelKey, TunnelKeys
<1>2. /\ Fresh(a, born) /\ a.instances = d.instances /\ a.instanceId = d.instanceId
      /\ t \in TunnelKeys => a.tunnels[t].id > 0
  BY AddTunnelIsFresh
<1>3. DOMAIN a = TableFields /\ DOMAIN a.instances = Keys /\ a.instanceId \in Nat
  BY <1>2 DEF AddTunnel, TrueTables, TableFields
<1> HIDE DEF t, k
<1>4. Fresh(b, born) /\ (k \in Keys => b.instances[k] # NoInstance)
  <2> HIDE DEF a
  <2>1. Fresh(b, born)
    BY <1>1, <1>2, <1>3, AddInstanceIsFresh
  <2>2. k \in Keys => b.instances[k].id = a.instanceId + 1
    BY <1>3 DEF AddInstance, TableFields
  <2>3. NoInstance.id = 0
    BY DEF NoInstance
  <2> QED
    BY <1>3, <2>1, <2>2, <2>3
<1>5. d.instances[k] # NoInstance /\ StateKey(o.state) # StateKey(d.instances[k].state)
      => Fresh(c, born) /\ (k \in Keys => c.instances[k] # NoInstance)
  <2> SUFFICES ASSUME d.instances[k] # NoInstance,
                      StateKey(o.state) # StateKey(d.instances[k].state)
               PROVE  Fresh(c, born) /\ (k \in Keys => c.instances[k] # NoInstance)
    OBVIOUS
  <2>1. Fresh(c, born)
    BY StateIsFresh DEF TrueTables, Shaped
  <2>2. k \in Keys => c.instances[k] # NoInstance
    <3> SUFFICES ASSUME k \in Keys
                 PROVE  c.instances[k].tunnel # 0
      BY DEF NoInstance
    <3>1. <<d.instances[k].tunnel, d.instances[k].generation, d.instances[k].id>>
            \in Known(d, born)
      BY DEF Known, Born, TrueTables
    <3>2. d.instances[k].tunnel # 0
      BY <3>1 DEF Fresh
    <3>3. c.instances[k] = [d.instances[k] EXCEPT !.state = o.state]
      BY DEF TrueTables, TableFields
    <3> QED
      BY <3>2, <3>3 DEF TrueTables, InstanceFields
  <2> QED
    BY <2>1, <2>2
<1> QED
  BY <1>4, <1>5 DEF Upsert, a, b, c, k, t

\* Nothing but the copy a transaction works on changes.
LEMMA FreshBecomes ==
  ASSUME FreshInv, UNCHANGED storeVars, Fresh(work'[1].tx, past.born)
  PROVE  FreshInv'
<1>1. past' = past /\ tables' = tables
  BY DEF storeVars
<1>2. Fresh(tables, past.born)' /\ (DOMAIN past = {"born", "lost"})'
  BY <1>1 DEF FreshInv, Fresh, Known, Born
<1>3. Fresh(work[1].tx, past.born)'
  BY <1>1 DEF Fresh, Known, Born
<1> QED
  BY <1>2, <1>3 DEF FreshInv

\* Neither the tables nor what was born change, and a transaction goes on or ends.
LEMMA FreshStays ==
  ASSUME FreshInv, tables' = tables, work' \in {work, <<>>},
         DOMAIN past' = DOMAIN past, past'.born = past.born
  PROVE  FreshInv'
<1>1. Fresh(tables, past.born)'
  BY DEF FreshInv, Fresh, Known, Born
<1>2. work' # <<>> => Fresh(work[1].tx, past.born)'
  BY DEF FreshInv, Fresh, Known, Born
<1> QED
  BY <1>1, <1>2 DEF FreshInv

\* A slice: it begins with the tables as they are and writes its copy of them.
LEMMA BeginIsFresh ==
  ASSUME LedgerInv, FreshInv, BeginSlice
  PROVE  FreshInv'
<1>1. /\ UNCHANGED storeVars
      /\ work'[1].tx.instances = tables.instances /\ work'[1].tx.tunnels = tables.tunnels
      /\ work'[1].tx.tunnelId = tables.tunnelId
  <2> DEFINE v    == Attributed
             gaps == Gaps(v, tables.sources[<<Scope, v.process>>])
             g    == [n \in DOMAIN gaps |-> Row(Scope, v.process, gaps[n], 0, 0)]
             tx   == [tables EXCEPT !.rows = @ \o g]
  <2>1. UNCHANGED storeVars /\ work'[1].tx = tx
    BY DEF BeginSlice
  <2> HIDE DEF g
  <2>2. tx.instances = tables.instances /\ tx.tunnels = tables.tunnels
        /\ tx.tunnelId = tables.tunnelId
    BY DEF LedgerInv, TablesInv, TrueTables, TableFields
  <2> QED
    BY <2>1, <2>2
<1> DEFINE tx == work'[1].tx
<1>2. Fresh(tx, past.born)
  <2> HIDE DEF tx
  <2> QED
    BY <1>1, SameAreFresh DEF FreshInv, tx
<1> QED
  BY <1>1, <1>2, FreshBecomes DEF FreshInv, storeVars

LEMMA WriteEventIsFresh ==
  ASSUME LedgerInv, FreshInv, WriteEvent
  PROVE  FreshInv'
<1> DEFINE w   == work[1]
           v   == w.snapshot
           seq == NextSequence(w)
           e   == v.events[seq - v.first + 1]
           k   == InstanceKey(v.process, e.of)
           d1  == Upsert(w.tx, v.process, e)
           row == Row(Scope, v.process, "event", seq, d1.instances[k].id)
           d2  == [d1 EXCEPT !.rows = Append(@, row)]
           d3  == IF e.state = "settled"
                  THEN [d2 EXCEPT !.instances[k].state = "settled"] ELSE d2
           n   == [w EXCEPT !.tx = d3, !.processed = seq, !.remaining = @ - 1]
<1>1. /\ work # <<>> /\ work' = <<n>> /\ UNCHANGED storeVars
  BY DEF WriteEvent
<1>2. TrueWork(w) /\ Fresh(w.tx, past.born)
  BY <1>1 DEF LedgerInv, WorkInv, FreshInv
<1>3. TrueTables(w.tx) /\ v.process \in Processes /\ DOMAIN w = WorkFields
  BY <1>2 DEF TrueWork, TrueSnapshot, Processes, NoProcess
<1> HIDE DEF w, v, seq
<1>4. /\ TrueTables(d1) /\ Fresh(d1, past.born)
      /\ k \in Keys => d1.instances[k] # NoInstance
  BY <1>2, <1>3, UpsertFacts, UpsertIsFresh DEF LedgerInv
<1> HIDE DEF d1, e, k, row
<1>5. /\ d2.instances = d1.instances /\ d2.tunnels = d1.tunnels
      /\ d2.tunnelId = d1.tunnelId
  BY <1>4 DEF TrueTables, TableFields
<1>6. Shaped(d2)
  BY <1>4 DEF TrueTables, TableFields, Shaped
<1> HIDE DEF d2
<1>7. Fresh(d2, past.born)
  BY <1>4, <1>5, SameAreFresh
<1>8. Fresh(d3, past.born)
  BY <1>4, <1>5, <1>6, <1>7, StateIsFresh
<1> HIDE DEF d3
<1>9. n.tx = d3
  BY <1>3 DEF WorkFields
<1> HIDE DEF n
<1> QED
  BY <1>1, <1>8, <1>9, FreshBecomes DEF FreshInv, storeVars

LEMMA WriteObjectIsFresh ==
  ASSUME LedgerInv, FreshInv, WriteObject
  PROVE  FreshInv'
<1> DEFINE w  == work[1]
           o  == w.snapshot.objects[w.offset + 1]
           tx == Upsert(w.tx, w.snapshot.process, o)
           n  == [w EXCEPT !.tx = tx, !.offset = @ + 1, !.remaining = @ - 1]
<1>1. work # <<>> /\ work' = <<n>> /\ UNCHANGED storeVars
  BY DEF WriteObject
<1>2. TrueWork(w) /\ Fresh(w.tx, past.born)
  BY <1>1 DEF LedgerInv, WorkInv, FreshInv
<1>3. TrueTables(w.tx) /\ w.snapshot.process \in Processes /\ DOMAIN w = WorkFields
  BY <1>2 DEF TrueWork, TrueSnapshot, Processes, NoProcess
<1> HIDE DEF w, o
<1>4. Fresh(tx, past.born)
  BY <1>2, <1>3, UpsertIsFresh DEF LedgerInv
<1> HIDE DEF tx
<1>5. n.tx = tx
  BY <1>3 DEF WorkFields
<1> HIDE DEF n
<1> QED
  BY <1>1, <1>4, <1>5, FreshBecomes

\* What a transaction has written is born when it is committed, told or not.
LEMMA CommitIsFresh ==
  ASSUME LedgerInv, FreshInv, NEW told \in BOOLEAN, CommitSlice(told)
  PROVE  FreshInv'
<1> DEFINE w    == work[1]
           born == past.born \cup Born(w.tx)
           d    == Written(w)
<1>1. /\ work # <<>> /\ work' = <<>> /\ tables' = d
      /\ past' = [past EXCEPT !.born = born, !.lost = IF told THEN @ ELSE @ + 1]
  BY DEF CommitSlice
<1>2. DOMAIN past' = {"born", "lost"} /\ past'.born = born
  BY <1>1 DEF FreshInv
<1>3. TrueWork(w) /\ Fresh(w.tx, past.born)
  BY <1>1 DEF LedgerInv, WorkInv, FreshInv
<1>4. /\ d.instances = w.tx.instances /\ d.tunnels = w.tx.tunnels
      /\ d.tunnelId = w.tx.tunnelId
  BY <1>3 DEF Written, TrueWork, TrueTables, TableFields
<1>5. Known(d, born) = Known(w.tx, past.born)
  BY <1>4 DEF Known, Born
<1> HIDE DEF w, d, born
<1>6. Fresh(d, born)
  BY <1>3, <1>4, <1>5 DEF Fresh
<1>7. Fresh(tables, past.born)'
  BY <1>1, <1>2, <1>6 DEF Fresh, Known, Born
<1> QED
  BY <1>1, <1>2, <1>7 DEF FreshInv

\* Retention takes a tunnel with its last instance, and its number is not used
\* again.
LEMMA PruneIsFresh ==
  ASSUME LedgerInv, FreshInv, Prune
  PROVE  FreshInv'
<1>1. work' = <<>> /\ past' = past
  BY DEF Prune
<1>2. PICK n \in {0, 1}, quiet \in BOOLEAN :
        LET cut == [tables EXCEPT !.rows = SubSeq(@, n + 1, Len(@)), !.pruned = @ \/ n > 0]
        IN  \E old \in SUBSET Expired(cut) :
              tables' = IF quiet THEN WithoutSources(WithoutInstances(cut, old))
                                 ELSE WithoutInstances(cut, old)
  BY DEF Prune
<1> DEFINE q   == SubSeq(tables.rows, n + 1, Len(tables.rows))
           z   == tables.pruned \/ n > 0
           cut == [tables EXCEPT !.rows = q, !.pruned = z]
<1>3. PICK old : tables' = IF quiet THEN WithoutSources(WithoutInstances(cut, old))
                                    ELSE WithoutInstances(cut, old)
  BY <1>2
<1> HIDE DEF q, z
<1>4. /\ DOMAIN cut = TableFields
      /\ cut.instances = tables.instances /\ cut.tunnels = tables.tunnels
      /\ cut.tunnelId = tables.tunnelId /\ DOMAIN cut.instances = Keys
  BY DEF LedgerInv, TablesInv, TrueTables, TableFields
<1> HIDE DEF cut
<1> DEFINE d == WithoutInstances(cut, old)
           last(t) == ~\E k \in DOMAIN cut.instances \ old :
                         cut.instances[k].tunnel = cut.tunnels[t].id
<1>5. /\ DOMAIN d = TableFields /\ d.tunnelId = cut.tunnelId
      /\ d.instances = [k \in Keys |-> IF k \in old THEN NoInstance ELSE cut.instances[k]]
      /\ d.tunnels = [t \in DOMAIN cut.tunnels |-> IF last(t) THEN NoTunnel ELSE cut.tunnels[t]]
  BY <1>4 DEF WithoutInstances, TableFields
<1> HIDE DEF last
<1>6. /\ tables'.instances = d.instances /\ tables'.tunnels = d.tunnels
      /\ tables'.tunnelId = d.tunnelId
  <2> HIDE DEF d
  <2>1. CASE quiet
    BY <1>3, <1>5, <2>1 DEF WithoutSources, TableFields, d
  <2>2. CASE ~quiet
    BY <1>3, <2>2 DEF d
  <2> QED
    BY <2>1, <2>2
<1> HIDE DEF d
<1>7. Fresh(tables, past.born)
  BY DEF FreshInv
<1>8. /\ tables'.tunnels \in [TunnelKeys -> Numbered]
      /\ \A t \in TunnelKeys : tables'.tunnels[t] \in {tables.tunnels[t], NoTunnel}
  <2>1. NoTunnel \in Numbered
    BY DEF NoTunnel, Numbered
  <2> QED
    BY <1>4, <1>5, <1>6, <1>7, <2>1 DEF Fresh
<1>9. Born(tables') \subseteq Known(tables, past.born)
  <2> SUFFICES ASSUME NEW k \in Keys, tables'.instances[k] # NoInstance
               PROVE  <<tables'.instances[k].tunnel, tables'.instances[k].generation,
                        tables'.instances[k].id>> \in Born(tables)
    BY <1>5, <1>6 DEF Born, Known
  <2>1. tables'.instances[k] = tables.instances[k]
    BY <1>4, <1>5, <1>6
  <2> QED
    BY <1>4, <2>1 DEF Born
<1>10. Fresh(tables', past.born)
  BY <1>4, <1>5, <1>6, <1>7, <1>8, <1>9, FewerAreFresh
<1>11. Fresh(tables, past.born)'
  BY <1>1, <1>10 DEF Fresh, Known, Born
<1> QED
  BY <1>1, <1>11 DEF FreshInv

------------------------------------------------------------------------------------
(* The theorem *)

LEMMA InitIsFresh ==
  ASSUME TunnelInit
  PROVE  FreshInv
<1>1. past = [born |-> {}, lost |-> 0] /\ tables = Empty /\ work = <<>>
  BY DEF TunnelInit
<1>2. /\ Empty.tunnelId = 0 /\ Empty.tunnels = [t \in TunnelKeys |-> NoTunnel]
      /\ Empty.instances = [k \in Keys |-> NoInstance]
  BY DEF Empty, TunnelKeys, Keys
<1>3. NoTunnel \in Numbered /\ NoTunnel.id = 0
  BY DEF NoTunnel, Numbered
<1>4. Known(Empty, {}) = {}
  BY <1>2 DEF Known, Born
<1>5. Fresh(Empty, {})
  BY <1>2, <1>3, <1>4 DEF Fresh
<1> QED
  BY <1>1, <1>5 DEF FreshInv

LEMMA StepIsFresh ==
  ASSUME LedgerInv, FreshInv, [TunnelNext]_tunnelVars
  PROVE  FreshInv'
<1>1. CASE BeginSlice
  BY <1>1, BeginIsFresh
<1>2. CASE WriteEvent
  BY <1>2, WriteEventIsFresh
<1>3. CASE WriteObject
  BY <1>3, WriteObjectIsFresh
<1>4. CASE CommitSlice(TRUE) \/ CommitSlice(FALSE)
  BY <1>4, CommitIsFresh
<1>5. CASE Prune
  BY <1>5, PruneIsFresh
<1>6. CASE SnapshotNothing \/ SnapshotNoObjects \/ LoseSlice
  <2>1. /\ tables' = tables /\ work' \in {work, <<>>}
        /\ past' = [past EXCEPT !.lost = @ + 1]
    BY <1>6 DEF SnapshotNothing, SnapshotNoObjects, LoseSlice
  <2>2. DOMAIN past' = DOMAIN past /\ past'.born = past.born
    BY <2>1 DEF FreshInv
  <2> QED
    BY <2>1, <2>2, FreshStays
<1>7. CASE (\E i \in Instances : Emit(i) \/ Retire(i)) \/ SnapshotEvents \/ SnapshotObjects
  <2>1. tables' = tables /\ work' = work /\ past' = past
    BY <1>7 DEF Emit, Retire, SnapshotEvents, SnapshotObjects, storeVars
  <2> QED
    BY <2>1, FreshStays
<1>8. CASE SkipSlice \/ Forget \/ Rebind \/ Learn
  <2>1. tables' = tables /\ work' = work /\ past' = past
    BY <1>8 DEF SkipSlice, Forget, Rebind, Learn, storeVars
  <2> QED
    BY <2>1, FreshStays
<1>9. CASE NativeRestart \/ Reconnect \/ MonitorRestart
  <2>1. tables' = tables /\ work' \in {work, <<>>} /\ past' = past
    BY <1>9 DEF NativeRestart, Reconnect, MonitorRestart, storeVars
  <2> QED
    BY <2>1, FreshStays
<1>10. CASE UNCHANGED tunnelVars
  <2>1. tables' = tables /\ work' = work /\ past' = past
    BY <1>10 DEF tunnelVars, storeVars
  <2> QED
    BY <2>1, FreshStays
<1> QED
  BY <1>1, <1>2, <1>3, <1>4, <1>5, <1>6, <1>7, <1>8, <1>9, <1>10
  DEF TunnelNext, Snapshot, Slice

\* A generation of a logical tunnel is given to one instance only, whatever is
\* pruned and whatever a transaction that failed had written (upsertTunnelInstance,
\* PruneTunnels, tunnel_generations).
THEOREM GenerationsAreFresh == TunnelSpec => []GenerationFresh
<1>1. FreshInv => GenerationFresh
  BY DEF FreshInv, Fresh, Known, GenerationFresh
<1>2. LedgerInv /\ FreshInv /\ [TunnelNext]_tunnelVars => FreshInv'
  BY StepIsFresh
<1> QED
  BY <1>1, <1>2, InitIsFresh, LedgerIsTrue, PTL DEF TunnelSpec

------------------------------------------------------------------------------------
(* The inventory: what the observer calls complete is in the database.  The  *)
(* argument is about time: a snapshot may come back, but only while nothing   *)
(* has happened since it was taken, and whatever was taken in between then    *)
(* shows the same objects.                                                    *)

\* What a state of the registry is in the database.
NativeKey(s) == IF s = "gone" THEN "closed" ELSE StateKey(s)

\* No snapshot to come ends earlier.
NextLength == IF frame # <<>> THEN LastSequence(frame[1]) ELSE Len(native.log)

Agree(a, b) ==
  \A m \in DOMAIN a.objects, n \in DOMAIN b.objects :
    a.objects[m].of = b.objects[n].of => StateKey(a.objects[m].state) = StateKey(b.objects[n].state)

\* A snapshot after which nothing has happened shows what there is.
Mirrors(v) ==
  LastSequence(v) = Len(native.log) =>
    \A n \in DOMAIN v.objects :
      StateKey(v.objects[n].state) = NativeKey(native.state[v.objects[n].of])

\* A hash is a snapshot and where it was seen: its binding and its session.
Fitting(h) ==
  /\ TrueSnapshot(h[1]) /\ h[1].objects \in Seq(Events) /\ Agree(h[1], h[1])
  /\ h[1].process = NoProcess => h[1].events = <<>> /\ h[1].objects = <<>>
  /\ h[2] \in 1 .. known /\ h[3] \in 1 .. collector
  /\ h[3] = collector /\ h[1].process # NoProcess =>
       /\ h[1].process = native.process
       /\ LastSequence(h[1]) <= NextLength
       /\ Mirrors(h[1])

Both(g, h) == g[3] = collector /\ g[1].process # NoProcess /\ h[1].process # NoProcess

\* One was taken no later than the other.
Earlier(g, h) ==
  /\ g[2] <= h[2] /\ g[3] <= h[3]
  /\ Both(g, h) =>
       /\ LastSequence(g[1]) <= LastSequence(h[1])
       /\ LastSequence(g[1]) = NextLength => Agree(g[1], h[1])

\* One that came back shows what was taken in between.
Returned(g, h) == Both(g, h) /\ report # <<>> /\ report[1] = g[1] => Agree(g[1], h[1])

Current(h) == h[3] = collector /\ h[2] = known /\ known = binding /\ h[1].process # NoProcess

\* The snapshot may be the newest one, now or later.
Live(v) == LastSequence(v) = NextLength \/ (report # <<>> /\ report[1] = v)

\* The first k objects are in the database.
StoredTo(d, v, k) ==
  \A n \in 1 .. k :
    LET o == v.objects[n]
        i == d.instances[InstanceKey(v.process, o.of)]
    IN  StateKey(o.state) # "closed" => i # NoInstance /\ StateKey(i.state) = StateKey(o.state)

RegistryInv ==
  /\ native.state \in [Instances -> States]
  /\ known \in 1 .. binding /\ collector \in Nat \ {0}
  /\ frame # <<>> => /\ frame[1].process = native.process /\ frame[1].objects \in Seq(Events)
                     /\ LastSequence(frame[1]) <= Len(native.log)

HashInv ==
  /\ report # <<>> => Fitting(Hash)
  /\ observer # <<>> => Fitting(observer[1].hash) /\ observer[1].offset \in Nat
  /\ work # <<>> => Fitting(work[1].hash) /\ work[1].offset \in Nat

OrderInv ==
  /\ observer # <<>> /\ report # <<>> => Earlier(observer[1].hash, Hash)
  /\ work # <<>> /\ report # <<>> => Earlier(work[1].hash, Hash)
  /\ observer # <<>> /\ work # <<>> =>
       Earlier(observer[1].hash, work[1].hash) /\ Returned(observer[1].hash, work[1].hash)

\* What the observer o believes is true of the tables.
SeenObjects(o) ==
  LET h == o.hash
      k == o.offset
  IN  Current(h) =>
        /\ k <= Len(h[1].objects)
        /\ o.complete => k = Len(h[1].objects)
        /\ k > 0 => LastSequence(h[1]) <= tables.sources[<<Scope, h[1].process>>].last
        /\ Live(h[1]) => StoredTo(tables, h[1], k)

\* A slice has the snapshot it was begun with, and what it writes is in its copy.
Copied(w) ==
  LET h == w.hash
      v == w.snapshot
  IN  /\ h[1].process = NoProcess => v.events = <<>> /\ v.objects = <<>>
      /\ h[1].process # NoProcess => v = h[1]
      /\ tables.sources[<<Scope, v.process>>].last <= w.processed
      /\ Current(h) => /\ w.offset <= Len(v.objects)
                       /\ w.offset > 0 => LastSequence(v) <= w.processed
                       /\ StoredTo(w.tx, v, w.offset)

\* The copy has what the observer believes to be in the tables.
Covered(o, w) == Current(o.hash) /\ Live(o.hash[1]) => StoredTo(w.tx, o.hash[1], o.offset)

StoredInv ==
  /\ observer # <<>> => SeenObjects(observer[1])
  /\ work # <<>> => Copied(work[1])
  /\ observer # <<>> /\ work # <<>> => Covered(observer[1], work[1])

InventoryInv == RegistryInv /\ HashInv /\ OrderInv /\ StoredInv

------------------------------------------------------------------------------------
(* Snapshots *)

LEMMA ObjectsType ==
  ASSUME NEW q \in Seq(Events)
  PROVE  /\ Len(q) \in Nat /\ DOMAIN q = 1 .. Len(q)
         /\ \A n \in DOMAIN q : q[n] \in Events /\ q[n].of \in Instances
<1>1. /\ Len(q) \in Nat /\ DOMAIN q = 1 .. Len(q)
      /\ \A n \in DOMAIN q : q[n] \in Events
  OBVIOUS
<1>2. \A e \in Events : e.of \in Instances
  BY DEF Events
<1> QED
  BY <1>1, <1>2

\* An object is shown as it is stored.
LEMMA ShownKey ==
  ASSUME RegistryInv, NEW o \in Events
  PROVE  Shown(o) \in Events /\ Shown(o).of = o.of
         /\ StateKey(Shown(o).state) = NativeKey(native.state[o.of])
<1>1. o.of \in Instances /\ native.state[o.of] \in States
  BY DEF Events, RegistryInv
<1>2. Shown(o) = [of |-> o.of, state |-> IF native.state[o.of] = "gone" THEN "settled"
                                         ELSE native.state[o.of]]
  BY DEF Shown, Events
<1> QED
  BY <1>1, <1>2 DEF Events, States, StateKey, NativeKey

LEMMA LengthType ==
  ASSUME LedgerInv, RegistryInv
  PROVE  /\ NextLength \in Int /\ Len(native.log) \in Nat /\ NextLength <= Len(native.log)
         /\ frame # <<>> => LastSequence(frame[1]) \in Int /\ NextLength = LastSequence(frame[1])
         /\ frame = <<>> => NextLength = Len(native.log)
BY LastSequenceType DEF LedgerInv, AgentInv, RegistryInv, NextLength

\* The list of a snapshot being taken ends with the last event.
LEMMA FrameLength ==
  ASSUME NEW log \in Seq(Events), NEW v,
         v.first = IF log = <<>> THEN 0 ELSE First(log),
         v.events = SubSeq(log, First(log), Len(log))
  PROVE  LastSequence(v) = Len(log)
<1>1. First(log) \in Nat \ {0} /\ (log # <<>> => First(log) <= Len(log)) /\ Len(log) \in Nat
  BY TunnelAssumption DEF First
<1>2. CASE log = <<>>
  BY <1>1, <1>2 DEF LastSequence
<1>3. CASE log # <<>>
  <2> DEFINE f == First(log)
             q == SubSeq(log, f, Len(log))
  <2>1. f \in Nat \ {0} /\ f <= Len(log)
    BY <1>1, <1>3
  <2> HIDE DEF f
  <2>2. q \in Seq(Events) /\ Len(q) = Len(log) - f + 1
    BY <2>1
  <2>3. v.events = q /\ v.first = f
    BY <1>3 DEF f
  <2> HIDE DEF q
  <2>4. q # <<>>
    BY <1>1, <2>1, <2>2
  <2> QED
    BY <1>1, <2>1, <2>2, <2>3, <2>4 DEF LastSequence
<1> QED
  BY <1>2, <1>3

LEMMA InventoryType ==
  ASSUME RegistryInv, NEW objects \in Inventories
  PROVE  objects \in Seq(Events)
<1> DEFINE S == {i \in Instances : native.state[i] \notin {"none", "gone"}}
<1>1. PICK open \in Listed(S) :
        objects = [n \in DOMAIN open |-> [of |-> open[n], state |-> native.state[open[n]]]]
  BY DEF Inventories
<1>2. IsFiniteSet(S)
  <2>1. IsFiniteSet(1 .. MaxInstances) /\ S \subseteq 1 .. MaxInstances
    BY FS_Interval, TunnelAssumption DEF Instances
  <2> QED
    BY <2>1, FS_Subset
<1>3. Cardinality(S) \in Nat
  BY <1>2, FS_CardinalityType
<1>4. open \in [1 .. Cardinality(S) -> Instances]
  BY <1>1 DEF Listed
<1> HIDE DEF S
<1>5. objects \in [1 .. Cardinality(S) -> Events]
  BY <1>1, <1>4 DEF Events, RegistryInv
<1> QED
  BY <1>3, <1>5

------------------------------------------------------------------------------------
(* The process and its snapshots *)

\* Time goes on: an event, or nothing that a snapshot would show.
Moves ==
  /\ native'.process = native.process
  /\ NextLength' \in Int /\ NextLength <= NextLength'
  /\ \/ /\ native'.log = native.log
        /\ \A i \in Instances : NativeKey(native'.state[i]) = NativeKey(native.state[i])
     \/ Len(native'.log) \in Nat /\ Len(native'.log) > Len(native.log)
  /\ UNCHANGED <<collector, known, binding>>

LEMMA OldFits ==
  ASSUME LedgerInv, RegistryInv, Moves, NEW h, Fitting(h)
  PROVE  Fitting(h)'
<1>1. LastSequence(h[1]) \in Int
  BY LastSequenceType DEF Fitting
<1>2. (/\ TrueSnapshot(h[1]) /\ h[1].objects \in Seq(Events) /\ Agree(h[1], h[1])
       /\ h[1].process = NoProcess => h[1].events = <<>> /\ h[1].objects = <<>>
       /\ h[2] \in 1 .. known /\ h[3] \in 1 .. collector)'
  BY DEF Fitting, Moves, TrueSnapshot, Agree
<1>3. ASSUME h[3] = collector, h[1].process # NoProcess
      PROVE  (h[1].process = native.process /\ LastSequence(h[1]) <= NextLength)'
  BY <1>1, <1>3, LengthType DEF Fitting, Moves, LastSequence
<1>4. ASSUME h[3] = collector, h[1].process # NoProcess
      PROVE  Mirrors(h[1])'
  <2>1. LastSequence(h[1]) <= NextLength /\ Mirrors(h[1])
    BY <1>4 DEF Fitting
  <2>2. LastSequence(h[1])' = LastSequence(h[1])
    BY DEF LastSequence
  <2>3. CASE Len(native'.log) \in Nat /\ Len(native'.log) > Len(native.log)
    BY <1>1, <2>1, <2>2, <2>3, LengthType DEF Mirrors
  <2>4. CASE /\ native'.log = native.log
             /\ \A i \in Instances : NativeKey(native'.state[i]) = NativeKey(native.state[i])
    <3>1. \A n \in DOMAIN h[1].objects : h[1].objects[n].of \in Instances
      BY ObjectsType DEF Fitting
    <3> QED
      BY <2>1, <2>2, <2>4, <3>1 DEF Mirrors, StateKey, NativeKey
  <2> QED
    BY <2>3, <2>4 DEF Moves
<1> QED
  BY <1>2, <1>3, <1>4 DEF Fitting, Moves

LEMMA OldOrder ==
  ASSUME LedgerInv, RegistryInv, Moves, NEW g, NEW h, Fitting(g), Earlier(g, h)
  PROVE  Earlier(g, h)'
<1>1. LastSequence(g[1]) \in Int
  BY LastSequenceType DEF Fitting
<1>2. /\ LastSequence(g[1])' = LastSequence(g[1]) /\ LastSequence(h[1])' = LastSequence(h[1])
      /\ Agree(g[1], h[1])' = Agree(g[1], h[1]) /\ Both(g, h)' = Both(g, h)
  BY DEF LastSequence, Agree, Both, Moves, StateKey
<1>3. Both(g, h) /\ LastSequence(g[1]) = NextLength' => LastSequence(g[1]) = NextLength
  BY <1>1, LengthType DEF Both, Fitting, Moves
<1> QED
  BY <1>2, <1>3 DEF Earlier

\* A new report has no process, or it ends where the one being taken does.
Reports ==
  /\ report' # <<>>
  /\ \/ report'[1].process = NoProcess
     \/ /\ LastSequence(report'[1]) = NextLength
        /\ NextLength' = Len(native.log) /\ native' = native

\* What was seen before the new report is in order with it, and can be live only
\* if it was.
LEMMA NewOrder ==
  ASSUME LedgerInv, RegistryInv, Moves, Reports, NEW g, NEW h, h = Hash',
         Fitting(g), Fitting(g)', Fitting(h)'
  PROVE  /\ Earlier(g, h)'
         /\ report'[1] = g[1] /\ Both(g, g) => LastSequence(g[1]) = NextLength
<1> PICK r : r = report'[1]
  OBVIOUS
<1>1. h = <<r, known', collector'>>
  BY DEF Hash
<1>2. g[2] <= h[2] /\ g[3] <= h[3]
  BY <1>1 DEF Fitting, Moves
<1>3. ASSUME Both(g, h)'
      PROVE  /\ LastSequence(g[1])' <= LastSequence(h[1])'
             /\ LastSequence(g[1])' = NextLength' => Agree(g[1], h[1])'
  <2>1. /\ LastSequence(r) = NextLength /\ NextLength' = Len(native.log) /\ native' = native
        /\ h[1] = r
    BY <1>1, <1>3 DEF Reports, Both
  <2>2. LastSequence(g[1]) <= NextLength /\ LastSequence(g[1]) \in Int
    BY <1>3, LastSequenceType DEF Fitting, Both, Moves
  <2>3. LastSequence(g[1])' = LastSequence(g[1]) /\ LastSequence(h[1])' = LastSequence(r)
    BY <2>1 DEF LastSequence
  <2>4. ASSUME LastSequence(g[1])' = NextLength'
        PROVE  Agree(g[1], h[1])'
    <3>1. LastSequence(g[1])' = Len(native.log)' /\ LastSequence(h[1])' = Len(native.log)'
      BY <2>1, <2>2, <2>3, <2>4, LengthType
    <3>2. Mirrors(g[1])' /\ Mirrors(h[1])'
      BY <1>1, <1>2, <1>3 DEF Fitting, Both
    <3> QED
      BY <3>1, <3>2 DEF Mirrors, Agree, StateKey, NativeKey
  <2> QED
    BY <2>1, <2>2, <2>3, <2>4
<1>4. Earlier(g, h)'
  BY <1>2, <1>3 DEF Earlier
<1>5. report'[1] = g[1] /\ Both(g, g) => LastSequence(g[1]) = NextLength
  BY DEF Reports, Both, Fitting
<1> QED
  BY <1>4, <1>5

\* The beliefs about the tables stay true, for nothing becomes live.
LEMMA SeenStays ==
  ASSUME NEW o, SeenObjects(o), UNCHANGED <<tables, side, collector, known, binding>>,
         Current(o.hash) /\ Live(o.hash[1])' => Live(o.hash[1])
  PROVE  SeenObjects(o)'
<1>1. /\ Current(o.hash)' = Current(o.hash) /\ Scope' = Scope
      /\ LastSequence(o.hash[1])' = LastSequence(o.hash[1])
  BY DEF Current, Scope, LastSequence
<1>2. StoredTo(tables, o.hash[1], o.offset)' = StoredTo(tables, o.hash[1], o.offset)
  BY DEF StoredTo, InstanceKey, Owner, StateKey
<1> QED
  BY <1>1, <1>2 DEF SeenObjects

LEMMA CopiedStays ==
  ASSUME NEW w, Copied(w), UNCHANGED <<tables, side, collector, known, binding>>
  PROVE  Copied(w)'
<1>1. /\ Current(w.hash)' = Current(w.hash) /\ Scope' = Scope
      /\ LastSequence(w.snapshot)' = LastSequence(w.snapshot)
  BY DEF Current, Scope, LastSequence
<1>2. StoredTo(w.tx, w.snapshot, w.offset)' = StoredTo(w.tx, w.snapshot, w.offset)
  BY DEF StoredTo, InstanceKey, Owner, StateKey
<1> QED
  BY <1>1, <1>2 DEF Copied

LEMMA CoveredStays ==
  ASSUME NEW o, NEW w, Covered(o, w), UNCHANGED <<side, collector, known, binding>>,
         Current(o.hash) /\ Live(o.hash[1])' => Live(o.hash[1])
  PROVE  Covered(o, w)'
<1>1. /\ Current(o.hash)' = Current(o.hash)
      /\ StoredTo(w.tx, o.hash[1], o.offset)' = StoredTo(w.tx, o.hash[1], o.offset)
  BY DEF Current, StoredTo, InstanceKey, Owner, StateKey
<1> QED
  BY <1>1 DEF Covered

\* What becomes live was live already.
LEMMA LiveBefore ==
  ASSUME LedgerInv, RegistryInv, Moves, report' = report \/ (Reports /\ Fitting(Hash)'),
         NEW g, Fitting(g), Current(g), Live(g[1])'
  PROVE  Live(g[1])
<1>1. /\ LastSequence(g[1]) \in Int /\ LastSequence(g[1])' = LastSequence(g[1])
      /\ LastSequence(g[1]) <= NextLength /\ Both(g, g)
  BY LastSequenceType DEF Fitting, Current, Both, LastSequence
<1>2. CASE LastSequence(g[1]) = NextLength'
  BY <1>1, <1>2, LengthType DEF Moves, Live
<1>3. CASE report' # <<>> /\ report'[1] = g[1]
  <2>1. CASE report' = report
    BY <1>3, <2>1 DEF Live
  <2>2. CASE Reports
    BY <1>1, <1>3, <2>2 DEF Live, Reports, Both
  <2> QED
    BY <2>1, <2>2
<1> QED
  BY <1>1, <1>2, <1>3 DEF Live

LEMMA AgentKeeps ==
  ASSUME LedgerInv, InventoryInv, Moves, RegistryInv',
         UNCHANGED <<side, observer, work, tables>>,
         report' = report \/ (Reports /\ Fitting(Hash)')
  PROVE  InventoryInv'
<1> USE DEF InventoryInv
<1>1. HashInv'
  <2>1. report' = report /\ report # <<>> => Fitting(Hash)'
    <3> SUFFICES ASSUME report' = report, report # <<>> PROVE Fitting(Hash)'
      OBVIOUS
    <3> PICK h : h = Hash
      OBVIOUS
    <3>1. Hash' = h
      BY DEF Hash, Moves
    <3>2. Fitting(h)'
      BY OldFits DEF HashInv
    <3> QED
      BY <3>1, <3>2 DEF Fitting, TrueSnapshot, Agree, LastSequence, Mirrors
  <2>2. observer # <<>> => (Fitting(observer[1].hash) /\ observer[1].offset \in Nat)'
    <3> SUFFICES ASSUME observer # <<>>
                 PROVE  (Fitting(observer[1].hash) /\ observer[1].offset \in Nat)'
      OBVIOUS
    <3> PICK h : h = observer[1].hash
      OBVIOUS
    <3>1. Fitting(h)'
      BY OldFits DEF HashInv
    <3> QED
      BY <3>1 DEF HashInv, Fitting, TrueSnapshot, Agree, LastSequence, Mirrors
  <2>3. work # <<>> => (Fitting(work[1].hash) /\ work[1].offset \in Nat)'
    <3> SUFFICES ASSUME work # <<>>
                 PROVE  (Fitting(work[1].hash) /\ work[1].offset \in Nat)'
      OBVIOUS
    <3> PICK h : h = work[1].hash
      OBVIOUS
    <3>1. Fitting(h)'
      BY OldFits DEF HashInv
    <3> QED
      BY <3>1 DEF HashInv, Fitting, TrueSnapshot, Agree, LastSequence, Mirrors
  <2> QED
    <3>1. observer' # <<>> => (Fitting(observer[1].hash) /\ observer[1].offset \in Nat)'
      BY <2>2
    <3>2. work' # <<>> => (Fitting(work[1].hash) /\ work[1].offset \in Nat)'
      BY <2>3
    <3>3. report' # <<>> => Fitting(Hash)'
      BY <2>1
    <3> QED
      BY <3>1, <3>2, <3>3 DEF HashInv
<1>2. OrderInv'
  <2>1. ASSUME NEW g, Fitting(g), Earlier(g, Hash) \/ report = <<>>, report' # <<>>,
               NEW h, h = Hash'
        PROVE  Earlier(g, h)'
    <3>1. CASE report' = report
      <4>1. h = Hash
        BY <2>1, <3>1 DEF Hash, Moves
      <4> QED
        BY <2>1, <3>1, <4>1, OldOrder
    <3>2. CASE Reports /\ Fitting(Hash)'
      <4>1. Fitting(h)'
        BY <2>1, <3>2 DEF Fitting, TrueSnapshot, Agree, LastSequence, Mirrors
      <4> QED
        BY <2>1, <3>2, <4>1, OldFits, NewOrder
    <3> QED
      BY <3>1, <3>2
  <2>2. observer # <<>> /\ report' # <<>> => Earlier(observer[1].hash, Hash)'
    <3> SUFFICES ASSUME observer # <<>>, report' # <<>>
                 PROVE  Earlier(observer[1].hash, Hash)'
      OBVIOUS
    <3> PICK g, h : g = observer[1].hash /\ h = Hash'
      OBVIOUS
    <3>1. Earlier(g, h)'
      BY <2>1 DEF HashInv, OrderInv
    <3> QED
      BY <3>1 DEF Earlier, Both, LastSequence, Agree
  <2>3. work # <<>> /\ report' # <<>> => Earlier(work[1].hash, Hash)'
    <3> SUFFICES ASSUME work # <<>>, report' # <<>>
                 PROVE  Earlier(work[1].hash, Hash)'
      OBVIOUS
    <3> PICK g, h : g = work[1].hash /\ h = Hash'
      OBVIOUS
    <3>1. Earlier(g, h)'
      BY <2>1 DEF HashInv, OrderInv
    <3> QED
      BY <3>1 DEF Earlier, Both, LastSequence, Agree
  <2>4. observer # <<>> /\ work # <<>> =>
          (Earlier(observer[1].hash, work[1].hash) /\ Returned(observer[1].hash, work[1].hash))'
    <3> SUFFICES ASSUME observer # <<>>, work # <<>>
                 PROVE  (Earlier(observer[1].hash, work[1].hash)
                         /\ Returned(observer[1].hash, work[1].hash))'
      OBVIOUS
    <3> PICK g, h : g = observer[1].hash /\ h = work[1].hash
      OBVIOUS
    <3>1. Fitting(g) /\ Earlier(g, h) /\ Returned(g, h)
      BY DEF HashInv, OrderInv
    <3>2. Earlier(g, h)' /\ Fitting(g)'
      BY <3>1, OldOrder, OldFits
    <3>3. ASSUME Both(g, h), report' # <<>>, report'[1] = g[1]
          PROVE  Agree(g[1], h[1])
      <4>1. CASE report' = report
        BY <3>1, <3>3, <4>1 DEF Returned
      <4>2. CASE Reports
        BY <3>1, <3>3, <4>2 DEF Reports, Both, Earlier
      <4> QED
        BY <4>1, <4>2
    <3>4. Returned(g, h)'
      BY <3>3 DEF Returned, Both, Moves
    <3> QED
      BY <3>2, <3>4 DEF Earlier, Both, LastSequence, Agree, Returned
  <2> QED
    BY <2>2, <2>3, <2>4 DEF OrderInv
<1>3. StoredInv'
  <2>1. ASSUME NEW o, o = observer[1], observer # <<>>
        PROVE  Current(o.hash) /\ Live(o.hash[1])' => Live(o.hash[1])
    <3> PICK g : g = o.hash
      OBVIOUS
    <3>1. Current(g) /\ Live(g[1])' => Live(g[1])
      BY <2>1, LiveBefore DEF HashInv
    <3> QED
      BY <3>1
  <2>2. observer # <<>> => SeenObjects(observer[1])'
    <3> SUFFICES ASSUME observer # <<>> PROVE SeenObjects(observer[1])'
      OBVIOUS
    <3> PICK o : o = observer[1]
      OBVIOUS
    <3>1. SeenObjects(o)'
      BY <2>1, SeenStays DEF StoredInv, Moves
    <3> QED
      BY <3>1 DEF SeenObjects, Current, Live, StoredTo, LastSequence
  <2>3. work # <<>> => Copied(work[1])'
    <3> SUFFICES ASSUME work # <<>> PROVE Copied(work[1])'
      OBVIOUS
    <3> PICK w : w = work[1]
      OBVIOUS
    <3>1. Copied(w)'
      BY CopiedStays DEF StoredInv, Moves
    <3> QED
      BY <3>1 DEF Copied, Current, StoredTo, LastSequence
  <2>4. observer # <<>> /\ work # <<>> => Covered(observer[1], work[1])'
    <3> SUFFICES ASSUME observer # <<>>, work # <<>> PROVE Covered(observer[1], work[1])'
      OBVIOUS
    <3> PICK o, w : o = observer[1] /\ w = work[1]
      OBVIOUS
    <3>1. Covered(o, w)'
      BY <2>1, CoveredStays DEF StoredInv, Moves
    <3> QED
      BY <3>1 DEF Covered, Current, Live, StoredTo, LastSequence
  <2> QED
    BY <2>2, <2>3, <2>4 DEF StoredInv
<1> QED
  BY <1>1, <1>2, <1>3

LEMMA EmitStored ==
  ASSUME LedgerInv, InventoryInv, NEW i \in Instances, Emit(i)
  PROVE  InventoryInv'
<1>1. PICK s \in Follows(native.state[i]) :
        native' = [native EXCEPT !.state[i] = s, !.log = Append(@, [of |-> i, state |-> s])]
  BY DEF Emit
<1> DEFINE e == [of |-> i, state |-> s]
<1>2. /\ native'.process = native.process /\ native'.log = Append(native.log, e)
      /\ native'.state = [native.state EXCEPT ![i] = s]
  BY <1>1 DEF LedgerInv, AgentInv
<1>3. e \in Events /\ s \in States
  BY FollowsType DEF Events
<1>4. UNCHANGED <<side, frame, collector, report, known, binding, observer, work, tables>>
  BY DEF Emit, monitorVars, storeVars
<1> HIDE DEF e
<1>5. /\ native.log \in Seq(Events) /\ Len(native'.log) = Len(native.log) + 1
      /\ Len(native.log) \in Nat
  BY <1>2, <1>3 DEF LedgerInv, AgentInv
<1>6. RegistryInv'
  BY <1>2, <1>3, <1>4, <1>5, LengthType DEF InventoryInv, RegistryInv, LastSequence
<1>7. Moves
  <2>1. CASE frame = <<>>
    <3>1. NextLength = Len(native.log) /\ NextLength' = Len(native'.log)
      BY <1>4, <2>1 DEF NextLength
    <3> QED
      BY <1>2, <1>4, <1>5, <3>1 DEF Moves
  <2>2. CASE frame # <<>>
    <3>1. NextLength' = NextLength
      BY <1>4, <2>2 DEF NextLength, LastSequence
    <3> QED
      BY <1>2, <1>4, <1>5, <3>1, LengthType DEF Moves, InventoryInv
  <2> QED
    BY <2>1, <2>2
<1> QED
  BY <1>4, <1>6, <1>7, AgentKeeps

LEMMA RetireStored ==
  ASSUME LedgerInv, InventoryInv, NEW i \in Instances, Retire(i)
  PROVE  InventoryInv'
<1>1. /\ native.state[i] \in {"closed", "settled"}
      /\ native' = [native EXCEPT !.state[i] = "gone"]
      /\ UNCHANGED <<side, frame, collector, report, known, binding, observer, work, tables>>
  BY DEF Retire, monitorVars, storeVars
<1>2. /\ native'.process = native.process /\ native'.log = native.log
      /\ native'.state = [native.state EXCEPT ![i] = "gone"]
  BY <1>1 DEF LedgerInv, AgentInv
<1>3. RegistryInv'
  BY <1>1, <1>2 DEF InventoryInv, RegistryInv, LastSequence, States
<1>4. \A j \in Instances : NativeKey(native'.state[j]) = NativeKey(native.state[j])
  BY <1>1, <1>2 DEF InventoryInv, RegistryInv, NativeKey, StateKey
<1>5. NextLength' = NextLength
  BY <1>1, <1>2 DEF NextLength, LastSequence
<1>6. Moves
  BY <1>1, <1>2, <1>4, <1>5, LengthType DEF Moves, InventoryInv
<1> QED
  BY <1>1, <1>3, <1>6, AgentKeeps

LEMMA SnapshotEventsStored ==
  ASSUME LedgerInv, InventoryInv, SnapshotEvents
  PROVE  InventoryInv'
<1> DEFINE log == native.log
<1>1. PICK objects \in Inventories :
        frame' = <<[Blank EXCEPT !.process = native.process,
                                 !.first   = IF log = <<>> THEN 0 ELSE First(log),
                                 !.events  = SubSeq(log, First(log), Len(log)),
                                 !.objects = objects,
                                 !.dropped = IF Len(log) > Ring THEN Len(log) - Ring ELSE 0]>>
  BY DEF SnapshotEvents
<1>2. /\ frame = <<>>
      /\ UNCHANGED <<side, native, collector, report, known, binding, observer, work, tables>>
  BY DEF SnapshotEvents, monitorVars, storeVars
<1> PICK v : v = frame'[1]
  OBVIOUS
<1>3. /\ frame' = <<v>> /\ v.process = native.process /\ v.objects = objects
      /\ v.first = IF log = <<>> THEN 0 ELSE First(log)
      /\ v.events = SubSeq(log, First(log), Len(log))
  BY <1>1 DEF Blank
<1>4. LastSequence(v) = Len(log) /\ Len(log) \in Nat
  BY <1>3, FrameLength DEF LedgerInv, AgentInv
<1>5. objects \in Seq(Events)
  BY InventoryType DEF InventoryInv
<1>6. LastSequence(frame[1])' = Len(log)
  BY <1>3, <1>4 DEF LastSequence
<1>7. NextLength = Len(log) /\ NextLength' = Len(log)
  BY <1>2, <1>3, <1>6 DEF NextLength
<1>8. RegistryInv'
  BY <1>2, <1>3, <1>4, <1>5, <1>6 DEF InventoryInv, RegistryInv
<1>9. Moves
  BY <1>2, <1>4, <1>7 DEF Moves
<1> QED
  BY <1>2, <1>8, <1>9, AgentKeeps

LEMMA SnapshotNothingStored ==
  ASSUME LedgerInv, InventoryInv, SnapshotNothing
  PROVE  InventoryInv'
<1>1. /\ report' = <<Blank>>
      /\ UNCHANGED <<side, native, frame, collector, known, binding, observer, work, tables>>
  BY DEF SnapshotNothing, agentVars
<1>2. NextLength' = NextLength
  BY <1>1 DEF NextLength, LastSequence
<1>3. Moves /\ RegistryInv'
  BY <1>1, <1>2, LengthType DEF Moves, InventoryInv, RegistryInv, LastSequence
<1>4. Blank.process = NoProcess /\ Blank.events = <<>> /\ Blank.objects = <<>>
  BY DEF Blank
<1> PICK h : h = Hash'
  OBVIOUS
<1>5. h = <<Blank, known, collector>>
  BY <1>1 DEF Hash
<1>6. Fitting(h)'
  <2>1. TrueSnapshot(h[1])'
    BY <1>5, BlankIsTrue DEF TrueSnapshot
  <2>2. h[1].objects = <<>> /\ Agree(h[1], h[1])'
    BY <1>4, <1>5 DEF Agree
  <2>3. <<>> \in Seq(Events)
    OBVIOUS
  <2>4. known \in 1 .. known /\ collector \in 1 .. collector
    BY DEF InventoryInv, RegistryInv
  <2>5. /\ h[1].process = NoProcess /\ h[1].events = <<>> /\ h[1].objects \in Seq(Events)
        /\ h[2] = known' /\ h[3] = collector'
    <3>1. h[1] = Blank /\ h[2] = known /\ h[3] = collector
      BY <1>5
    <3>2. h[1].objects \in Seq(Events)
      BY <2>2, <2>3
    <3> QED
      BY <1>1, <1>4, <3>1, <3>2
  <2> QED
    BY <1>1, <2>1, <2>2, <2>4, <2>5 DEF Fitting
<1>7. Reports /\ Fitting(Hash)'
  <2>1. report'[1].process = NoProcess /\ report' # <<>>
    BY <1>1, <1>4
  <2> QED
    BY <1>6, <2>1 DEF Reports, Fitting, TrueSnapshot, Agree, LastSequence, Mirrors
<1> QED
  BY <1>1, <1>3, <1>7, AgentKeeps

\* A snapshot that is taken ends where its list of events does, and shows what
\* there is.
LEMMA SnapshotTakenStored ==
  ASSUME LedgerInv, InventoryInv, SnapshotObjects \/ SnapshotNoObjects
  PROVE  InventoryInv'
<1> PICK f : f = frame[1]
  OBVIOUS
<1>1. /\ frame # <<>> /\ frame' = <<>>
      /\ UNCHANGED <<side, native, collector, known, binding, observer, work, tables>>
  BY DEF SnapshotObjects, SnapshotNoObjects, storeVars
<1>2. /\ TrueSnapshot(f) /\ f.process = native.process /\ f.objects \in Seq(Events)
      /\ LastSequence(f) = NextLength /\ NextLength <= Len(native.log)
  BY <1>1, LengthType DEF LedgerInv, AgentInv, InventoryInv, RegistryInv
<1>3. PICK state, objects :
        /\ report' = <<[f EXCEPT !.state = state, !.objects = objects]>>
        /\ \/ objects = <<>>
           \/ objects = [n \in DOMAIN f.objects |-> Shown(f.objects[n])]
  BY DEF SnapshotObjects, SnapshotNoObjects
<1> PICK r : r = report'[1]
  OBVIOUS
<1>4. /\ r.process = native.process /\ r.objects = objects
      /\ r.events = f.events /\ r.first = f.first
      /\ report' # <<>>
  BY <1>2, <1>3 DEF TrueSnapshot, SnapshotFields
<1>5. /\ objects \in Seq(Events)
      /\ \A n \in DOMAIN objects :
           StateKey(objects[n].state) = NativeKey(native.state[objects[n].of])
  <2>1. CASE objects = <<>>
    BY <2>1
  <2>2. CASE objects = [n \in DOMAIN f.objects |-> Shown(f.objects[n])]
    <3>1. \A n \in DOMAIN f.objects :
            /\ Shown(f.objects[n]) \in Events
            /\ StateKey(Shown(f.objects[n]).state)
                 = NativeKey(native.state[Shown(f.objects[n]).of])
      BY <1>2, ObjectsType, ShownKey DEF InventoryInv
    <3>2. DOMAIN f.objects = 1 .. Len(f.objects) /\ Len(f.objects) \in Nat
      BY <1>2, ObjectsType
    <3>3. objects \in [1 .. Len(f.objects) -> Events]
      BY <2>2, <3>1, <3>2
    <3> QED
      BY <2>2, <3>1, <3>2, <3>3
  <2> QED
    BY <1>3, <2>1, <2>2
<1>6. LastSequence(r) = NextLength /\ NextLength' = Len(native.log)
  BY <1>1, <1>2, <1>4 DEF LastSequence, NextLength
<1>7. Moves /\ RegistryInv'
  BY <1>1, <1>2, <1>6, LengthType DEF Moves, InventoryInv, RegistryInv
<1> PICK h : h = Hash'
  OBVIOUS
<1>8. h = <<r, known, collector>>
  BY <1>1 DEF Hash
<1>9. Fitting(h)'
  <2>1. TrueSnapshot(r)'
    <3>1. TrueSnapshot(report'[1])
      BY SnapshotObjectsStep, <1>4 DEF LedgerInv, MonitorInv, TrueSnapshot
    <3> QED
      BY <3>1 DEF TrueSnapshot
  <2>2. Agree(r, r)' /\ Mirrors(r)'
    BY <1>1, <1>4, <1>5 DEF Agree, Mirrors, StateKey, NativeKey
  <2>3. r.process # NoProcess
    BY <1>4 DEF LedgerInv, AgentInv, Processes, NoProcess
  <2>4. LastSequence(r)' = LastSequence(r)
    BY DEF LastSequence
  <2> QED
    BY <1>1, <1>2, <1>4, <1>5, <1>6, <1>8, <2>1, <2>2, <2>3, <2>4
    DEF Fitting, InventoryInv, RegistryInv
<1>10. Reports /\ Fitting(Hash)'
  BY <1>1, <1>4, <1>6, <1>9 DEF Reports, Fitting, TrueSnapshot, Agree, LastSequence, Mirrors
<1> QED
  BY <1>1, <1>7, <1>10, AgentKeeps

------------------------------------------------------------------------------------
(* Restarts and bindings: nothing seen before is current any more *)

LEMMA SetupKeeps ==
  ASSUME InventoryInv, RegistryInv', UNCHANGED <<side, tables>>,
         observer' \in {observer, <<>>}, work' \in {work, <<>>},
         work' = <<>> \/ binding' = binding,
         report' = <<>> \/ (report' = report /\ collector' = collector),
         known' \in Int, known <= known',
         \A h : Fitting(h) => Fitting(h)' /\ ~Current(h)',
         \A g, h : Fitting(g) /\ Earlier(g, h) => Earlier(g, h)'
  PROVE  InventoryInv'
<1>1. observer' # <<>> => (/\ Fitting(observer[1].hash) /\ observer[1].offset \in Nat
                           /\ SeenObjects(observer[1]) /\ ~Current(observer[1].hash))'
  <2> SUFFICES ASSUME observer' # <<>>
               PROVE  (/\ Fitting(observer[1].hash) /\ observer[1].offset \in Nat
                       /\ SeenObjects(observer[1]) /\ ~Current(observer[1].hash))'
    OBVIOUS
  <2> PICK h : h = observer[1].hash
    OBVIOUS
  <2>1. /\ Fitting(h)' /\ ~Current(h)' /\ observer' = observer
        /\ observer[1].offset \in Nat
    BY DEF InventoryInv, HashInv
  <2>2. Fitting(observer[1].hash)' /\ ~Current(observer[1].hash)'
    BY <2>1 DEF Fitting, TrueSnapshot, Agree, LastSequence, Mirrors, Current
  <2> QED
    BY <2>1, <2>2 DEF SeenObjects
<1>2. work' # <<>> => (/\ Fitting(work[1].hash) /\ work[1].offset \in Nat
                       /\ Copied(work[1]) /\ ~Current(work[1].hash))'
  <2> SUFFICES ASSUME work' # <<>>
               PROVE  (/\ Fitting(work[1].hash) /\ work[1].offset \in Nat
                       /\ Copied(work[1]) /\ ~Current(work[1].hash))'
    OBVIOUS
  <2> PICK h : h = work[1].hash
    OBVIOUS
  <2>1. /\ Fitting(h)' /\ ~Current(h)' /\ work' = work
        /\ work[1].offset \in Nat /\ Copied(work[1])
    BY DEF InventoryInv, HashInv, StoredInv
  <2>2. Fitting(work[1].hash)' /\ ~Current(work[1].hash)'
    BY <2>1 DEF Fitting, TrueSnapshot, Agree, LastSequence, Mirrors, Current
  <2>3. Scope' = Scope
    BY <2>1 DEF Scope
  <2> QED
    BY <2>1, <2>2, <2>3 DEF Copied
<1>3. observer' # <<>> /\ work' # <<>> =>
        (Earlier(observer[1].hash, work[1].hash) /\ Returned(observer[1].hash, work[1].hash))'
  <2> SUFFICES ASSUME observer' # <<>>, work' # <<>>
               PROVE  (Earlier(observer[1].hash, work[1].hash)
                       /\ Returned(observer[1].hash, work[1].hash))'
    OBVIOUS
  <2> PICK g, h : g = observer[1].hash /\ h = work[1].hash
    OBVIOUS
  <2>1. /\ Earlier(g, h)' /\ Returned(g, h) /\ observer' = observer /\ work' = work
    BY DEF InventoryInv, HashInv, OrderInv
  <2>2. Returned(g, h)'
    BY <2>1 DEF Returned, Both
  <2> QED
    BY <2>1, <2>2 DEF Earlier, Both, LastSequence, Agree, Returned
<1>4. ASSUME report' # <<>>, NEW h, h = Hash'
      PROVE  /\ Fitting(h)'
             /\ \A g : Fitting(g) /\ Earlier(g, Hash) => Earlier(g, h)'
  <2> PICK f : f = Hash
    OBVIOUS
  <2>1. /\ h[1] = f[1] /\ h[2] = known' /\ h[3] = f[3]
        /\ report # <<>> /\ f[2] = known
    BY <1>4 DEF Hash
  <2>2. Fitting(f)' /\ Fitting(f)
    BY <2>1 DEF InventoryInv, HashInv
  <2>3. known' \in 1 .. known'
    BY DEF InventoryInv, RegistryInv
  <2>4. Fitting(h)'
    BY <2>1, <2>2, <2>3 DEF Fitting, TrueSnapshot, Agree, LastSequence, Mirrors
  <2>5. ASSUME NEW g, Fitting(g), Earlier(g, f) PROVE Earlier(g, h)'
    <3>1. Earlier(g, f)' /\ g[2] <= known'
      BY <2>1, <2>5 DEF Earlier, Fitting
    <3> QED
      BY <2>1, <3>1 DEF Earlier, Both, LastSequence, Agree
  <2> QED
    BY <2>4, <2>5
<1>5. report' # <<>> => Fitting(Hash)'
  <2> SUFFICES ASSUME report' # <<>> PROVE Fitting(Hash)'
    OBVIOUS
  <2> PICK h : h = Hash'
    OBVIOUS
  <2>1. Fitting(h)'
    BY <1>4
  <2> QED
    BY <2>1 DEF Fitting, TrueSnapshot, Agree, LastSequence, Mirrors
<1>6. observer' # <<>> /\ report' # <<>> => Earlier(observer[1].hash, Hash)'
  <2> SUFFICES ASSUME observer' # <<>>, report' # <<>>
               PROVE  Earlier(observer[1].hash, Hash)'
    OBVIOUS
  <2> PICK g, h : g = observer[1].hash /\ h = Hash'
    OBVIOUS
  <2>1. Earlier(g, h)' /\ observer' = observer
    BY <1>4 DEF InventoryInv, HashInv, OrderInv
  <2> QED
    BY <2>1 DEF Earlier, Both, LastSequence, Agree
<1>7. work' # <<>> /\ report' # <<>> => Earlier(work[1].hash, Hash)'
  <2> SUFFICES ASSUME work' # <<>>, report' # <<>>
               PROVE  Earlier(work[1].hash, Hash)'
    OBVIOUS
  <2> PICK g, h : g = work[1].hash /\ h = Hash'
    OBVIOUS
  <2>1. Earlier(g, h)' /\ work' = work
    BY <1>4 DEF InventoryInv, HashInv, OrderInv
  <2> QED
    BY <2>1 DEF Earlier, Both, LastSequence, Agree
<1>8. HashInv'
  BY <1>1, <1>2, <1>5 DEF HashInv
<1>9. OrderInv'
  BY <1>3, <1>6, <1>7 DEF OrderInv
<1>10. StoredInv'
  BY <1>1, <1>2 DEF StoredInv, Covered
<1> QED
  BY <1>8, <1>9, <1>10 DEF InventoryInv

LEMMA RestartStored ==
  ASSUME LedgerInv, InventoryInv, NativeRestart \/ Reconnect \/ MonitorRestart
  PROVE  InventoryInv'
<1>1. /\ native' = native \/ native' = Reborn
      /\ frame' = <<>> /\ report' = <<>> /\ collector' = collector + 1
      /\ observer' \in {observer, <<>>} /\ work' \in {work, <<>>}
      /\ known' \in {known, binding}
      /\ UNCHANGED <<side, binding, tables>>
  BY DEF NativeRestart, Reconnect, MonitorRestart, storeVars
<1>2. known \in 1 .. binding /\ collector \in Nat \ {0} /\ binding \in Nat
  BY TunnelAssumption DEF InventoryInv, RegistryInv, LedgerInv, MonitorInv
<1>3. native'.state \in [Instances -> States]
  <2>1. CASE native' = Reborn
    BY <2>1 DEF Reborn, States
  <2> QED
    BY <1>1, <2>1 DEF InventoryInv, RegistryInv
<1>4. RegistryInv'
  BY <1>1, <1>2, <1>3 DEF RegistryInv
<1>5. ASSUME NEW h, Fitting(h) PROVE Fitting(h)' /\ ~Current(h)'
  <2>1. h[3] \in 1 .. collector /\ h[3] # collector' /\ h[2] \in 1 .. known'
    BY <1>1, <1>2, <1>5 DEF Fitting
  <2>2. h[3] \in 1 .. collector'
    BY <1>1, <1>2, <2>1
  <2> QED
    BY <1>5, <2>1, <2>2 DEF Fitting, TrueSnapshot, Agree, Current
<1>6. ASSUME NEW g, NEW h, Fitting(g), Earlier(g, h) PROVE Earlier(g, h)'
  <2>1. g[3] # collector'
    BY <1>1, <1>2, <1>6 DEF Fitting
  <2> QED
    BY <1>6, <2>1 DEF Earlier, Both
<1>7. known' \in Int /\ known <= known'
  BY <1>1, <1>2
<1> QED
  BY <1>1, <1>4, <1>5, <1>6, <1>7, SetupKeeps

LEMMA BindingStored ==
  ASSUME LedgerInv, InventoryInv, Rebind \/ Learn
  PROVE  InventoryInv'
<1>1. /\ UNCHANGED <<side, native, frame, collector, report, observer, work, tables>>
      /\ known \in 1 .. binding /\ binding \in Nat
      /\ \/ work' = <<>> /\ binding' = binding + 1 /\ known' = known
         \/ binding' = binding /\ known' = binding /\ known # binding
  BY TunnelAssumption DEF Rebind, Learn, agentVars, monitorVars, storeVars,
     InventoryInv, RegistryInv, LedgerInv, MonitorInv
<1>2. NextLength' = NextLength
  BY <1>1 DEF NextLength, LastSequence
<1>3. RegistryInv'
  BY <1>1 DEF InventoryInv, RegistryInv, LastSequence
<1>4. ASSUME NEW h, Fitting(h) PROVE Fitting(h)' /\ ~Current(h)'
  <2>1. h[2] \in 1 .. known' /\ h[2] \in 1 .. known
    BY <1>1, <1>4 DEF Fitting
  <2>2. ~Current(h)'
    BY <1>1, <2>1 DEF Current
  <2> QED
    BY <1>1, <1>2, <1>4, <2>1, <2>2 DEF Fitting, TrueSnapshot, Agree, LastSequence, Mirrors
<1>5. ASSUME NEW g, NEW h, Fitting(g), Earlier(g, h) PROVE Earlier(g, h)'
  BY <1>1, <1>2, <1>5 DEF Earlier, Both, LastSequence, Agree
<1> QED
  BY <1>1, <1>3, <1>4, <1>5, SetupKeeps

------------------------------------------------------------------------------------
(* The worker *)

\* The registry, the report and the binding are as they were.
LEMMA SameWorld ==
  ASSUME UNCHANGED <<side, native, frame, report, collector, known, binding>>
  PROVE  /\ Hash' = Hash /\ Scope' = Scope /\ Owner' = Owner
         /\ \A g, h : /\ Fitting(g) => Fitting(g)'
                      /\ Earlier(g, h) => Earlier(g, h)'
                      /\ Returned(g, h) => Returned(g, h)'
                      /\ Current(g)' = Current(g)
<1>1. NextLength' = NextLength
  BY DEF NextLength, LastSequence
<1>2. Hash' = Hash /\ Scope' = Scope /\ Owner' = Owner
  BY DEF Hash, Scope, Owner
<1>3. ASSUME NEW g, Fitting(g) PROVE Fitting(g)'
  BY <1>1, <1>3 DEF Fitting, TrueSnapshot, Agree, LastSequence, Mirrors
<1>4. ASSUME NEW g, NEW h, Earlier(g, h) PROVE Earlier(g, h)'
  BY <1>1, <1>4 DEF Earlier, Both, LastSequence, Agree
<1>5. ASSUME NEW g, NEW h, Returned(g, h) PROVE Returned(g, h)'
  BY <1>5 DEF Returned, Both, Agree
<1>6. ASSUME NEW g PROVE Current(g)' = Current(g)
  BY DEF Current
<1> QED
  BY <1>2, <1>3, <1>4, <1>5, <1>6

\* What the worker leaves behind: o is what the observer sees, w the transaction.
LEMMA WorkerKeeps ==
  ASSUME InventoryInv, UNCHANGED <<side, native, frame, report, collector, known, binding>>,
         NEW o, NEW w,
         observer' # <<>> =>
           /\ observer'[1] = o /\ Fitting(o.hash) /\ o.offset \in Nat /\ SeenObjects(o)'
           /\ report # <<>> => Earlier(o.hash, Hash),
         work' # <<>> =>
           /\ work'[1] = w /\ Fitting(w.hash) /\ w.offset \in Nat /\ Copied(w)'
           /\ report # <<>> => Earlier(w.hash, Hash),
         observer' # <<>> /\ work' # <<>> =>
           Earlier(o.hash, w.hash) /\ Returned(o.hash, w.hash) /\ Covered(o, w)
  PROVE  InventoryInv'
<1> PICK f : f = Hash
  OBVIOUS
<1> PICK g, h : g = o.hash /\ h = w.hash
  OBVIOUS
<1>1. Hash' = f
  BY SameWorld
<1>2. RegistryInv'
  BY DEF InventoryInv, RegistryInv, LastSequence
<1>3. HashInv'
  <2>1. report' # <<>> => Fitting(Hash)'
    <3>1. report' # <<>> => Fitting(f)'
      BY SameWorld DEF InventoryInv, HashInv
    <3> QED
      BY <1>1, <3>1 DEF Fitting, TrueSnapshot, Agree, LastSequence, Mirrors
  <2>2. observer' # <<>> => (Fitting(observer[1].hash) /\ observer[1].offset \in Nat)'
    <3> SUFFICES ASSUME observer' # <<>>
                 PROVE  (Fitting(observer[1].hash) /\ observer[1].offset \in Nat)'
      OBVIOUS
    <3>1. Fitting(g)' /\ observer'[1].hash = g /\ observer'[1].offset \in Nat
      BY SameWorld
    <3>2. Fitting(observer[1].hash)'
      BY <3>1 DEF Fitting, TrueSnapshot, Agree, LastSequence, Mirrors
    <3> QED
      BY <3>1, <3>2
  <2>3. work' # <<>> => (Fitting(work[1].hash) /\ work[1].offset \in Nat)'
    <3> SUFFICES ASSUME work' # <<>>
                 PROVE  (Fitting(work[1].hash) /\ work[1].offset \in Nat)'
      OBVIOUS
    <3>1. Fitting(h)' /\ work'[1].hash = h /\ work'[1].offset \in Nat
      BY SameWorld
    <3>2. Fitting(work[1].hash)'
      BY <3>1 DEF Fitting, TrueSnapshot, Agree, LastSequence, Mirrors
    <3> QED
      BY <3>1, <3>2
  <2> QED
    BY <2>1, <2>2, <2>3 DEF HashInv
<1>4. OrderInv'
  <2>1. observer' # <<>> /\ report' # <<>> => Earlier(observer[1].hash, Hash)'
    <3>1. observer' # <<>> /\ report' # <<>> => Earlier(g, f)' /\ observer'[1].hash = g
      BY SameWorld
    <3> QED
      BY <1>1, <3>1 DEF Earlier, Both, LastSequence, Agree
  <2>2. work' # <<>> /\ report' # <<>> => Earlier(work[1].hash, Hash)'
    <3>1. work' # <<>> /\ report' # <<>> => Earlier(h, f)' /\ work'[1].hash = h
      BY SameWorld
    <3> QED
      BY <1>1, <3>1 DEF Earlier, Both, LastSequence, Agree
  <2>3. observer' # <<>> /\ work' # <<>> =>
          (Earlier(observer[1].hash, work[1].hash) /\ Returned(observer[1].hash, work[1].hash))'
    <3> SUFFICES ASSUME observer' # <<>>, work' # <<>>
                 PROVE  (Earlier(observer[1].hash, work[1].hash)
                         /\ Returned(observer[1].hash, work[1].hash))'
      OBVIOUS
    <3>1. Earlier(g, h)' /\ Returned(g, h)' /\ observer'[1].hash = g /\ work'[1].hash = h
      BY SameWorld
    <3>2. Earlier(observer[1].hash, work[1].hash)'
      BY <3>1 DEF Earlier, Both, LastSequence, Agree
    <3>3. Returned(observer[1].hash, work[1].hash)'
      BY <3>1 DEF Returned, Both, Agree
    <3> QED
      BY <3>2, <3>3
  <2> QED
    BY <2>1, <2>2, <2>3 DEF OrderInv
<1>5. StoredInv'
  <2>1. observer' # <<>> => SeenObjects(observer[1])'
    BY DEF SeenObjects, Current, Live, StoredTo, LastSequence
  <2>2. work' # <<>> => Copied(work[1])'
    BY DEF Copied, Current, StoredTo, LastSequence
  <2>3. observer' # <<>> /\ work' # <<>> => Covered(observer[1], work[1])'
    <3> SUFFICES ASSUME observer' # <<>>, work' # <<>>
                 PROVE  Covered(observer[1], work[1])'
      OBVIOUS
    <3>1. NextLength' = NextLength
      BY DEF NextLength, LastSequence
    <3>2. Current(g)' = Current(g) /\ (Live(g[1])' = Live(g[1]))
      BY <3>1 DEF Current, Live, LastSequence
    <3>3. Covered(o, w)'
      BY <3>2 DEF Covered, StoredTo, InstanceKey, Owner, StateKey
    <3> QED
      BY <3>3 DEF Covered, Current, Live, StoredTo, LastSequence
  <2> QED
    BY <2>1, <2>2, <2>3 DEF StoredInv
<1> QED
  BY <1>2, <1>3, <1>4, <1>5 DEF InventoryInv

\* What was written of a snapshot that is still current.
LEMMA OffsetType ==
  ASSUME HashInv, StoredInv, report # <<>>
  PROVE  /\ Offset \in Nat
         /\ Current(Hash) => /\ Offset <= Len(report[1].objects)
                             /\ StoredTo(tables, report[1], Offset)
                             /\ Offset > 0 => LastSequence(report[1])
                                                <= tables.sources[<<Scope, report[1].process>>].last
<1>1. Hash[1] = report[1] /\ Len(report[1].objects) \in Nat
  BY ObjectsType DEF Hash, HashInv, Fitting
<1>2. CASE Offset = 0
  BY <1>1, <1>2 DEF StoredTo
<1>3. CASE Offset # 0
  <2>1. /\ observer # <<>> /\ observer[1].hash = Hash /\ Offset = observer[1].offset
    BY <1>3 DEF Offset, Same
  <2>2. SeenObjects(observer[1]) /\ observer[1].offset \in Nat /\ Live(report[1])
    BY <2>1 DEF HashInv, StoredInv, Live
  <2> QED
    BY <1>1, <2>1, <2>2 DEF SeenObjects
<1> QED
  BY <1>2, <1>3

LEMMA BeginStored ==
  ASSUME LedgerInv, InventoryInv, BeginSlice
  PROVE  InventoryInv'
<1> DEFINE v == Attributed
           s == <<Scope, v.process>>
<1> PICK r, f, k : r = report[1] /\ f = Hash /\ k = Offset
  OBVIOUS
<1> PICK w : w = work'[1]
  OBVIOUS
<1>1. /\ report # <<>> /\ v.process # NoProcess
      /\ UNCHANGED <<side, native, frame, report, collector, known, binding, observer, tables>>
      /\ w.snapshot = v /\ w.hash = f /\ w.offset = k
      /\ w.processed = tables.sources[s].last
  BY DEF BeginSlice, Progress, agentVars, monitorVars, storeVars
<1>2. w.tx.instances = tables.instances
  <2> DEFINE gaps == Gaps(v, tables.sources[s])
             q    == [n \in DOMAIN gaps |-> Row(Scope, v.process, gaps[n], 0, 0)]
             tx   == [tables EXCEPT !.rows = @ \o q]
  <2>1. w.tx = tx
    BY DEF BeginSlice
  <2> HIDE DEF q
  <2> QED
    BY <2>1 DEF LedgerInv, TablesInv, TrueTables, TableFields
<1>3. Fitting(f) /\ f = <<r, known, collector>> /\ Earlier(f, f)
  <2>1. Fitting(f) /\ f = <<r, known, collector>>
    BY <1>1 DEF InventoryInv, HashInv, Hash
  <2>2. /\ f[1] = r /\ f[2] = known /\ f[3] = collector /\ known \in Int /\ collector \in Int
        /\ LastSequence(r) \in Int /\ Agree(r, r)
    BY <2>1, LastSequenceType DEF Fitting, InventoryInv, RegistryInv
  <2> QED
    BY <2>1, <2>2 DEF Earlier
<1>4. /\ k \in Nat
      /\ Current(f) => /\ k <= Len(r.objects) /\ StoredTo(tables, r, k)
                       /\ k > 0 => LastSequence(r) <= tables.sources[<<Scope, r.process>>].last
  BY <1>1, OffsetType DEF InventoryInv
<1>5. v.process \in Processes /\ s \in SourceKeys /\ tables.sources[s].last \in Nat
  <2>1. v.process \in Processes
    BY <1>1, AttributedIsTrue, TunnelAssumption
    DEF LedgerInv, TrueSnapshot, Processes, NoProcess
  <2> QED
    BY <2>1, ScopeFacts DEF LedgerInv, TablesInv, TrueTables, SourceKeys, Sources
<1>6. /\ f[1] = r
      /\ r.process # NoProcess => v = r
      /\ r.process = NoProcess => v.events = <<>> /\ v.objects = <<>>
  <2>1. TrueSnapshot(r) /\ f[1] = r /\ r = report[1]
    BY <1>3 DEF Fitting
  <2>2. r.process = NoProcess => r.events = <<>> /\ r.objects = <<>>
    BY <1>3, <2>1 DEF Fitting
  <2>3. v.events = r.events /\ v.objects = r.objects
    BY <2>1 DEF Attributed, TrueSnapshot, SnapshotFields
  <2> QED
    BY <2>1, <2>2, <2>3 DEF Attributed
<1> HIDE DEF v
<1>7. Copied(w)
  <2>1. Current(f) => f[1].process # NoProcess
    BY DEF Current
  <2>2. StoredTo(tables, r, k) => StoredTo(w.tx, r, k)
    BY <1>2 DEF StoredTo
  <2> QED
    BY <1>1, <1>4, <1>5, <1>6, <2>1, <2>2 DEF Copied
<1>8. Copied(w)'
  BY <1>1, <1>7, CopiedStays
<1> PICK o : o = observer[1]
  OBVIOUS
<1>9. observer # <<>> =>
        /\ Fitting(o.hash) /\ o.offset \in Nat /\ SeenObjects(o) /\ Earlier(o.hash, f)
  BY <1>1 DEF InventoryInv, HashInv, OrderInv, StoredInv
<1>10. observer # <<>> => SeenObjects(o)'
  <2>1. NextLength' = NextLength
    BY <1>1 DEF NextLength, LastSequence
  <2>2. Live(o.hash[1])' => Live(o.hash[1])
    BY <1>1, <2>1 DEF Live, LastSequence
  <2> QED
    BY <1>1, <1>9, <2>2, SeenStays
<1>11. observer # <<>> => Returned(o.hash, f) /\ Covered(o, w)
  <2>1. Returned(o.hash, f)
    BY <1>3, <1>6 DEF Returned, Fitting
  <2>2. SeenObjects(o) => Covered(o, w)
    BY <1>2 DEF SeenObjects, Covered, StoredTo
  <2> QED
    BY <1>9, <2>1, <2>2
<1> QED
  BY <1>1, <1>3, <1>4, <1>8, <1>9, <1>10, <1>11, WorkerKeeps

\* What the observer believes to be stored and may still be the newest snapshot is
\* not older than the one that is being written, and that one has been read.
LEMMA NothingToRead ==
  ASSUME LedgerInv, InventoryInv, NEW o, NEW w, observer # <<>>, observer[1] = o,
         work # <<>>, work[1] = w, Current(o.hash), Live(o.hash[1]), o.offset > 0,
         w.hash[1].process # NoProcess
  PROVE  LastSequence(w.hash[1]) <= w.processed
<1> PICK g, h, f : g = o.hash /\ h = w.hash /\ f = Hash
  OBVIOUS
<1>1. /\ Fitting(g) /\ Fitting(h) /\ Earlier(g, h) /\ SeenObjects(o) /\ Copied(w)
      /\ report # <<>> => Earlier(h, f)
  BY DEF InventoryInv, HashInv, OrderInv, StoredInv
<1>2. h[3] = collector /\ g[1].process = native.process /\ h[1].process = native.process
  BY <1>1 DEF Earlier, Fitting, Current, InventoryInv, RegistryInv
<1>3. /\ w.snapshot = h[1] /\ LastSequence(g[1]) \in Int /\ LastSequence(h[1]) \in Int
      /\ LastSequence(g[1]) <= tables.sources[<<Scope, native.process>>].last
      /\ tables.sources[<<Scope, native.process>>].last <= w.processed
  BY <1>1, <1>2, LastSequenceType DEF SeenObjects, Copied, Fitting
<1>4. LastSequence(h[1]) <= LastSequence(g[1])
  <2>1. CASE LastSequence(g[1]) = NextLength
    BY <1>1, <1>2, <2>1 DEF Fitting
  <2>2. CASE report # <<>> /\ report[1] = g[1]
    <3>1. f = <<g[1], known, collector>>
      BY <2>2 DEF Hash
    <3>2. f[1] = g[1] /\ Both(h, f)
      BY <1>2, <3>1 DEF Both, Current
    <3> QED
      BY <1>1, <2>2, <3>2 DEF Earlier
  <2> QED
    BY <2>1, <2>2 DEF Live
<1>5. /\ tables.sources[<<Scope, native.process>>].last \in Nat /\ w.processed \in Nat
  <2>1. <<Scope, native.process>> \in SourceKeys
    BY ScopeFacts DEF LedgerInv, AgentInv, SourceKeys
  <2> QED
    BY <2>1 DEF LedgerInv, WorkInv, TrueWork, TablesInv, TrueTables, Sources
<1> QED
  BY <1>3, <1>4, <1>5

\* What is shown under the same key is the same.
LEMMA SameShown ==
  ASSUME LedgerInv, InventoryInv, NEW o, NEW w, observer # <<>>, observer[1] = o,
         work # <<>>, work[1] = w, Current(o.hash), Live(o.hash[1]),
         w.hash[1].process # NoProcess
  PROVE  Agree(o.hash[1], w.hash[1]) /\ o.hash[1].process = w.hash[1].process
<1> PICK g, h : g = o.hash /\ h = w.hash
  OBVIOUS
<1>1. Fitting(g) /\ Fitting(h) /\ Earlier(g, h) /\ Returned(g, h)
  BY DEF InventoryInv, HashInv, OrderInv
<1>2. /\ h[3] = collector /\ Both(g, h)
      /\ g[1].process = native.process /\ h[1].process = native.process
  BY <1>1 DEF Earlier, Fitting, Current, InventoryInv, RegistryInv, Both
<1> QED
  BY <1>1, <1>2 DEF Live, Earlier, Returned

LEMMA UpsertStores ==
  ASSUME MonitorInv, NEW d, TrueTables(d), NEW born, Fresh(d, born), NEW p \in Processes, NEW o,
         NEW k \in Keys, k = InstanceKey(p, o.of), NEW u, u = Upsert(d, p, o)
  PROVE  /\ u.instances[k] # NoInstance
         /\ StateKey(u.instances[k].state) = StateKey(o.state)
         /\ \A j \in Keys \ {k} : u.instances[j] = d.instances[j]
<1> DEFINE t == TunnelKey(p, o.of)
           a == AddTunnel(d, t)
           b == AddInstance(a, t, k, o.state)
           c == [d EXCEPT !.instances[k].state = o.state]
<1>1. Upsert(d, p, o).instances[k] # NoInstance
  BY UpsertIsFresh
<1>2. DOMAIN a = TableFields /\ a.instances = d.instances
  BY DEF AddTunnel, TrueTables, TableFields
<1> HIDE DEF t
<1>3. /\ b.instances[k].state = o.state
      /\ \A j \in Keys \ {k} : b.instances[j] = d.instances[j]
  <2> HIDE DEF a
  <2>1. b.instances = [a.instances EXCEPT ![k] =
          [id |-> a.instanceId + 1, tunnel |-> a.tunnels[t].id,
           generation |-> a.tunnels[t].generation + 1, state |-> o.state]]
    BY <1>2 DEF AddInstance, TableFields
  <2> HIDE DEF b
  <2>2. k \in DOMAIN a.instances /\ DOMAIN a.instances = Keys
    BY <1>2 DEF TrueTables
  <2> QED
    BY <1>2, <2>1, <2>2
<1>4. /\ c.instances[k].state = o.state
      /\ \A j \in Keys \ {k} : c.instances[j] = d.instances[j]
  <2>1. c.instances = [d.instances EXCEPT ![k] = [d.instances[k] EXCEPT !.state = o.state]]
    BY DEF TrueTables, TableFields
  <2>2. k \in Keys /\ DOMAIN d.instances = Keys /\ DOMAIN d.instances[k] = InstanceFields
    BY DEF TrueTables
  <2> HIDE DEF c
  <2>3. c.instances[k] = [d.instances[k] EXCEPT !.state = o.state]
    BY <2>1, <2>2
  <2> QED
    BY <2>1, <2>2, <2>3 DEF InstanceFields
<1> HIDE DEF a, b, c
<1>5. \/ Upsert(d, p, o) = b \/ Upsert(d, p, o) = c
      \/ Upsert(d, p, o) = d /\ StateKey(o.state) = StateKey(d.instances[k].state)
  BY DEF Upsert, a, b, c, t
<1> QED
  BY <1>1, <1>3, <1>4, <1>5

LEMMA NothingStored ==
  ASSUME NEW d, NEW v
  PROVE  StoredTo(d, v, 0)
BY DEF StoredTo

LEMMA WriteEventStored ==
  ASSUME LedgerInv, InventoryInv, WriteEvent
  PROVE  InventoryInv'
<1> PICK w, n, o : w = work[1] /\ n = work'[1] /\ o = observer[1]
  OBVIOUS
<1>1. /\ work # <<>> /\ MoreEvents(w)
      /\ UNCHANGED <<side, native, frame, report, collector, known, binding, observer, tables>>
  BY DEF WriteEvent, agentVars, monitorVars, storeVars
<1>2. TrueWork(w) /\ w.processed \in Nat /\ TrueSnapshot(w.snapshot)
  BY <1>1 DEF LedgerInv, WorkInv, TrueWork
<1>3. /\ n.snapshot = w.snapshot /\ n.hash = w.hash /\ n.offset = w.offset
      /\ n.processed = NextSequence(w)
  <2>1. \E tx : n = [w EXCEPT !.tx = tx, !.processed = NextSequence(w), !.remaining = @ - 1]
    BY DEF WriteEvent
  <2> QED
    BY <1>2, <2>1 DEF TrueWork, WorkFields
<1>4. /\ NextSequence(w) \in Nat /\ NextSequence(w) > w.processed
      /\ LastSequence(w.snapshot) > w.processed /\ LastSequence(w.snapshot) \in Int
  BY <1>1, <1>2, LastSequenceType DEF NextSequence, MoreEvents, TrueSnapshot
<1>5. Fitting(w.hash) /\ w.offset \in Nat /\ Copied(w)
  BY <1>1 DEF InventoryInv, HashInv, StoredInv
<1>6. w.hash[1].process # NoProcess /\ w.snapshot = w.hash[1]
  BY <1>2, <1>4, <1>5 DEF Copied, LastSequence
<1>7. Copied(n)
  <2>1. tables.sources[<<Scope, w.snapshot.process>>].last <= n.processed
    <3>1. <<Scope, w.snapshot.process>> \in SourceKeys
      BY <1>2, ScopeFacts, TunnelAssumption
      DEF LedgerInv, SourceKeys, TrueWork, TrueSnapshot, Processes, NoProcess
    <3>2. tables.sources[<<Scope, w.snapshot.process>>].last \in Nat
      BY <3>1 DEF LedgerInv, TablesInv, TrueTables, Sources
    <3> QED
      BY <1>2, <1>3, <1>4, <1>5, <3>2 DEF Copied
  <2>2. Current(w.hash) => w.offset = 0
    BY <1>2, <1>4, <1>5 DEF Copied
  <2>3. StoredTo(n.tx, w.snapshot, 0)
    BY NothingStored
  <2> QED
    BY <1>3, <1>5, <1>6, <2>1, <2>2, <2>3 DEF Copied
<1>8. observer # <<>> => /\ Fitting(o.hash) /\ o.offset \in Nat /\ SeenObjects(o)
                         /\ Earlier(o.hash, w.hash) /\ Returned(o.hash, w.hash)
                         /\ report # <<>> => Earlier(o.hash, Hash)
  BY <1>1 DEF InventoryInv, HashInv, OrderInv, StoredInv
<1>9. observer # <<>> => Covered(o, n)
  <2> SUFFICES ASSUME observer # <<>>, Current(o.hash), Live(o.hash[1])
               PROVE  StoredTo(n.tx, o.hash[1], o.offset)
    BY DEF Covered
  <2>1. o.offset = 0
    BY <1>1, <1>2, <1>4, <1>6, <1>8, NothingToRead
  <2> QED
    BY <2>1, NothingStored
<1>10. Copied(n)'
  BY <1>1, <1>7, CopiedStays
<1>11. observer # <<>> => SeenObjects(o)'
  <2>1. NextLength' = NextLength
    BY <1>1 DEF NextLength, LastSequence
  <2>2. Live(o.hash[1])' => Live(o.hash[1])
    BY <1>1, <2>1 DEF Live, LastSequence
  <2> QED
    BY <1>1, <1>8, <2>2, SeenStays
<1>12. report # <<>> => Earlier(w.hash, Hash)
  BY <1>1 DEF InventoryInv, OrderInv
<1> QED
  BY <1>1, <1>3, <1>5, <1>8, <1>9, <1>10, <1>11, <1>12, WorkerKeeps

LEMMA WriteObjectStored ==
  ASSUME LedgerInv, FreshInv, InventoryInv, WriteObject
  PROVE  InventoryInv'
<1> PICK w, n, o : w = work[1] /\ n = work'[1] /\ o = observer[1]
  OBVIOUS
<1>v. PICK v, x : v = w.snapshot /\ x = v.objects[w.offset + 1]
  OBVIOUS
<1>k. PICK k : k = InstanceKey(v.process, x.of)
  OBVIOUS
<1>1. /\ work # <<>> /\ ~MoreEvents(w) /\ MoreObjects(w)
      /\ UNCHANGED <<side, native, frame, report, collector, known, binding, observer, tables>>
  BY DEF WriteObject, agentVars, monitorVars, storeVars
<1>2. /\ TrueWork(w) /\ w.processed \in Nat /\ TrueSnapshot(v) /\ v.process \in Processes
      /\ Fresh(w.tx, past.born) /\ TrueTables(w.tx)
  BY <1>1, <1>v, TunnelAssumption
  DEF LedgerInv, WorkInv, TrueWork, FreshInv, TrueSnapshot, Processes, NoProcess
<1>3. /\ n.snapshot = v /\ n.hash = w.hash /\ n.offset = w.offset + 1
      /\ n.processed = w.processed /\ n.tx = Upsert(w.tx, v.process, x)
  <2>1. n = [w EXCEPT !.tx = Upsert(w.tx, v.process, x), !.offset = @ + 1,
                      !.remaining = @ - 1]
    BY <1>v DEF WriteObject
  <2> QED
    BY <1>2, <1>v, <2>1 DEF TrueWork, WorkFields
<1>4. Fitting(w.hash) /\ w.offset \in Nat /\ Copied(w)
  BY <1>1 DEF InventoryInv, HashInv, StoredInv
<1>5. /\ w.hash[1].process # NoProcess /\ v = w.hash[1] /\ Agree(v, v)
      /\ v.objects \in Seq(Events) /\ Len(v.objects) \in Nat
      /\ w.offset < Len(v.objects) /\ w.offset + 1 \in DOMAIN v.objects
      /\ DOMAIN v.objects = 1 .. Len(v.objects)
  <2>1. v.objects # <<>>
    BY <1>1, <1>4, <1>v DEF MoreObjects
  <2>2. w.hash[1].process # NoProcess /\ v = w.hash[1]
    BY <1>4, <1>v, <2>1 DEF Copied
  <2>3. v.objects \in Seq(Events) /\ Agree(v, v)
    BY <1>4, <2>2 DEF Fitting
  <2> QED
    BY <1>1, <1>4, <1>v, <2>2, <2>3 DEF MoreObjects
<1>6. LastSequence(v) <= w.processed
  <2>1. /\ v.first \in Nat /\ v.events \in Seq(Events) /\ Len(v.events) \in Nat
        /\ v.events # <<>> => Len(v.events) > 0
    BY <1>2 DEF TrueSnapshot
  <2>2. ~(NextSequence(w) <= LastSequence(v))
    BY <1>1, <1>v DEF MoreEvents
  <2>3. NextSequence(w) = IF v.first > w.processed + 1 THEN v.first ELSE w.processed + 1
    BY <1>v DEF NextSequence
  <2>4. LastSequence(v) = IF v.events = <<>> THEN 0 ELSE v.first + Len(v.events) - 1
    BY DEF LastSequence
  <2>5. CASE v.events = <<>>
    BY <1>2, <2>4, <2>5
  <2>6. CASE v.events # <<>>
    <3> PICK p, f, l : p = w.processed /\ f = v.first /\ l = Len(v.events)
      OBVIOUS
    <3>1. p \in Nat /\ f \in Nat /\ l \in Nat /\ l > 0
      BY <1>2, <2>1, <2>6
    <3>2. ~((IF f > p + 1 THEN f ELSE p + 1) <= f + l - 1)
      BY <2>2, <2>3, <2>4, <2>6
    <3>3. f + l - 1 <= p
      BY <3>1, <3>2
    <3> QED
      BY <2>4, <2>6, <3>3
  <2> QED
    BY <2>5, <2>6
<1>7. \A m \in DOMAIN v.objects : v.objects[m].of \in Instances
  BY <1>5, ObjectsType
<1>8. Owner \in Epochs
  BY ScopeFacts DEF LedgerInv
<1>9. k \in Keys
  BY <1>2, <1>5, <1>7, <1>8, <1>k, <1>v DEF InstanceKey, Keys
<1>10. /\ n.tx.instances[k] # NoInstance
       /\ StateKey(n.tx.instances[k].state) = StateKey(x.state)
       /\ \A j \in Keys \ {k} : n.tx.instances[j] = w.tx.instances[j]
  <2>1. MonitorInv
    BY DEF LedgerInv
  <2>2. PICK d, b, p, u : d = w.tx /\ b = past.born /\ p = v.process /\ u = Upsert(d, p, x)
    OBVIOUS
  <2>3. TrueTables(d) /\ Fresh(d, b) /\ p \in Processes /\ k = InstanceKey(p, x.of)
    BY <1>2, <1>k, <2>2
  <2>4. u = Upsert(d, p, x)
    BY <2>2
  <2>5. /\ u.instances[k] # NoInstance
        /\ StateKey(u.instances[k].state) = StateKey(x.state)
    BY <1>9, <2>1, <2>3, <2>4, UpsertStores
  <2>6. \A l \in Keys \ {k} : u.instances[l] = d.instances[l]
    BY <1>9, <2>1, <2>3, <2>4, UpsertStores
  <2>7. u = n.tx /\ d = w.tx
    BY <1>3, <2>2
  <2> QED
    BY <2>5, <2>6, <2>7
\* What is stored stays so, and this object is.
<1>11. ASSUME NEW u, NEW m \in Nat, NEW l \in Nat, u.process = v.process,
              u.objects \in Seq(Events), l <= Len(u.objects), Agree(u, v), StoredTo(w.tx, u, m),
              \A y \in m + 1 .. l : u.objects[y].of = x.of
       PROVE  StoredTo(n.tx, u, l)
  <2> SUFFICES ASSUME NEW y \in 1 .. l, StateKey(u.objects[y].state) # "closed"
               PROVE  LET i == n.tx.instances[InstanceKey(u.process, u.objects[y].of)]
                      IN  i # NoInstance /\ StateKey(i.state) = StateKey(u.objects[y].state)
    BY DEF StoredTo
  <2>1. y \in DOMAIN u.objects /\ u.objects[y].of \in Instances
    BY <1>11, ObjectsType
  <2>2. CASE u.objects[y].of = x.of
    <3>1. StateKey(u.objects[y].state) = StateKey(x.state)
      BY <1>5, <1>11, <1>v, <2>1, <2>2 DEF Agree
    <3> QED
      BY <1>10, <1>11, <1>k, <2>2, <3>1
  <2>3. CASE u.objects[y].of # x.of
    <3>1. y \in 1 .. m
      BY <1>11, <2>3
    <3>2. InstanceKey(u.process, u.objects[y].of) \in Keys \ {k}
      BY <1>2, <1>8, <1>11, <1>k, <2>1, <2>3 DEF InstanceKey, Keys
    <3>3. LET i == w.tx.instances[InstanceKey(u.process, u.objects[y].of)]
          IN  i # NoInstance /\ StateKey(i.state) = StateKey(u.objects[y].state)
      BY <1>11, <3>1 DEF StoredTo
    <3> QED
      BY <1>10, <3>2, <3>3
  <2> QED
    BY <2>2, <2>3
<1>12. Copied(n)
  <2>1. Current(w.hash) => StoredTo(n.tx, v, w.offset + 1)
    <3> SUFFICES ASSUME Current(w.hash) PROVE StoredTo(n.tx, v, w.offset + 1)
      OBVIOUS
    <3>1. StoredTo(w.tx, v, w.offset)
      BY <1>4, <1>5, <1>v DEF Copied
    <3>2. \A y \in (w.offset + 1) .. (w.offset + 1) : v.objects[y].of = x.of
      BY <1>4, <1>v
    <3>3. w.offset + 1 \in Nat /\ w.offset + 1 <= Len(v.objects)
      BY <1>4, <1>5
    <3> QED
      BY <1>4, <1>5, <1>11, <3>1, <3>2, <3>3
  <2>2. n.offset <= Len(v.objects)
    BY <1>3, <1>4, <1>5
  <2>3. tables.sources[<<Scope, v.process>>].last <= w.processed
    BY <1>4, <1>v DEF Copied
  <2> QED
    BY <1>3, <1>5, <1>6, <2>1, <2>2, <2>3 DEF Copied
<1>13. observer # <<>> => /\ Fitting(o.hash) /\ o.offset \in Nat /\ SeenObjects(o) /\ Covered(o, w)
                          /\ Earlier(o.hash, w.hash) /\ Returned(o.hash, w.hash)
                          /\ report # <<>> => Earlier(o.hash, Hash)
  BY <1>1 DEF InventoryInv, HashInv, OrderInv, StoredInv
<1>14. observer # <<>> => Covered(o, n)
  <2> SUFFICES ASSUME observer # <<>>, Current(o.hash), Live(o.hash[1])
               PROVE  StoredTo(n.tx, o.hash[1], o.offset)
    BY DEF Covered
  <2> PICK u : u = o.hash[1]
    OBVIOUS
  <2>1. Agree(u, v) /\ u.process = v.process
    BY <1>1, <1>5, SameShown
  <2>2. /\ u.objects \in Seq(Events) /\ o.offset \in Nat /\ o.offset <= Len(u.objects)
        /\ StoredTo(w.tx, u, o.offset)
    BY <1>13 DEF Fitting, SeenObjects, Covered
  <2>3. \A y \in o.offset + 1 .. o.offset : u.objects[y].of = x.of
    BY <2>2
  <2> QED
    BY <1>11, <2>1, <2>2, <2>3
<1>15. Copied(n)'
  BY <1>1, <1>12, CopiedStays
<1>16. observer # <<>> => SeenObjects(o)'
  <2>1. NextLength' = NextLength
    BY <1>1 DEF NextLength, LastSequence
  <2>2. Live(o.hash[1])' => Live(o.hash[1])
    BY <1>1, <2>1 DEF Live, LastSequence
  <2> QED
    BY <1>1, <1>13, <2>2, SeenStays
<1>17. report # <<>> => Earlier(w.hash, Hash)
  BY <1>1 DEF InventoryInv, OrderInv
<1>18. n.offset \in Nat
  BY <1>3, <1>4
<1> QED
  BY <1>1, <1>3, <1>4, <1>13, <1>14, <1>15, <1>16, <1>17, <1>18, WorkerKeeps

\* The observer learns what was committed; if it does not, it believes less than
\* there is.
LEMMA CommitStored ==
  ASSUME LedgerInv, InventoryInv, NEW told \in BOOLEAN, CommitSlice(told)
  PROVE  InventoryInv'
<1> PICK w, o : w = work[1] /\ o = observer'[1]
  OBVIOUS
<1> DEFINE s == <<Scope, w.snapshot.process>>
<1>1. /\ work # <<>> /\ work' = <<>> /\ tables' = Written(w)
      /\ UNCHANGED <<side, native, frame, report, collector, known, binding>>
      /\ IF told
         THEN observer' = <<[hash |-> w.hash, process |-> w.snapshot.process,
                             complete |-> ~MoreEvents(w) /\ ~MoreObjects(w),
                             offset |-> w.offset]>>
         ELSE observer' = observer
  BY DEF CommitSlice, agentVars
<1>2. /\ TrueWork(w) /\ w.processed \in Nat /\ TrueSnapshot(w.snapshot)
      /\ w.tx.sources = tables.sources /\ w.snapshot.process \in Processes
  BY <1>1, TunnelAssumption
  DEF LedgerInv, WorkInv, TrueWork, TrueSnapshot, Processes, NoProcess
<1>3. /\ tables'.instances = w.tx.instances
      /\ tables'.sources[s].last = w.processed
      /\ \A r \in SourceKeys \ {s} : tables'.sources[r] = tables.sources[r]
  <2> DEFINE source == [collector |-> w.hash[3], last |-> w.processed,
                        dropped |-> w.snapshot.dropped, state |-> w.snapshot.state]
  <2>1. s \in SourceKeys
    BY <1>2, ScopeFacts DEF LedgerInv, SourceKeys
  <2>2. tables' = [w.tx EXCEPT !.sources[s] = source]
    BY <1>1 DEF Written
  <2>3. source.last = w.processed
    OBVIOUS
  <2> HIDE DEF source, s
  <2>4. /\ DOMAIN w.tx = TableFields /\ DOMAIN tables.sources = SourceKeys
    BY <1>2 DEF TrueWork, TrueTables, LedgerInv, TablesInv
  <2>5. /\ tables'.instances = w.tx.instances
        /\ tables'.sources = [tables.sources EXCEPT ![s] = source]
    BY <1>2, <2>2, <2>4 DEF TableFields
  <2> QED
    BY <2>1, <2>3, <2>4, <2>5
<1>4. Fitting(w.hash) /\ w.offset \in Nat /\ Copied(w) /\ (report # <<>> => Earlier(w.hash, Hash))
  BY <1>1 DEF InventoryInv, HashInv, OrderInv, StoredInv
<1>5. Scope' = Scope /\ (Live(o.hash[1])' => Live(o.hash[1]))
  <2>1. NextLength' = NextLength
    BY <1>1 DEF NextLength, LastSequence
  <2> QED
    BY <1>1, <2>1 DEF Scope, Live, LastSequence
<1>6. ASSUME NEW v, NEW k, StoredTo(w.tx, v, k)
      PROVE  StoredTo(tables, v, k)'
  <2> SUFFICES ASSUME NEW n \in 1 .. k, StateKey(v.objects[n].state) # "closed"
               PROVE  LET i == tables'.instances[InstanceKey(v.process, v.objects[n].of)]
                      IN  i # NoInstance /\ StateKey(i.state) = StateKey(v.objects[n].state)
    BY <1>1 DEF StoredTo, StateKey, InstanceKey, Owner
  <2>1. LET i == w.tx.instances[InstanceKey(v.process, v.objects[n].of)]
        IN  i # NoInstance /\ StateKey(i.state) = StateKey(v.objects[n].state)
    BY <1>6 DEF StoredTo
  <2> QED
    BY <1>3, <2>1
<1>7. ASSUME told
      PROVE  observer'[1] = o /\ Fitting(o.hash) /\ o.offset \in Nat /\ SeenObjects(o)'
             /\ (report # <<>> => Earlier(o.hash, Hash))
  <2>1. /\ o.hash = w.hash /\ o.offset = w.offset
        /\ o.complete => ~MoreObjects(w)
    <3> PICK c \in BOOLEAN : c = (~MoreEvents(w) /\ ~MoreObjects(w))
      OBVIOUS
    <3>1. o = [hash |-> w.hash, process |-> w.snapshot.process, complete |-> c,
               offset |-> w.offset]
      BY <1>1, <1>7
    <3>2. o.complete = c /\ o.hash = w.hash /\ o.offset = w.offset
      BY <3>1
    <3> QED
      BY <3>2
  <2>2. ASSUME Current(w.hash)
        PROVE  /\ w.offset <= Len(w.hash[1].objects)
               /\ o.complete => w.offset = Len(w.hash[1].objects)
               /\ w.offset > 0 => LastSequence(w.hash[1]) <= tables'.sources[s].last
               /\ w.hash[1].process = w.snapshot.process
               /\ StoredTo(w.tx, w.hash[1], w.offset)
    <3>1. w.snapshot = w.hash[1] /\ Len(w.hash[1].objects) \in Nat
      BY <1>4, <2>2, ObjectsType DEF Current, Copied, Fitting
    <3> QED
      BY <1>3, <1>4, <2>1, <2>2, <3>1 DEF Copied, MoreObjects
  <2>3. StoredTo(w.tx, w.hash[1], w.offset) => StoredTo(tables, w.hash[1], w.offset)'
    BY <1>6
  <2>4. Current(w.hash)' = Current(w.hash) /\ LastSequence(w.hash[1])' = LastSequence(w.hash[1])
    BY <1>1 DEF Current, LastSequence
  <2>5. SeenObjects(o)'
    BY <1>5, <2>1, <2>2, <2>3, <2>4 DEF SeenObjects
  <2> QED
    BY <1>4, <2>1, <2>5
<1>8. ASSUME ~told, observer # <<>>
      PROVE  observer'[1] = o /\ Fitting(o.hash) /\ o.offset \in Nat /\ SeenObjects(o)'
             /\ (report # <<>> => Earlier(o.hash, Hash))
  <2>1. /\ o = observer[1] /\ Fitting(o.hash) /\ o.offset \in Nat /\ SeenObjects(o) /\ Covered(o, w)
        /\ report # <<>> => Earlier(o.hash, Hash)
    BY <1>1, <1>8 DEF InventoryInv, HashInv, OrderInv, StoredInv
  <2>2. StoredTo(w.tx, o.hash[1], o.offset) => StoredTo(tables, o.hash[1], o.offset)'
    BY <1>6
  <2>3. Current(o.hash)' = Current(o.hash) /\ LastSequence(o.hash[1])' = LastSequence(o.hash[1])
    BY <1>1 DEF Current, LastSequence
  <2>4. ASSUME Current(o.hash), o.offset > 0
        PROVE  LastSequence(o.hash[1]) <= tables'.sources[<<Scope, o.hash[1].process>>].last
    <3> PICK r : r = <<Scope, o.hash[1].process>>
      OBVIOUS
    <3>1. LastSequence(o.hash[1]) <= tables.sources[r].last /\ LastSequence(o.hash[1]) \in Int
      BY <2>1, <2>4, LastSequenceType DEF SeenObjects, Fitting
    <3>2. r \in SourceKeys
      BY <2>1, <2>4, ScopeFacts DEF Current, Fitting, LedgerInv, AgentInv, SourceKeys,
         InventoryInv, RegistryInv
    <3>3. CASE r = s
      <4>1. tables.sources[r].last <= w.processed
        BY <1>4, <3>3 DEF Copied
      <4>2. tables.sources[r].last \in Nat
        BY <3>2 DEF LedgerInv, TablesInv, TrueTables, Sources
      <4> QED
        BY <1>2, <1>3, <3>1, <3>3, <4>1, <4>2
    <3>4. CASE r # s
      BY <1>3, <3>1, <3>2, <3>4
    <3> QED
      BY <3>3, <3>4
  <2>5. SeenObjects(o)'
    BY <1>5, <2>1, <2>2, <2>3, <2>4 DEF SeenObjects, Covered
  <2> QED
    BY <2>1, <2>5
<1> HIDE DEF s
<1>9. observer' # <<>> =>
        observer'[1] = o /\ Fitting(o.hash) /\ o.offset \in Nat /\ SeenObjects(o)'
        /\ (report # <<>> => Earlier(o.hash, Hash))
  BY <1>1, <1>7, <1>8
<1> QED
  BY <1>1, <1>9, WorkerKeeps

LEMMA NoSliceStored ==
  ASSUME LedgerInv, InventoryInv, SkipSlice \/ LoseSlice \/ Forget
  PROVE  InventoryInv'
<1> PICK o, f : o = observer'[1] /\ f = Hash
  OBVIOUS
<1>1. /\ work' = <<>>
      /\ UNCHANGED <<side, native, frame, report, collector, known, binding, tables>>
  BY DEF SkipSlice, LoseSlice, Forget, agentVars, monitorVars, storeVars
<1>2. CASE SkipSlice
  <2>1. report # <<>> /\ o.hash = f /\ o.offset = Offset /\ observer' # <<>>
    BY <1>2 DEF SkipSlice
  <2>2. f[1].process = NoProcess /\ f[2] = known /\ f[3] = collector
    <3>1. Attributed.process = NoProcess => report[1].process = NoProcess
      BY DEF Attributed
    <3> QED
      BY <1>2, <3>1 DEF SkipSlice, Hash
  <2>3. Fitting(f) /\ Offset \in Nat
    BY <2>1, OffsetType DEF InventoryInv, HashInv
  <2>4. Earlier(f, f)
    BY <2>2 DEF Earlier, Both, InventoryInv, RegistryInv
  <2>5. SeenObjects(o)'
    BY <2>1, <2>2 DEF SeenObjects, Current
  <2> QED
    BY <1>1, <2>1, <2>3, <2>4, <2>5, WorkerKeeps
<1>3. CASE LoseSlice
  <2>1. observer' = observer
    BY <1>3 DEF LoseSlice, monitorVars
  <2>2. observer # <<>> => /\ Fitting(o.hash) /\ o.offset \in Nat /\ SeenObjects(o)
                           /\ report # <<>> => Earlier(o.hash, Hash)
    BY <2>1 DEF InventoryInv, HashInv, OrderInv, StoredInv
  <2>3. observer # <<>> => SeenObjects(o)'
    <3>1. NextLength' = NextLength
      BY <1>1 DEF NextLength, LastSequence
    <3>2. Live(o.hash[1])' => Live(o.hash[1])
      BY <1>1, <3>1 DEF Live, LastSequence
    <3> QED
      BY <1>1, <2>2, <3>2, SeenStays
  <2> QED
    BY <1>1, <2>1, <2>2, <2>3, WorkerKeeps
<1>4. CASE Forget
  BY <1>1, <1>4, WorkerKeeps DEF Forget
<1> QED
  BY <1>2, <1>3, <1>4

\* Retention takes neither an open instance of a source that is observed nor the
\* position of that source.
LEMMA PruneStored ==
  ASSUME LedgerInv, InventoryInv, Prune
  PROVE  InventoryInv'
<1> PICK o : o = observer'[1]
  OBVIOUS
<1>1. /\ work = <<>> /\ work' = <<>>
      /\ UNCHANGED <<side, native, frame, report, collector, known, binding, observer>>
  BY DEF Prune, agentVars, monitorVars
<1>2. PICK n \in {0, 1}, quiet \in BOOLEAN :
        LET cut == [tables EXCEPT !.rows = SubSeq(@, n + 1, Len(@)), !.pruned = @ \/ n > 0]
        IN  \E old \in SUBSET Expired(cut) :
              tables' = IF quiet THEN WithoutSources(WithoutInstances(cut, old))
                                 ELSE WithoutInstances(cut, old)
  BY DEF Prune
<1> DEFINE q   == SubSeq(tables.rows, n + 1, Len(tables.rows))
           z   == tables.pruned \/ n > 0
           cut == [tables EXCEPT !.rows = q, !.pruned = z]
<1>3. PICK old \in SUBSET Expired(cut) :
        tables' = IF quiet THEN WithoutSources(WithoutInstances(cut, old))
                           ELSE WithoutInstances(cut, old)
  BY <1>2
<1> HIDE DEF q, z
<1>4. /\ DOMAIN cut = TableFields /\ DOMAIN cut.instances = Keys
      /\ cut.instances = tables.instances /\ cut.sources = tables.sources
      /\ DOMAIN cut.sources = SourceKeys
  BY DEF LedgerInv, TablesInv, TrueTables, TableFields
<1> HIDE DEF cut
<1> DEFINE d == WithoutInstances(cut, old)
<1>5. /\ DOMAIN d = TableFields /\ d.sources = cut.sources
      /\ d.instances = [k \in Keys |-> IF k \in old THEN NoInstance ELSE cut.instances[k]]
  BY <1>4 DEF WithoutInstances, TableFields
<1> HIDE DEF d
<1>6. /\ tables'.instances = d.instances
      /\ \A s \in SourceKeys : Observed(s) => tables'.sources[s] = tables.sources[s]
  <2>1. CASE quiet
    BY <1>3, <1>4, <1>5, <2>1 DEF WithoutSources, TableFields, d
  <2>2. CASE ~quiet
    BY <1>3, <1>4, <1>5, <2>2 DEF d
  <2> QED
    BY <2>1, <2>2
<1>7. \A k \in Keys : k \in old => /\ ~Observed(SourceOf(k))
                                   \/ StateKey(tables.instances[k].state) = "closed"
  BY <1>3, <1>4 DEF Expired
<1>8. observer # <<>> => /\ Fitting(o.hash) /\ o.offset \in Nat /\ SeenObjects(o)
                         /\ report # <<>> => Earlier(o.hash, Hash)
  BY <1>1 DEF InventoryInv, HashInv, OrderInv, StoredInv
<1>9. ASSUME observer # <<>>
      PROVE  SeenObjects(o)'
  <2>1. /\ Current(o.hash)' = Current(o.hash) /\ Scope' = Scope
        /\ LastSequence(o.hash[1])' = LastSequence(o.hash[1])
        /\ Live(o.hash[1])' => Live(o.hash[1])
    <3>1. NextLength' = NextLength
      BY <1>1 DEF NextLength, LastSequence
    <3> QED
      BY <1>1, <3>1 DEF Current, Scope, LastSequence, Live
  <2> PICK v : v = o.hash[1]
    OBVIOUS
  <2>2. ASSUME Current(o.hash)
        PROVE  /\ v.process = native.process /\ v.process \in Processes
               /\ <<Scope, v.process>> \in SourceKeys /\ Observed(<<Scope, v.process>>)
               /\ v.objects \in Seq(Events) /\ o.offset <= Len(v.objects)
    BY <1>8, <1>9, <2>2, ScopeFacts
    DEF Current, Fitting, SeenObjects, LedgerInv, AgentInv, SourceKeys, Observed
  <2>3. ASSUME Current(o.hash), StoredTo(tables, v, o.offset)
        PROVE  StoredTo(tables, v, o.offset)'
    <3> SUFFICES ASSUME NEW m \in 1 .. o.offset, StateKey(v.objects[m].state) # "closed"
                 PROVE  LET i == tables'.instances[InstanceKey(v.process, v.objects[m].of)]
                        IN  /\ i # NoInstance
                            /\ StateKey(i.state) = StateKey(v.objects[m].state)
      BY <1>1 DEF StoredTo, StateKey, InstanceKey, Owner
    <3> PICK k : k = InstanceKey(v.process, v.objects[m].of)
      OBVIOUS
    <3>1. tables.instances[k] # NoInstance
          /\ StateKey(tables.instances[k].state) = StateKey(v.objects[m].state)
      BY <2>3 DEF StoredTo
    <3>2. v.objects[m].of \in Instances /\ Owner \in Epochs
      BY <1>8, <1>9, <2>2, <2>3, ObjectsType, ScopeFacts DEF LedgerInv
    <3>3. k \in Keys
      BY <2>2, <2>3, <3>2 DEF InstanceKey, Keys
    <3>4. SourceOf(k) = <<Scope, v.process>>
      BY DEF SourceOf, InstanceKey, Scope, Owner
    <3>5. k \notin old
      BY <1>7, <2>2, <2>3, <3>1, <3>3, <3>4
    <3>6. tables'.instances[k] = tables.instances[k]
      BY <1>4, <1>5, <1>6, <3>3, <3>5
    <3> QED
      BY <3>1, <3>6
  <2>4. Current(o.hash) => tables'.sources[<<Scope, v.process>>]
                             = tables.sources[<<Scope, v.process>>]
    BY <1>6, <2>2
  <2> QED
    BY <1>8, <1>9, <2>1, <2>3, <2>4 DEF SeenObjects
<1> QED
  BY <1>1, <1>8, <1>9, WorkerKeeps

------------------------------------------------------------------------------------
(* The theorem *)

LEMMA InitStored ==
  ASSUME TunnelInit
  PROVE  InventoryInv
<1>1. native.state = [i \in Instances |-> "none"]
  BY DEF TunnelInit
<1>2. RegistryInv
  BY <1>1 DEF TunnelInit, RegistryInv, States
<1> QED
  BY <1>2 DEF TunnelInit, InventoryInv, HashInv, OrderInv, StoredInv

LEMMA StepStored ==
  ASSUME LedgerInv, FreshInv, InventoryInv, [TunnelNext]_tunnelVars
  PROVE  InventoryInv'
<1>1. CASE \E i \in Instances : Emit(i) \/ Retire(i)
  BY <1>1, EmitStored, RetireStored
<1>2. CASE Snapshot \/ SnapshotNothing \/ SnapshotNoObjects
  BY <1>2, SnapshotEventsStored, SnapshotNothingStored, SnapshotTakenStored DEF Snapshot
<1>3. CASE Slice \/ CommitSlice(FALSE)
  BY <1>3, BeginStored, WriteEventStored, WriteObjectStored, CommitStored DEF Slice
<1>4. CASE SkipSlice \/ Forget \/ LoseSlice
  BY <1>4, NoSliceStored
<1>5. CASE NativeRestart \/ Reconnect \/ MonitorRestart
  BY <1>5, RestartStored
<1>6. CASE Rebind \/ Learn
  BY <1>6, BindingStored
<1>7. CASE Prune
  BY <1>7, PruneStored
<1>8. CASE UNCHANGED tunnelVars
  <2>1. UNCHANGED <<side, native, frame, report, collector, known, binding,
                    observer, work, tables>>
    BY <1>8 DEF tunnelVars, agentVars, monitorVars, storeVars
  <2>2. Moves /\ RegistryInv'
    <3>1. NextLength' = NextLength
      BY <2>1 DEF NextLength, LastSequence
    <3> QED
      BY <2>1, <3>1, LengthType DEF Moves, InventoryInv, RegistryInv, LastSequence
  <2> QED
    BY <2>1, <2>2, AgentKeeps
<1> QED
  BY <1>1, <1>2, <1>3, <1>4, <1>5, <1>6, <1>7, <1>8 DEF TunnelNext

LEMMA SeenIsEnough ==
  ASSUME InventoryInv
  PROVE  InventoryIsStored
<1> SUFFICES ASSUME observer # <<>>, report # <<>>, work = <<>>, known = binding,
                    observer[1].complete, observer[1].hash = Hash,
                    report[1].process # NoProcess,
                    NEW n \in DOMAIN report[1].objects,
                    StateKey(report[1].objects[n].state) # "closed"
             PROVE  LET o == report[1].objects[n]
                        i == tables.instances[InstanceKey(report[1].process, o.of)]
                    IN  i # NoInstance /\ StateKey(i.state) = StateKey(o.state)
  BY DEF InventoryIsStored
<1> PICK o, v : o = observer[1] /\ v = report[1]
  OBVIOUS
<1>1. SeenObjects(o) /\ o.hash = <<v, known, collector>> /\ o.complete
  BY DEF InventoryInv, StoredInv, Hash
<1>2. Current(o.hash) /\ o.hash[1] = v /\ Live(v)
  BY <1>1 DEF Current, Live
<1>3. v.objects \in Seq(Events) /\ o.offset = Len(v.objects) /\ StoredTo(tables, v, o.offset)
  BY <1>1, <1>2 DEF SeenObjects, InventoryInv, HashInv, Fitting
<1>4. n \in 1 .. o.offset
  BY <1>3, ObjectsType
<1> QED
  BY <1>3, <1>4 DEF StoredTo

\* What the observer calls complete and has not changed since is in the database:
\* every open instance of the snapshot, in its state there and under the current
\* binding, whatever slices failed, were committed unseen or were of a snapshot
\* that came back (observeTunnels, IngestTunnelSlice, PruneTunnels).
THEOREM InventoryIsInTheDatabase == TunnelSpec => []InventoryIsStored
<1>1. LedgerInv /\ FreshInv /\ [TunnelNext]_tunnelVars => FreshInv'
  BY StepIsFresh
<1>2. LedgerInv /\ FreshInv /\ InventoryInv /\ [TunnelNext]_tunnelVars => InventoryInv'
  BY StepStored
<1>3. InventoryInv => InventoryIsStored
  BY SeenIsEnough
<1> QED
  BY <1>1, <1>2, <1>3, InitIsFresh, InitStored, LedgerIsTrue, PTL DEF TunnelSpec

------------------------------------------------------------------------------------
(* The types: what the bounds of the process mean for the ledger *)

SnapshotStates == {"ready", "truncated", "unavailable"}

\* A snapshot is a window of at most so many events.
Bounded(v) ==
  /\ v.state \in SnapshotStates
  /\ Len(v.events) <= Window /\ LastSequence(v) <= MaxEvents

RowsBounded(rows) == \A n \in 1 .. Len(rows) : rows[n].seq <= MaxEvents

BoundInv ==
  /\ Len(native.log) <= MaxEvents
  /\ Len(frame) <= 1 /\ Len(report) <= 1 /\ Len(observer) <= 1 /\ Len(work) <= 1
  /\ frame # <<>> => Bounded(frame[1])
  /\ report # <<>> => Bounded(report[1])
  /\ work # <<>> => /\ Bounded(work[1].snapshot) /\ RowsBounded(work[1].tx.rows)
                    /\ work[1].remaining \in 0 .. Budget
  /\ collector \in 1 .. MaxCollectors
  /\ RowsBounded(tables.rows)
  /\ past.lost \in 0 .. MaxLost

LEMMA InitIsBounded ==
  ASSUME TunnelInit
  PROVE  BoundInv
<1>1. /\ native.log = <<>> /\ frame = <<>> /\ report = <<>> /\ observer = <<>> /\ work = <<>>
      /\ collector = 1 /\ tables.rows = <<>> /\ past.lost = 0
  BY DEF TunnelInit, Empty
<1> QED
  BY <1>1, TunnelAssumption DEF BoundInv, RowsBounded

LEMMA ProcessIsBounded ==
  ASSUME LedgerInv, BoundInv, NEW i \in Instances, Emit(i) \/ Retire(i)
  PROVE  BoundInv'
<1>1. UNCHANGED <<frame, report, observer, work, collector, tables, past>>
  BY DEF Emit, Retire, monitorVars, storeVars
<1>2. Len(native'.log) <= MaxEvents
  <2>1. CASE Emit(i)
    <3>1. PICK s \in Follows(native.state[i]) :
            /\ native' = [native EXCEPT !.state[i] = s,
                                        !.log = Append(@, [of |-> i, state |-> s])]
            /\ Len(native.log) < MaxEvents
      BY <2>1 DEF Emit
    <3>2. native'.log = Append(native.log, [of |-> i, state |-> s])
      BY <3>1 DEF LedgerInv, AgentInv
    <3>3. Len(native'.log) = Len(native.log) + 1 /\ Len(native.log) \in Nat
      BY <3>2 DEF LedgerInv, AgentInv
    <3> QED
      BY <3>1, <3>3, TunnelAssumption
  <2>2. CASE Retire(i)
    <3>1. native'.log = native.log
      BY <2>2 DEF Retire, LedgerInv, AgentInv
    <3> QED
      BY <3>1 DEF BoundInv
  <2> QED
    BY <2>1, <2>2
<1> QED
  BY <1>1, <1>2 DEF BoundInv, Bounded, RowsBounded, LastSequence

\* Only the snapshots change.
LEMMA SnapshotsAreBounded ==
  ASSUME BoundInv, UNCHANGED <<native, observer, work, collector, tables>>,
         Len(frame') <= 1, frame' # <<>> => Bounded(frame'[1]),
         Len(report') <= 1, report' # <<>> => Bounded(report'[1]),
         past' = past \/ (past.lost < MaxLost /\ past'.lost = past.lost + 1)
  PROVE  BoundInv'
<1>1. past'.lost \in 0 .. MaxLost
  BY TunnelAssumption DEF BoundInv
<1> QED
  BY <1>1 DEF BoundInv, Bounded, RowsBounded, LastSequence

LEMMA TakingIsBounded ==
  ASSUME LedgerInv, BoundInv, SnapshotEvents
  PROVE  BoundInv'
<1> DEFINE log == native.log
<1> PICK v : v = frame'[1]
  OBVIOUS
<1>1. PICK objects :
        frame' = <<[Blank EXCEPT !.process = native.process,
                                 !.first   = IF log = <<>> THEN 0 ELSE First(log),
                                 !.events  = SubSeq(log, First(log), Len(log)),
                                 !.objects = objects,
                                 !.dropped = IF Len(log) > Ring THEN Len(log) - Ring ELSE 0]>>
  BY DEF SnapshotEvents
<1>2. /\ v.first = IF log = <<>> THEN 0 ELSE First(log)
      /\ v.events = SubSeq(log, First(log), Len(log)) /\ v.state = "unavailable"
      /\ Len(frame') = 1
  BY <1>1 DEF Blank
<1>3. log \in Seq(Events) /\ Len(log) \in Nat /\ Len(log) <= MaxEvents
  BY DEF LedgerInv, AgentInv, BoundInv
<1>4. LastSequence(v) = Len(log)
  BY <1>2, <1>3, FrameLength
<1>5. Len(v.events) <= Window
  <2> DEFINE f == First(log)
  <2>1. f \in Nat \ {0} /\ Len(log) - f + 1 <= Window /\ Window \in Nat
    BY <1>3, TunnelAssumption DEF First
  <2> HIDE DEF f
  <2>2. Len(SubSeq(log, f, Len(log))) = IF f <= Len(log) THEN Len(log) - f + 1 ELSE 0
    BY <1>3, <2>1
  <2> QED
    BY <1>2, <1>3, <2>1, <2>2 DEF f
<1>6. Bounded(v)
  BY <1>2, <1>3, <1>4, <1>5 DEF Bounded, SnapshotStates
<1>7. /\ UNCHANGED <<native, observer, work, collector, tables, past, report>>
      /\ Len(report) <= 1 /\ (report # <<>> => Bounded(report[1]))
  BY DEF SnapshotEvents, monitorVars, storeVars, BoundInv
<1> QED
  BY <1>2, <1>6, <1>7, SnapshotsAreBounded

LEMMA TakenIsBounded ==
  ASSUME LedgerInv, FreshInv, BoundInv, SnapshotNothing \/ SnapshotObjects \/ SnapshotNoObjects
  PROVE  BoundInv'
<1> PICK v, f : v = report'[1] /\ f = frame[1]
  OBVIOUS
<1>1. /\ UNCHANGED <<native, observer, work, collector, tables>>
      /\ frame' = frame \/ frame' = <<>>
      /\ Len(frame) <= 1 /\ (frame # <<>> => Bounded(f))
  BY DEF SnapshotNothing, SnapshotObjects, SnapshotNoObjects, agentVars, storeVars, BoundInv
<1>2. past' = past \/ (past.lost < MaxLost /\ past'.lost = past.lost + 1)
  <2>1. past' = past \/ (past.lost < MaxLost /\ past' = [past EXCEPT !.lost = @ + 1])
    BY DEF SnapshotNothing, SnapshotObjects, SnapshotNoObjects, storeVars
  <2> QED
    BY <2>1 DEF FreshInv
<1>3. Len(report') = 1 /\ Bounded(v)
  <2>1. CASE SnapshotNothing
    <3>1. report' = <<Blank>> /\ LastSequence(Blank) = 0 /\ Len(Blank.events) = 0
          /\ Blank.state = "unavailable"
      BY <2>1 DEF SnapshotNothing, Blank, LastSequence
    <3> QED
      BY <3>1, TunnelAssumption DEF Bounded, SnapshotStates
  <2>2. CASE SnapshotObjects \/ SnapshotNoObjects
    <3>1. PICK state, objects :
            /\ report' = <<[f EXCEPT !.state = state, !.objects = objects]>>
            /\ state \in SnapshotStates /\ frame # <<>>
      <4>1. CASE SnapshotObjects
        <5>1. /\ report' = <<[f EXCEPT !.state = "ready",
                                       !.objects = [n \in DOMAIN @ |-> Shown(@[n])]]>>
              /\ frame # <<>>
          BY <4>1 DEF SnapshotObjects
        <5>2. report' = <<[f EXCEPT !.state = "ready",
                                    !.objects = [n \in DOMAIN f.objects |-> Shown(f.objects[n])]]>>
          BY <1>1, <5>1 DEF Bounded
        <5>3. "ready" \in SnapshotStates
          BY DEF SnapshotStates
        <5> QED
          BY <5>1, <5>2, <5>3
      <4>2. CASE SnapshotNoObjects
        <5>1. PICK state \in {"unavailable", "truncated"} :
                report' = <<[f EXCEPT !.state = state, !.objects = <<>>]>>
          BY <4>2 DEF SnapshotNoObjects
        <5>2. state \in SnapshotStates /\ frame # <<>>
          BY <4>2, <5>1 DEF SnapshotNoObjects, SnapshotStates
        <5> QED
          BY <5>1, <5>2
      <4> QED
        BY <2>2, <4>1, <4>2
    <3>2. TrueSnapshot(f) /\ Bounded(f)
      BY <1>1, <3>1 DEF LedgerInv, AgentInv
    <3>3. v.state = state /\ v.events = f.events /\ v.first = f.first /\ Len(report') = 1
      BY <3>1, <3>2 DEF TrueSnapshot, SnapshotFields
    <3> QED
      BY <3>1, <3>2, <3>3 DEF Bounded, LastSequence
  <2> QED
    BY <2>1, <2>2
<1>4. /\ Len(frame') <= 1 /\ (frame' # <<>> => Bounded(frame'[1]))
      /\ Len(report') <= 1 /\ (report' # <<>> => Bounded(report'[1]))
  BY <1>1, <1>3
<1> QED
  BY <1>1, <1>2, <1>4, SnapshotsAreBounded

\* Only the transaction under way changes.
LEMMA WorkIsBounded ==
  ASSUME BoundInv, UNCHANGED <<native, frame, report, collector, tables>>,
         Len(observer') <= 1, Len(work') <= 1,
         NEW w, work' # <<>> => /\ work'[1] = w /\ Bounded(w.snapshot) /\ RowsBounded(w.tx.rows)
                                /\ w.remaining \in 0 .. Budget,
         past' = past \/ (past.lost < MaxLost /\ past'.lost = past.lost + 1)
  PROVE  BoundInv'
<1>1. past'.lost \in 0 .. MaxLost
  BY TunnelAssumption DEF BoundInv
<1> QED
  BY <1>1 DEF BoundInv, Bounded, RowsBounded, LastSequence

LEMMA BeginIsBounded ==
  ASSUME LedgerInv, BoundInv, BeginSlice
  PROVE  BoundInv'
<1> DEFINE v    == Attributed
           gaps == Gaps(v, tables.sources[<<Scope, v.process>>])
           g    == [n \in DOMAIN gaps |-> Row(Scope, v.process, gaps[n], 0, 0)]
<1> PICK w : w = work'[1]
  OBVIOUS
<1>1. /\ Len(work') = 1 /\ w.snapshot = v /\ w.tx = [tables EXCEPT !.rows = @ \o g]
      /\ w.remaining = Budget /\ report # <<>>
      /\ UNCHANGED <<native, frame, report, collector, tables, observer, past>>
  BY DEF BeginSlice, Progress, agentVars, monitorVars, storeVars
<1>2. Bounded(v)
  <2>1. TrueSnapshot(report[1]) /\ Bounded(report[1])
    BY <1>1 DEF LedgerInv, MonitorInv, BoundInv
  <2>2. v.state = report[1].state /\ v.events = report[1].events /\ v.first = report[1].first
    BY <2>1 DEF Attributed, TrueSnapshot, SnapshotFields
  <2> QED
    BY <2>1, <2>2 DEF Bounded, LastSequence
<1>3. gaps \in Seq(GapCodes)
  BY GapFacts
<1> HIDE DEF gaps, v
<1>4. g \in Seq([seq : {0}, scope : {Scope}, process : {v.process}, code : GapCodes, of : {0}])
  <2>1. Len(gaps) \in Nat /\ DOMAIN gaps = 1 .. Len(gaps)
        /\ \A n \in 1 .. Len(gaps) : gaps[n] \in GapCodes
    BY <1>3
  <2> QED
    BY <2>1 DEF Row
<1>5. \A n \in 1 .. Len(g) : g[n].seq = 0
  <2> DEFINE S == [seq : {0}, scope : {Scope}, process : {v.process}, code : GapCodes, of : {0}]
  <2>1. \A s \in S : s.seq = 0
    OBVIOUS
  <2>2. g \in Seq(S)
    BY <1>4
  <2> HIDE DEF S
  <2>3. \A n \in 1 .. Len(g) : g[n] \in S
    BY <2>2
  <2> QED
    BY <2>1, <2>3
<1> HIDE DEF g
<1>6. RowsBounded(w.tx.rows)
  <2>1. w.tx.rows = tables.rows \o g /\ tables.rows \in Seq(EventRows)
    BY <1>1 DEF LedgerInv, TablesInv, TrueTables, TableFields
  <2>2. \A n \in 1 .. Len(tables.rows) : tables.rows[n].seq <= MaxEvents
    BY DEF BoundInv, RowsBounded
  <2> PICK q : q = tables.rows
    OBVIOUS
  <2>3. \A n \in 1 .. Len(q \o g) : (q \o g)[n].seq <= MaxEvents
    <3>1. /\ Len(q \o g) = Len(q) + Len(g) /\ Len(q) \in Nat /\ Len(g) \in Nat
          /\ \A n \in 1 .. Len(q \o g) : (q \o g)[n] = IF n <= Len(q) THEN q[n] ELSE g[n - Len(q)]
      BY <1>4, <2>1
    <3>2. 0 <= MaxEvents
      BY TunnelAssumption
    <3> QED
      BY <1>5, <2>2, <3>1, <3>2
  <2> QED
    BY <2>1, <2>3 DEF RowsBounded
<1>7. Budget \in 0 .. Budget /\ Len(observer) <= 1
  BY TunnelAssumption DEF BoundInv
<1> QED
  <2>1. /\ UNCHANGED <<native, frame, report, collector, tables>> /\ past' = past
        /\ Len(observer') <= 1 /\ Len(work') <= 1
    BY <1>1, <1>7
  <2>2. /\ work'[1] = w /\ Bounded(w.snapshot) /\ RowsBounded(w.tx.rows)
        /\ w.remaining \in 0 .. Budget
    BY <1>1, <1>2, <1>6, <1>7
  <2> QED
    BY <2>1, <2>2, WorkIsBounded

LEMMA WriteEventIsBounded ==
  ASSUME LedgerInv, BoundInv, WriteEvent
  PROVE  BoundInv'
<1> DEFINE w   == work[1]
           v   == w.snapshot
           seq == NextSequence(w)
           e   == v.events[seq - v.first + 1]
           k   == InstanceKey(v.process, e.of)
           d1  == Upsert(w.tx, v.process, e)
           row == Row(Scope, v.process, "event", seq, d1.instances[k].id)
           d2  == [d1 EXCEPT !.rows = Append(@, row)]
           d3  == IF e.state = "settled"
                  THEN [d2 EXCEPT !.instances[k].state = "settled"] ELSE d2
           n   == [w EXCEPT !.tx = d3, !.processed = seq, !.remaining = @ - 1]
<1>1. /\ work # <<>> /\ MoreEvents(w) /\ w.remaining > 0 /\ work' = <<n>>
      /\ UNCHANGED <<native, frame, report, collector, tables, observer, past>>
  BY DEF WriteEvent, agentVars, monitorVars, storeVars
<1>2. /\ TrueWork(w) /\ Bounded(v) /\ RowsBounded(w.tx.rows) /\ w.remaining \in 0 .. Budget
  BY <1>1 DEF LedgerInv, WorkInv, BoundInv
<1>3. seq <= MaxEvents
  <2>1. seq \in Int /\ LastSequence(v) \in Int
    BY <1>2, LastSequenceType DEF TrueWork, TrueSnapshot, NextSequence
  <2> QED
    <3>1. seq <= LastSequence(v)
      BY <1>1 DEF MoreEvents
    <3>2. LastSequence(v) <= MaxEvents
      BY <1>2 DEF Bounded
    <3> QED
      BY <2>1, <3>1, <3>2, TunnelAssumption
<1>4. row.seq = seq
  BY DEF Row
<1>5. TrueTables(d1) /\ d1.rows = w.tx.rows
  BY <1>2, UpsertFacts DEF TrueWork
<1> HIDE DEF d1, row, e, k, seq, v, w
<1>6. d3.rows = Append(d1.rows, row)
  <2>1. d2.rows = Append(d1.rows, row) /\ DOMAIN d2 = TableFields
    BY <1>5 DEF TrueTables, TableFields
  <2> HIDE DEF d2
  <2> QED
    BY <2>1 DEF TableFields
<1> HIDE DEF d3
<1>7. /\ n.tx = d3 /\ n.snapshot = v /\ n.remaining = w.remaining - 1
  BY <1>2 DEF TrueWork, WorkFields, v
<1> HIDE DEF n
<1>8. RowsBounded(n.tx.rows)
  <2>1. d1.rows \in Seq(EventRows)
    BY <1>5 DEF TrueTables
  <2> PICK q, r : q = d1.rows /\ r = row
    OBVIOUS
  <2>2. q \in Seq(EventRows) /\ r.seq <= MaxEvents /\ RowsBounded(q)
    BY <1>2, <1>3, <1>4, <1>5, <2>1
  <2>3. /\ Len(Append(q, r)) = Len(q) + 1 /\ Len(q) \in Nat
        /\ \A m \in 1 .. Len(q) + 1 : Append(q, r)[m] = IF m <= Len(q) THEN q[m] ELSE r
    BY <2>2
  <2>4. RowsBounded(Append(q, r))
    BY <2>2, <2>3 DEF RowsBounded
  <2> QED
    BY <1>6, <1>7, <2>4
<1>9. n.remaining \in 0 .. Budget
  BY <1>1, <1>2, <1>7, TunnelAssumption
<1>10. Len(observer) <= 1
  BY DEF BoundInv
<1> QED
  <2>1. /\ UNCHANGED <<native, frame, report, collector, tables>> /\ past' = past
        /\ Len(observer') <= 1 /\ Len(work') <= 1
    BY <1>1, <1>10
  <2>2. /\ work'[1] = n /\ Bounded(n.snapshot) /\ RowsBounded(n.tx.rows)
        /\ n.remaining \in 0 .. Budget
    BY <1>1, <1>2, <1>7, <1>8, <1>9
  <2> QED
    BY <2>1, <2>2, WorkIsBounded

LEMMA WriteObjectIsBounded ==
  ASSUME LedgerInv, BoundInv, WriteObject
  PROVE  BoundInv'
<1> PICK w, n : w = work[1] /\ n = work'[1]
  OBVIOUS
<1> DEFINE x == w.snapshot.objects[w.offset + 1]
           d == Upsert(w.tx, w.snapshot.process, x)
<1>1. /\ work # <<>> /\ w.remaining > 0 /\ Len(work') = 1
      /\ n = [w EXCEPT !.tx = d, !.offset = @ + 1, !.remaining = @ - 1]
      /\ UNCHANGED <<native, frame, report, collector, tables, observer, past>>
  BY DEF WriteObject, agentVars, monitorVars, storeVars
<1>2. /\ TrueWork(w) /\ Bounded(w.snapshot) /\ RowsBounded(w.tx.rows)
      /\ w.remaining \in 0 .. Budget /\ Len(observer) <= 1
  BY <1>1 DEF LedgerInv, WorkInv, BoundInv
<1>3. d.rows = w.tx.rows
  BY <1>2, UpsertFacts DEF TrueWork
<1> HIDE DEF d
<1>4. /\ n.tx = d /\ n.snapshot = w.snapshot /\ n.remaining = w.remaining - 1
  BY <1>1, <1>2 DEF TrueWork, WorkFields
<1>5. n.remaining \in 0 .. Budget
  BY <1>1, <1>2, <1>4, TunnelAssumption
<1> QED
  <2>1. /\ UNCHANGED <<native, frame, report, collector, tables>> /\ past' = past
        /\ Len(observer') <= 1 /\ Len(work') <= 1
    BY <1>1, <1>2
  <2>2. /\ work'[1] = n /\ Bounded(n.snapshot) /\ RowsBounded(n.tx.rows)
        /\ n.remaining \in 0 .. Budget
    BY <1>1, <1>2, <1>3, <1>4, <1>5
  <2> QED
    BY <2>1, <2>2, WorkIsBounded

LEMMA CommitIsBounded ==
  ASSUME LedgerInv, FreshInv, BoundInv, NEW told \in BOOLEAN, CommitSlice(told)
  PROVE  BoundInv'
<1> PICK w : w = work[1]
  OBVIOUS
<1>1. /\ work # <<>> /\ work' = <<>> /\ tables' = Written(w)
      /\ past' = [past EXCEPT !.born = @ \cup Born(w.tx),
                              !.lost = IF told THEN @ ELSE @ + 1]
      /\ ~told => past.lost < MaxLost
      /\ observer' = observer \/ Len(observer') = 1
      /\ UNCHANGED <<native, frame, report, collector>>
  BY DEF CommitSlice, agentVars
<1>2. TrueWork(w) /\ RowsBounded(w.tx.rows)
  BY <1>1 DEF LedgerInv, WorkInv, BoundInv
<1>3. RowsBounded(tables'.rows)
  BY <1>1, <1>2, WrittenFacts
<1>4. past'.lost \in 0 .. MaxLost
  <2>1. past'.lost = IF told THEN past.lost ELSE past.lost + 1
    BY <1>1 DEF FreshInv
  <2>2. past.lost \in 0 .. MaxLost
    BY DEF BoundInv
  <2> QED
    BY <1>1, <2>1, <2>2, TunnelAssumption
<1>5. Len(observer') <= 1
  <2>1. CASE observer' = observer
    BY <2>1 DEF BoundInv
  <2>2. CASE Len(observer') = 1
    BY <2>2
  <2> QED
    BY <1>1, <2>1, <2>2
<1> QED
  BY <1>1, <1>3, <1>4, <1>5 DEF BoundInv, Bounded, RowsBounded, LastSequence

LEMMA OtherStepsAreBounded ==
  ASSUME LedgerInv, FreshInv, BoundInv,
         \/ SkipSlice \/ LoseSlice \/ Forget \/ NativeRestart \/ Reconnect \/ MonitorRestart
         \/ Rebind \/ Learn
  PROVE  BoundInv'
<1>1. /\ native' = native \/ native'.log = <<>>
      /\ frame' = frame \/ frame' = <<>>
      /\ report' = report \/ report' = <<>>
      /\ work' = work \/ work' = <<>>
      /\ observer' = observer \/ observer' = <<>> \/ Len(observer') = 1
      /\ tables' = tables
  BY DEF SkipSlice, LoseSlice, Forget, NativeRestart, Reconnect, MonitorRestart, Rebind, Learn,
     agentVars, monitorVars, storeVars, Reborn
<1>2. collector' \in 1 .. MaxCollectors
  <2>1. collector' = collector \/ (collector < MaxCollectors /\ collector' = collector + 1)
    BY DEF SkipSlice, LoseSlice, Forget, NativeRestart, Reconnect, MonitorRestart, Rebind, Learn,
       monitorVars
  <2> QED
    BY <2>1, TunnelAssumption DEF BoundInv
<1>3. past'.lost \in 0 .. MaxLost
  <2>1. past' = past \/ (past.lost < MaxLost /\ past' = [past EXCEPT !.lost = @ + 1])
    BY DEF SkipSlice, LoseSlice, Forget, NativeRestart, Reconnect, MonitorRestart, Rebind, Learn,
       storeVars
  <2>2. past' = past \/ (past.lost < MaxLost /\ past'.lost = past.lost + 1)
    BY <2>1 DEF FreshInv
  <2> QED
    BY <2>2, TunnelAssumption DEF BoundInv
<1>4. Len(<<>>) = 0 /\ 0 <= MaxEvents
  BY TunnelAssumption
<1>5. Len(native'.log) <= MaxEvents
  BY <1>1, <1>4 DEF BoundInv
<1>6. /\ Len(frame') <= 1 /\ (frame' # <<>> => Bounded(frame[1])')
      /\ Len(report') <= 1 /\ (report' # <<>> => Bounded(report[1])')
      /\ Len(observer') <= 1 /\ Len(work') <= 1
  <2>1. /\ Len(frame) <= 1 /\ Len(report) <= 1 /\ Len(observer) <= 1 /\ Len(work) <= 1
        /\ frame # <<>> => Bounded(frame[1])
        /\ report # <<>> => Bounded(report[1])
    BY DEF BoundInv
  <2>2. Len(frame') <= 1 /\ Len(report') <= 1 /\ Len(observer') <= 1 /\ Len(work') <= 1
    <3>1. ASSUME NEW a, NEW b, Len(a) <= 1, b = a \/ b = <<>> \/ Len(b) = 1
          PROVE  Len(b) <= 1
      <4>1. CASE b = <<>>
        BY <1>4, <4>1
      <4>2. CASE Len(b) = 1
        BY <4>2
      <4> QED
        BY <3>1, <4>1, <4>2
    <3> QED
      BY <1>1, <2>1, <3>1
  <2>3. frame' # <<>> => Bounded(frame[1])'
    BY <1>1, <2>1 DEF Bounded, LastSequence
  <2>4. report' # <<>> => Bounded(report[1])'
    BY <1>1, <2>1 DEF Bounded, LastSequence
  <2> QED
    BY <2>2, <2>3, <2>4
<1>7. work' # <<>> => (/\ Bounded(work[1].snapshot) /\ RowsBounded(work[1].tx.rows)
                       /\ work[1].remaining \in 0 .. Budget)'
  BY <1>1 DEF BoundInv, Bounded, LastSequence, RowsBounded
<1>8. RowsBounded(tables.rows)'
  BY <1>1 DEF BoundInv, RowsBounded
<1> QED
  BY <1>2, <1>3, <1>5, <1>6, <1>7, <1>8 DEF BoundInv

LEMMA PruneIsBounded ==
  ASSUME LedgerInv, BoundInv, Prune
  PROVE  BoundInv'
<1>1. /\ work = <<>> /\ work' = <<>>
      /\ UNCHANGED <<native, frame, report, observer, collector, past>>
  BY DEF Prune, agentVars, monitorVars
<1>2. PICK n \in {0, 1}, quiet \in BOOLEAN :
        /\ n <= Len(tables.rows)
        /\ LET cut == [tables EXCEPT !.rows = SubSeq(@, n + 1, Len(@)), !.pruned = @ \/ n > 0]
           IN  \E old \in SUBSET Expired(cut) :
                 tables' = IF quiet THEN WithoutSources(WithoutInstances(cut, old))
                                    ELSE WithoutInstances(cut, old)
  BY DEF Prune
<1> DEFINE q   == SubSeq(tables.rows, n + 1, Len(tables.rows))
           z   == tables.pruned \/ n > 0
           cut == [tables EXCEPT !.rows = q, !.pruned = z]
<1>3. PICK old : tables' = IF quiet THEN WithoutSources(WithoutInstances(cut, old))
                                    ELSE WithoutInstances(cut, old)
  BY <1>2
<1> HIDE DEF q, z
<1>4. DOMAIN cut = TableFields /\ cut.rows = q
  BY DEF LedgerInv, TablesInv, TrueTables, TableFields
<1> HIDE DEF cut
<1> DEFINE d == WithoutInstances(cut, old)
<1>5. DOMAIN d = TableFields /\ d.rows = q
  BY <1>4 DEF WithoutInstances, TableFields
<1> HIDE DEF d
<1>6. tables'.rows = q
  BY <1>3, <1>5 DEF WithoutSources, TableFields, d
<1>7. RowsBounded(q)
  <2> PICK rows : rows = tables.rows
    OBVIOUS
  <2>1. rows \in Seq(EventRows) /\ n \in Nat /\ n <= Len(rows) /\ RowsBounded(rows)
    BY <1>2 DEF LedgerInv, TablesInv, TrueTables, BoundInv
  <2>2. /\ Len(SubSeq(rows, n + 1, Len(rows))) = Len(rows) - n /\ Len(rows) \in Nat
        /\ \A m \in 1 .. Len(rows) - n : SubSeq(rows, n + 1, Len(rows))[m] = rows[m + n]
    BY <2>1
  <2> QED
    BY <2>1, <2>2 DEF RowsBounded, q
<1> QED
  BY <1>1, <1>6, <1>7 DEF BoundInv, Bounded, RowsBounded, LastSequence

LEMMA StepIsBounded ==
  ASSUME LedgerInv, FreshInv, BoundInv, [TunnelNext]_tunnelVars
  PROVE  BoundInv'
<1>1. CASE \E i \in Instances : Emit(i) \/ Retire(i)
  BY <1>1, ProcessIsBounded
<1>2. CASE Snapshot \/ SnapshotNothing \/ SnapshotNoObjects
  BY <1>2, TakingIsBounded, TakenIsBounded DEF Snapshot
<1>3. CASE Slice \/ CommitSlice(FALSE)
  BY <1>3, BeginIsBounded, WriteEventIsBounded, WriteObjectIsBounded, CommitIsBounded DEF Slice
<1>4. CASE \/ SkipSlice \/ LoseSlice \/ Forget \/ NativeRestart \/ Reconnect \/ MonitorRestart
           \/ Rebind \/ Learn
  BY <1>4, OtherStepsAreBounded
<1>5. CASE Prune
  BY <1>5, PruneIsBounded
<1>6. CASE UNCHANGED tunnelVars
  BY <1>6 DEF tunnelVars, agentVars, monitorVars, storeVars, BoundInv, Bounded, RowsBounded,
     LastSequence
<1> QED
  BY <1>1, <1>2, <1>3, <1>4, <1>5, <1>6 DEF TunnelNext

\* Every variable of the tunnel history keeps its type, and the ledger no more
\* events than the process had: windows, budgets, positions and identities stay in
\* their ranges (Registry.Snapshot, IngestTunnelSlice, schema.sql).
THEOREM HistoryIsTyped == TunnelSpec => []TunnelTypeOK
<1>1. LedgerInv /\ FreshInv /\ InventoryInv /\ BoundInv => TunnelTypeOK
  <2> SUFFICES ASSUME LedgerInv, FreshInv, InventoryInv, BoundInv PROVE TunnelTypeOK
    OBVIOUS
  <2>1. \A taken \in {frame, report} :
          /\ Len(taken) <= 1
          /\ taken # <<>> => /\ taken[1].process \in 0 .. MaxProcesses
                             /\ taken[1].state \in SnapshotStates
                             /\ Len(taken[1].events) <= Window
    BY DEF LedgerInv, AgentInv, MonitorInv, TrueSnapshot, BoundInv, Bounded
  <2>2. tables.tunnelId \in Nat /\ tables.instanceId \in Nat
    BY DEF FreshInv, Fresh, LedgerInv, TablesInv, TrueTables
  <2>3. \A n \in DOMAIN tables.rows : tables.rows[n].seq \in 0 .. MaxEvents
    <3>1. /\ tables.rows \in Seq(EventRows) /\ DOMAIN tables.rows = 1 .. Len(tables.rows)
      BY DEF LedgerInv, TablesInv, TrueTables
    <3>2. \A n \in DOMAIN tables.rows : tables.rows[n].seq \in Nat
      <4>1. \A r \in EventRows : r.seq \in Nat
        BY DEF EventRows
      <4>2. \A n \in DOMAIN tables.rows : tables.rows[n] \in EventRows
        BY <3>1
      <4> QED
        BY <4>1, <4>2
    <3> QED
      BY <3>1, <3>2, TunnelAssumption DEF BoundInv, RowsBounded
  <2> QED
    BY <2>1, <2>2, <2>3
    DEF TunnelTypeOK, BoundInv, SnapshotStates, LedgerInv, AgentInv, MonitorInv,
        InventoryInv, RegistryInv
<1>2. LedgerInv /\ FreshInv /\ [TunnelNext]_tunnelVars => FreshInv'
  BY StepIsFresh
<1>3. LedgerInv /\ FreshInv /\ InventoryInv /\ [TunnelNext]_tunnelVars => InventoryInv'
  BY StepStored
<1>4. LedgerInv /\ FreshInv /\ BoundInv /\ [TunnelNext]_tunnelVars => BoundInv'
  BY StepIsBounded
<1> QED
  BY <1>1, <1>2, <1>3, <1>4, InitIsFresh, InitStored, InitIsBounded, LedgerIsTrue, PTL
  DEF TunnelSpec

=====================================================================================
