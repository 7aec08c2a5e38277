----------------------------- MODULE ControlStoreProofs -----------------------------
(***************************************************************************)
(* The totals of the ledger, and what callers and a Flush are told, proved *)
(* for every calendar, every traffic of the host, every capacity and every *)
(* number of callers, failures and restarts.                               *)
(***************************************************************************)
EXTENDS MCControlStore, TunnelLedgerProofs

\* A report that is worth the name: its counter is what the host has transferred
\* since it booted.
TrueSamples == {s \in [at : Time, boot : Time, bytes : Nat] :
                  s.bytes = Sent[s.at] - Sent[s.boot]}

Baselines == TrueSamples \cup {NoSample}
Queued    == [sample : Baselines, caller : SUBSET Callers]

TrueRows == [monthly : BOOLEAN, day : Time, today : Nat, todayPartial : BOOLEAN,
             start : Time, end : Nat \cup {None}, period : Nat, periodPartial : BOOLEAN,
             base : Baselines, revision : Nat]

\* A total of a range that begins at the given instant: exact unless it is called
\* partial, and zero as long as no report is later than its beginning.
TrueRange(base, begin, total, partial) ==
  /\ base.at <= begin => total = 0
  /\ ~partial => base # NoSample /\ base.at >= begin /\ total = Sent[base.at] - Sent[begin]

TrueRow(n) ==
  /\ n \in TrueRows
  /\ TrueRange(n.base, n.day, n.today, n.todayPartial)
  /\ TrueRange(n.base, n.start, n.period, n.periodPartial)

------------------------------------------------------------------------------------
(* The arithmetic of the ledger *)

LEMMA TimeFacts ==
  /\ \A t \in Time : t \in Nat /\ t \in Int /\ t # None
  /\ None \in Int /\ None < 0 /\ None \notin Time
BY CalendarAssumption DEF Time, None

LEMMA SampleFacts ==
  ASSUME NEW s \in TrueSamples
  PROVE  /\ s.at \in Time /\ s.boot \in Time /\ s.bytes \in Nat
         /\ s.at \in Int /\ s # NoSample /\ Sent[s.at] \in Nat
<1>1. s.at \in Time /\ s.boot \in Time /\ s.bytes \in Nat
  BY DEF TrueSamples
<1>2. NoSample.at = None
  BY DEF NoSample
<1> QED
  BY <1>1, <1>2, TimeFacts, StoreAssumption

LEMMA DivisionIsNatural ==
  ASSUME NEW a \in Nat, NEW b \in Nat, b > 0
  PROVE  a \div b \in Nat
BY SMT

LEMMA ProductIsNatural ==
  ASSUME NEW a \in Nat, NEW b \in Nat
  PROVE  a * b \in Nat
BY SMT

\* addFraction adds nothing before the boundary, everything after it, and never
\* takes away.
LEMMA AddFractionFacts ==
  ASSUME NEW total \in Nat, NEW delta \in Nat, NEW from \in Time, NEW to \in Time,
         NEW boundary \in Time, from < to
  PROVE  /\ AddFraction(total, delta, from, to, boundary) \in Nat
         /\ boundary >= to => AddFraction(total, delta, from, to, boundary) = total
         /\ boundary <= from => AddFraction(total, delta, from, to, boundary) = total + delta
<1>1. CASE boundary >= to
  BY <1>1, CalendarAssumption DEF AddFraction, Time
<1>2. CASE boundary < to /\ boundary <= from
  BY <1>2, CalendarAssumption DEF AddFraction, Time
<1>3. CASE boundary < to /\ boundary > from
  <2>1. to - boundary \in Nat /\ to - from \in Nat /\ to - from > 0
    BY <1>3, CalendarAssumption DEF Time
  <2>2. delta * (to - boundary) \in Nat
    BY <2>1, ProductIsNatural
  <2>3. (delta * (to - boundary)) \div (to - from) \in Nat
    BY <2>1, <2>2, DivisionIsNatural
  <2> DEFINE q == (delta * (to - boundary)) \div (to - from)
  <2>4. AddFraction(total, delta, from, to, boundary) = total + q
    BY <1>3, CalendarAssumption DEF AddFraction, Time
  <2>5. q \in Nat
    BY <2>3
  <2> HIDE DEF q
  <2>6. total + q \in Nat
    BY <2>5
  <2> QED
    BY <2>4, <2>6, <1>3, CalendarAssumption DEF Time
<1> QED
  BY <1>1, <1>2, <1>3, CalendarAssumption DEF Time

\* The counters of one boot differ by what the host has transferred in between.
LEMMA DeltaIsTraffic ==
  ASSUME NEW a \in TrueSamples, NEW b \in TrueSamples, a.boot = b.boot
  PROVE  b.bytes - a.bytes = Sent[b.at] - Sent[a.at]
BY StoreAssumption DEF TrueSamples

LEMMA BaselineFacts ==
  ASSUME NEW b \in Baselines
  PROVE  /\ b.at \in Time \cup {None}
         /\ b.at # None <=> b \in TrueSamples
         /\ b.at = None <=> b = NoSample
<1>1. NoSample.at = None /\ None \notin Time
  BY CalendarAssumption DEF NoSample, None, Time
<1>2. \A s \in TrueSamples : s.at \in Time
  BY DEF TrueSamples
<1> QED
  BY <1>1, <1>2 DEF Baselines

\* A range that begins anew is true of any baseline.
LEMMA EmptyRangeIsTrue ==
  ASSUME NEW b \in Baselines, NEW t \in Time
  PROVE  TrueRange(b, t, 0, b.at # t)
<1>1. b.at = t => b # NoSample /\ Sent[b.at] - Sent[t] = 0
  <2>1. Sent[t] \in Nat
    BY StoreAssumption
  <2>2. t # None
    BY CalendarAssumption DEF Time, None
  <2> QED
    BY <2>1, <2>2, BaselineFacts
<1>2. b.at = t => b.at >= t
  BY CalendarAssumption DEF Time
<1> QED
  BY <1>1, <1>2 DEF TrueRange

LEMMA RefreshKeepsTrue ==
  ASSUME NEW n, TrueRow(n), NEW t \in Time
  PROVE  TrueRow(Refresh(n, t)) /\ Refresh(n, t).base = n.base
                                /\ Refresh(n, t).day = DayStart[t]
<1> DEFINE d == RefreshDay(n, t)
<1>b. n \in TrueRows /\ n.base \in Baselines
  BY DEF TrueRow, TrueRows
<1>1. TrueRow(d) /\ d.base = n.base /\ d.day = DayStart[t]
  <2>1. CASE n.day = DayStart[t]
    BY <2>1 DEF RefreshDay
  <2>2. CASE n.day # DayStart[t]
    <3>1. d = [n EXCEPT !.day = DayStart[t], !.today = 0,
                        !.todayPartial = (n.base.at # DayStart[t])]
      BY <2>2 DEF RefreshDay
    <3>2. DayStart[t] \in Time
      BY CalendarAssumption
    <3> DEFINE p == n.base.at # DayStart[t]
    <3>p. p \in BOOLEAN /\ d = [n EXCEPT !.day = DayStart[t], !.today = 0, !.todayPartial = p]
      BY <3>1
    <3> HIDE DEF p, d
    <3>3. d \in TrueRows
      BY <3>p, <3>2, <1>b DEF TrueRows
    <3> USE DEF p, d
    <3>4. /\ d.day = DayStart[t] /\ d.today = 0 /\ d.base = n.base
          /\ d.todayPartial = (n.base.at # DayStart[t])
          /\ d.start = n.start /\ d.period = n.period /\ d.periodPartial = n.periodPartial
      BY <3>1, <1>b DEF TrueRows
    <3>5. TrueRange(n.base, n.start, n.period, n.periodPartial)
      BY DEF TrueRow
    <3>6. TrueRange(d.base, d.day, d.today, d.todayPartial)
      BY <3>4, <3>2, <1>b, EmptyRangeIsTrue
    <3> QED
      BY <3>3, <3>4, <3>5, <3>6 DEF TrueRow
  <2> QED
    BY <2>1, <2>2
<1> HIDE DEF d
<1>2. TrueRow(RefreshPeriod(d, t)) /\ RefreshPeriod(d, t).base = d.base
                                   /\ RefreshPeriod(d, t).day = d.day
  <2> DEFINE e == RefreshPeriod(d, t)
  <2>d. d \in TrueRows /\ d.base \in Baselines /\ d.start # None
    BY <1>1, CalendarAssumption DEF TrueRow, TrueRows, Time, None
  <2>1. CASE e = d
    BY <2>1, <1>1
  <2>2. CASE e # d
    <3>1. e = [d EXCEPT !.start = PeriodStart[t], !.end = PeriodEnd[t], !.period = 0,
                        !.periodPartial = (d.base.at # PeriodStart[t])]
      BY <2>2, <2>d DEF RefreshPeriod
    <3>2. PeriodStart[t] \in Time /\ PeriodEnd[t] \in Nat
      BY CalendarAssumption
    <3> DEFINE p == d.base.at # PeriodStart[t]
    <3>p. /\ p \in BOOLEAN
          /\ e = [d EXCEPT !.start = PeriodStart[t], !.end = PeriodEnd[t], !.period = 0,
                           !.periodPartial = p]
      BY <3>1
    <3> HIDE DEF p, e
    <3>3. e \in TrueRows
      BY <3>p, <3>2, <2>d DEF TrueRows
    <3> USE DEF p, e
    <3>4. /\ e.start = PeriodStart[t] /\ e.period = 0 /\ e.base = d.base
          /\ e.periodPartial = (d.base.at # PeriodStart[t])
          /\ e.day = d.day /\ e.today = d.today /\ e.todayPartial = d.todayPartial
      BY <3>1, <2>d DEF TrueRows
    <3>5. TrueRange(d.base, d.day, d.today, d.todayPartial)
      BY <1>1 DEF TrueRow
    <3>6. TrueRange(e.base, e.start, e.period, e.periodPartial)
      BY <3>4, <3>2, <2>d, EmptyRangeIsTrue
    <3> QED
      BY <3>3, <3>4, <3>5, <3>6 DEF TrueRow
  <2> QED
    BY <2>1, <2>2
<1> QED
  BY <1>1, <1>2 DEF Refresh, d

\* One range of a row, before and after a report that is newer than the baseline:
\* what the report adds and the flag it leaves make the range true again.
LEMMA CreditedRange ==
  ASSUME NEW b \in TrueSamples, NEW s \in TrueSamples, NEW begin \in Time, NEW total \in Nat,
         NEW partial \in BOOLEAN, NEW credited, NEW flag,
         b.at < s.at, b.boot = s.boot, b.bytes <= s.bytes,
         TrueRange(b, begin, total, partial),
         credited = AddFraction(total, s.bytes - b.bytes, b.at, s.at, begin),
         ~flag => ~partial \/ s.at = begin
  PROVE  credited \in Nat /\ TrueRange(s, begin, credited, flag)
<1> DEFINE delta == s.bytes - b.bytes
<1>t. b.at \in Time /\ s.at \in Time /\ s.bytes \in Nat /\ b.bytes \in Nat
  BY SampleFacts
<1>1. delta \in Nat /\ delta = Sent[s.at] - Sent[b.at]
  BY <1>t, DeltaIsTraffic
<1>i. b.at \in Int /\ s.at \in Int /\ begin \in Int
  BY <1>t, TimeFacts
<1>s. Sent[s.at] \in Nat /\ Sent[b.at] \in Nat /\ Sent[begin] \in Nat
  BY <1>t, StoreAssumption
<1>n. s # NoSample
  BY SampleFacts
<1> HIDE DEF delta
<1>c. credited = AddFraction(total, delta, b.at, s.at, begin)
  BY DEF delta
<1>2. /\ credited \in Nat
      /\ begin >= s.at => credited = total
      /\ begin <= b.at => credited = total + delta
  <2> DEFINE sum == AddFraction(total, delta, b.at, s.at, begin)
  <2>1. delta \in Nat /\ b.at \in Time /\ s.at \in Time /\ b.at < s.at
    BY <1>1, <1>t
  <2>2. /\ sum \in Nat
        /\ begin >= s.at => sum = total
        /\ begin <= b.at => sum = total + delta
    BY <2>1, AddFractionFacts
  <2> QED
    BY <1>c, <2>2
<1>3. s.at <= begin => credited = 0
  BY <1>2, <1>i DEF TrueRange
<1>4. ASSUME ~flag
      PROVE  s.at >= begin /\ credited = Sent[s.at] - Sent[begin]
  <2>1. CASE s.at = begin
    BY <2>1, <1>3, <1>i, <1>s
  <2>2. CASE ~partial
    <3>1. b.at >= begin /\ total = Sent[b.at] - Sent[begin]
      BY <2>2 DEF TrueRange
    <3> QED
      BY <3>1, <1>1, <1>2, <1>i, <1>s
  <2> QED
    BY <1>4, <2>1, <2>2
<1> QED
  BY <1>2, <1>3, <1>4, <1>n DEF TrueRange

\* Without a delta nothing is added and the range is partial, unless it begins with
\* this very report.
LEMMA EstimatedRange ==
  ASSUME NEW b \in Baselines, NEW s \in TrueSamples, NEW begin \in Time, NEW total \in Nat,
         NEW partial, b.at < s.at, TrueRange(b, begin, total, partial)
  PROVE  TrueRange(s, begin, total, s.at # begin)
<1>1. s.at \in Time /\ b.at \in Int /\ s.at \in Int /\ begin \in Int
  BY BaselineFacts, SampleFacts, TimeFacts
<1>2. Sent[s.at] \in Nat /\ s # NoSample
  BY SampleFacts
<1>3. s.at <= begin => total = 0
  BY <1>1 DEF TrueRange
<1> QED
  BY <1>1, <1>2, <1>3 DEF TrueRange

LEMMA RecordKeepsTrue ==
  ASSUME NEW n, TrueRow(n), NEW s \in TrueSamples, n.base.at < s.at
  PROVE  TrueRow(Record(n, s)) /\ Record(n, s).day = n.day /\ Record(n, s).base = s
<1> DEFINE b == n.base
<1>n. /\ n \in TrueRows /\ b \in Baselines /\ n.day \in Time /\ n.start \in Time
      /\ n.today \in Nat /\ n.period \in Nat
      /\ n.todayPartial \in BOOLEAN /\ n.periodPartial \in BOOLEAN
  BY DEF TrueRow, TrueRows
<1>r. /\ TrueRange(b, n.day, n.today, n.todayPartial)
      /\ TrueRange(b, n.start, n.period, n.periodPartial)
  BY DEF TrueRow
<1>s. s \in Baselines
  BY DEF Baselines
<1>1. CASE Comparable(b, s)
  <2>b. b \in TrueSamples /\ b.boot = s.boot /\ b.bytes <= s.bytes /\ b.at < s.at
    BY <1>1, <1>n, BaselineFacts DEF Comparable
  <2> DEFINE a == AddFraction(n.today, s.bytes - b.bytes, b.at, s.at, n.day)
             c == AddFraction(n.period, s.bytes - b.bytes, b.at, s.at, n.start)
             p == n.todayPartial \/ s.at - b.at > MaxGap \/ b.at < n.day
             q == n.periodPartial \/ s.at - b.at > MaxGap \/ b.at < n.start
             f == p /\ s.at # n.day
             g == q /\ s.at # n.start
             m == Credit(n, s)
  <2>m. m = [n EXCEPT !.today = a, !.period = c, !.todayPartial = p, !.periodPartial = q]
    BY DEF Credit
  <2>p. /\ p \in BOOLEAN /\ q \in BOOLEAN /\ f \in BOOLEAN /\ g \in BOOLEAN
        /\ ~f => ~p \/ s.at = n.day
        /\ ~g => ~q \/ s.at = n.start
        /\ ~p => ~n.todayPartial
        /\ ~q => ~n.periodPartial
    OBVIOUS
  <2>a. a \in Nat /\ TrueRange(s, n.day, a, f)
    <3> HIDE DEF c, p, f, q, g, m
    <3>1. ~f => ~n.todayPartial \/ s.at = n.day
      BY <2>p
    <3> QED
      BY <3>1, <2>b, <1>n, <1>r, CreditedRange
  <2>c. c \in Nat /\ TrueRange(s, n.start, c, g)
    <3> HIDE DEF a, p, f, q, g, m
    <3>1. ~g => ~n.periodPartial \/ s.at = n.start
      BY <2>p
    <3>2. c = AddFraction(n.period, s.bytes - b.bytes, b.at, s.at, n.start)
      OBVIOUS
    <3>3. /\ n.start \in Time /\ n.period \in Nat /\ n.periodPartial \in BOOLEAN
          /\ TrueRange(b, n.start, n.period, n.periodPartial)
      BY <1>n, <1>r
    <3> HIDE DEF b, c
    <3> QED
      BY <3>1, <3>2, <3>3, <2>b, CreditedRange
  <2> HIDE DEF a, c, p, q, m
  <2>3. /\ m \in TrueRows
        /\ m.today = a /\ m.period = c /\ m.todayPartial = p /\ m.periodPartial = q
        /\ m.day = n.day /\ m.start = n.start
    BY <2>m, <2>a, <2>c, <2>p, <1>n DEF TrueRows
  <2>4. Record(n, s) = [m EXCEPT !.todayPartial = f, !.periodPartial = g, !.base = s]
    <3>1. Record(n, s) = Rebase(m, s)
      BY <1>1 DEF Record, m
    <3> QED
      BY <3>1, <2>3 DEF Rebase, f, g
  <2> HIDE DEF f, g
  <2>5. /\ Record(n, s) \in TrueRows
        /\ Record(n, s).today = a /\ Record(n, s).period = c
        /\ Record(n, s).todayPartial = f /\ Record(n, s).periodPartial = g
        /\ Record(n, s).day = n.day /\ Record(n, s).start = n.start /\ Record(n, s).base = s
    BY <2>3, <2>4, <2>p, <1>s DEF TrueRows
  <2> QED
    BY <2>5, <2>a, <2>c DEF TrueRow
<1>2. CASE ~Comparable(b, s)
  <2> DEFINE f == s.at # n.day
             g == s.at # n.start
             m == Estimate(n)
  <2>m. m = [n EXCEPT !.today = n.today, !.period = n.period, !.todayPartial = TRUE,
                      !.periodPartial = TRUE]
    BY <1>n DEF Estimate, TrueRows
  <2>p. f \in BOOLEAN /\ g \in BOOLEAN
    OBVIOUS
  <2>a. TrueRange(s, n.day, n.today, f) /\ TrueRange(s, n.start, n.period, g)
    BY <1>n, <1>r, EstimatedRange
  <2> HIDE DEF m
  <2>3. /\ m \in TrueRows
        /\ m.today = n.today /\ m.period = n.period /\ m.todayPartial = TRUE
        /\ m.periodPartial = TRUE /\ m.day = n.day /\ m.start = n.start
    BY <2>m, <1>n DEF TrueRows
  <2>4. Record(n, s) = [m EXCEPT !.todayPartial = f, !.periodPartial = g, !.base = s]
    <3>1. Record(n, s) = Rebase(m, s)
      BY <1>2 DEF Record, m
    <3> QED
      BY <3>1, <2>3 DEF Rebase
  <2> HIDE DEF f, g
  <2>5. /\ Record(n, s) \in TrueRows
        /\ Record(n, s).today = n.today /\ Record(n, s).period = n.period
        /\ Record(n, s).todayPartial = f /\ Record(n, s).periodPartial = g
        /\ Record(n, s).day = n.day /\ Record(n, s).start = n.start /\ Record(n, s).base = s
    BY <2>3, <2>4, <2>p, <1>s DEF TrueRows
  <2> QED
    BY <2>5, <2>a DEF TrueRow
<1> QED
  BY <1>1, <1>2

LEMMA ObserveKeepsTrue ==
  ASSUME NEW n, TrueRow(n), NEW s \in Baselines, NEW t \in Time
  PROVE  /\ TrueRow(Observe(n, s, t))
         /\ Observe(n, s, t).day \in {n.day, DayStart[Later(s.at, t)]}
<1>b. n.base \in Baselines
  BY DEF TrueRow, TrueRows
<1>1. CASE s.at <= n.base.at
  BY <1>1 DEF Observe
<1>2. CASE ~(s.at <= n.base.at)
  <2>1. s \in TrueSamples
    BY <1>2, <1>b, BaselineFacts, TimeFacts
  <2> DEFINE u == Later(s.at, t)
             m == Refresh(n, u)
  <2>2. u \in Time
    BY <2>1, SampleFacts DEF Later
  <2>3. TrueRow(m) /\ m.base = n.base /\ m.day = DayStart[u]
    BY <2>2, RefreshKeepsTrue
  <2>4. m.base.at < s.at
    BY <1>2, <1>b, <2>1, <2>3, BaselineFacts, SampleFacts, TimeFacts
  <2>5. Observe(n, s, t) = Record(m, s)
    BY <1>2 DEF Observe
  <2> HIDE DEF m, u
  <2>6. TrueRow(Record(m, s)) /\ Record(m, s).day = m.day
    BY <2>1, <2>3, <2>4, RecordKeepsTrue
  <2> QED
    BY <2>3, <2>5, <2>6 DEF u
<1> QED
  BY <1>1, <1>2

LEMMA UpdatedKeepsTrue ==
  ASSUME NEW n, TrueRow(n), NEW monthly \in BOOLEAN, NEW reset \in BOOLEAN, NEW t \in Time
  PROVE  TrueRow(Updated(n, monthly, reset, t)) /\ Updated(n, monthly, reset, t).day = DayStart[t]
<1> DEFINE d == Refresh(n, t)
           m == SetMode(d, monthly, t)
           e == IF reset THEN Reset(m, t) ELSE m
           p == m.base.at # t
<1>1. TrueRow(d) /\ d \in TrueRows /\ d.day = DayStart[t]
  BY RefreshKeepsTrue DEF TrueRow
<1>2. PeriodEnd[t] \in Nat \cup {None} /\ None \in Nat \cup {None}
  BY CalendarAssumption
<1> HIDE DEF d
<1>3. /\ m \in TrueRows /\ m.base = d.base
      /\ m.day = d.day /\ m.today = d.today /\ m.todayPartial = d.todayPartial
      /\ m.start = d.start /\ m.period = d.period /\ m.periodPartial = d.periodPartial
  BY <1>1, <1>2 DEF SetMode, TrueRows
<1>4. TrueRow(m)
  BY <1>1, <1>3 DEF TrueRow
<1> HIDE DEF m
<1>5. TrueRow(e) /\ e \in TrueRows /\ e.day = d.day
  <2>1. CASE ~reset
    BY <2>1, <1>3, <1>4
  <2>2. CASE reset
    <3>1. p \in BOOLEAN /\ e = [m EXCEPT !.start = t, !.period = 0, !.periodPartial = p]
      BY <2>2 DEF Reset
    <3>b. m.base \in Baselines
      BY <1>3 DEF TrueRows
    <3>2. TrueRange(m.base, t, 0, p)
      BY <3>b, EmptyRangeIsTrue
    <3> HIDE DEF p, e
    <3>3. /\ e \in TrueRows /\ e.base = m.base
          /\ e.day = m.day /\ e.today = m.today /\ e.todayPartial = m.todayPartial
          /\ e.start = t /\ e.period = 0 /\ e.periodPartial = p
      BY <3>1, <1>3 DEF TrueRows
    <3> USE DEF e
    <3> QED
      BY <3>2, <3>3, <1>3, <1>4 DEF TrueRow
  <2> QED
    BY <2>1, <2>2
<1>6. Updated(n, monthly, reset, t) = [e EXCEPT !.revision = @ + 1]
  BY DEF Updated, d, m
<1> HIDE DEF e
<1> QED
  BY <1>1, <1>5, <1>6 DEF TrueRow, TrueRows

LEMMA CreatedIsTrue ==
  ASSUME NEW monthly \in BOOLEAN
  PROVE  TrueRow(Created(monthly, 0)) /\ Created(monthly, 0).day = DayStart[0]
<1>0. 0 \in Time /\ DayStart[0] \in Time /\ PeriodStart[0] \in Time /\ PeriodEnd[0] \in Nat
  BY CalendarAssumption DEF Time
<1>1. None # DayStart[0] /\ None # PeriodStart[0] /\ NoSample \in Baselines
      /\ NoSample.at = None
  BY <1>0, TimeFacts DEF Baselines, NoSample
<1> DEFINE n == Created(monthly, 0)
<1>2. /\ n \in TrueRows /\ n.base = NoSample /\ n.day = DayStart[0]
      /\ n.today = 0 /\ n.todayPartial = TRUE /\ n.period = 0 /\ n.periodPartial = TRUE
  <2>1. CASE monthly
    <3>1. n = [monthly |-> monthly, day |-> DayStart[0], today |-> 0, todayPartial |-> TRUE,
               start |-> PeriodStart[0], end |-> PeriodEnd[0], period |-> 0,
               periodPartial |-> TRUE, base |-> NoSample, revision |-> 1]
      BY <2>1, <1>1 DEF Created, Refresh, RefreshDay, RefreshPeriod
    <3> HIDE DEF n
    <3> QED
      BY <3>1, <1>0, <1>1 DEF TrueRows
  <2>2. CASE ~monthly
    <3>1. n = [monthly |-> monthly, day |-> DayStart[0], today |-> 0, todayPartial |-> TRUE,
               start |-> 0, end |-> None, period |-> 0,
               periodPartial |-> TRUE, base |-> NoSample, revision |-> 1]
      BY <2>2, <1>1 DEF Created, Refresh, RefreshDay, RefreshPeriod
    <3> HIDE DEF n
    <3> QED
      BY <3>1, <1>0, <1>1 DEF TrueRows
  <2> QED
    BY <2>1, <2>2
<1> HIDE DEF n
<1>3. TrueRow(n)
  BY <1>2 DEF TrueRow, TrueRange
<1> QED
  BY <1>2, <1>3 DEF n

------------------------------------------------------------------------------------
(* The store *)

WorkerStates == [at : {"loop", "collect", "apply", "serve", "exited"}, drain : BOOLEAN,
                 batch : Seq(Queued), tx : TrueRows, pending : Seq(Queued)]

CallStates == [pc : {"idle", "sending", "waiting", "returned"},
               kind : {"get", "reset", "mode", "flush"}, revision : Nat, done : BOOLEAN,
               reply : {"none", "ok", "failed", "conflict", "report", "cancelled"},
               result : {"none", "ok", "failed", "conflict", "report", "cancelled",
                         "closed", "lost"},
               ran : BOOLEAN, after : Nat, astray : BOOLEAN, late : BOOLEAN]

Histories == [accepted : Nat, handled : Nat, failed : Nat, restarts : Nat,
              unreported : BOOLEAN]

WorkerInv ==
  /\ worker \in WorkerStates
  /\ TrueRow(worker.tx)
  /\ Len(worker.batch) <= BatchLimit /\ Len(worker.pending) <= 1
  /\ worker.at = "serve" => worker.batch # <<>>

\* The row and the working copy of the worker are true, and so is every report on
\* its way to them.
StoreInv ==
  /\ clock \in Time /\ booted \in Time /\ booted <= clock
  /\ TrueRow(db)
  /\ queue \in Seq(Queued) /\ Len(queue) <= QueueCapacity
  /\ WorkerInv
  /\ ingestErr \in BOOLEAN /\ unhealthy \in BOOLEAN
  /\ closing \in {"no", "begun", "ended"}
  /\ call \in [Callers -> CallStates]
  /\ history \in Histories

LEMMA StartedWorker ==
  ASSUME NEW n, TrueRow(n)
  PROVE  /\ Started(n) \in WorkerStates /\ Started(n).tx = n /\ Started(n).at = "loop"
         /\ Started(n).batch = <<>> /\ Started(n).pending = <<>>
BY DEF Started, WorkerStates, TrueRow

LEMMA InitIsStoreInv == Init => StoreInv
<1> SUFFICES ASSUME Init PROVE StoreInv
  OBVIOUS
<1>1. clock \in Time /\ booted \in Time /\ booted <= clock
  BY CalendarAssumption DEF Init, Time
<1>2. TrueRow(Created(Monthly, 0))
  BY CreatedIsTrue, StoreAssumption
<1>3. TrueRow(db) /\ worker = Started(db)
  BY <1>2 DEF Init
<1>4. WorkerInv
  BY <1>3, StartedWorker, StoreAssumption DEF WorkerInv
<1>5. queue \in Seq(Queued) /\ Len(queue) <= QueueCapacity
  BY StoreAssumption DEF Init
<1>6. call \in [Callers -> CallStates]
  BY DEF Init, Quiet, CallStates
<1>7. history \in Histories
  BY DEF Init, Histories
<1> QED
  BY <1>1, <1>3, <1>4, <1>5, <1>6, <1>7 DEF StoreInv, Init

\* The report of an agent is a true one.
LEMMA ReportIsTrue ==
  ASSUME StoreInv
  PROVE  Report \in TrueSamples /\ SampleRequest(Report) \in Queued
<1>1. clock \in Time /\ booted \in Time /\ booted <= clock
  BY DEF StoreInv
<1>2. Sent[clock] \in Nat /\ Sent[booted] \in Nat /\ Sent[booted] <= Sent[clock]
  BY <1>1, StoreAssumption
<1>3. Report \in TrueSamples
  BY <1>1, <1>2 DEF Report, TrueSamples
<1> QED
  BY <1>3 DEF SampleRequest, Queued, Baselines

\* Steps that touch one caller only.
LEMMA CallerKeepsStoreInv ==
  ASSUME StoreInv, NEW c \in Callers, CallerStep(c) \/ Cancel(c)
  PROVE  StoreInv'
<1>c. call \in [Callers -> CallStates] /\ call[c] \in CallStates
  BY DEF StoreInv
<1>1. CASE Begin(c)
  <2>1. db.revision \in Nat
    BY DEF StoreInv, TrueRow, TrueRows
  <2>2. \A kind \in Kinds[c] : kind \in {"get", "reset", "mode", "flush"}
    BY StoreAssumption
  <2>3. PICK kind \in Kinds[c] :
          call' = [call EXCEPT ![c] =
                     [@ EXCEPT !.kind = kind, !.revision = db.revision,
                               !.pc = IF Closed THEN "returned" ELSE "sending",
                               !.result = IF Closed THEN "closed" ELSE "none"]]
    BY <1>1 DEF Begin
  <2>4. call' \in [Callers -> CallStates]
    BY <1>c, <2>1, <2>2, <2>3 DEF CallStates
  <2> QED
    BY <1>1, <2>4 DEF Begin, StoreInv, WorkerInv
<1>2. CASE Cancel(c)
  <2>1. call' \in [Callers -> CallStates]
    BY <1>2, <1>c DEF Cancel, CallStates
  <2> QED
    BY <1>2, <2>1 DEF Cancel, StoreInv, WorkerInv
<1>3. CASE Send(c)
  <2>1. call' \in [Callers -> CallStates]
    BY <1>3, <1>c DEF Send, CallStates, StoreInv, Histories
  <2>2. CallRequest(c) \in Queued
    BY DEF CallRequest, Queued, Baselines
  <2>3. queue' \in Seq(Queued) /\ Len(queue') <= QueueCapacity
    BY <1>3, <2>2, StoreAssumption DEF Send, StoreInv
  <2> QED
    BY <1>3, <2>1, <2>3 DEF Send, StoreInv, WorkerInv
<1>4. CASE LeaveUnsent(c)
  <2>1. call' \in [Callers -> CallStates]
    BY <1>4, <1>c DEF LeaveUnsent, Return, CallStates
  <2> QED
    BY <1>4, <2>1 DEF LeaveUnsent, StoreInv, WorkerInv
<1>5. CASE Receive(c)
  <2>1. call' \in [Callers -> CallStates]
    BY <1>5, <1>c DEF Receive, Answer, Return, CallStates
  <2>2. unhealthy' \in BOOLEAN
    BY <1>5 DEF Receive, StoreInv
  <2>3. history' \in Histories
    BY <1>5 DEF Receive, StoreInv, Histories
  <2> QED
    BY <1>5, <2>1, <2>2, <2>3 DEF Receive, StoreInv, WorkerInv
<1> QED
  BY <1>1, <1>2, <1>3, <1>4, <1>5 DEF CallerStep

LEMMA QueueFacts ==
  ASSUME NEW S, NEW q \in Seq(S), q # <<>>
  PROVE  /\ Head(q) \in S /\ Tail(q) \in Seq(S)
         /\ Len(q) \in Nat /\ Len(q) >= 1 /\ Len(Tail(q)) = Len(q) - 1
BY HeadTailProperties, LenProperties

LEMMA SingletonFacts ==
  ASSUME NEW S, NEW x \in S
  PROVE  <<x>> \in Seq(S) /\ Len(<<x>>) = 1 /\ <<x>> # <<>>
OBVIOUS

LEMMA EmptyFacts ==
  ASSUME NEW S
  PROVE  <<>> \in Seq(S) /\ Len(<<>>) = 0
OBVIOUS

LEMMA AppendFacts ==
  ASSUME NEW S, NEW q \in Seq(S), NEW x \in S
  PROVE  Append(q, x) \in Seq(S) /\ Len(Append(q, x)) = Len(q) + 1 /\ Len(q) \in Nat
BY AppendProperties, LenProperties

\* The next request of the worker, from the queue or from the batch it stopped.
LEMMA TakeUpKeepsWorkerInv ==
  ASSUME StoreInv, NEW q \in Seq(Queued), q # <<>>
  PROVE  /\ TakeUp(q) \in WorkerStates /\ TakeUp(q).tx = db
         /\ TakeUp(q).batch = <<Head(q)>> /\ TakeUp(q).pending = <<>>
<1>1. <<Head(q)>> \in Seq(Queued) /\ <<>> \in Seq(Queued)
  BY QueueFacts, SingletonFacts, EmptyFacts
<1>2. worker \in WorkerStates /\ db \in TrueRows
  BY DEF StoreInv, WorkerInv, TrueRow
<1> DEFINE a == IF HeadIsCall(q) THEN "serve" ELSE IF worker.drain THEN "apply" ELSE "collect"
           b == <<Head(q)>>
<1>3. a \in {"loop", "collect", "apply", "serve", "exited"} /\ b \in Seq(Queued)
  BY <1>1
<1>4. TakeUp(q) = [worker EXCEPT !.at = a, !.batch = b, !.tx = db, !.pending = <<>>]
  BY DEF TakeUp
<1> HIDE DEF a, b
<1>5. /\ TakeUp(q) \in WorkerStates /\ TakeUp(q).tx = db
      /\ TakeUp(q).batch = b /\ TakeUp(q).pending = <<>>
  BY <1>1, <1>2, <1>3, <1>4 DEF WorkerStates
<1> QED
  BY <1>5 DEF b

LEMMA WorkerKeepsStoreInv ==
  ASSUME StoreInv, WorkerStep
  PROVE  StoreInv'
<1>w. /\ worker \in WorkerStates /\ TrueRow(worker.tx) /\ worker.tx \in TrueRows
      /\ Len(worker.batch) <= BatchLimit /\ Len(worker.pending) <= 1
      /\ worker.batch \in Seq(Queued) /\ worker.pending \in Seq(Queued)
      /\ worker.at = "serve" => worker.batch # <<>>
  BY DEF StoreInv, WorkerInv, WorkerStates
<1>d. /\ TrueRow(db) /\ db \in TrueRows /\ clock \in Time
      /\ queue \in Seq(Queued) /\ Len(queue) <= QueueCapacity
      /\ BatchLimit \in Nat /\ BatchLimit >= 1 /\ QueueCapacity \in Nat
  BY StoreAssumption DEF StoreInv, TrueRow
<1>h. history \in Histories /\ call \in [Callers -> CallStates]
  BY DEF StoreInv
<1>1. CASE Take
  <2>1. CASE worker.pending # <<>>
    <3>1. worker' = TakeUp(worker.pending) /\ queue' = queue
      BY <1>1, <2>1 DEF Take
    <3>2. WorkerInv'
      <4>1. /\ worker' \in WorkerStates /\ worker'.tx = db /\ worker'.pending = <<>>
            /\ worker'.batch = <<Head(worker.pending)>>
        BY <3>1, <2>1, <1>w, TakeUpKeepsWorkerInv
      <4>2. Len(worker'.batch) = 1 /\ worker'.batch # <<>> /\ Len(worker'.pending) = 0
        BY <4>1, <2>1, <1>w, QueueFacts, SingletonFacts, EmptyFacts
      <4> QED
        BY <4>1, <4>2, <1>d DEF WorkerInv
    <3> QED
      BY <1>1, <3>1, <3>2 DEF Take, StoreInv
  <2>2. CASE worker.pending = <<>>
    <3>1. worker' = TakeUp(queue) /\ queue' = Tail(queue) /\ queue # <<>>
      BY <1>1, <2>2 DEF Take
    <3>2. WorkerInv'
      <4>1. /\ worker' \in WorkerStates /\ worker'.tx = db /\ worker'.pending = <<>>
            /\ worker'.batch = <<Head(queue)>>
        BY <3>1, <1>d, TakeUpKeepsWorkerInv
      <4>2. Len(worker'.batch) = 1 /\ worker'.batch # <<>> /\ Len(worker'.pending) = 0
        BY <4>1, <3>1, <1>d, QueueFacts, SingletonFacts, EmptyFacts
      <4> QED
        BY <4>1, <4>2, <1>d DEF WorkerInv
    <3>3. queue' \in Seq(Queued) /\ Len(queue') <= QueueCapacity
      BY <3>1, <1>d, QueueFacts
    <3> QED
      BY <1>1, <3>2, <3>3 DEF Take, StoreInv
  <2> QED
    BY <2>1, <2>2
<1>2. CASE SeeStop
  <2>1. WorkerInv'
    BY <1>2, <1>w DEF SeeStop, WorkerInv, WorkerStates
  <2> QED
    BY <1>2, <2>1 DEF SeeStop, StoreInv
<1>3. CASE Collect
  <2>1. CASE queue = <<>> \/ Len(worker.batch) >= BatchLimit
    <3>1. WorkerInv'
      BY <1>3, <2>1, <1>w, <1>d DEF Collect, WorkerInv, WorkerStates
    <3> QED
      BY <1>3, <2>1, <3>1 DEF Collect, StoreInv
  <2>2. CASE ~(queue = <<>> \/ Len(worker.batch) >= BatchLimit)
    <3>1. /\ Head(queue) \in Queued /\ <<Head(queue)>> \in Seq(Queued)
          /\ Len(<<Head(queue)>>) = 1
          /\ queue' = Tail(queue)
          /\ queue' \in Seq(Queued) /\ Len(queue') <= QueueCapacity
      <4>1. queue' = Tail(queue) /\ queue # <<>>
        BY <1>3, <2>2 DEF Collect
      <4> QED
        BY <4>1, <1>d, QueueFacts, SingletonFacts
    <3>2. /\ Append(worker.batch, Head(queue)) \in Seq(Queued)
          /\ Len(Append(worker.batch, Head(queue))) <= BatchLimit
      BY <3>1, <2>2, <1>w, <1>d, AppendFacts
    <3> DEFINE x == <<Head(queue)>>
               y == Append(worker.batch, Head(queue))
    <3>4. \/ worker' = [worker EXCEPT !.pending = x, !.at = "apply", !.tx = db]
          \/ worker' = [worker EXCEPT !.batch = y] /\ worker.at = "collect"
      BY <1>3, <2>2 DEF Collect
    <3>5. x \in Seq(Queued) /\ Len(x) = 1 /\ y \in Seq(Queued) /\ Len(y) <= BatchLimit
      BY <3>1, <3>2
    <3> HIDE DEF x, y
    <3>3. WorkerInv'
      <4>1. CASE worker' = [worker EXCEPT !.pending = x, !.at = "apply", !.tx = db]
        <5>1. /\ worker' \in WorkerStates /\ worker'.tx = db /\ worker'.pending = x
              /\ worker'.batch = worker.batch /\ worker'.at = "apply"
          BY <4>1, <3>5, <1>w, <1>d DEF WorkerStates
        <5> QED
          BY <5>1, <3>5, <1>w, <1>d DEF WorkerInv
      <4>2. CASE worker' = [worker EXCEPT !.batch = y] /\ worker.at = "collect"
        <5>1. /\ worker' \in WorkerStates /\ worker'.tx = worker.tx
              /\ worker'.pending = worker.pending
              /\ worker'.batch = y /\ worker'.at = "collect"
          BY <4>2, <3>5, <1>w, <1>d DEF WorkerStates
        <5> QED
          BY <5>1, <3>5, <1>w, <1>d DEF WorkerInv
      <4> QED
        BY <3>4, <4>1, <4>2
    <3> QED
      BY <1>3, <3>1, <3>3 DEF Collect, StoreInv
  <2> QED
    BY <2>1, <2>2
<1>4. CASE ApplyOne
  <2> DEFINE r == Head(worker.batch)
             m == Observe(worker.tx, r.sample, clock)
  <2>0. worker.batch # <<>> /\ worker.at = "apply"
    BY <1>4 DEF ApplyOne
  <2>1. r \in Queued /\ r.sample \in Baselines
    <3>1. r \in Queued
      BY <2>0, <1>w, QueueFacts
    <3> QED
      BY <3>1 DEF Queued
  <2>2. TrueRow(m) /\ m \in TrueRows
    BY <2>1, <1>w, <1>d, ObserveKeepsTrue DEF TrueRow
  <2>3. Tail(worker.batch) \in Seq(Queued) /\ Len(Tail(worker.batch)) <= BatchLimit
    BY <2>0, <1>w, <1>d, QueueFacts
  <2>4. worker' = [worker EXCEPT !.batch = Tail(worker.batch), !.tx = m]
    BY <1>4 DEF ApplyOne
  <2> HIDE DEF m
  <2>5. WorkerInv'
    BY <1>4, <2>2, <2>3, <2>4, <1>w DEF ApplyOne, WorkerInv, WorkerStates
  <2>6. history' \in Histories
    BY <1>4, <1>h DEF ApplyOne, Histories
  <2> QED
    BY <1>4, <2>5, <2>6 DEF ApplyOne, StoreInv
<1>5. CASE Commit
  <2>1. WorkerInv'
    BY <1>5, <1>w DEF Commit, WorkerInv, WorkerStates
  <2> QED
    BY <1>5, <2>1, <1>w DEF Commit, StoreInv
<1>6. CASE RollBack
  <2>0. worker' = [worker EXCEPT !.at = "loop", !.batch = <<>>, !.tx = db]
    BY <1>6 DEF RollBack
  <2>1. WorkerInv'
    <3>1. worker' \in WorkerStates /\ worker'.tx = db /\ worker'.batch = <<>>
          /\ worker'.pending = worker.pending /\ worker'.at = "loop"
      BY <2>0, <1>w, <1>d, EmptyFacts DEF WorkerStates
    <3> QED
      BY <3>1, <1>w, <1>d, EmptyFacts DEF WorkerInv
  <2>2. history' \in Histories
    <3> DEFINE k == Len(worker.batch)
    <3>1. k \in Nat
      BY <1>w, LenProperties
    <3> DEFINE f == history.failed + 1
               a == history.handled + k
    <3>2. f \in Nat /\ a \in Nat
      BY <1>h, <3>1 DEF Histories
    <3>3. history' = [history EXCEPT !.failed = f, !.unreported = TRUE, !.handled = a]
      BY <1>6 DEF RollBack
    <3> HIDE DEF f, a
    <3> QED
      BY <1>h, <3>2, <3>3 DEF Histories
  <2> QED
    BY <1>6, <2>1, <2>2 DEF RollBack, StoreInv
<1>7. CASE Serve
  <2>1. PICK c \in Head(worker.batch).caller :
          Refuse(c) \/ (~call[c].done /\ (TellFailure(c) \/ Run(c)))
    BY <1>7 DEF Serve
  <2>2. c \in Callers /\ call[c] \in CallStates
    <3>1. Head(worker.batch) \in Queued
      BY <1>7, <1>w DEF Serve
    <3> QED
      BY <3>1, <1>h DEF Queued
  <2>3. ASSUME NEW r \in {"ok", "failed", "conflict", "report", "cancelled"},
               NEW ran \in BOOLEAN, Reply(c, r, ran)
        PROVE  WorkerInv' /\ call' \in [Callers -> CallStates]
    <3>1. worker' = [worker EXCEPT !.at = "loop", !.batch = <<>>]
      BY <2>3 DEF Reply
    <3>2. WorkerInv'
      <4>1. worker' \in WorkerStates /\ worker'.tx = worker.tx /\ worker'.batch = <<>>
            /\ worker'.pending = worker.pending /\ worker'.at = "loop"
        BY <3>1, <1>w, EmptyFacts DEF WorkerStates
      <4> QED
        BY <4>1, <1>w, <1>d, EmptyFacts DEF WorkerInv
    <3> DEFINE a == call[c].astray \/ (ran /\ history.handled # call[c].after)
    <3>3. a \in BOOLEAN /\ call' = [call EXCEPT ![c].reply = r, ![c].ran = ran, ![c].astray = a]
      BY <2>3, <2>2 DEF Reply, CallStates
    <3> HIDE DEF a
    <3>4. call' \in [Callers -> CallStates]
      BY <3>3, <2>2, <1>h DEF CallStates
    <3> QED
      BY <3>2, <3>4
  <2>4. Effect(call[c].kind) \in TrueRows /\ TrueRow(Effect(call[c].kind))
    <3>1. call[c].kind \in {"get", "reset", "mode", "flush"} /\ db.monthly \in BOOLEAN
      BY <2>2, <1>d DEF CallStates, TrueRows
    <3>2. TrueRow(Refresh(db, clock))
      BY <1>d, RefreshKeepsTrue
    <3>3. TrueRow(Updated(db, db.monthly, TRUE, clock))
      BY <1>d, <3>1, UpdatedKeepsTrue
    <3>4. TrueRow(Updated(db, ~db.monthly, FALSE, clock))
      <4>1. (~db.monthly) \in BOOLEAN
        BY <3>1
      <4> QED
        BY <1>d, <4>1, UpdatedKeepsTrue
    <3> QED
      BY <3>1, <3>2, <3>3, <3>4, <1>d DEF Effect, TrueRow
  <2>5. WorkerInv' /\ call' \in [Callers -> CallStates]
    BY <2>1, <2>3 DEF Refuse, TellFailure, Run
  <2>6. TrueRow(db') /\ ingestErr' \in BOOLEAN
    <3>1. db' = db \/ db' = Effect(call[c].kind)
      BY <2>1 DEF Refuse, TellFailure, Run
    <3>2. ingestErr' \in {ingestErr, FALSE}
      BY <2>1 DEF Refuse, TellFailure, Run
    <3> QED
      BY <3>1, <3>2, <2>4, <1>d DEF StoreInv
  <2>7. history' \in Histories
    <3>1. history' = history \/ history' = [history EXCEPT !.failed = @ + 1]
      BY <2>1, Zenon DEF Refuse, TellFailure, Run
    <3>2. [history EXCEPT !.failed = @ + 1] \in Histories
      BY <1>h DEF Histories
    <3> QED
      BY <3>1, <3>2, <1>h
  <2> QED
    BY <1>7, <2>5, <2>6, <2>7 DEF Serve, StoreInv
<1> QED
  BY <1>1, <1>2, <1>3, <1>4, <1>5, <1>6, <1>7 DEF WorkerStep

LEMMA NextKeepsStoreInv ==
  StoreInv /\ [Next]_vars => StoreInv'
<1> SUFFICES ASSUME StoreInv, [Next]_vars PROVE StoreInv'
  OBVIOUS
<1>1. CASE Tick
  <2>1. clock' \in Time /\ booted <= clock'
    BY <1>1, CalendarAssumption DEF Tick, StoreInv, Time
  <2> QED
    BY <1>1, <2>1 DEF Tick, StoreInv, WorkerInv
<1>2. CASE Boot
  <2>1. booted' \in Time /\ booted' <= clock
    BY <1>2, StoreAssumption, TimeFacts DEF Boot, StoreInv
  <2> QED
    BY <1>2, <2>1 DEF Boot, StoreInv, WorkerInv
<1>3. CASE Accept
  <2>1. CASE Len(queue) < QueueCapacity
    <3>1. queue' \in Seq(Queued) /\ Len(queue') <= QueueCapacity
      <4>1. queue' = Append(queue, SampleRequest(Report)) /\ queue \in Seq(Queued)
        BY <1>3, <2>1 DEF Accept, StoreInv
      <4>2. SampleRequest(Report) \in Queued
        BY ReportIsTrue
      <4>3. QueueCapacity \in Nat
        BY StoreAssumption
      <4> QED
        BY <2>1, <4>1, <4>2, <4>3, AppendFacts
    <3>2. history' \in Histories
      BY <1>3, <2>1 DEF Accept, StoreInv, Histories
    <3> QED
      BY <1>3, <2>1, <3>1, <3>2 DEF Accept, StoreInv, WorkerInv
  <2>2. CASE ~(Len(queue) < QueueCapacity)
    BY <1>3, <2>2 DEF Accept, StoreInv, WorkerInv
  <2> QED
    BY <2>1, <2>2
<1>4. CASE \E c \in Callers : CallerStep(c) \/ Cancel(c)
  BY <1>4, CallerKeepsStoreInv
<1>5. CASE WorkerStep
  BY <1>5, WorkerKeepsStoreInv
<1>6. CASE CloseBegin
  BY <1>6 DEF CloseBegin, StoreInv, WorkerInv
<1>7. CASE CloseEnd
  <2>1. history' \in Histories
    BY <1>7 DEF CloseEnd, StoreInv, Histories
  <2> QED
    BY <1>7, <2>1 DEF CloseEnd, StoreInv, WorkerInv
<1>8. CASE Restart
  <2>1. TrueRow(db) /\ worker' = Started(db) /\ queue' = <<>>
    BY <1>8 DEF Restart, StoreInv
  <2>2. WorkerInv'
    BY <2>1, StartedWorker, EmptyFacts, StoreAssumption DEF WorkerInv
  <2>3. queue' \in Seq(Queued) /\ Len(queue') <= QueueCapacity
    BY <2>1, EmptyFacts, StoreAssumption
  <2>4. call' \in [Callers -> CallStates]
    <3>1. call \in [Callers -> CallStates]
      BY DEF StoreInv
    <3>2. \A c \in Callers : [call[c] EXCEPT !.pc = "returned", !.result = "lost"] \in CallStates
      <4> SUFFICES ASSUME NEW c \in Callers
                   PROVE  [call[c] EXCEPT !.pc = "returned", !.result = "lost"] \in CallStates
        OBVIOUS
      <4> DEFINE v == call[c]
      <4>1. v \in CallStates
        BY <3>1
      <4> HIDE DEF v
      <4>2. [v EXCEPT !.pc = "returned", !.result = "lost"] \in CallStates
        BY <4>1 DEF CallStates
      <4> QED
        BY <4>2 DEF v
    <3>3. call' = [c \in Callers |->
                    IF call[c].pc \in {"sending", "waiting"}
                    THEN [call[c] EXCEPT !.pc = "returned", !.result = "lost"] ELSE call[c]]
      BY <1>8 DEF Restart
    <3> QED
      BY <3>1, <3>2, <3>3
  <2>5. history' \in Histories
    <3> DEFINE r == history.restarts + 1
               a == history.accepted
    <3>1. history \in Histories /\ r \in Nat /\ a \in Nat
      BY DEF StoreInv, Histories
    <3>2. history' = [history EXCEPT !.restarts = r, !.unreported = FALSE, !.handled = a]
      BY <1>8 DEF Restart
    <3> HIDE DEF r, a
    <3> QED
      BY <3>1, <3>2 DEF Histories
  <2> QED
    BY <1>8, <2>2, <2>3, <2>4, <2>5 DEF Restart, StoreInv
<1>9. CASE UNCHANGED vars
  BY <1>9 DEF vars, StoreInv, WorkerInv
<1> QED
  BY <1>1, <1>2, <1>3, <1>4, <1>5, <1>6, <1>7, <1>8, <1>9 DEF Next

LEMMA StoreInvariant == Spec => []StoreInv
BY InitIsStoreInv, NextKeepsStoreInv, PTL DEF Spec

LEMMA TypesWiden ==
  /\ Baselines \subseteq Samples \cup {NoSample}
  /\ TrueRows \subseteq Rows
  /\ \A q \in Seq(Queued) : q \in Seq(Requests)
<1>1. Baselines \subseteq Samples \cup {NoSample}
  BY DEF Baselines, TrueSamples, Samples
<1>2. TrueRows \subseteq Rows
  BY <1>1 DEF TrueRows, Rows
<1>3. Queued \subseteq Requests
  BY <1>1 DEF Queued, Requests
<1>4. \A q \in Seq(Queued) : q \in Seq(Requests)
  <2> SUFFICES ASSUME NEW q \in Seq(Queued) PROVE q \in Seq(Requests)
    OBVIOUS
  <2>1. Len(q) \in Nat /\ q \in [1 .. Len(q) -> Queued]
    BY LenProperties, SeqDef
  <2>2. q \in [1 .. Len(q) -> Requests]
    BY <2>1, <1>3
  <2> QED
    BY <2>1, <2>2, SeqDef
<1> QED
  BY <1>1, <1>2, <1>4

\* The types of the store hold for every calendar, capacity, number of callers and
\* of failures: the queue never exceeds its capacity nor a transaction its limit.
THEOREM StoreTypeCorrect == Spec => []TypeOK
<1>1. StoreInv => TypeOK
  <2> SUFFICES ASSUME StoreInv PROVE TypeOK
    OBVIOUS
  <2>1. db \in Rows /\ queue \in Seq(Requests) /\ Len(queue) <= QueueCapacity
    BY TypesWiden DEF StoreInv, TrueRow
  <2>2. /\ worker.at \in {"loop", "collect", "apply", "serve", "exited"}
        /\ worker.drain \in BOOLEAN /\ worker.tx \in TrueRows
        /\ worker.batch \in Seq(Queued) /\ worker.pending \in Seq(Queued)
        /\ Len(worker.batch) <= BatchLimit /\ Len(worker.pending) <= 1
    BY DEF StoreInv, WorkerInv, WorkerStates
  <2>3. worker.tx \in Rows /\ worker.batch \in Seq(Requests) /\ worker.pending \in Seq(Requests)
    BY <2>2, TypesWiden
  <2>4. \A c \in Callers :
          /\ call[c].pc \in {"idle", "sending", "waiting", "returned"}
          /\ call[c].reply \in {"none", "ok", "failed", "conflict", "report", "cancelled"}
    BY DEF StoreInv, CallStates
  <2> QED
    BY <2>1, <2>2, <2>3, <2>4 DEF StoreInv, TypeOK
<1> QED
  BY <1>1, StoreInvariant, PTL

\* A total that is not called partial is exact, whatever the calendar, the traffic,
\* the gaps between reports, the boots of the host, the batches that fail and the
\* restarts of the monitor.
THEOREM TotalsAreExact == Spec => []ExactTotals
<1>1. StoreInv => ExactTotals
  BY DEF StoreInv, TrueRow, TrueRange, ExactTotals
<1> QED
  BY <1>1, StoreInvariant, PTL

------------------------------------------------------------------------------------
(* The day never returns *)

\* No report in a sequence of requests is later than an instant.
Seen(q, t) == \A i \in 1 .. Len(q) : q[i].sample.at <= t

\* Nothing is later than the clock: neither the reports on their way nor the day of
\* the row, and the working copy of the worker is not behind the row.
DayInv ==
  /\ db.day <= DayStart[clock]
  /\ Seen(queue, clock) /\ Seen(worker.batch, clock) /\ Seen(worker.pending, clock)
  /\ worker.at = "apply" => db.day <= worker.tx.day /\ worker.tx.day <= DayStart[clock]

LEMMA SeenEmpty == ASSUME NEW t PROVE Seen(<<>>, t)
  BY DEF Seen

LEMMA SeenHead ==
  ASSUME NEW q \in Seq(Queued), NEW t, Seen(q, t), q # <<>>
  PROVE  /\ Head(q) \in Queued /\ Head(q).sample.at <= t
         /\ Seen(Tail(q), t) /\ Seen(<<Head(q)>>, t)
<1>1. Len(q) \in Nat /\ Len(q) >= 1 /\ Head(q) = q[1] /\ Head(q) \in Queued
  BY QueueFacts
<1>2. Head(q).sample.at <= t
  BY <1>1 DEF Seen
<1>3. \A i \in 1 .. Len(Tail(q)) : Tail(q)[i] = q[i + 1] /\ i + 1 \in 1 .. Len(q)
  BY HeadTailProperties, LenProperties
<1>4. Seen(Tail(q), t)
  BY <1>3 DEF Seen
<1>5. Seen(<<Head(q)>>, t)
  BY <1>2 DEF Seen
<1> QED
  BY <1>1, <1>2, <1>4, <1>5

LEMMA SeenAppend ==
  ASSUME NEW q \in Seq(Queued), NEW t, Seen(q, t), NEW r \in Queued, r.sample.at <= t
  PROVE  Seen(Append(q, r), t)
<1>1. /\ Len(Append(q, r)) = Len(q) + 1 /\ Len(q) \in Nat
      /\ \A i \in 1 .. Len(q) : Append(q, r)[i] = q[i]
      /\ Append(q, r)[Len(q) + 1] = r
  BY AppendProperties, LenProperties
<1>2. \A i \in 1 .. Len(q) + 1 : i \in 1 .. Len(q) \/ i = Len(q) + 1
  BY <1>1
<1> QED
  BY <1>1, <1>2 DEF Seen

LEMMA SeenLater ==
  ASSUME NEW q \in Seq(Queued), NEW t \in Time, NEW u \in Time, t <= u, Seen(q, t)
  PROVE  Seen(q, u)
<1> SUFFICES ASSUME NEW i \in 1 .. Len(q) PROVE q[i].sample.at <= u
  BY DEF Seen
<1>1. q[i] \in Queued
  BY ElementOfSeq
<1>2. q[i].sample.at \in Int
  BY <1>1, BaselineFacts, TimeFacts DEF Queued
<1>3. q[i].sample.at <= t
  BY DEF Seen
<1> QED
  BY <1>2, <1>3, TimeFacts

LEMMA DayFacts ==
  ASSUME StoreInv
  PROVE  /\ clock \in Time /\ DayStart[clock] \in Time
         /\ db.day \in Int /\ worker.tx.day \in Int /\ DayStart[clock] \in Int
         /\ queue \in Seq(Queued) /\ worker \in WorkerStates
         /\ worker.batch \in Seq(Queued) /\ worker.pending \in Seq(Queued)
         /\ TrueRow(db) /\ TrueRow(worker.tx)
<1>1. clock \in Time /\ TrueRow(db) /\ TrueRow(worker.tx) /\ queue \in Seq(Queued)
      /\ worker \in WorkerStates
  BY DEF StoreInv, WorkerInv
<1>2. worker.batch \in Seq(Queued) /\ worker.pending \in Seq(Queued)
  BY <1>1 DEF WorkerStates
<1>3. db.day \in Time /\ worker.tx.day \in Time
  BY <1>1 DEF TrueRow, TrueRows
<1>4. DayStart[clock] \in Time
  BY <1>1, CalendarAssumption
<1> QED
  BY <1>1, <1>2, <1>3, <1>4, TimeFacts

LEMMA InitIsDayInv == Init => DayInv
<1> SUFFICES ASSUME Init PROVE DayInv
  OBVIOUS
<1>1. db.day = DayStart[0] /\ worker.batch = <<>> /\ worker.pending = <<>>
      /\ worker.at = "loop" /\ queue = <<>> /\ clock = 0
  BY CreatedIsTrue, StoreAssumption DEF Init, Started
<1>2. DayStart[0] \in Int
  <2>1. 0 \in Time
    BY CalendarAssumption DEF Time
  <2> QED
    BY <2>1, CalendarAssumption, TimeFacts
<1> QED
  BY <1>1, <1>2 DEF DayInv, Seen

\* A step keeps nothing later than the clock, and the day of the row does not go back.
LEMMA NextKeepsDayInv ==
  ASSUME StoreInv, StoreInv', DayInv, [Next]_vars
  PROVE  DayInv' /\ db'.day >= db.day
<1>f. /\ clock \in Time /\ DayStart[clock] \in Time
      /\ db.day \in Int /\ worker.tx.day \in Int /\ DayStart[clock] \in Int
      /\ queue \in Seq(Queued) /\ worker \in WorkerStates
      /\ worker.batch \in Seq(Queued) /\ worker.pending \in Seq(Queued)
      /\ TrueRow(db) /\ TrueRow(worker.tx)
  BY DayFacts
<1>d. /\ db.day <= DayStart[clock]
      /\ Seen(queue, clock) /\ Seen(worker.batch, clock) /\ Seen(worker.pending, clock)
      /\ worker.at = "apply" => db.day <= worker.tx.day /\ worker.tx.day <= DayStart[clock]
  BY DEF DayInv
<1>1. CASE Tick
  <2>1. clock' \in Time /\ clock <= clock'
    BY <1>1, <1>f, TimeFacts DEF Tick, StoreInv
  <2>2. Seen(queue, clock') /\ Seen(worker.batch, clock') /\ Seen(worker.pending, clock')
    BY <2>1, <1>f, <1>d, SeenLater
  <2>3. DayStart[clock'] \in Int /\ DayStart[clock] <= DayStart[clock']
    BY <2>1, <1>f, CalendarAssumption, TimeFacts
  <2>4. db' = db /\ worker' = worker /\ queue' = queue
    BY <1>1 DEF Tick
  <2> QED
    BY <2>2, <2>3, <2>4, <1>f, <1>d DEF DayInv
<1>2. CASE Boot \/ CloseBegin \/ CloseEnd \/ UNCHANGED vars
  <2>1. db' = db /\ worker' = worker /\ queue' = queue /\ clock' = clock
    BY <1>2 DEF Boot, CloseBegin, CloseEnd, vars
  <2> QED
    BY <2>1, <1>f, <1>d DEF DayInv
<1>3. CASE Accept
  <2>1. queue' \in {queue, Append(queue, SampleRequest(Report))}
    BY <1>3 DEF Accept
  <2>2. SampleRequest(Report) \in Queued /\ SampleRequest(Report).sample.at <= clock
    BY <1>f, ReportIsTrue, TimeFacts DEF SampleRequest, Report
  <2>3. Seen(Append(queue, SampleRequest(Report)), clock)
    BY <2>2, <1>f, <1>d, SeenAppend
  <2>4. Seen(queue', clock)
    BY <2>1, <2>3, <1>d
  <2>5. db' = db /\ worker' = worker /\ clock' = clock
    BY <1>3 DEF Accept
  <2> QED
    BY <2>4, <2>5, <1>f, <1>d DEF DayInv
<1>4. CASE \E c \in Callers : CallerStep(c) \/ Cancel(c)
  <2>1. PICK c \in Callers : CallerStep(c) \/ Cancel(c)
    BY <1>4
  <2>2. db' = db /\ worker' = worker /\ clock' = clock
        /\ queue' \in {queue, Append(queue, CallRequest(c))}
    BY <2>1 DEF CallerStep, Cancel, Begin, Send, LeaveUnsent, Receive
  <2>3. CallRequest(c) \in Queued /\ CallRequest(c).sample.at <= clock
    BY <1>f, TimeFacts DEF CallRequest, Queued, Baselines, NoSample
  <2>5. Seen(Append(queue, CallRequest(c)), clock)
    BY <2>3, <1>f, <1>d, SeenAppend
  <2>4. Seen(queue', clock)
    BY <2>2, <2>5, <1>d
  <2> QED
    BY <2>2, <2>4, <1>f, <1>d DEF DayInv
<1>5. CASE Take
  <2>1. db' = db /\ clock' = clock
    BY <1>5 DEF Take
  <2>2. CASE worker.pending # <<>>
    <3>1. worker' = TakeUp(worker.pending) /\ queue' = queue
      BY <1>5, <2>2 DEF Take
    <3>2. /\ worker'.batch = <<Head(worker.pending)>> /\ worker'.pending = <<>>
          /\ worker'.tx = db
      BY <3>1, <2>2, <1>f, TakeUpKeepsWorkerInv
    <3>3. Seen(<<Head(worker.pending)>>, clock) /\ Seen(<<>>, clock)
      BY <2>2, <1>f, <1>d, SeenHead, SeenEmpty
    <3>4. Seen(worker'.batch, clock) /\ Seen(worker'.pending, clock)
      BY <3>2, <3>3
    <3>5. worker'.at = "apply" => db.day <= worker'.tx.day /\ worker'.tx.day <= DayStart[clock]
      BY <3>2, <1>f, <1>d
    <3> QED
      BY <2>1, <3>1, <3>4, <3>5, <1>f, <1>d DEF DayInv
  <2>3. CASE worker.pending = <<>>
    <3>1. worker' = TakeUp(queue) /\ queue' = Tail(queue) /\ queue # <<>>
      BY <1>5, <2>3 DEF Take
    <3>2. worker'.batch = <<Head(queue)>> /\ worker'.pending = <<>> /\ worker'.tx = db
      BY <3>1, <1>f, TakeUpKeepsWorkerInv
    <3>3. Seen(worker'.batch, clock) /\ Seen(worker'.pending, clock) /\ Seen(queue', clock)
      <4>1. Seen(<<Head(queue)>>, clock) /\ Seen(Tail(queue), clock) /\ Seen(<<>>, clock)
        BY <3>1, <1>f, <1>d, SeenHead, SeenEmpty
      <4> QED
        BY <4>1, <3>1, <3>2
    <3>4. worker'.at = "apply" => db.day <= worker'.tx.day /\ worker'.tx.day <= DayStart[clock]
      BY <3>2, <1>f, <1>d
    <3> QED
      BY <2>1, <3>3, <3>4, <1>f, <1>d DEF DayInv
  <2> QED
    BY <2>2, <2>3
<1>6. CASE SeeStop
  <2>1. /\ db' = db /\ clock' = clock /\ queue' = queue
        /\ worker'.batch = worker.batch /\ worker'.pending = worker.pending
        /\ worker'.at \in {"loop", "exited"}
    BY <1>6, <1>f DEF SeeStop, WorkerStates
  <2> QED
    BY <2>1, <1>f, <1>d DEF DayInv
<1>7. CASE Collect
  <2>1. db' = db /\ clock' = clock
    BY <1>7 DEF Collect
  <2>2. CASE queue = <<>> \/ Len(worker.batch) >= BatchLimit
    <3>1. worker' = [worker EXCEPT !.at = "apply", !.tx = db] /\ queue' = queue
      BY <1>7, <2>2 DEF Collect
    <3>2. worker'.tx = db /\ worker'.batch = worker.batch /\ worker'.pending = worker.pending
      BY <3>1, <1>f DEF WorkerStates
    <3> QED
      BY <2>1, <3>1, <3>2, <1>f, <1>d DEF DayInv
  <2>3. CASE ~(queue = <<>> \/ Len(worker.batch) >= BatchLimit)
    <3>1. /\ queue' = Tail(queue) /\ queue # <<>>
          /\ \/ worker' = [worker EXCEPT !.pending = <<Head(queue)>>, !.at = "apply", !.tx = db]
             \/ worker' = [worker EXCEPT !.batch = Append(worker.batch, Head(queue))]
                /\ worker.at = "collect"
      BY <1>7, <2>3 DEF Collect
    <3>2. Head(queue) \in Queued /\ Head(queue).sample.at <= clock
          /\ Seen(queue', clock) /\ Seen(<<Head(queue)>>, clock)
      BY <3>1, <1>f, <1>d, SeenHead
    <3>3. Seen(Append(worker.batch, Head(queue)), clock)
      BY <3>2, <1>f, <1>d, SeenAppend
    <3>4. \/ /\ worker'.pending = <<Head(queue)>> /\ worker'.tx = db
             /\ worker'.batch = worker.batch
          \/ /\ worker'.batch = Append(worker.batch, Head(queue))
             /\ worker'.pending = worker.pending /\ worker'.at = "collect"
      BY <3>1, <1>f DEF WorkerStates
    <3>5. Seen(worker'.batch, clock) /\ Seen(worker'.pending, clock)
      BY <3>2, <3>3, <3>4, <1>d
    <3>6. worker'.at = "apply" => db.day <= worker'.tx.day /\ worker'.tx.day <= DayStart[clock]
      BY <3>4, <1>f, <1>d
    <3> QED
      BY <2>1, <3>2, <3>5, <3>6, <1>f, <1>d DEF DayInv
  <2> QED
    BY <2>2, <2>3
<1>8. CASE ApplyOne
  <2> DEFINE r == Head(worker.batch)
             m == Observe(worker.tx, r.sample, clock)
  <2>1. worker.at = "apply" /\ worker.batch # <<>> /\ db' = db /\ clock' = clock /\ queue' = queue
    BY <1>8 DEF ApplyOne
  <2>2. r \in Queued /\ r.sample.at <= clock /\ Seen(Tail(worker.batch), clock)
    BY <2>1, <1>f, <1>d, SeenHead
  <2>3. r.sample \in Baselines /\ r.sample.at \in Int
    BY <2>2, BaselineFacts, TimeFacts DEF Queued
  <2>4. Later(r.sample.at, clock) = clock
    BY <2>2, <2>3, <1>f, TimeFacts DEF Later
  <2>5. m.day \in {worker.tx.day, DayStart[clock]}
    BY <2>3, <2>4, <1>f, ObserveKeepsTrue
  <2>6. worker' = [worker EXCEPT !.batch = Tail(worker.batch), !.tx = m]
    BY <1>8 DEF ApplyOne
  <2> HIDE DEF m
  <2>7. worker'.batch = Tail(worker.batch) /\ worker'.tx = m /\ worker'.pending = worker.pending
    BY <2>6, <1>f DEF WorkerStates
  <2>8. Seen(worker'.batch, clock) /\ Seen(worker'.pending, clock) /\ Seen(queue', clock)
    BY <2>1, <2>2, <2>7, <1>d
  <2>9. db.day <= worker'.tx.day /\ worker'.tx.day <= DayStart[clock]
    BY <2>1, <2>5, <2>7, <1>f, <1>d
  <2> QED
    BY <2>1, <2>8, <2>9, <1>f, <1>d DEF DayInv
<1>9. CASE Commit
  <2>1. /\ db' = worker.tx /\ clock' = clock /\ queue' = queue /\ worker.at = "apply"
        /\ worker'.batch = worker.batch /\ worker'.pending = worker.pending
        /\ worker'.at = "loop"
    BY <1>9, <1>f DEF Commit, WorkerStates
  <2> QED
    BY <2>1, <1>f, <1>d DEF DayInv
<1>10. CASE RollBack
  <2>1. /\ db' = db /\ clock' = clock /\ queue' = queue
        /\ worker'.batch = <<>> /\ worker'.pending = worker.pending /\ worker'.at = "loop"
    BY <1>10, <1>f DEF RollBack, WorkerStates
  <2>2. Seen(worker'.batch, clock)
    BY <2>1, SeenEmpty
  <2> QED
    BY <2>1, <2>2, <1>f, <1>d DEF DayInv
<1>11. CASE Serve
  <2>1. PICK c \in Head(worker.batch).caller :
          Refuse(c) \/ (~call[c].done /\ (TellFailure(c) \/ Run(c)))
    BY <1>11 DEF Serve
  <2>2. worker' = [worker EXCEPT !.at = "loop", !.batch = <<>>]
        /\ (db' = db \/ db' = Effect(call[c].kind))
    BY <2>1 DEF Refuse, TellFailure, Run, Reply
  <2>3. worker'.batch = <<>> /\ worker'.pending = worker.pending /\ worker'.at = "loop"
    BY <2>2, <1>f DEF WorkerStates
  <2>4. clock' = clock /\ queue' = queue
    BY <1>11 DEF Serve
  <2>5. Effect(call[c].kind).day \in {db.day, DayStart[clock]}
    <3>1. c \in Callers
      <4>1. worker.batch # <<>>
        BY <1>11 DEF Serve, StoreInv, WorkerInv
      <4>2. Head(worker.batch) \in Queued
        BY <4>1, <1>f, QueueFacts
      <4> QED
        BY <2>1, <4>2 DEF Queued
    <3>2. call[c].kind \in {"get", "reset", "mode", "flush"}
      BY <3>1 DEF StoreInv, CallStates
    <3>3. db.monthly \in BOOLEAN /\ (~db.monthly) \in BOOLEAN
      BY <1>f DEF TrueRow, TrueRows
    <3>4. Refresh(db, clock).day = DayStart[clock]
      BY <1>f, RefreshKeepsTrue
    <3>5. Updated(db, db.monthly, TRUE, clock).day = DayStart[clock]
      BY <1>f, <3>3, UpdatedKeepsTrue
    <3>6. Updated(db, ~db.monthly, FALSE, clock).day = DayStart[clock]
      BY <1>f, <3>3, UpdatedKeepsTrue
    <3> QED
      BY <3>2, <3>4, <3>5, <3>6 DEF Effect
  <2> QED
    <3>1. Seen(worker'.batch, clock) /\ Seen(worker'.pending, clock) /\ Seen(queue', clock)
      BY <2>3, <2>4, <1>d, SeenEmpty
    <3>2. db.day <= db'.day /\ db'.day <= DayStart[clock] /\ db'.day \in Int
      BY <2>2, <2>5, <1>f, <1>d
    <3>3. worker'.at # "apply"
      BY <2>3
    <3> QED
      BY <3>1, <3>2, <3>3, <2>4 DEF DayInv
<1>12. CASE Restart
  <2>1. /\ db' = db /\ clock' = clock /\ queue' = <<>>
        /\ worker'.batch = <<>> /\ worker'.pending = <<>> /\ worker'.at = "loop"
    BY <1>12, <1>f, StartedWorker DEF Restart
  <2>2. Seen(<<>>, clock)
    BY SeenEmpty
  <2>3. Seen(queue', clock) /\ Seen(worker'.batch, clock) /\ Seen(worker'.pending, clock)
    BY <2>1, <2>2
  <2> QED
    BY <2>1, <2>3, <1>f, <1>d DEF DayInv
<1> QED
  BY <1>1, <1>2, <1>3, <1>4, <1>5, <1>6, <1>7, <1>8, <1>9, <1>10, <1>11, <1>12
     DEF Next, WorkerStep

\* The day of the row never goes back, however long a report has waited in the queue
\* and whoever has read the row in the meantime.
THEOREM TheDayNeverReturns == Spec => DayNeverReturns
<1>1. StoreInv /\ StoreInv' /\ DayInv /\ [Next]_vars => DayInv' /\ [db'.day >= db.day]_vars
  BY NextKeepsDayInv
<1> QED
  BY <1>1, InitIsDayInv, StoreInvariant, PTL DEF Spec, DayNeverReturns

------------------------------------------------------------------------------------
(* What callers are told *)

\* A sequence of requests holds the call of a caller.
In(q, c) == \E i \in 1 .. Len(q) : c \in q[i].caller

\* No caller has two calls in a sequence of requests.
Distinct(q) ==
  \A i, j \in 1 .. Len(q), c \in Callers : c \in q[i].caller /\ c \in q[j].caller => i = j

AllCalls(q) == \A i \in 1 .. Len(q) : q[i].caller # {}

\* The requests of a sequence in the count of the accepted reports: it goes on by
\* one with every report, from the first number to the last, and stands at a call
\* where it stood when the call was queued.
Numbering(q, first, last, calls) ==
  \E r \in [0 .. Len(q) -> Nat] :
    /\ r[0] = first /\ r[Len(q)] = last
    /\ \A i \in 1 .. Len(q) :
         /\ q[i].caller = {} => r[i] = r[i - 1] + 1
         /\ q[i].caller # {} => r[i] = r[i - 1]
         /\ \A c \in q[i].caller : calls[c].after = r[i]

\* The caller whose call the worker has taken from the queue and not yet answered.
Held ==
  IF worker.at = "serve" THEN Head(worker.batch).caller
  ELSE IF worker.pending # <<>> THEN Head(worker.pending).caller ELSE {}

\* The reports taken from the queue so far.
Ahead == history.handled + (IF worker.at = "serve" THEN 0 ELSE Len(worker.batch))

WorkerShape ==
  /\ worker.at \in {"loop", "exited"} => worker.batch = <<>>
  /\ worker.at \in {"collect", "serve", "exited"} => worker.pending = <<>>
  /\ worker.pending # <<>> => Head(worker.pending).caller # {}

DrainInv ==
  /\ worker.drain => Closed
  /\ worker.at = "exited" =>
       worker.drain /\ history.handled = history.accepted /\ AllCalls(queue)

\* One call, whatever the worker does: its result is the answer, the answer says
\* whether it has taken effect, and it has seen the reports before it.
WayOfCall(v) ==
  /\ v.ran <=> v.reply = "ok"
  /\ v.pc \in {"idle", "sending"} => v.reply = "none" /\ v.result = "none"
  /\ v.pc = "waiting" => v.result = "none"
  /\ v.result \in {"ok", "failed", "conflict", "report"} => v.reply = v.result
  /\ v.result = "closed" => v.reply = "none"
  /\ v.done /\ v.ran => v.late
  /\ ~v.astray

\* A call that was sent and is not answered; and one that may still be served.
Waits(v)    == v.pc \in {"waiting", "returned"} /\ v.reply = "none"
Unserved(v) == Waits(v) /\ v.result \in {"none", "cancelled"}

CallInv ==
  /\ WorkerShape /\ DrainInv /\ Distinct(queue)
  /\ \A c \in Callers : WayOfCall(call[c])
  /\ \A c \in Held : ~In(queue, c) /\ Unserved(call[c]) /\ call[c].after = Ahead
  /\ \A c \in Callers : In(queue, c) => Waits(call[c])
  /\ worker.at # "exited" => \A c \in Callers : In(queue, c) => Unserved(call[c])
  /\ Numbering(queue, Ahead, history.accepted, call)

LEMMA EmptySequence ==
  ASSUME NEW n \in Nat, NEW calls
  PROVE  /\ Distinct(<<>>) /\ AllCalls(<<>>) /\ Numbering(<<>>, n, n, calls)
         /\ \A c : ~In(<<>>, c)
<1>1. 0 .. 0 = {0} /\ Len(<<>>) = 0 /\ 1 .. 0 = {}
  OBVIOUS
<1> DEFINE r == [i \in {0} |-> n]
<1>2. r \in [0 .. Len(<<>>) -> Nat] /\ r[0] = n
  BY <1>1
<1> HIDE DEF r
<1> QED
  BY <1>1, <1>2 DEF Distinct, AllCalls, Numbering, In

LEMMA AppendedSequence ==
  ASSUME NEW q \in Seq(Queued), NEW x \in Queued
  PROVE  /\ Len(Append(q, x)) = Len(q) + 1 /\ Len(q) \in Nat
         /\ \A i \in 1 .. Len(q) : Append(q, x)[i] = q[i]
         /\ Append(q, x)[Len(q) + 1] = x
         /\ \A i \in 1 .. Len(q) + 1 : i \in 1 .. Len(q) \/ i = Len(q) + 1
BY AppendProperties, LenProperties

LEMMA TailSequence ==
  ASSUME NEW q \in Seq(Queued), q # <<>>
  PROVE  /\ Head(q) = q[1] /\ Head(q) \in Queued /\ Tail(q) \in Seq(Queued)
         /\ Len(q) \in Nat /\ Len(q) >= 1 /\ Len(Tail(q)) = Len(q) - 1
         /\ \A i \in 1 .. Len(Tail(q)) : Tail(q)[i] = q[i + 1] /\ i + 1 \in 1 .. Len(q)
         /\ \A i \in 1 .. Len(q) : i = 1 \/ i - 1 \in 1 .. Len(Tail(q))
<1>1. /\ Len(q) \in Nat /\ Len(q) >= 1 /\ Head(q) = q[1] /\ Head(q) \in Queued
      /\ Tail(q) \in Seq(Queued) /\ Len(Tail(q)) = Len(q) - 1
  BY QueueFacts
<1>2. \A i \in 1 .. Len(Tail(q)) : Tail(q)[i] = q[i + 1] /\ i + 1 \in 1 .. Len(q)
  BY HeadTailProperties, LenProperties
<1>3. \A i \in 1 .. Len(q) : i = 1 \/ i - 1 \in 1 .. Len(Tail(q))
  BY <1>1
<1> QED
  BY <1>1, <1>2, <1>3

LEMMA InAppended ==
  ASSUME NEW q \in Seq(Queued), NEW x \in Queued, NEW c
  PROVE  In(Append(q, x), c) <=> In(q, c) \/ c \in x.caller
<1>1. ASSUME In(Append(q, x), c) PROVE In(q, c) \/ c \in x.caller
  BY <1>1, AppendedSequence DEF In
<1>2. ASSUME In(q, c) PROVE In(Append(q, x), c)
  <2>1. PICK i \in 1 .. Len(q) : c \in q[i].caller
    BY <1>2 DEF In
  <2>2. i \in 1 .. Len(Append(q, x)) /\ Append(q, x)[i] = q[i]
    BY AppendedSequence
  <2> QED
    BY <2>1, <2>2 DEF In
<1>3. ASSUME c \in x.caller PROVE In(Append(q, x), c)
  <2>1. Len(q) + 1 \in 1 .. Len(Append(q, x)) /\ Append(q, x)[Len(q) + 1] = x
    BY AppendedSequence
  <2> QED
    BY <1>3, <2>1 DEF In
<1> QED
  BY <1>1, <1>2, <1>3

LEMMA InTail ==
  ASSUME NEW q \in Seq(Queued), q # <<>>, NEW c
  PROVE  In(q, c) <=> c \in Head(q).caller \/ In(Tail(q), c)
<1>1. ASSUME In(q, c), c \notin Head(q).caller PROVE In(Tail(q), c)
  <2>1. PICK i \in 1 .. Len(q) : c \in q[i].caller
    BY <1>1 DEF In
  <2>2. i - 1 \in 1 .. Len(Tail(q))
    BY <1>1, <2>1, TailSequence
  <2>3. Tail(q)[i - 1] = q[i]
    BY <2>2, TailSequence
  <2> QED
    BY <2>1, <2>2, <2>3 DEF In
<1>2. ASSUME In(Tail(q), c) PROVE In(q, c)
  <2>1. PICK i \in 1 .. Len(Tail(q)) : c \in Tail(q)[i].caller
    BY <1>2 DEF In
  <2> QED
    BY <2>1, TailSequence DEF In
<1>3. ASSUME c \in Head(q).caller PROVE In(q, c)
  <2>1. 1 \in 1 .. Len(q)
    BY TailSequence
  <2> QED
    BY <1>3, <2>1, TailSequence DEF In
<1> QED
  BY <1>1, <1>2, <1>3

LEMMA DistinctAppended ==
  ASSUME NEW q \in Seq(Queued), NEW x \in Queued, Distinct(q), \A c \in x.caller : ~In(q, c)
  PROVE  Distinct(Append(q, x))
<1> SUFFICES ASSUME NEW i \in 1 .. Len(Append(q, x)), NEW j \in 1 .. Len(Append(q, x)),
                    NEW c \in Callers,
                    c \in Append(q, x)[i].caller, c \in Append(q, x)[j].caller
             PROVE  i = j
  BY DEF Distinct
<1>1. \A k \in 1 .. Len(q) : Append(q, x)[k] = q[k]
  BY AppendedSequence
<1>2. (i \in 1 .. Len(q) \/ i = Len(q) + 1) /\ (j \in 1 .. Len(q) \/ j = Len(q) + 1)
  BY AppendedSequence
<1>3. Append(q, x)[Len(q) + 1] = x
  BY AppendedSequence
<1>4. CASE i \in 1 .. Len(q) /\ j \in 1 .. Len(q)
  BY <1>1, <1>4 DEF Distinct
<1>5. CASE i = Len(q) + 1 /\ j \in 1 .. Len(q)
  BY <1>1, <1>3, <1>5 DEF In
<1>6. CASE j = Len(q) + 1 /\ i \in 1 .. Len(q)
  BY <1>1, <1>3, <1>6 DEF In
<1> QED
  BY <1>2, <1>4, <1>5, <1>6

LEMMA DistinctTail ==
  ASSUME NEW q \in Seq(Queued), q # <<>>, Distinct(q)
  PROVE  Distinct(Tail(q)) /\ \A c \in Head(q).caller : ~In(Tail(q), c)
<1>1. Distinct(Tail(q))
  <2> SUFFICES ASSUME NEW i \in 1 .. Len(Tail(q)), NEW j \in 1 .. Len(Tail(q)),
                      NEW c \in Callers, c \in Tail(q)[i].caller, c \in Tail(q)[j].caller
               PROVE  i = j
    BY DEF Distinct
  <2>1. /\ Tail(q)[i] = q[i + 1] /\ Tail(q)[j] = q[j + 1]
        /\ i + 1 \in 1 .. Len(q) /\ j + 1 \in 1 .. Len(q)
    BY TailSequence
  <2>2. i + 1 = j + 1
    BY <2>1 DEF Distinct
  <2> QED
    BY <2>2
<1>2. ASSUME NEW c \in Head(q).caller, In(Tail(q), c) PROVE FALSE
  <2>1. PICK i \in 1 .. Len(Tail(q)) : c \in Tail(q)[i].caller
    BY <1>2 DEF In
  <2>2. Tail(q)[i] = q[i + 1] /\ i + 1 \in 1 .. Len(q) /\ 1 \in 1 .. Len(q) /\ Head(q) = q[1]
    BY TailSequence
  <2>3. c \in Callers
    BY TailSequence DEF Queued
  <2>4. i + 1 = 1
    BY <2>1, <2>2, <2>3, <1>2 DEF Distinct
  <2> QED
    BY <2>4
<1> QED
  BY <1>1, <1>2

LEMMA AllCallsAppended ==
  ASSUME NEW q \in Seq(Queued), NEW x \in Queued, AllCalls(q), x.caller # {}
  PROVE  AllCalls(Append(q, x))
BY AppendedSequence DEF AllCalls

\* A report moves the count on, a call takes the number the count is at.
LEMMA NumberingAppended ==
  ASSUME NEW q \in Seq(Queued), NEW x \in Queued, NEW first \in Nat, NEW last \in Nat,
         NEW next \in Nat, NEW calls, Numbering(q, first, last, calls),
         x.caller = {} => next = last + 1,
         x.caller # {} => next = last,
         \A c \in x.caller : calls[c].after = last
  PROVE  Numbering(Append(q, x), first, next, calls)
<1> DEFINE n == Len(q) + 1
<1>1. PICK r \in [0 .. Len(q) -> Nat] :
        /\ r[0] = first /\ r[Len(q)] = last
        /\ \A i \in 1 .. Len(q) :
             /\ q[i].caller = {} => r[i] = r[i - 1] + 1
             /\ q[i].caller # {} => r[i] = r[i - 1]
             /\ \A c \in q[i].caller : calls[c].after = r[i]
  BY DEF Numbering
<1>2. /\ Len(Append(q, x)) = n /\ Len(q) \in Nat /\ n \in Nat /\ n - 1 = Len(q)
      /\ \A i \in 1 .. Len(q) : Append(q, x)[i] = q[i]
      /\ Append(q, x)[n] = x
      /\ \A i \in 1 .. n : i \in 1 .. Len(q) \/ i = n
  BY AppendedSequence
<1> HIDE DEF n
<1> DEFINE s == [i \in 0 .. n |-> IF i = n THEN next ELSE r[i]]
<1>3. /\ s \in [0 .. n -> Nat] /\ s[n] = next
      /\ \A i \in 0 .. Len(q) : s[i] = r[i]
  <2>1. \A i \in 0 .. n : i = n \/ i \in 0 .. Len(q)
    BY <1>2
  <2>2. \A i \in 0 .. Len(q) : i \in 0 .. n /\ i # n
    BY <1>2
  <2>3. n \in 0 .. n
    BY <1>2
  <2> QED
    BY <1>1, <2>1, <2>2, <2>3
<1> HIDE DEF s
<1>4. s[0] = first /\ s[n - 1] = last
  <2>1. 0 \in 0 .. Len(q) /\ Len(q) \in 0 .. Len(q)
    BY <1>2
  <2> QED
    BY <1>1, <1>2, <1>3, <2>1
<1>5. ASSUME NEW i \in 1 .. n
      PROVE  /\ Append(q, x)[i].caller = {} => s[i] = s[i - 1] + 1
             /\ Append(q, x)[i].caller # {} => s[i] = s[i - 1]
             /\ \A c \in Append(q, x)[i].caller : calls[c].after = s[i]
  <2>1. CASE i \in 1 .. Len(q)
    <3>1. i \in 0 .. Len(q) /\ i - 1 \in 0 .. Len(q)
      BY <2>1, <1>2
    <3>2. s[i] = r[i] /\ s[i - 1] = r[i - 1]
      BY <3>1, <1>3
    <3> QED
      BY <2>1, <3>2, <1>1, <1>2
  <2>2. CASE i = n
    <3>1. s[i] = next /\ s[i - 1] = last /\ Append(q, x)[i] = x
      BY <2>2, <1>2, <1>3, <1>4
    <3>2. x.caller # {} => next = last
      OBVIOUS
    <3> QED
      BY <3>1, <3>2
  <2> QED
    BY <2>1, <2>2, <1>2
<1>6. s \in [0 .. Len(Append(q, x)) -> Nat] /\ s[0] = first /\ s[Len(Append(q, x))] = next
  BY <1>2, <1>3, <1>4
<1>7. \A i \in 1 .. Len(Append(q, x)) :
        /\ Append(q, x)[i].caller = {} => s[i] = s[i - 1] + 1
        /\ Append(q, x)[i].caller # {} => s[i] = s[i - 1]
        /\ \A c \in Append(q, x)[i].caller : calls[c].after = s[i]
  BY <1>2, <1>5
<1> QED
  BY <1>6, <1>7 DEF Numbering

LEMMA NumberingTail ==
  ASSUME NEW q \in Seq(Queued), q # <<>>, NEW first \in Nat, NEW last, NEW calls,
         Numbering(q, first, last, calls)
  PROVE  /\ Head(q).caller = {} => Numbering(Tail(q), first + 1, last, calls)
         /\ Head(q).caller # {} => Numbering(Tail(q), first, last, calls)
         /\ \A c \in Head(q).caller : calls[c].after = first
<1> DEFINE n == Len(Tail(q))
<1>1. PICK r \in [0 .. Len(q) -> Nat] :
        /\ r[0] = first /\ r[Len(q)] = last
        /\ \A i \in 1 .. Len(q) :
             /\ q[i].caller = {} => r[i] = r[i - 1] + 1
             /\ q[i].caller # {} => r[i] = r[i - 1]
             /\ \A c \in q[i].caller : calls[c].after = r[i]
  BY DEF Numbering
<1>2. /\ Head(q) = q[1] /\ Len(q) \in Nat /\ Len(q) = n + 1 /\ n \in Nat
      /\ \A i \in 1 .. n : Tail(q)[i] = q[i + 1] /\ i + 1 \in 1 .. Len(q)
  BY TailSequence
<1> HIDE DEF n
<1> DEFINE s == [i \in 0 .. n |-> r[i + 1]]
<1>3. s \in [0 .. n -> Nat] /\ \A i \in 0 .. n : s[i] = r[i + 1]
  <2>1. \A i \in 0 .. n : i + 1 \in 0 .. Len(q)
    BY <1>2
  <2> QED
    BY <1>1, <2>1
<1> HIDE DEF s
<1>4. s[0] = r[1] /\ s[n] = last
  <2>1. 0 \in 0 .. n /\ n \in 0 .. n /\ 0 + 1 = 1 /\ n + 1 = Len(q)
    BY <1>2
  <2> QED
    BY <1>1, <1>3, <2>1
<1>5. /\ Head(q).caller = {} => r[1] = first + 1
      /\ Head(q).caller # {} => r[1] = first
      /\ \A c \in Head(q).caller : calls[c].after = r[1]
  <2>1. 1 \in 1 .. Len(q) /\ 1 - 1 = 0
    BY <1>2
  <2> QED
    BY <2>1, <1>1, <1>2
<1>6. ASSUME NEW i \in 1 .. n
      PROVE  /\ Tail(q)[i].caller = {} => s[i] = s[i - 1] + 1
             /\ Tail(q)[i].caller # {} => s[i] = s[i - 1]
             /\ \A c \in Tail(q)[i].caller : calls[c].after = s[i]
  <2>1. i \in 0 .. n /\ i - 1 \in 0 .. n /\ (i - 1) + 1 = i /\ (i + 1) - 1 = i
    BY <1>2
  <2>2. s[i] = r[i + 1] /\ s[i - 1] = r[i]
    BY <2>1, <1>3
  <2>3. /\ q[i + 1].caller = {} => r[i + 1] = r[i] + 1
        /\ q[i + 1].caller # {} => r[i + 1] = r[i]
        /\ \A c \in q[i + 1].caller : calls[c].after = r[i + 1]
    BY <1>1, <1>2, <2>1
  <2> QED
    BY <2>2, <2>3, <1>2
<1>7. Numbering(Tail(q), r[1], last, calls)
  BY <1>3, <1>4, <1>6 DEF Numbering, n
<1> QED
  BY <1>5, <1>7

\* The numbers depend on the callers of the sequence only.
LEMMA NumberingOfOthers ==
  ASSUME NEW q \in Seq(Queued), NEW first, NEW last, NEW old, NEW new,
         Numbering(q, first, last, old),
         \A c \in Callers : In(q, c) => new[c].after = old[c].after
  PROVE  Numbering(q, first, last, new)
<1>1. PICK r \in [0 .. Len(q) -> Nat] :
        /\ r[0] = first /\ r[Len(q)] = last
        /\ \A i \in 1 .. Len(q) :
             /\ q[i].caller = {} => r[i] = r[i - 1] + 1
             /\ q[i].caller # {} => r[i] = r[i - 1]
             /\ \A c \in q[i].caller : old[c].after = r[i]
  BY DEF Numbering
<1>2. \A i \in 1 .. Len(q) : \A c \in q[i].caller : new[c].after = r[i]
  <2> SUFFICES ASSUME NEW i \in 1 .. Len(q), NEW c \in q[i].caller PROVE new[c].after = r[i]
    OBVIOUS
  <2>1. q[i] \in Queued
    BY ElementOfSeq
  <2>2. c \in Callers /\ In(q, c)
    BY <2>1 DEF Queued, In
  <2> QED
    BY <2>2, <1>1
<1> QED
  BY <1>1, <1>2 DEF Numbering

LEMMA StoreFacts ==
  ASSUME StoreInv
  PROVE  /\ queue \in Seq(Queued)
         /\ worker \in WorkerStates /\ worker.drain \in BOOLEAN
         /\ worker.batch \in Seq(Queued) /\ worker.pending \in Seq(Queued)
         /\ Len(worker.batch) \in Nat /\ Len(worker.pending) \in Nat /\ Len(worker.pending) <= 1
         /\ worker.at = "serve" => worker.batch # <<>>
         /\ call \in [Callers -> CallStates]
         /\ history \in Histories /\ history.accepted \in Nat /\ history.handled \in Nat
         /\ Ahead \in Nat
<1>1. /\ queue \in Seq(Queued) /\ worker \in WorkerStates
      /\ worker.batch \in Seq(Queued) /\ worker.pending \in Seq(Queued)
      /\ worker.drain \in BOOLEAN /\ Len(worker.pending) <= 1
      /\ worker.at = "serve" => worker.batch # <<>>
      /\ call \in [Callers -> CallStates] /\ history \in Histories
  BY DEF StoreInv, WorkerInv, WorkerStates
<1>2. Len(worker.batch) \in Nat /\ Len(worker.pending) \in Nat
  BY <1>1, LenProperties
<1>3. history.accepted \in Nat /\ history.handled \in Nat
  BY <1>1 DEF Histories
<1> QED
  BY <1>1, <1>2, <1>3 DEF Ahead

LEMMA HeldIsCallers ==
  ASSUME StoreInv
  PROVE  Held \subseteq Callers
<1>1. worker.at = "serve" => Head(worker.batch) \in Queued
  BY StoreFacts, QueueFacts
<1>2. worker.pending # <<>> => Head(worker.pending) \in Queued
  BY StoreFacts, QueueFacts
<1> QED
  BY <1>1, <1>2 DEF Held, Queued

LEMMA InitIsCallInv == Init => CallInv
<1> SUFFICES ASSUME Init PROVE CallInv
  OBVIOUS
<1>1. /\ worker.at = "loop" /\ worker.batch = <<>> /\ worker.pending = <<>>
      /\ worker.drain = FALSE /\ queue = <<>> /\ history.accepted = 0 /\ history.handled = 0
  BY DEF Init, Started
<1>2. Held = {} /\ Ahead = 0 /\ WorkerShape /\ DrainInv
  BY <1>1 DEF Held, Ahead, WorkerShape, DrainInv
<1>3. \A c \in Callers : WayOfCall(call[c])
  BY DEF Init, Quiet, WayOfCall
<1> QED
  BY <1>1, <1>2, <1>3, EmptySequence DEF CallInv

------------------------------------------------------------------------------------
(* The steps of the callers *)

\* What a step of a caller does to its own call; the others it leaves alone.
LEMMA CallerMoves ==
  ASSUME StoreInv, CallInv, NEW c \in Callers,
         Begin(c) \/ LeaveUnsent(c) \/ Receive(c) \/ Cancel(c) \/ Send(c)
  PROVE  /\ \A d \in Callers : d # c => call'[d] = call[d]
         /\ WayOfCall(call'[c])
         /\ Waits(call[c]) => Waits(call'[c])
         /\ worker.at # "exited" => (Unserved(call[c]) => Unserved(call'[c]))
         /\ ~Send(c) => call'[c].after = call[c].after
<1>c. call \in [Callers -> CallStates] /\ call[c] \in CallStates /\ WayOfCall(call[c])
  BY StoreFacts DEF CallInv
<1>1. CASE Begin(c)
  <2>1. PICK kind \in Kinds[c] :
          call' = [call EXCEPT ![c] =
                     [@ EXCEPT !.kind = kind, !.revision = db.revision,
                               !.pc = IF Closed THEN "returned" ELSE "sending",
                               !.result = IF Closed THEN "closed" ELSE "none"]]
    BY <1>1 DEF Begin
  <2> DEFINE v == call[c]
             p == IF Closed THEN "returned" ELSE "sending"
             z == IF Closed THEN "closed" ELSE "none"
  <2>2. v \in CallStates /\ v.pc = "idle" /\ WayOfCall(v)
    BY <1>1, <1>c DEF Begin
  <2>3. call'[c] = [v EXCEPT !.kind = kind, !.revision = db.revision, !.pc = p, !.result = z]
    BY <2>1, <1>c
  <2>4. (p = "returned" /\ z = "closed") \/ (p = "sending" /\ z = "none")
    OBVIOUS
  <2> HIDE DEF v, p, z
  <2>5. /\ call'[c].pc = p /\ call'[c].result = z /\ call'[c].reply = v.reply
        /\ call'[c].ran = v.ran /\ call'[c].done = v.done /\ call'[c].late = v.late
        /\ call'[c].astray = v.astray /\ call'[c].after = v.after
    BY <2>2, <2>3 DEF CallStates
  <2>6. WayOfCall(call'[c])
    BY <2>2, <2>4, <2>5 DEF WayOfCall
  <2>7. ~Waits(call[c]) /\ ~Unserved(call[c])
    BY <1>1 DEF Begin, Waits, Unserved
  <2> QED
    BY <2>1, <2>5, <2>6, <2>7, <1>c DEF v
<1>2. CASE LeaveUnsent(c)
  <2>1. PICK z \in {"closed", "cancelled"} :
          call' = [call EXCEPT ![c].pc = "returned", ![c].result = z]
    BY <1>2 DEF LeaveUnsent, Return
  <2>2. /\ call'[c].pc = "returned" /\ call'[c].result = z /\ call'[c].reply = call[c].reply
        /\ call'[c].ran = call[c].ran /\ call'[c].done = call[c].done
        /\ call'[c].late = call[c].late
        /\ call'[c].astray = call[c].astray /\ call'[c].after = call[c].after
    BY <2>1, <1>c DEF CallStates
  <2>3. call[c].pc = "sending"
    BY <1>2 DEF LeaveUnsent
  <2>4. WayOfCall(call'[c])
    BY <2>1, <2>2, <2>3, <1>c DEF WayOfCall
  <2>5. ~Waits(call[c]) /\ ~Unserved(call[c])
    BY <2>3 DEF Waits, Unserved
  <2> QED
    BY <2>1, <2>2, <2>4, <2>5, <1>c
<1>3. CASE Receive(c)
  <2>1. call[c].pc = "waiting" /\ call[c].result = "none"
    BY <1>3, <1>c DEF Receive, WayOfCall
  <2>2. PICK z :
          /\ call' = [call EXCEPT ![c].pc = "returned", ![c].result = z]
          /\ \/ z = call[c].reply /\ call[c].reply # "none"
             \/ z = "closed" /\ call[c].reply = "none" /\ worker.at = "exited"
             \/ z = "cancelled" /\ call[c].done
    BY <1>3, Zenon DEF Receive, Return, Answer
  <2>3. /\ call'[c].pc = "returned" /\ call'[c].result = z /\ call'[c].reply = call[c].reply
        /\ call'[c].ran = call[c].ran /\ call'[c].done = call[c].done
        /\ call'[c].late = call[c].late
        /\ call'[c].astray = call[c].astray /\ call'[c].after = call[c].after
    BY <2>2, <1>c DEF CallStates
  <2>4. WayOfCall(call'[c])
    <3>1. call[c].reply \in {"none", "ok", "failed", "conflict", "report", "cancelled"}
      BY <1>c DEF CallStates
    <3> QED
      BY <3>1, <2>1, <2>2, <2>3, <1>c DEF WayOfCall
  <2>5. Waits(call[c]) => Waits(call'[c])
    BY <2>3 DEF Waits
  <2>6. worker.at # "exited" => (Unserved(call[c]) => Unserved(call'[c]))
    BY <2>2, <2>3 DEF Unserved, Waits
  <2> QED
    BY <2>2, <2>3, <2>4, <2>5, <2>6, <1>c
<1>4. CASE Cancel(c)
  <2>1. /\ call' = [call EXCEPT ![c].done = TRUE, ![c].late = call[c].ran]
        /\ call[c].pc \in {"sending", "waiting"} /\ ~call[c].done
    BY <1>4 DEF Cancel
  <2>2. /\ call'[c].pc = call[c].pc /\ call'[c].result = call[c].result
        /\ call'[c].reply = call[c].reply
        /\ call'[c].ran = call[c].ran /\ call'[c].late = call[c].ran
        /\ call'[c].astray = call[c].astray /\ call'[c].after = call[c].after
    BY <2>1, <1>c DEF CallStates
  <2>3. WayOfCall(call'[c])
    BY <2>2, <1>c DEF WayOfCall
  <2> QED
    BY <2>1, <2>2, <2>3, <1>c DEF Waits, Unserved
<1>5. CASE Send(c)
  <2>1. /\ call' = [call EXCEPT ![c].pc = "waiting", ![c].after = history.accepted]
        /\ call[c].pc = "sending"
    BY <1>5 DEF Send
  <2>2. /\ call'[c].pc = "waiting" /\ call'[c].result = call[c].result
        /\ call'[c].reply = call[c].reply
        /\ call'[c].ran = call[c].ran /\ call'[c].late = call[c].late
        /\ call'[c].done = call[c].done /\ call'[c].astray = call[c].astray
    BY <2>1, <1>c DEF CallStates
  <2>3. WayOfCall(call'[c])
    BY <2>1, <2>2, <1>c DEF WayOfCall
  <2>4. ~Waits(call[c]) /\ ~Unserved(call[c])
    BY <2>1 DEF Waits, Unserved
  <2> QED
    BY <2>1, <2>3, <2>4, <1>5, <1>c
<1> QED
  BY <1>1, <1>2, <1>3, <1>4, <1>5

\* A step of a caller that sends nothing.
LEMMA CallerKeepsCallInv ==
  ASSUME StoreInv, CallInv, NEW c \in Callers,
         Begin(c) \/ LeaveUnsent(c) \/ Receive(c) \/ Cancel(c)
  PROVE  CallInv'
<1>1. /\ \A d \in Callers : d # c => call'[d] = call[d]
      /\ WayOfCall(call'[c])
      /\ Waits(call[c]) => Waits(call'[c])
      /\ worker.at # "exited" => (Unserved(call[c]) => Unserved(call'[c]))
      /\ ~Send(c) => call'[c].after = call[c].after
  BY CallerMoves
<1>2. ~Send(c) /\ queue' = queue /\ worker' = worker /\ closing' = closing
  <2>1. queue' = queue /\ worker' = worker /\ closing' = closing
    BY DEF Begin, LeaveUnsent, Receive, Cancel
  <2>2. ~Send(c)
    <3> SUFFICES ASSUME Send(c) PROVE FALSE
      OBVIOUS
    <3>1. queue' = Append(queue, CallRequest(c)) /\ queue \in Seq(Queued)
      BY StoreFacts DEF Send
    <3>2. CallRequest(c) \in Queued
      BY DEF CallRequest, Queued, Baselines
    <3>3. Len(queue') = Len(queue) + 1 /\ Len(queue) \in Nat
      BY <3>1, <3>2, AppendFacts
    <3> QED
      BY <3>3, <2>1
  <2> QED
    BY <2>1, <2>2
<1>3. history'.accepted = history.accepted /\ history'.handled = history.handled
  BY StoreFacts DEF Begin, LeaveUnsent, Receive, Cancel, Histories
<1>4. \A d \in Callers :
        /\ WayOfCall(call'[d])
        /\ Waits(call[d]) => Waits(call'[d])
        /\ worker.at # "exited" => (Unserved(call[d]) => Unserved(call'[d]))
        /\ call'[d].after = call[d].after
  BY <1>1, <1>2 DEF CallInv
<1>5. Held' = Held /\ Ahead' = Ahead /\ WorkerShape' /\ DrainInv' /\ Distinct(queue')
  BY <1>2, <1>3 DEF CallInv, Held, Ahead, WorkerShape, DrainInv, Closed
<1>6. Held # {} => worker.at # "exited"
  BY DEF CallInv, WorkerShape, Held
<1>7. \A d \in Held' : ~In(queue', d) /\ Unserved(call'[d]) /\ call'[d].after = Ahead'
  BY <1>2, <1>4, <1>5, <1>6, HeldIsCallers DEF CallInv
<1>8. Numbering(queue', Ahead', history'.accepted, call')
  <2>1. Numbering(queue, Ahead, history.accepted, call')
    BY <1>4, StoreFacts, NumberingOfOthers DEF CallInv
  <2> QED
    BY <2>1, <1>2, <1>3, <1>5
<1>9. /\ \A d \in Callers : In(queue', d) => Waits(call'[d])
      /\ worker'.at # "exited" => \A d \in Callers : In(queue', d) => Unserved(call'[d])
  BY <1>2, <1>4 DEF CallInv
<1> QED
  BY <1>4, <1>5, <1>7, <1>8, <1>9 DEF CallInv

LEMMA SendKeepsCallInv ==
  ASSUME StoreInv, CallInv, NEW c \in Callers, Send(c)
  PROVE  CallInv'
<1> DEFINE x == CallRequest(c)
<1>1. /\ \A d \in Callers : d # c => call'[d] = call[d]
      /\ WayOfCall(call'[c])
  BY CallerMoves
<1>2. /\ queue' = Append(queue, x) /\ worker' = worker /\ closing' = closing
      /\ history' = history /\ call[c].pc = "sending"
      /\ call' = [call EXCEPT ![c].pc = "waiting", ![c].after = history.accepted]
  BY DEF Send
<1>3. queue \in Seq(Queued) /\ x \in Queued /\ x.caller = {c}
  BY StoreFacts DEF CallRequest, Queued, Baselines
<1>4. Unserved(call'[c]) /\ Waits(call'[c]) /\ call'[c].after = history.accepted
  <2>1. /\ call'[c].pc = "waiting" /\ call'[c].after = history.accepted
        /\ call'[c].reply = call[c].reply /\ call'[c].result = call[c].result
    BY <1>2, StoreFacts DEF CallStates
  <2> QED
    BY <2>1, <1>2 DEF CallInv, WayOfCall, Unserved, Waits
<1>5. ~Waits(call[c]) /\ ~Unserved(call[c])
  BY <1>2 DEF Waits, Unserved
<1>6. ~In(queue, c) /\ c \notin Held
  BY <1>5 DEF CallInv
<1> HIDE DEF x
<1>7. \A d : In(queue', d) <=> In(queue, d) \/ d = c
  BY <1>2, <1>3, InAppended
<1>8. Held' = Held /\ Ahead' = Ahead /\ WorkerShape'
  BY <1>2 DEF CallInv, Held, Ahead, WorkerShape
<1>9. Distinct(queue')
  BY <1>2, <1>3, <1>6, DistinctAppended DEF CallInv
<1>10. DrainInv'
  <2>1. worker.at = "exited" => AllCalls(queue')
    BY <1>2, <1>3, AllCallsAppended DEF CallInv, DrainInv
  <2> QED
    BY <2>1, <1>2 DEF CallInv, DrainInv, Closed
<1>11. \A d \in Callers : WayOfCall(call'[d])
  BY <1>1 DEF CallInv
<1>12. \A d \in Held' : ~In(queue', d) /\ Unserved(call'[d]) /\ call'[d].after = Ahead'
  BY <1>1, <1>6, <1>7, <1>8, HeldIsCallers DEF CallInv
<1>13. \A d \in Callers : In(queue', d) => Waits(call'[d])
  BY <1>1, <1>4, <1>7 DEF CallInv
<1>14. worker'.at # "exited" => \A d \in Callers : In(queue', d) => Unserved(call'[d])
  BY <1>1, <1>2, <1>4, <1>7 DEF CallInv
<1>15. Numbering(queue', Ahead', history'.accepted, call')
  <2>1. \A d \in Callers : In(queue, d) => call'[d].after = call[d].after
    BY <1>1, <1>6
  <2>2. Numbering(queue, Ahead, history.accepted, call')
    BY <2>1, <1>3, NumberingOfOthers DEF CallInv
  <2>3. Ahead \in Nat /\ history.accepted \in Nat
    BY StoreFacts
  <2>4. Numbering(Append(queue, x), Ahead, history.accepted, call')
    BY <2>2, <2>3, <1>3, <1>4, NumberingAppended
  <2> QED
    BY <2>4, <1>2, <1>8
<1> QED
  BY <1>8, <1>9, <1>10, <1>11, <1>12, <1>13, <1>14, <1>15 DEF CallInv

------------------------------------------------------------------------------------
(* The steps of the worker *)

\* A step that leaves the calls alone and neither fills nor empties what the worker
\* holds: the queue may lose its head to the batch.
LEMMA TakeKeepsCallInv ==
  ASSUME StoreInv, CallInv, Take
  PROVE  CallInv'
<1>f. /\ queue \in Seq(Queued) /\ worker \in WorkerStates
      /\ worker.batch \in Seq(Queued) /\ worker.pending \in Seq(Queued)
      /\ Len(worker.pending) <= 1 /\ Len(worker.pending) \in Nat
      /\ history.handled \in Nat /\ history.accepted \in Nat /\ Ahead \in Nat
  BY StoreFacts
<1>1. /\ worker.at = "loop" /\ worker.batch = <<>>
      /\ call' = call /\ history' = history /\ closing' = closing
  BY DEF Take, CallInv, WorkerShape
<1>2. Ahead = history.handled
  BY <1>1, <1>f, EmptyFacts DEF Ahead
<1>3. CASE worker.pending # <<>>
  <2>1. worker' = TakeUp(worker.pending) /\ queue' = queue
    BY <1>3 DEF Take
  <2>2. HeadIsCall(worker.pending) /\ Held = Head(worker.pending).caller
    BY <1>1, <1>3 DEF CallInv, WorkerShape, HeadIsCall, Held
  <2>3. /\ worker'.at = "serve" /\ worker'.batch = <<Head(worker.pending)>>
        /\ worker'.pending = <<>> /\ worker'.drain = worker.drain
    BY <2>1, <2>2, <1>f DEF TakeUp, WorkerStates
  <2>4. Held' = Held /\ Ahead' = Ahead
    BY <2>2, <2>3, <1>1, <1>2 DEF Held, Ahead
  <2>5. WorkerShape' /\ DrainInv'
    BY <2>3, <1>1 DEF WorkerShape, DrainInv, CallInv, Closed
  <2> QED
    BY <2>1, <2>3, <2>4, <2>5, <1>1 DEF CallInv
<1>4. CASE worker.pending = <<>>
  <2>1. worker' = TakeUp(queue) /\ queue' = Tail(queue) /\ queue # <<>>
    BY <1>4 DEF Take
  <2>2. /\ worker'.batch = <<Head(queue)>>
        /\ worker'.pending = <<>> /\ worker'.drain = worker.drain
        /\ HeadIsCall(queue) => worker'.at = "serve"
        /\ ~HeadIsCall(queue) => worker'.at \in {"apply", "collect"}
    BY <2>1, <1>f DEF TakeUp, WorkerStates
  <2>3. /\ Head(queue) \in Queued /\ Tail(queue) \in Seq(Queued)
        /\ \A c : In(queue, c) <=> c \in Head(queue).caller \/ In(queue', c)
        /\ Distinct(queue') /\ \A c \in Head(queue).caller : ~In(queue', c)
    BY <2>1, <1>f, TailSequence, InTail, DistinctTail DEF CallInv
  <2>4. Len(<<Head(queue)>>) = 1 /\ Len(worker'.batch) = 1
    BY <2>2
  <2>5. Held' = Head(queue).caller
    <3>1. Head(worker'.batch) = Head(queue)
      BY <2>2
    <3> QED
      BY <2>2, <3>1 DEF Held, HeadIsCall
  <2>6. WorkerShape' /\ DrainInv'
    BY <2>2, <1>1 DEF WorkerShape, DrainInv, CallInv, Closed
  <2>n. /\ Head(queue).caller = {} => Numbering(queue', Ahead + 1, history.accepted, call)
        /\ Head(queue).caller # {} => Numbering(queue', Ahead, history.accepted, call)
        /\ \A c \in Head(queue).caller : call[c].after = Ahead
    BY <2>1, <1>f, NumberingTail DEF CallInv
  <2>7. /\ Head(queue).caller = {} => Ahead' = Ahead + 1
        /\ Head(queue).caller # {} => Ahead' = Ahead
    BY <2>2, <2>4, <1>1, <1>2, <1>f DEF Ahead, HeadIsCall
  <2>8. \A c \in Held' : ~In(queue', c) /\ Unserved(call'[c]) /\ call'[c].after = Ahead'
    <3> SUFFICES ASSUME NEW c \in Head(queue).caller
                 PROVE  ~In(queue', c) /\ Unserved(call'[c]) /\ call'[c].after = Ahead'
      BY <2>5
    <3>1. c \in Callers /\ In(queue, c)
      BY <2>3 DEF Queued
    <3> QED
      BY <3>1, <2>3, <2>n, <2>7, <1>1 DEF CallInv
  <2>9. Numbering(queue', Ahead', history'.accepted, call')
    BY <2>n, <2>7, <1>1
  <2> QED
    BY <2>3, <2>6, <2>8, <2>9, <1>1 DEF CallInv
<1> QED
  BY <1>3, <1>4

LEMMA CollectKeepsCallInv ==
  ASSUME StoreInv, CallInv, Collect
  PROVE  CallInv'
<1>f. /\ queue \in Seq(Queued) /\ worker \in WorkerStates
      /\ worker.batch \in Seq(Queued) /\ Len(worker.batch) \in Nat
      /\ history.handled \in Nat /\ history.accepted \in Nat /\ Ahead \in Nat
  BY StoreFacts
<1>1. /\ worker.at = "collect" /\ worker.pending = <<>>
      /\ call' = call /\ history' = history /\ closing' = closing
  BY DEF Collect, CallInv, WorkerShape
<1>2. Ahead = history.handled + Len(worker.batch) /\ Held = {}
  BY <1>1 DEF Ahead, Held
<1>3. CASE queue = <<>> \/ Len(worker.batch) >= BatchLimit
  <2>1. worker' = [worker EXCEPT !.at = "apply", !.tx = db] /\ queue' = queue
    BY <1>3 DEF Collect
  <2>2. /\ worker'.at = "apply" /\ worker'.batch = worker.batch
        /\ worker'.pending = <<>> /\ worker'.drain = worker.drain
    BY <2>1, <1>1, <1>f DEF WorkerStates
  <2>3. Held' = Held /\ Ahead' = Ahead
    BY <2>2, <1>1, <1>2 DEF Held, Ahead
  <2>4. WorkerShape' /\ DrainInv'
    BY <2>2, <1>1 DEF WorkerShape, DrainInv, CallInv, Closed
  <2> QED
    BY <2>1, <2>2, <2>3, <2>4, <1>1 DEF CallInv
<1>4. CASE ~(queue = <<>> \/ Len(worker.batch) >= BatchLimit)
  <2>1. queue' = Tail(queue) /\ queue # <<>>
    BY <1>4 DEF Collect
  <2>3. /\ Head(queue) \in Queued /\ Tail(queue) \in Seq(Queued)
        /\ \A c : In(queue, c) <=> c \in Head(queue).caller \/ In(queue', c)
        /\ Distinct(queue') /\ \A c \in Head(queue).caller : ~In(queue', c)
    BY <2>1, <1>f, TailSequence, InTail, DistinctTail DEF CallInv
  <2>n. /\ Head(queue).caller = {} => Numbering(queue', Ahead + 1, history.accepted, call)
        /\ Head(queue).caller # {} => Numbering(queue', Ahead, history.accepted, call)
        /\ \A c \in Head(queue).caller : call[c].after = Ahead
    BY <2>1, <1>f, NumberingTail DEF CallInv
  <2>5. CASE HeadIsCall(queue)
    <3>1. worker' = [worker EXCEPT !.pending = <<Head(queue)>>, !.at = "apply", !.tx = db]
      BY <1>4, <2>5 DEF Collect
    <3>2. /\ worker'.at = "apply" /\ worker'.batch = worker.batch
          /\ worker'.pending = <<Head(queue)>> /\ worker'.drain = worker.drain
      BY <3>1, <1>f DEF WorkerStates
    <3>3. Head(<<Head(queue)>>) = Head(queue) /\ <<Head(queue)>> # <<>>
      OBVIOUS
    <3>4. Held' = Head(queue).caller /\ Ahead' = Ahead
      BY <3>2, <3>3, <1>1, <1>2 DEF Held, Ahead
    <3>5. WorkerShape' /\ DrainInv'
      BY <3>2, <3>3, <2>5, <1>1 DEF WorkerShape, DrainInv, CallInv, Closed, HeadIsCall
    <3>6. \A c \in Held' : ~In(queue', c) /\ Unserved(call'[c]) /\ call'[c].after = Ahead'
      <4> SUFFICES ASSUME NEW c \in Head(queue).caller
                   PROVE  ~In(queue', c) /\ Unserved(call'[c]) /\ call'[c].after = Ahead'
        BY <3>4
      <4>1. c \in Callers /\ In(queue, c)
        BY <2>3 DEF Queued
      <4> QED
        BY <4>1, <3>4, <2>3, <2>n, <1>1 DEF CallInv
    <3>7. Numbering(queue', Ahead', history'.accepted, call')
      BY <2>n, <2>5, <3>4, <1>1 DEF HeadIsCall
    <3> QED
      BY <3>5, <3>6, <3>7, <2>3, <1>1 DEF CallInv
  <2>6. CASE ~HeadIsCall(queue)
    <3>1. worker' = [worker EXCEPT !.batch = Append(worker.batch, Head(queue))]
      BY <1>4, <2>6 DEF Collect
    <3>2. /\ worker'.at = "collect" /\ worker'.batch = Append(worker.batch, Head(queue))
          /\ worker'.pending = <<>> /\ worker'.drain = worker.drain
      BY <3>1, <1>1, <1>f DEF WorkerStates
    <3>3. Len(worker'.batch) = Len(worker.batch) + 1
      BY <3>2, <2>3, <1>f, AppendFacts
    <3>4. Held' = {} /\ Ahead' = Ahead + 1
      BY <3>2, <3>3, <1>1, <1>2, <1>f DEF Held, Ahead
    <3>5. WorkerShape' /\ DrainInv'
      BY <3>2, <1>1 DEF WorkerShape, DrainInv, CallInv, Closed
    <3>7. Numbering(queue', Ahead', history'.accepted, call')
      BY <2>n, <2>6, <3>4, <1>1 DEF HeadIsCall
    <3> QED
      BY <3>4, <3>5, <3>7, <2>3, <1>1 DEF CallInv
  <2> QED
    BY <2>5, <2>6
<1> QED
  BY <1>3, <1>4

\* A batch is applied, committed or rolled back, or the end is seen: the queue stays.
LEMMA BatchKeepsCallInv ==
  ASSUME StoreInv, CallInv, SeeStop \/ ApplyOne \/ Commit \/ RollBack
  PROVE  CallInv'
<1>f. /\ queue \in Seq(Queued) /\ worker \in WorkerStates
      /\ worker.batch \in Seq(Queued) /\ Len(worker.batch) \in Nat
      /\ history \in Histories
      /\ history.handled \in Nat /\ history.accepted \in Nat /\ Ahead \in Nat
  BY StoreFacts
<1>s. WorkerShape /\ DrainInv
  BY DEF CallInv
<1>0. queue' = queue /\ call' = call /\ closing' = closing /\ Len(<<>>) = 0
  BY DEF SeeStop, ApplyOne, Commit, RollBack
<1>1. /\ WorkerShape' /\ DrainInv'
      /\ Held' = Held /\ Ahead' = Ahead /\ history'.accepted = history.accepted
      /\ worker'.at # "exited" => worker.at # "exited"
  <2>1. CASE SeeStop
    <3>1. /\ worker.at = "loop" /\ worker.pending = <<>> /\ worker.batch = <<>>
          /\ history' = history
      BY <2>1, <1>s DEF SeeStop, WorkerShape
    <3>2. /\ worker'.pending = <<>> /\ worker'.batch = <<>>
          /\ \/ worker'.at = "exited" /\ worker.drain /\ worker'.drain = worker.drain
                /\ queue = <<>>
             \/ worker'.at = "loop" /\ worker'.drain = TRUE /\ Closed
      <4>1. CASE worker.drain
        BY <4>1, <2>1, <3>1, <1>f DEF SeeStop, WorkerStates
      <4>2. CASE ~worker.drain
        BY <4>2, <2>1, <3>1, <1>f DEF SeeStop, WorkerStates
      <4> QED
        BY <4>1, <4>2
    <3>3. Held' = Held /\ Ahead' = Ahead
      BY <3>1, <3>2 DEF Held, Ahead
    <3>4. WorkerShape'
      BY <3>2 DEF WorkerShape
    <3>5. queue = <<>> => history.handled = history.accepted /\ AllCalls(queue)
      <4>1. ASSUME queue = <<>> PROVE history.handled = history.accepted
        <5>1. Ahead = history.handled
          BY <3>1, <1>0, <1>f DEF Ahead
        <5>2. Numbering(<<>>, Ahead, history.accepted, call)
          BY <4>1 DEF CallInv
        <5> QED
          BY <5>1, <5>2, <1>0 DEF Numbering
      <4> QED
        BY <4>1, EmptySequence
    <3>6. DrainInv'
      BY <3>1, <3>2, <3>5, <1>0, <1>s DEF DrainInv, Closed
    <3> QED
      BY <3>1, <3>3, <3>4, <3>6
  <2>2. CASE ApplyOne
    <3>1. /\ worker.at = "apply" /\ worker.batch # <<>>
          /\ worker'.at = "apply" /\ worker'.batch = Tail(worker.batch)
          /\ worker'.pending = worker.pending /\ worker'.drain = worker.drain
      BY <2>2, <1>f DEF ApplyOne, WorkerStates
    <3>2. Len(worker'.batch) = Len(worker.batch) - 1
      BY <3>1, <1>f, QueueFacts
    <3>3. /\ history'.handled = history.handled + 1
          /\ history'.accepted = history.accepted
      BY <2>2, <1>f DEF ApplyOne, Histories
    <3>4. Held' = Held /\ Ahead' = Ahead
      <4>1. Held' = Held
        BY <3>1 DEF Held
      <4>2. Ahead = history.handled + Len(worker.batch)
        BY <3>1 DEF Ahead
      <4>3. Ahead' = history'.handled + Len(worker'.batch)
        BY <3>1 DEF Ahead
      <4> QED
        BY <4>1, <4>2, <4>3, <3>2, <3>3, <1>f
    <3>5. WorkerShape' /\ DrainInv'
      BY <3>1, <1>0, <1>s DEF WorkerShape, DrainInv, Closed
    <3> QED
      BY <3>1, <3>3, <3>4, <3>5
  <2>3. CASE Commit
    <3>1. /\ worker.at = "apply" /\ worker.batch = <<>>
          /\ worker'.at = "loop" /\ worker'.batch = <<>>
          /\ worker'.pending = worker.pending /\ worker'.drain = worker.drain
          /\ history' = history
      BY <2>3, <1>f DEF Commit, WorkerStates
    <3>2. Held' = Held /\ Ahead' = Ahead
      BY <3>1 DEF Held, Ahead
    <3>3. WorkerShape' /\ DrainInv'
      BY <3>1, <1>0, <1>s DEF WorkerShape, DrainInv, Closed
    <3> QED
      BY <3>1, <3>2, <3>3
  <2>4. CASE RollBack
    <3>1. /\ worker.at = "apply"
          /\ worker'.at = "loop" /\ worker'.batch = <<>>
          /\ worker'.pending = worker.pending /\ worker'.drain = worker.drain
      BY <2>4, <1>f DEF RollBack, WorkerStates
    <3>2. /\ history'.handled = history.handled + Len(worker.batch)
          /\ history'.accepted = history.accepted
      BY <2>4, <1>f DEF RollBack, Histories
    <3>3. Held' = Held /\ Ahead' = Ahead
      BY <3>1, <3>2, <1>0, <1>f DEF Held, Ahead
    <3>4. WorkerShape' /\ DrainInv'
      BY <3>1, <1>0, <1>s DEF WorkerShape, DrainInv, Closed
    <3> QED
      BY <3>1, <3>2, <3>3, <3>4
  <2> QED
    BY <2>1, <2>2, <2>3, <2>4
<1> QED
  BY <1>0, <1>1 DEF CallInv

\* A call is answered once: it was held, it was unanswered, and its answer says
\* whether it took effect.
LEMMA ServedCall ==
  ASSUME StoreInv, CallInv, Serve
  PROVE  \E c \in Callers :
           /\ c \in Held /\ Unserved(call[c])
           /\ \A d \in Callers : d # c => call'[d] = call[d]
           /\ WayOfCall(call'[c]) /\ call'[c].result = call[c].result
           /\ call'[c].reply = "report" \/ ingestErr' = ingestErr
           /\ history'.unreported = history.unreported
<1>1. PICK c \in Head(worker.batch).caller :
        Refuse(c) \/ (~call[c].done /\ (TellFailure(c) \/ Run(c)))
  BY DEF Serve
<1>2. worker.at = "serve" /\ Held = Head(worker.batch).caller
  BY DEF Serve, Held
<1>3. c \in Callers /\ c \in Held /\ Unserved(call[c]) /\ WayOfCall(call[c])
      /\ call[c].after = Ahead
  BY <1>1, <1>2, HeldIsCallers DEF CallInv
<1>4. Ahead = history.handled /\ call[c] \in CallStates /\ history \in Histories
      /\ call \in [Callers -> CallStates]
  BY <1>2, <1>3, StoreFacts DEF Ahead
<1>5. \E r \in {"ok", "failed", "conflict", "report", "cancelled"}, ran \in BOOLEAN :
        /\ Reply(c, r, ran)
        /\ ran <=> r = "ok"
        /\ ran => ~call[c].done
        /\ r = "report" \/ ingestErr' = ingestErr
  <2>1. CASE Refuse(c)
    BY <2>1 DEF Refuse
  <2>2. CASE ~call[c].done /\ TellFailure(c)
    BY <2>2 DEF TellFailure
  <2>3. CASE ~call[c].done /\ Run(c)
    BY <2>3 DEF Run
  <2> QED
    BY <1>1, <2>1, <2>2, <2>3
<1>6. PICK r \in {"ok", "failed", "conflict", "report", "cancelled"}, ran \in BOOLEAN :
        /\ Reply(c, r, ran)
        /\ ran <=> r = "ok"
        /\ ran => ~call[c].done
        /\ r = "report" \/ ingestErr' = ingestErr
  BY <1>5
<1> DEFINE a == call[c].astray \/ (ran /\ history.handled # call[c].after)
<1>7. /\ a = FALSE
      /\ call' = [call EXCEPT ![c].reply = r, ![c].ran = ran, ![c].astray = a]
  <2>1. call[c].astray = FALSE
    BY <1>3, <1>4 DEF WayOfCall, CallStates
  <2>2. history.handled = call[c].after
    BY <1>3, <1>4
  <2> QED
    BY <2>1, <2>2, <1>6 DEF Reply
<1> HIDE DEF a
<1>8. /\ call'[c].reply = r /\ call'[c].ran = ran /\ call'[c].astray = FALSE
      /\ call'[c].pc = call[c].pc /\ call'[c].result = call[c].result
      /\ call'[c].done = call[c].done /\ call'[c].late = call[c].late
      /\ \A d \in Callers : d # c => call'[d] = call[d]
  BY <1>7, <1>3, <1>4 DEF CallStates
<1>9. WayOfCall(call'[c])
  BY <1>3, <1>6, <1>8 DEF WayOfCall, Unserved, Waits
<1>10. history'.unreported = history.unreported
  BY <1>1, <1>4 DEF Refuse, TellFailure, Run, Histories
<1> QED
  BY <1>3, <1>6, <1>8, <1>9, <1>10

LEMMA ServeKeepsCallInv ==
  ASSUME StoreInv, CallInv, Serve
  PROVE  CallInv'
<1>1. PICK c \in Callers :
        /\ c \in Held /\ Unserved(call[c])
        /\ \A d \in Callers : d # c => call'[d] = call[d]
        /\ WayOfCall(call'[c]) /\ call'[c].result = call[c].result
  BY ServedCall
<1>2. /\ worker' = [worker EXCEPT !.at = "loop", !.batch = <<>>]
      /\ queue' = queue /\ closing' = closing /\ worker.at = "serve"
  BY DEF Serve, Refuse, TellFailure, Run, Reply
<1>3. /\ worker \in WorkerStates /\ history \in Histories /\ queue \in Seq(Queued)
      /\ history.handled \in Nat
  BY StoreFacts
<1>4. /\ worker'.at = "loop" /\ worker'.batch = <<>> /\ worker'.pending = <<>>
      /\ worker'.drain = worker.drain
  <2>1. worker.pending = <<>>
    BY <1>2 DEF CallInv, WorkerShape
  <2> QED
    BY <2>1, <1>2, <1>3 DEF WorkerStates
<1>5. history'.handled = history.handled /\ history'.accepted = history.accepted
  BY <1>3 DEF Serve, Refuse, TellFailure, Run, Histories
<1>6. Held' = {} /\ Ahead' = Ahead
  BY <1>2, <1>3, <1>4, <1>5, EmptyFacts DEF Held, Ahead
<1>7. WorkerShape' /\ DrainInv' /\ Distinct(queue')
  BY <1>2, <1>4 DEF CallInv, WorkerShape, DrainInv, Closed
<1>8. ~In(queue, c)
  BY <1>1 DEF CallInv
<1>9. \A d \in Callers : In(queue', d) => call'[d] = call[d] /\ d # c
  BY <1>1, <1>2, <1>8
<1>10. /\ \A d \in Callers : WayOfCall(call'[d])
       /\ \A d \in Callers : In(queue', d) => Waits(call'[d]) /\ Unserved(call'[d])
  BY <1>1, <1>2, <1>9 DEF CallInv
<1>11. Numbering(queue', Ahead', history'.accepted, call')
  <2>1. \A d \in Callers : In(queue, d) => call'[d].after = call[d].after
    BY <1>2, <1>9
  <2>2. Numbering(queue, Ahead, history.accepted, call')
    BY <2>1, <1>3, NumberingOfOthers DEF CallInv
  <2> QED
    BY <2>2, <1>2, <1>5, <1>6
<1> QED
  BY <1>6, <1>7, <1>10, <1>11 DEF CallInv

------------------------------------------------------------------------------------
(* The other steps, and the theorems *)

LEMMA AcceptKeepsCallInv ==
  ASSUME StoreInv, CallInv, Accept
  PROVE  CallInv'
<1> DEFINE x == SampleRequest(Report)
<1>f. /\ queue \in Seq(Queued) /\ history \in Histories
      /\ history.accepted \in Nat /\ Ahead \in Nat
      /\ x \in Queued /\ x.caller = {}
  BY StoreFacts, ReportIsTrue DEF SampleRequest
<1>0. call' = call /\ worker' = worker /\ closing' = closing /\ ~Closed
  BY DEF Accept, MayAccept
<1>1. worker.at # "exited"
  BY <1>0 DEF CallInv, DrainInv
<1> HIDE DEF x
<1>2. CASE Len(queue) < QueueCapacity
  <2>1. queue' = Append(queue, x) /\ history' = [history EXCEPT !.accepted = @ + 1]
    BY <1>2 DEF Accept, x
  <2>2. history'.accepted = history.accepted + 1 /\ history'.handled = history.handled
    BY <2>1, <1>f DEF Histories
  <2>3. Held' = Held /\ Ahead' = Ahead /\ WorkerShape' /\ DrainInv'
    BY <1>0, <1>1, <2>2 DEF CallInv, Held, Ahead, WorkerShape, DrainInv, Closed
  <2>4. Distinct(queue')
    BY <2>1, <1>f, DistinctAppended DEF CallInv
  <2>5. \A c : In(queue', c) <=> In(queue, c)
    BY <2>1, <1>f, InAppended
  <2>6. Numbering(queue', Ahead', history'.accepted, call')
    <3>1. history.accepted + 1 \in Nat
      BY <1>f
    <3>2. Numbering(Append(queue, x), Ahead, history.accepted + 1, call)
      BY <3>1, <1>f, NumberingAppended DEF CallInv
    <3> QED
      BY <3>2, <2>1, <2>2, <2>3, <1>0
  <2> QED
    BY <2>3, <2>4, <2>5, <2>6, <1>0 DEF CallInv
<1>3. CASE ~(Len(queue) < QueueCapacity)
  <2>1. queue' = queue /\ history' = history
    BY <1>3 DEF Accept
  <2>2. Held' = Held /\ Ahead' = Ahead /\ WorkerShape' /\ DrainInv'
    BY <1>0, <2>1 DEF CallInv, Held, Ahead, WorkerShape, DrainInv, Closed
  <2> QED
    BY <1>0, <2>1, <2>2 DEF CallInv
<1> QED
  BY <1>2, <1>3

LEMMA RestartKeepsCallInv ==
  ASSUME StoreInv, CallInv, Restart
  PROVE  CallInv'
<1>1. /\ queue' = <<>> /\ worker'.at = "loop" /\ worker'.batch = <<>>
      /\ worker'.pending = <<>> /\ worker'.drain = FALSE
  BY DEF Restart, Started
<1>2. /\ history'.handled = history.accepted /\ history'.accepted = history.accepted
      /\ history.accepted \in Nat
  BY StoreFacts DEF Restart, Histories
<1>3. Held' = {} /\ Ahead' = history.accepted
  BY <1>1, <1>2, EmptyFacts DEF Held, Ahead
<1>4. WorkerShape' /\ DrainInv'
  BY <1>1 DEF WorkerShape, DrainInv
<1>5. ASSUME NEW c \in Callers PROVE WayOfCall(call'[c])
  <2>1. WayOfCall(call[c]) /\ call[c] \in CallStates
    BY StoreFacts DEF CallInv
  <2>2. CASE call[c].pc \in {"sending", "waiting"}
    <3>1. call'[c] = [call[c] EXCEPT !.pc = "returned", !.result = "lost"]
      BY <2>2 DEF Restart
    <3>2. /\ call'[c].pc = "returned" /\ call'[c].result = "lost"
          /\ call'[c].reply = call[c].reply /\ call'[c].ran = call[c].ran
          /\ call'[c].done = call[c].done /\ call'[c].late = call[c].late
          /\ call'[c].astray = call[c].astray
      BY <3>1, <2>1 DEF CallStates
    <3> QED
      BY <3>2, <2>1 DEF WayOfCall
  <2>3. CASE call[c].pc \notin {"sending", "waiting"}
    BY <2>1, <2>3 DEF Restart
  <2> QED
    BY <2>2, <2>3
<1>6. Numbering(<<>>, history.accepted, history.accepted, call') /\ Distinct(<<>>)
      /\ \A c : ~In(<<>>, c)
  BY <1>2, EmptySequence
<1> QED
  BY <1>1, <1>2, <1>3, <1>4, <1>5, <1>6 DEF CallInv

LEMMA NextKeepsCallInv ==
  ASSUME StoreInv, CallInv, [Next]_vars
  PROVE  CallInv'
<1>1. CASE Tick \/ Boot \/ UNCHANGED vars
  <2>1. queue' = queue /\ worker' = worker /\ call' = call /\ history' = history
        /\ closing' = closing
    BY <1>1 DEF Tick, Boot, vars
  <2>2. Held' = Held /\ Ahead' = Ahead /\ WorkerShape' /\ DrainInv'
    BY <2>1 DEF CallInv, Held, Ahead, WorkerShape, DrainInv, Closed
  <2> QED
    BY <2>1, <2>2 DEF CallInv
<1>2. CASE CloseBegin \/ CloseEnd
  <2>1. queue' = queue /\ worker' = worker /\ call' = call /\ Closed'
    BY <1>2 DEF CloseBegin, CloseEnd, Closed
  <2>2. history'.accepted = history.accepted /\ history'.handled = history.handled
    BY <1>2, StoreFacts DEF CloseBegin, CloseEnd, Histories
  <2>3. Held' = Held /\ Ahead' = Ahead /\ WorkerShape' /\ DrainInv'
    BY <2>1, <2>2 DEF CallInv, Held, Ahead, WorkerShape, DrainInv
  <2> QED
    BY <2>1, <2>2, <2>3 DEF CallInv
<1>3. CASE \E c \in Callers : CallerStep(c) \/ Cancel(c)
  BY <1>3, CallerKeepsCallInv, SendKeepsCallInv DEF CallerStep
<1>4. CASE WorkerStep
  BY <1>4, TakeKeepsCallInv, CollectKeepsCallInv, BatchKeepsCallInv, ServeKeepsCallInv
     DEF WorkerStep
<1> QED
  BY <1>1, <1>2, <1>3, <1>4, AcceptKeepsCallInv, RestartKeepsCallInv DEF Next

LEMMA CallInvariant == Spec => []CallInv
<1>1. StoreInv /\ CallInv /\ [Next]_vars => CallInv'
  BY NextKeepsCallInv
<1> QED
  BY <1>1, InitIsCallInv, StoreInvariant, PTL DEF Spec

\* What an administrator is told is what happened to the call, for any number of
\* callers, contexts that end, transactions that fail, closes and restarts.
THEOREM AnswersAreTrue == Spec => []AnswerIsTrue
<1>1. StoreInv /\ CallInv => AnswerIsTrue
  <2> SUFFICES ASSUME StoreInv, CallInv, NEW c \in Callers
               PROVE  /\ call[c].result = "ok" => call[c].ran
                      /\ call[c].result \in {"closed", "conflict", "failed", "report"} =>
                           ~call[c].ran
                      /\ call[c].result = "cancelled" /\ call[c].ran =>
                           call[c].late \/ ~call[c].done
    BY DEF AnswerIsTrue
  <2>1. WayOfCall(call[c])
    BY DEF CallInv
  <2> QED
    BY <2>1 DEF WayOfCall
<1> QED
  BY <1>1, StoreInvariant, CallInvariant, PTL

\* A call takes effect after exactly the reports that were queued before it, for
\* any batch limit and capacity, although reports are taken together, rolled back
\* together, and the call a batch stops at is put aside.
THEOREM CallsSeeTheirReports == Spec => []CallSeesItsReports
<1>1. CallInv => CallSeesItsReports
  BY DEF CallInv, WayOfCall, CallSeesItsReports
<1> QED
  BY <1>1, CallInvariant, PTL

\* A worker that has ended leaves no accepted report behind, whatever raced Close:
\* what is queued after its end are calls only.
THEOREM AcceptedIsDealtWith == Spec => []AcceptedIsDrained
<1>1. CallInv => AcceptedIsDrained
  <2> SUFFICES ASSUME CallInv, worker.at = "exited"
               PROVE  /\ history.handled = history.accepted
                      /\ \A i \in DOMAIN queue : HeadIsCall(<<queue[i]>>)
    BY DEF AcceptedIsDrained
  <2>1. history.handled = history.accepted /\ AllCalls(queue)
    BY DEF CallInv, DrainInv
  <2> QED
    BY <2>1 DEF AllCalls, HeadIsCall
<1>2. StoreInv /\ CallInv => AcceptedIsDrained
  BY <1>1
<1> QED
  BY <1>2, StoreInvariant, CallInvariant, PTL

\* A step of a caller never loses the news of a failed batch that is on its way to it.
LEMMA CallerKeepsNews ==
  ASSUME StoreInv, CallInv, NEW c \in Callers, CallerStep(c) \/ Cancel(c), history'.unreported
  PROVE  /\ history.unreported /\ ingestErr' = ingestErr
         /\ \A d \in Callers : d # c => call'[d] = call[d]
         /\ call[c].reply = "report" /\ call[c].result \in {"none", "cancelled", "lost"} =>
              /\ call'[c].reply = "report"
              /\ call'[c].result \in {"none", "cancelled", "lost"}
<1>f. /\ call \in [Callers -> CallStates] /\ call[c] \in CallStates
      /\ WayOfCall(call[c]) /\ history \in Histories
  BY StoreFacts DEF CallInv
<1>1. ingestErr' = ingestErr
  BY DEF CallerStep, Cancel, Begin, Send, LeaveUnsent, Receive
<1>2. \A d \in Callers : d # c => call'[d] = call[d]
  BY CallerMoves DEF CallerStep
<1>3. CASE Receive(c)
  <2>1. CASE /\ call[c].reply # "none" \/ worker.at = "exited"
             /\ Return(c, IF worker.at = "exited" THEN Answer(c) ELSE call[c].reply)
             /\ history' = [history EXCEPT !.unreported = @ /\ call[c].reply # "report"]
    <3>1. history.unreported /\ call[c].reply # "report"
      BY <2>1, <1>f DEF Histories
    <3> QED
      BY <3>1, <1>1, <1>2
  <2>2. CASE Return(c, "cancelled") /\ history' = history
    <3>1. call'[c].reply = call[c].reply /\ call'[c].result = "cancelled"
      BY <2>2, <1>f DEF Return, CallStates
    <3> QED
      BY <3>1, <2>2, <1>1, <1>2
  <2> QED
    BY <1>3, <2>1, <2>2 DEF Receive
<1>4. CASE Cancel(c)
  <2>1. call'[c].reply = call[c].reply /\ call'[c].result = call[c].result
        /\ history' = history
    BY <1>4, <1>f DEF Cancel, CallStates
  <2> QED
    BY <2>1, <1>1, <1>2
<1>5. CASE Begin(c) \/ Send(c) \/ LeaveUnsent(c)
  <2>1. call[c].pc \in {"idle", "sending"} /\ history' = history
    BY <1>5 DEF Begin, Send, LeaveUnsent
  <2>2. call[c].reply = "none"
    BY <2>1, <1>f DEF WayOfCall
  <2> QED
    BY <2>1, <2>2, <1>1, <1>2
<1> QED
  BY <1>3, <1>4, <1>5 DEF CallerStep

LEMMA NextKeepsNews ==
  ASSUME StoreInv, CallInv, FailureIsTold, [Next]_vars
  PROVE  FailureIsTold'
<1> DEFINE Bears(v) == v.reply = "report" /\ v.result \in {"none", "cancelled", "lost"}
<1> SUFFICES ASSUME history'.unreported
             PROVE  ingestErr' \/ \E c \in Callers : Bears(call'[c])
  BY DEF FailureIsTold
<1>h. history \in Histories
  BY StoreFacts
<1>t. history.unreported => ingestErr \/ \E c \in Callers : Bears(call[c])
  BY DEF FailureIsTold
<1>1. CASE \/ Tick \/ Boot \/ Accept \/ Take \/ SeeStop \/ Collect \/ ApplyOne \/ Commit
           \/ CloseBegin \/ UNCHANGED vars
  <2>1. ingestErr' = ingestErr /\ call' = call
    BY <1>1 DEF Tick, Boot, Accept, Take, SeeStop, Collect, ApplyOne, Commit, CloseBegin, vars
  <2>2. history'.unreported = history.unreported
    BY <1>1, <1>h DEF Tick, Boot, Accept, Take, SeeStop, Collect, ApplyOne, Commit,
                      CloseBegin, vars, Histories
  <2> QED
    BY <2>1, <2>2, <1>t
<1>2. CASE RollBack
  BY <1>2 DEF RollBack
<1>3. CASE CloseEnd
  <2>1. history.unreported /\ ~ingestErr /\ call' = call
    BY <1>3, <1>h DEF CloseEnd, Histories
  <2> QED
    BY <2>1, <1>t
<1>4. CASE Restart
  BY <1>4, <1>h DEF Restart, Histories
<1>5. CASE \E c \in Callers : CallerStep(c) \/ Cancel(c)
  <2>1. PICK c \in Callers : CallerStep(c) \/ Cancel(c)
    BY <1>5
  <2>2. /\ history.unreported /\ ingestErr' = ingestErr
        /\ \A d \in Callers : d # c => call'[d] = call[d]
        /\ Bears(call[c]) => Bears(call'[c])
    BY <2>1, CallerKeepsNews
  <2>3. \A d \in Callers : Bears(call[d]) => Bears(call'[d])
    BY <2>2
  <2> HIDE DEF Bears
  <2> QED
    BY <2>2, <2>3, <1>t
<1>6. CASE Serve
  <2>1. PICK c \in Callers :
          /\ c \in Held /\ Unserved(call[c])
          /\ \A d \in Callers : d # c => call'[d] = call[d]
          /\ WayOfCall(call'[c]) /\ call'[c].result = call[c].result
          /\ call'[c].reply = "report" \/ ingestErr' = ingestErr
          /\ history'.unreported = history.unreported
    BY <1>6, ServedCall
  <2>2. CASE call'[c].reply = "report"
    BY <2>1, <2>2 DEF Unserved
  <2>3. CASE call'[c].reply # "report"
    <3>1. ~Bears(call[c]) /\ ingestErr' = ingestErr
      BY <2>1, <2>3 DEF Unserved, Waits
    <3>2. \A d \in Callers : Bears(call[d]) => Bears(call'[d])
      BY <3>1, <2>1
    <3> HIDE DEF Bears
    <3> QED
      BY <3>1, <3>2, <2>1, <1>t
  <2> QED
    BY <2>2, <2>3
<1> QED
  BY <1>1, <1>2, <1>3, <1>4, <1>5, <1>6 DEF Next, WorkerStep

\* A batch that failed is never forgotten before somebody was told: the worker
\* remembers it, or the answer is on its way to a Flush, or that Flush left.
THEOREM FailuresAreTold == Spec => []FailureIsTold
<1>1. Init => FailureIsTold
  BY DEF Init, FailureIsTold
<1>2. StoreInv /\ CallInv /\ FailureIsTold /\ [Next]_vars => FailureIsTold'
  BY NextKeepsNews
<1> QED
  BY <1>1, <1>2, StoreInvariant, CallInvariant, PTL DEF Spec

-----------------------------------------------------------------------------
(* The two halves of MCControlStore: what is proved of each holds of the     *)
(* behaviours that explore one of them while the other one rests.            *)

\* A behaviour of both is one of each: store and tunnel history share nothing.
LEMMA BothHalves == MCSpec => Spec /\ TunnelSpec
<1>1. MCInit => Init /\ TunnelInit
  BY DEF MCInit
<1>2. [MCNext]_<<vars, tunnelVars, part>> => [Next]_vars /\ [TunnelNext]_tunnelVars
  <2>1. CASE part # "tunnels" /\ Next /\ Within /\ UNCHANGED <<part, tunnelVars>>
    BY <2>1
  <2>2. CASE part = "tunnels" /\ TunnelNext /\ TunnelsPart /\ UNCHANGED <<part, vars>>
    BY <2>2
  <2>3. CASE UNCHANGED <<vars, tunnelVars, part>>
    BY <2>3
  <2> QED
    BY <2>1, <2>2, <2>3 DEF MCNext
<1> QED
  BY <1>1, <1>2, PTL DEF MCSpec, Spec, TunnelSpec

\* The types of the store with its ledger and of the tunnel history (Store,
\* Tunnels), in both halves.
THEOREM TypesOfBoth == MCSpec => []TypesOK
<1>1. TypeOK /\ TunnelTypeOK => TypesOK
  BY DEF TypesOK
<1> QED
  BY <1>1, BothHalves, StoreTypeCorrect, HistoryIsTyped, PTL
=============================================================================
