------------------------------- MODULE TrafficLedger -------------------------------
(***************************************************************************)
(* What the monitor writes down about the traffic of one node              *)
(* (frp-plus/monitor/control/traffic.go, and the parts of nodes.go that    *)
(* touch the same columns).  An agent reports counters that only grow      *)
(* until it boots again; the ledger turns the differences into a total for *)
(* the calendar day and one for the plan period, and says of each whether  *)
(* it is exact or only partial.                                            *)
(*                                                                         *)
(* Received and sent bytes go through the same arithmetic, so one counter  *)
(* stands for both.  The calendar is a parameter: the code works on dates  *)
(* of two time zones, and days and months differ in length.                *)
(***************************************************************************)
EXTENDS Integers

CONSTANTS
  Horizon,      \* the last instant of the clock
  DayStart,     \* DayStart[t]: the midnight that begins the day of t
  PeriodStart,  \* PeriodStart[t]: the reset day that begins the period of t
  PeriodEnd,    \* PeriodEnd[t]: the reset day that ends it
  MaxGap        \* reports further apart than this leave a gap

Time == 0 .. Horizon

(***************************************************************************)
(* The day and the period of an instant never begin after it, and the      *)
(* period ends after it: midnight() and periodBounds() of the code.        *)
(***************************************************************************)
ASSUME CalendarAssumption ==
  /\ Horizon \in Nat
  /\ DayStart \in [Time -> Time]
  /\ PeriodStart \in [Time -> Time]
  /\ PeriodEnd \in [Time -> Nat]
  /\ MaxGap \in Nat
  /\ \A t \in Time : DayStart[t] <= t /\ PeriodStart[t] <= t /\ t < PeriodEnd[t]
  /\ \A t, u \in Time : t <= u => DayStart[t] <= DayStart[u]

None == -1

(***************************************************************************)
(* What an agent sends: when the report was received, the identity of the  *)
(* boot and of the interfaces it counted on, and the counter.              *)
(***************************************************************************)
NoSample == [at |-> None, boot |-> None, bytes |-> 0]

\* Mutant: the day of the report, however long it has waited.
BugLater(t, u) == t

Later(t, u) == IF u > t THEN u ELSE t

(***************************************************************************)
(* refresh: moves the row into the day and the period of instant t.  A     *)
(* range that begins without a baseline exactly on its boundary is partial *)
(* from the start.                                                         *)
(***************************************************************************)
RefreshDay(n, t) ==
  IF n.day = DayStart[t] THEN n
  ELSE [n EXCEPT !.day = DayStart[t], !.today = 0,
                 !.todayPartial = (n.base.at # DayStart[t])]

RefreshPeriod(n, t) ==
  IF n.monthly
  THEN IF n.start # None /\ n.end # None /\ t < n.end THEN n
       ELSE [n EXCEPT !.start = PeriodStart[t], !.end = PeriodEnd[t], !.period = 0,
                      !.periodPartial = (n.base.at # PeriodStart[t])]
  ELSE IF n.start # None THEN n
       ELSE [n EXCEPT !.start = t, !.end = None, !.periodPartial = TRUE]

Refresh(n, t) == RefreshPeriod(RefreshDay(n, t), t)

(***************************************************************************)
(* addFraction: the share of a delta that falls after the boundary, by     *)
(* receive time.                                                           *)
(***************************************************************************)
AddFraction(total, delta, from, to, boundary) ==
  IF boundary >= to THEN total
  ELSE IF boundary > from
       THEN total + (delta * (to - boundary)) \div (to - from)
       ELSE total + delta

(***************************************************************************)
(* A delta needs an earlier report of the same boot and interfaces whose   *)
(* counter is not higher.                                                  *)
(***************************************************************************)
Comparable(base, s) == base.at # None /\ base.boot = s.boot /\ base.bytes <= s.bytes

\* The totals and flags of a report with a delta, and of one without.
Credit(n, s) ==
  LET from  == n.base.at
      delta == s.bytes - n.base.bytes
      gap   == s.at - from > MaxGap
  IN  [n EXCEPT !.today = AddFraction(@, delta, from, s.at, n.day),
                !.period = AddFraction(@, delta, from, s.at, n.start),
                !.todayPartial = @ \/ gap \/ from < n.day,
                !.periodPartial = @ \/ gap \/ from < n.start]

Estimate(n) == [n EXCEPT !.todayPartial = TRUE, !.periodPartial = TRUE]

\* A report exactly on a boundary is a complete baseline of that range.  Then
\* the report becomes the baseline of the next one.
\* Mutant: a later report completes the range.
BugRebase(n, s) ==
  [n EXCEPT !.todayPartial = @ /\ s.at < n.day,
            !.periodPartial = @ /\ s.at < n.start,
            !.base = s]

Rebase(n, s) ==
  [n EXCEPT !.todayPartial = @ /\ s.at # n.day,
            !.periodPartial = @ /\ s.at # n.start,
            !.base = s]

(***************************************************************************)
(* observe: what one report does to the row when the worker gets to it at  *)
(* instant now.  A report that is not newer than the baseline does nothing.*)
(***************************************************************************)
Record(n, s) == Rebase(IF Comparable(n.base, s) THEN Credit(n, s) ELSE Estimate(n), s)

Observe(n, s, now) ==
  IF s.at <= n.base.at THEN n
  ELSE Record(Refresh(n, Later(s.at, now)), s)

(***************************************************************************)
(* CreateNode, and UpdateNode: an administrator changes the reset mode and *)
(* may reset the period, which clears it and begins it now.                *)
(***************************************************************************)
Created(monthly, t) ==
  Refresh([monthly |-> monthly, day |-> None, today |-> 0, todayPartial |-> FALSE,
           start |-> None, end |-> None, period |-> 0, periodPartial |-> FALSE,
           base |-> NoSample, revision |-> 1], t)

Reset(n, t) == [n EXCEPT !.start = t, !.period = 0, !.periodPartial = (n.base.at # t)]

SetMode(n, monthly, t) ==
  [n EXCEPT !.monthly = monthly, !.end = IF monthly THEN PeriodEnd[t] ELSE None]

Updated(n, monthly, reset, t) ==
  LET m == SetMode(Refresh(n, t), monthly, t)
  IN  [(IF reset THEN Reset(m, t) ELSE m) EXCEPT !.revision = @ + 1]
====
