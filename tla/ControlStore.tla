-------------------------------- MODULE ControlStore --------------------------------
(***************************************************************************)
(* The control store of the monitor (frp-plus/monitor/control/store.go):   *)
(* one goroutine owns the database and everything else goes through a      *)
(* bounded queue.  Connection handlers put traffic reports into it and     *)
(* never wait (Accept); administrators put calls into it and wait for the  *)
(* answer until their context ends (call).  Reports are applied in batches *)
(* of one transaction, calls in one transaction each, and Close lets the   *)
(* worker finish what was queued before it.                                *)
(*                                                                         *)
(* The database holds the traffic row of one node (TrafficLedger); the     *)
(* agent whose reports feed it may boot again, and the monitor may be      *)
(* restarted or killed at any step.                                        *)
(***************************************************************************)
EXTENDS TrafficLedger, Sequences

CONSTANTS
  Callers,        \* goroutines that make one call each
  Monthly,        \* the reset mode the node was created with
  Sent,           \* Sent[t]: bytes the host has transferred until t
  QueueCapacity,  \* Config.QueueCapacity
  BatchLimit,     \* reports of one transaction
  MaxSamples,     \* bound: reports accepted
  MaxFailures,    \* bound: transactions the database refuses
  MaxRestarts,    \* bound: restarts of the monitor
  BootTimes,      \* bound: when the agent's host may boot
  Kinds           \* bound: Kinds[c], the calls caller c makes

ASSUME StoreAssumption ==
  /\ Monthly \in BOOLEAN
  /\ Sent \in [Time -> Nat]
  /\ \A t, u \in Time : t <= u => Sent[t] <= Sent[u]
  /\ QueueCapacity \in Nat \ {0} /\ BatchLimit \in Nat \ {0}
  /\ MaxSamples \in Nat /\ MaxFailures \in Nat /\ MaxRestarts \in Nat
  /\ BootTimes \subseteq Time
  /\ Kinds \in [Callers -> SUBSET {"get", "reset", "mode", "flush"}]

VARIABLES
  clock,      \* the wall clock, of the monitor and of the calendar
  booted,     \* when the agent's host booted
  db,         \* the committed row of the node
  queue,      \* s.queue: reports and calls
  worker,     \* the worker: [at, drain, batch, tx, pending]
  ingestErr,  \* s.ingestErr is set
  unhealthy,  \* s.unhealthy
  closing,    \* Close: "no", "begun" (closed and stop), "ended"
  call,       \* the callers
  history     \* history: [accepted, handled, failed, restarts, unreported]

vars == <<clock, booted, db, queue, worker, ingestErr, unhealthy, closing, call, history>>

Closed == closing # "no"

(***************************************************************************)
(* Requests.  A report carries the counter, a call the caller it answers.  *)
(***************************************************************************)
Report == [at |-> clock, boot |-> booted, bytes |-> Sent[clock] - Sent[booted]]
SampleRequest(s) == [sample |-> s, caller |-> {}]
CallRequest(c)   == [sample |-> NoSample, caller |-> {c}]

Started(n) == [at |-> "loop", drain |-> FALSE, batch |-> <<>>, tx |-> n, pending |-> <<>>]
Quiet == [pc |-> "idle", kind |-> "get", revision |-> 0, done |-> FALSE, reply |-> "none",
          result |-> "none", ran |-> FALSE, after |-> 0, astray |-> FALSE, late |-> FALSE]

Init ==
  /\ clock = 0 /\ booted = 0
  /\ db = Created(Monthly, 0)
  /\ queue = <<>> /\ worker = Started(db)
  /\ ingestErr = FALSE /\ unhealthy = FALSE /\ closing = "no"
  /\ call = [c \in Callers |-> Quiet]
  /\ history = [accepted |-> 0, handled |-> 0, failed |-> 0, restarts |-> 0,
                unreported |-> FALSE]

------------------------------------------------------------------------------------
(* The agent *)

Tick ==
  /\ clock < Horizon
  /\ clock' = clock + 1
  /\ UNCHANGED <<booted, db, queue, worker, ingestErr, unhealthy, closing, call, history>>

\* The host boots: its counters begin again under a new identity.
Boot ==
  /\ clock \in BootTimes /\ booted # clock
  /\ booted' = clock
  /\ UNCHANGED <<clock, db, queue, worker, ingestErr, unhealthy, closing, call, history>>

(***************************************************************************)
(* Accept: under the read lock, so never after Close has begun.  A full    *)
(* queue drops the report.                                                 *)
(***************************************************************************)
\* Mutant: closed is not looked at under the lock.
BugMayAccept == TRUE

MayAccept == ~Closed

Accept ==
  /\ history.accepted < MaxSamples
  /\ MayAccept
  /\ IF Len(queue) < QueueCapacity
     THEN /\ queue' = Append(queue, SampleRequest(Report))
          /\ history' = [history EXCEPT !.accepted = @ + 1]
          /\ UNCHANGED unhealthy
     ELSE /\ unhealthy' = TRUE
          /\ UNCHANGED <<queue, history>>
  /\ UNCHANGED <<clock, booted, db, worker, ingestErr, closing, call>>

------------------------------------------------------------------------------------
(* The callers *)

Return(c, result) ==
  call' = [call EXCEPT ![c].pc = "returned", ![c].result = result]

\* An administrator acts on the revision seen last; call() looks at closed.
Begin(c) ==
  /\ call[c].pc = "idle"
  /\ \E kind \in Kinds[c] :
       call' = [call EXCEPT ![c] =
                  [@ EXCEPT !.kind = kind, !.revision = db.revision,
                            !.pc = IF Closed THEN "returned" ELSE "sending",
                            !.result = IF Closed THEN "closed" ELSE "none"]]
  /\ UNCHANGED <<clock, booted, db, queue, worker, ingestErr, unhealthy, closing, history>>

\* The context of a caller ends.
Cancel(c) ==
  /\ call[c].pc \in {"sending", "waiting"} /\ ~call[c].done
  /\ call' = [call EXCEPT ![c].done = TRUE, ![c].late = call[c].ran]
  /\ UNCHANGED <<clock, booted, db, queue, worker, ingestErr, unhealthy, closing, history>>

\* Mutant: a send that does not wait for room.
BugSend(c) ==
  /\ call[c].pc = "sending"
  /\ queue' = Append(queue, CallRequest(c))
  /\ call' = [call EXCEPT ![c].pc = "waiting", ![c].after = history.accepted]
  /\ UNCHANGED <<clock, booted, db, worker, ingestErr, unhealthy, closing, history>>

\* The first select: queue, stop or context.
Send(c) ==
  /\ call[c].pc = "sending"
  /\ Len(queue) < QueueCapacity
  /\ queue' = Append(queue, CallRequest(c))
  /\ call' = [call EXCEPT ![c].pc = "waiting", ![c].after = history.accepted]
  /\ UNCHANGED <<clock, booted, db, worker, ingestErr, unhealthy, closing, history>>

LeaveUnsent(c) ==
  /\ call[c].pc = "sending"
  /\ \/ Closed /\ Return(c, "closed")
     \/ call[c].done /\ Return(c, "cancelled")
  /\ UNCHANGED <<clock, booted, db, queue, worker, ingestErr, unhealthy, closing, history>>

\* Mutant: the end of the worker is answered without a second look.
BugAnswer(c) == "closed"

\* The second select: answer, end of the worker or context.  When the worker
\* has ended, an answer that is already there still counts.
Answer(c) == IF call[c].reply = "none" THEN "closed" ELSE call[c].reply

\* Mutant: the end of the worker wakes nobody.
BugReceive(c) ==
  /\ call[c].pc = "waiting"
  /\ \/ /\ call[c].reply # "none"
        /\ Return(c, call[c].reply)
        /\ unhealthy' = (unhealthy \/ call[c].reply = "failed")
        /\ history' = [history EXCEPT !.unreported = @ /\ call[c].reply # "report"]
     \/ /\ call[c].done
        /\ Return(c, "cancelled")
        /\ UNCHANGED <<unhealthy, history>>
  /\ UNCHANGED <<clock, booted, db, queue, worker, ingestErr, closing>>

\* classify: a real failure of the storage marks the store unhealthy.
Receive(c) ==
  /\ call[c].pc = "waiting"
  /\ \/ /\ call[c].reply # "none" \/ worker.at = "exited"
        /\ Return(c, IF worker.at = "exited" THEN Answer(c) ELSE call[c].reply)
        /\ unhealthy' = (unhealthy \/ call[c].reply = "failed")
        /\ history' = [history EXCEPT !.unreported = @ /\ call[c].reply # "report"]
     \/ /\ call[c].done
        /\ Return(c, "cancelled")
        /\ UNCHANGED <<unhealthy, history>>
  /\ UNCHANGED <<clock, booted, db, queue, worker, ingestErr, closing>>

------------------------------------------------------------------------------------
(* The worker: run *)

HeadIsCall(q) == Head(q).caller # {}

\* A request is taken up: a call is to be served, a report opens a batch.
TakeUp(q) ==
  [worker EXCEPT !.at = IF HeadIsCall(q) THEN "serve"
                        ELSE IF worker.drain THEN "apply" ELSE "collect",
                 !.batch = <<Head(q)>>, !.tx = db, !.pending = <<>>]

\* Mutant: the call a batch stopped at waits for the queue.
BugTake ==
  /\ worker.at = "loop"
  /\ IF queue = <<>>
     THEN worker.pending # <<>> /\ worker' = TakeUp(worker.pending) /\ UNCHANGED queue
     ELSE /\ worker' = [TakeUp(queue) EXCEPT !.pending = worker.pending]
          /\ queue' = Tail(queue)
  /\ UNCHANGED <<clock, booted, db, ingestErr, unhealthy, closing, call, history>>

\* The next request is the one a batch stopped at, or the head of the queue;
\* in draining there is no batch to stop at.
Take ==
  /\ worker.at = "loop"
  /\ IF worker.pending # <<>>
     THEN worker' = TakeUp(worker.pending) /\ UNCHANGED queue
     ELSE /\ queue # <<>>
          /\ worker' = TakeUp(queue)
          /\ queue' = Tail(queue)
  /\ UNCHANGED <<clock, booted, db, ingestErr, unhealthy, closing, call, history>>

\* stop is closed and the select takes it; the drain ends when nothing is queued.
SeeStop ==
  /\ worker.at = "loop" /\ worker.pending = <<>>
  /\ IF worker.drain
     THEN queue = <<>> /\ worker' = [worker EXCEPT !.at = "exited"]
     ELSE Closed /\ worker' = [worker EXCEPT !.drain = TRUE]
  /\ UNCHANGED <<clock, booted, db, queue, ingestErr, unhealthy, closing, call, history>>

\* A batch grows until it is full, a call is met or nothing is queued.
Collect ==
  /\ worker.at = "collect"
  /\ IF queue = <<>> \/ Len(worker.batch) >= BatchLimit
     THEN worker' = [worker EXCEPT !.at = "apply", !.tx = db] /\ UNCHANGED queue
     ELSE /\ queue' = Tail(queue)
          /\ worker' = IF HeadIsCall(queue)
                       THEN [worker EXCEPT !.pending = <<Head(queue)>>, !.at = "apply", !.tx = db]
                       ELSE [worker EXCEPT !.batch = Append(@, Head(queue))]
  /\ UNCHANGED <<clock, booted, db, ingestErr, unhealthy, closing, call, history>>

\* applyBatch: the reports one after the other, in one transaction.
ApplyOne ==
  /\ worker.at = "apply" /\ worker.batch # <<>>
  /\ worker' = [worker EXCEPT !.batch = Tail(@),
                              !.tx = Observe(@, Head(worker.batch).sample, clock)]
  /\ history' = [history EXCEPT !.handled = @ + 1]
  /\ UNCHANGED <<clock, booted, db, queue, ingestErr, unhealthy, closing, call>>

\* Mutant: a batch that succeeds forgets the one that failed.
BugCommit ==
  /\ worker.at = "apply" /\ worker.batch = <<>>
  /\ db' = worker.tx
  /\ worker' = [worker EXCEPT !.at = "loop"]
  /\ unhealthy' = FALSE /\ ingestErr' = FALSE
  /\ UNCHANGED <<clock, booted, queue, closing, call, history>>

Commit ==
  /\ worker.at = "apply" /\ worker.batch = <<>>
  /\ db' = worker.tx
  /\ worker' = [worker EXCEPT !.at = "loop"]
  /\ unhealthy' = FALSE
  /\ UNCHANGED <<clock, booted, queue, ingestErr, closing, call, history>>

\* The database refuses the transaction: the whole batch is lost.
RollBack ==
  /\ worker.at = "apply" /\ history.failed < MaxFailures
  /\ worker' = [worker EXCEPT !.at = "loop", !.batch = <<>>, !.tx = db]
  /\ ingestErr' = TRUE /\ unhealthy' = TRUE
  /\ history' = [history EXCEPT !.failed = @ + 1, !.unreported = TRUE,
                                !.handled = @ + Len(worker.batch)]
  /\ UNCHANGED <<clock, booted, db, queue, closing, call>>

(***************************************************************************)
(* What a call does to the row when its transaction commits.               *)
(***************************************************************************)
Conflict(kind, revision) == kind \in {"reset", "mode"} /\ db.revision # revision

Effect(kind) ==
  CASE kind = "get"   -> Refresh(db, clock)
    [] kind = "reset" -> Updated(db, db.monthly, TRUE, clock)
    [] kind = "mode"  -> Updated(db, ~db.monthly, FALSE, clock)
    [] kind = "flush" -> db

\* Mutant: the channel of the answer holds nothing, so the worker waits for a reader.
BugReply(c, r, ran) ==
  /\ call[c].pc = "waiting"
  /\ call' = [call EXCEPT ![c].reply = r, ![c].ran = ran]
  /\ worker' = [worker EXCEPT !.at = "loop", !.batch = <<>>]

\* serveCall, with the answer it gives.  A context that has ended by then
\* keeps the transaction from beginning.  ran and astray are history: the call
\* has taken effect; the reports applied by then were not those queued before it.
Reply(c, r, ran) ==
  /\ call' = [call EXCEPT ![c].reply = r, ![c].ran = ran,
                          ![c].astray = @ \/ (ran /\ history.handled # call[c].after)]
  /\ worker' = [worker EXCEPT !.at = "loop", !.batch = <<>>]

\* Flush: the worker tells an earlier failure and forgets it.
TellFailure(c) ==
  /\ call[c].kind = "flush" /\ ingestErr
  /\ ingestErr' = FALSE
  /\ Reply(c, "report", FALSE)
  /\ UNCHANGED <<db, history>>

\* The context has ended, or the database fails, before the commit.
Refuse(c) ==
  /\ \/ call[c].done /\ Reply(c, "cancelled", FALSE) /\ UNCHANGED history
     \/ /\ history.failed < MaxFailures
        /\ Reply(c, "failed", FALSE)
        /\ history' = [history EXCEPT !.failed = @ + 1]
  /\ UNCHANGED <<db, ingestErr>>

Run(c) ==
  /\ ~(call[c].kind = "flush" /\ ingestErr)
  /\ IF Conflict(call[c].kind, call[c].revision)
     THEN Reply(c, "conflict", FALSE) /\ UNCHANGED db
     ELSE Reply(c, "ok", TRUE) /\ db' = Effect(call[c].kind)
  /\ UNCHANGED <<ingestErr, history>>

Serve ==
  /\ worker.at = "serve"
  /\ \E c \in Head(worker.batch).caller :
       \/ Refuse(c)
       \/ ~call[c].done /\ (TellFailure(c) \/ Run(c))
  /\ UNCHANGED <<clock, booted, queue, unhealthy, closing>>

------------------------------------------------------------------------------------
(* Close, and the process *)

CloseBegin ==
  /\ closing = "no"
  /\ closing' = "begun"
  /\ UNCHANGED <<clock, booted, db, queue, worker, ingestErr, unhealthy, call, history>>

\* Close waits for the worker and returns the failure no Flush has told.
CloseEnd ==
  /\ closing = "begun" /\ worker.at = "exited"
  /\ closing' = "ended"
  /\ history' = [history EXCEPT !.unreported = @ /\ ~ingestErr]
  /\ UNCHANGED <<clock, booted, db, queue, worker, ingestErr, unhealthy, call>>

\* The process ends, by itself or not, and is started again: the database is
\* all that is left.
Restart ==
  /\ history.restarts < MaxRestarts
  /\ queue' = <<>> /\ worker' = Started(db)
  /\ ingestErr' = FALSE /\ unhealthy' = FALSE /\ closing' = "no"
  /\ call' = [c \in Callers |->
                IF call[c].pc \in {"sending", "waiting"}
                THEN [call[c] EXCEPT !.pc = "returned", !.result = "lost"] ELSE call[c]]
  /\ history' = [history EXCEPT !.restarts = @ + 1, !.unreported = FALSE,
                                !.handled = history.accepted]
  /\ UNCHANGED <<clock, booted, db>>

WorkerStep == Take \/ SeeStop \/ Collect \/ ApplyOne \/ Commit \/ RollBack \/ Serve
CallerStep(c) == Begin(c) \/ Send(c) \/ LeaveUnsent(c) \/ Receive(c)

Next ==
  \/ Tick \/ Boot \/ Accept
  \/ \E c \in Callers : CallerStep(c) \/ Cancel(c)
  \/ WorkerStep
  \/ CloseBegin \/ CloseEnd \/ Restart

Spec == Init /\ [][Next]_vars

\* The goroutines that are under way go on, and so does the worker; nobody has
\* to call, to close, to restart or to send a report.
Fairness ==
  /\ WF_vars(WorkerStep)
  /\ \A c \in Callers : WF_vars(Send(c) \/ LeaveUnsent(c) \/ Receive(c))
  /\ WF_vars(CloseEnd)

FairSpec == Spec /\ Fairness

------------------------------------------------------------------------------------
(* Properties *)

Samples  == [at : Time, boot : Time, bytes : Nat]
Requests == [sample : Samples \cup {NoSample}, caller : SUBSET Callers]
Rows     == [monthly : BOOLEAN, day : Time, today : Nat, todayPartial : BOOLEAN,
             start : Time, end : Nat \cup {None}, period : Nat, periodPartial : BOOLEAN,
             base : Samples \cup {NoSample}, revision : Nat]

\* The types of the variables: the row of the database and the requests the
\* goroutines hand to each other, the queue within its capacity.
TypeOK ==
  /\ clock \in Time /\ booted \in Time
  /\ db \in Rows
  /\ queue \in Seq(Requests) /\ Len(queue) <= QueueCapacity
  /\ worker.at \in {"loop", "collect", "apply", "serve", "exited"}
  /\ worker.drain \in BOOLEAN /\ worker.tx \in Rows
  /\ worker.batch \in Seq(Requests) /\ Len(worker.batch) <= BatchLimit
  /\ worker.pending \in Seq(Requests) /\ Len(worker.pending) <= 1
  /\ ingestErr \in BOOLEAN /\ unhealthy \in BOOLEAN
  /\ closing \in {"no", "begun", "ended"}
  /\ \A c \in Callers :
       /\ call[c].pc \in {"idle", "sending", "waiting", "returned"}
       /\ call[c].reply \in {"none", "ok", "failed", "conflict", "report", "cancelled"}

\* A total that is not called partial is what the host really transferred since
\* the range began, up to the last report: whatever was queued, dropped, lost
\* with a batch or a restart, or cut by midnight or by a boot (observe, refresh
\* and UpdateNode: "later complete samples cannot make earlier estimates exact").
ExactTotals ==
  /\ ~db.todayPartial => db.base # NoSample /\ db.base.at >= db.day
                           /\ db.today = Sent[db.base.at] - Sent[db.day]
  /\ ~db.periodPartial => db.base # NoSample /\ db.base.at >= db.start
                            /\ db.period = Sent[db.base.at] - Sent[db.start]

\* A report that waited in the queue over midnight never brings yesterday back
\* after a reader has moved the row to today (the comment in observe).
DayNeverReturns == [][db'.day >= db.day]_vars

\* What a caller is told is what happened: success only of a committed call,
\* "closed", a conflict or a failure only of one that has had no effect and will
\* have none, and a call whose context ended before it was served has none
\* either (call, serveCall and the drain of run).
AnswerIsTrue ==
  \A c \in Callers :
    /\ call[c].result = "ok" => call[c].ran
    /\ call[c].result \in {"closed", "conflict", "failed", "report"} => ~call[c].ran
    /\ call[c].result = "cancelled" /\ call[c].ran => call[c].late \/ ~call[c].done

\* A call sees exactly the reports that were queued before it, although the
\* worker takes reports together and puts the call it meets aside (run).
CallSeesItsReports == \A c \in Callers : ~call[c].astray

\* When the worker has ended, every report that was accepted has been dealt
\* with: none is left in a queue nobody reads (Accept holds the lock, Close).
AcceptedIsDrained ==
  worker.at = "exited" =>
    /\ history.handled = history.accepted
    /\ \A i \in DOMAIN queue : HeadIsCall(<<queue[i]>>)

\* A failed batch is told to somebody: until then the worker remembers it, or the
\* answer is under way to a Flush, or that Flush left before it came (apply, Flush,
\* Close).
FailureIsTold ==
  history.unreported =>
    \/ ingestErr
    \/ \E c \in Callers : call[c].reply = "report" /\ call[c].result \in {"none", "cancelled", "lost"}

\* Every call comes back, and Close does, with a full queue, a failing database,
\* a Close at any moment, callers that race its drain, and contexts that never
\* end (call, run, Close).  Nobody calls twice.
EverybodyReturns ==
  []<>(closing # "begun" /\ \A c \in Callers : call[c].pc \notin {"sending", "waiting"})
=============================================================================
