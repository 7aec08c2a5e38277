----------------------------- MODULE AuditTrail -----------------------------
(***************************************************************************)
(* The access log of sing-box-plus (internal/userstats/audit.go).  Each    *)
(* connection hands one record to the writer that was attached when it     *)
(* began; a writer is one goroutine behind a bounded queue, with one file  *)
(* per user, and is closed and replaced by every reload (service.go) while *)
(* connections that captured it are still ending.  Writes may fail; what   *)
(* cannot be written must leave a gap line or the bit audit_dropped.       *)
(* A process crash is outside: it loses the buffers without a trace, which *)
(* the README of the project accepts.                                      *)
(***************************************************************************)
EXTENDS Integers, Sequences, FiniteSets, SequencesExt

CONSTANTS Identities,   \* billing identities, the users of the log
          Records,      \* audited connections
          Owner,        \* function: the identity of a connection
          QueueSize,    \* queue_size
          MaxOpenFiles, \* max_open_files
          BufferLines,  \* auditFileBufferMax, in lines
          FileLines,    \* max_bytes, in lines
          TotalLines,   \* max_total_bytes, in lines
          MaxWriters,   \* bound: writers, one per (re)load
          MaxFaults,    \* bound: failed system calls
          Nil

ASSUME AuditAssumption ==
    /\ IsFiniteSet(Identities) /\ Owner \in [Records -> Identities]
    /\ QueueSize \in Nat \ {0} /\ MaxOpenFiles \in Nat \ {0}
    /\ BufferLines \in Nat \ {0} /\ FileLines \in Nat \ {0}
    /\ MaxWriters \in Nat /\ MaxFaults \in Nat /\ Nil \notin Nat

VARIABLES
    connState, \* of a connection: [pc, writer]
    attached, \* registry.audit
    sticky,   \* auditDroppedSticky
    phase,    \* a writer: loop, cap, and the steps of Close
    queue,    \* writer.records
    gaps,     \* writer.dropped
    noted,    \* writer.droppedWrite > 0
    files     \* what the writer goroutine works on, with the directory

logVars == <<connState, attached, sticky, phase, queue, gaps, noted, files>>

\* What the members of a sequence amount to, each with its weight.
Amount(s, weight) ==
    LET upto[n \in 0..Len(s)] == IF n = 0 THEN 0 ELSE upto[n - 1] + weight[s[n]]
    IN upto[Len(s)]

Writers == 1..MaxWriters
NoGaps  == [u \in Identities |-> 0]

LogInit ==
    /\ connState = [r \in Records |-> [pc |-> "new", writer |-> Nil]]
    /\ attached = Nil /\ sticky = FALSE
    /\ phase = [w \in Writers |-> "none"]
    /\ queue = [w \in Writers |-> <<>>]
    /\ gaps = [w \in Writers |-> NoGaps]
    /\ noted = [w \in Writers |-> FALSE]
    /\ files = [open    |-> <<>>,                     \* LRU, last used last
                broken  |-> {},                       \* not reopened
                size    |-> [u \in Identities |-> 0],      \* auditFile.size
                buffer  |-> [u \in Identities |-> <<>>],
                disk    |-> [u \in Identities |-> <<>>],
                rotated |-> <<>>,                     \* oldest first
                noted   |-> FALSE,                    \* noteDropped called
                faults  |-> 0]

-----------------------------------------------------------------------------
(* The writer goroutine's operations on files.  A system call may fail, so *)
(* each operation gives the set of its outcomes.                           *)

Record(r)  == [kind |-> "record", of |-> r, n |-> 1]
Gap(n)     == [kind |-> "gap", of |-> Nil, n |-> n]  \* n = Nil is null
StopLine   == [kind |-> "stop", of |-> Nil, n |-> 0]

Failed(f) == IF f.faults < MaxFaults
             THEN {[f EXCEPT !.faults = @ + 1, !.noted = TRUE]}
             ELSE {}

\* Mutant: a failed flush resets the writer and counts nothing.
BugFlush(f, u) ==
    {[f EXCEPT !.disk[u] = @ \o f.buffer[u], !.buffer[u] = <<>>]}
    \cup {[g EXCEPT !.buffer[u] = <<>>, !.noted = FALSE] : g \in Failed(f)}

\* flush and resetWriter: a failure leaves a part of the buffer behind.  On
\* a file that could not be reopened it always fails.
Flush(f, u) ==
    IF u \in f.broken
    THEN {IF f.buffer[u] = <<>> THEN f
          ELSE [f EXCEPT !.buffer[u] = <<>>, !.noted = TRUE]}
    ELSE {[f EXCEPT !.disk[u] = @ \o f.buffer[u], !.buffer[u] = <<>>]}
         \cup UNION {{[g EXCEPT !.disk[u] = @ \o SubSeq(f.buffer[u], 1, k),
                                !.buffer[u] = <<>>] : k \in 0..Len(f.buffer[u]) - 1} :
                         g \in Failed(f)}

\* One step after the other for some identities.
Each(f, Step(_, _), users) ==
    LET after[n \in 0..Len(users)] ==
            IF n = 0 THEN {f} ELSE UNION {Step(g, users[n]) : g \in after[n - 1]}
    IN after[Len(users)]

\* For all open files, a map: in any order.
EachOpen(f, Step(_, _)) ==
    UNION {Each(f, Step, order) : order \in SetToSeqs(ToSet(f.open))}

\* reopen, after its flush.
Reopen(f, u) ==
    {[f EXCEPT !.broken = @ \ {u}, !.size[u] = Len(f.disk[u])]}
    \cup {[g EXCEPT !.broken = @ \cup {u}] : g \in Failed(f)}

\* rotate, after a flush.  A file that was not reopened has nothing to rename.
Rotate(f, u) ==
    IF u \in f.broken THEN {[f EXCEPT !.noted = TRUE]}
    ELSE Reopen([f EXCEPT !.rotated = Append(@, [user |-> u, lines |-> f.disk[u]]),
                          !.disk[u] = <<>>], u)
         \cup Failed(f)

\* write.
WriteLine(f, u, line) ==
    LET fit == IF Len(f.buffer[u]) >= BufferLines THEN Flush(f, u) ELSE {f}
        put == {[g EXCEPT !.buffer[u] = Append(@, line), !.size[u] = @ + 1] : g \in fit}
    IN UNION {IF g.size[u] < FileLines THEN {g}
              ELSE UNION {Rotate(h, u) : h \in Flush(g, u)} : g \in put}

\* touch.
Touch(order, u) ==
    LET i == CHOOSE i \in DOMAIN order : order[i] = u
    IN Append(RemoveAt(order, i), u)

\* Mutant: files are never closed.
BugFileFor(f, u) ==
    IF u \in ToSet(f.open)
    THEN {[f EXCEPT !.open = Touch(@, u)]}
    ELSE {[f EXCEPT !.open = Append(@, u), !.size[u] = Len(f.disk[u])]}

\* fileFor: touch, or evict the least recently used file and open.
FileFor(f, u) ==
    IF u \in ToSet(f.open)
    THEN {[f EXCEPT !.open = Touch(@, u)]}
    ELSE LET room == IF Len(f.open) < MaxOpenFiles THEN {f}
                     ELSE {[g EXCEPT !.open = Tail(@), !.broken = @ \ {Head(f.open)}] :
                              g \in Flush(f, Head(f.open))}
         IN UNION {{[g EXCEPT !.open = Append(@, u), !.size[u] = Len(g.disk[u])]}
                   \cup Failed(g) : g \in room}

\* A line for a user, if the file can be had.
LineFor(f, u, line) ==
    UNION {IF u \in ToSet(g.open) THEN WriteLine(g, u, line) ELSE {g} :
              g \in FileFor(f, u)}

UserOrder == SetToSeq(Identities)

\* flushGaps.
WriteGap(f, u, n) == IF n = 0 THEN {f} ELSE LineFor(f, u, Gap(n))
WriteGaps(f, pending) ==
    LET Step(g, u) == WriteGap(g, u, pending[u]) IN Each(f, Step, UserOrder)

\* flushAll and checkRotationAll.
Check(f, u)     == IF u \in f.broken THEN Reopen(f, u) ELSE {f}
FlushAll(f)     == EachOpen(f, Flush)
ReopenBroken(f) == EachOpen(f, Check)

\* The stop lines of Close, and the end of every file.
StopFile(f, u) == UNION {Flush(g, u) : g \in WriteLine(f, u, StopLine)}
StopAll(f)     == {[g EXCEPT !.open = <<>>, !.broken = {}] : g \in EachOpen(f, StopFile)}

\* auditDirectorySize.
DirectorySize(f) ==
    Amount(f.rotated, [o \in ToSet(f.rotated) |-> Len(o.lines)])
    + Amount(UserOrder, [u \in Identities |-> Len(f.disk[u])])

\* One round of enforceTotalCap: the oldest rotated file is removed,
RemoveOldest(f) ==
    IF f.rotated = <<>> THEN {}
    ELSE LineFor([f EXCEPT !.rotated = Tail(@)], Head(f.rotated).user, Gap(Nil))

\* or there is none, or it cannot be removed.
CapGivesUp(f) == IF f.rotated = <<>> THEN {[f EXCEPT !.noted = TRUE]} ELSE Failed(f)

-----------------------------------------------------------------------------
(* Connections: newConnState, finish, submit *)

Begin(r) ==
    /\ connState[r].pc = "new"
    /\ connState' = [connState EXCEPT ![r] = [pc |-> IF attached = Nil THEN "unaudited" ELSE "live",
                                    writer |-> attached]]
    /\ UNCHANGED <<attached, sticky, phase, queue, gaps, noted, files>>

Closed(w) == phase[w] \in {"stopping", "draining", "gaps", "ended"}

\* Mutant: finish without its once.
BugFinish(r) ==
    /\ connState[r].pc \in {"live", "sent"}
    /\ connState' = [connState EXCEPT ![r].pc = IF Closed(connState[r].writer) THEN "refused" ELSE "submit"]
    /\ sticky' = (sticky \/ Closed(connState[r].writer))
    /\ UNCHANGED <<attached, phase, queue, gaps, noted, files>>

\* finish, once per connection, and submit up to the check of closed.
Finish(r) ==
    /\ connState[r].pc = "live"
    /\ LET closed == Closed(connState[r].writer)
       IN /\ connState' = [connState EXCEPT ![r].pc = IF closed THEN "refused" ELSE "submit"]
          /\ sticky' = (sticky \/ closed)
    /\ UNCHANGED <<attached, phase, queue, gaps, noted, files>>

\* A send after the last look at the queue, or a drop after the last gaps, is
\* seen by nobody.
TooLate(w, dropped) == phase[w] = "ended" \/ (phase[w] = "gaps" /\ ~dropped)

\* The send, which never blocks.
Submit(r) ==
    /\ connState[r].pc = "submit"
    /\ LET w    == connState[r].writer
           full == Len(queue[w]) >= QueueSize
       IN /\ connState' = [connState EXCEPT ![r].pc = IF TooLate(w, full) THEN "late" ELSE "sent"]
          /\ queue' = IF full THEN queue ELSE [queue EXCEPT ![w] = Append(@, r)]
          /\ gaps' = IF full THEN [gaps EXCEPT ![w][Owner[r]] = @ + 1] ELSE gaps
    /\ UNCHANGED <<attached, sticky, phase, noted, files>>

-----------------------------------------------------------------------------
(* The writer: loop, Close *)

Work(w, outcomes) ==
    \E f \in outcomes :
       /\ files' = [f EXCEPT !.noted = FALSE]
       /\ noted' = [noted EXCEPT ![w] = @ \/ f.noted]

\* A record from the queue, also by the drain of Close.
TakeRecord(w) ==
    /\ phase[w] \in {"loop", "stopping", "draining"}
    /\ queue[w] # <<>>
    /\ LET r == Head(queue[w])
       IN Work(w, LineFor(files, Owner[r], Record(r)))
    /\ queue' = [queue EXCEPT ![w] = Tail(@)]
    /\ UNCHANGED <<connState, attached, sticky, phase, gaps>>

AfterCap(f) == IF DirectorySize(f) > TotalLines THEN "cap" ELSE "loop"

\* The tick up to enforceTotalCap.
Tick(w) ==
    /\ phase[w] = "loop"
    /\ Work(w, UNION {UNION {ReopenBroken(g) : g \in FlushAll(f)} :
                        f \in WriteGaps(files, gaps[w])})
    /\ gaps' = [gaps EXCEPT ![w] = NoGaps]
    /\ phase' = [phase EXCEPT ![w] = AfterCap(files')]
    /\ UNCHANGED <<connState, attached, sticky, queue>>

Cap(w) ==
    /\ phase[w] = "cap"
    /\ \/ /\ Work(w, RemoveOldest(files))
          /\ phase' = [phase EXCEPT ![w] = AfterCap(files')]
       \/ /\ Work(w, CapGivesUp(files))
          /\ phase' = [phase EXCEPT ![w] = "loop"]
    /\ UNCHANGED <<connState, attached, sticky, queue, gaps>>

\* Close of the writer: closed and done are set, the loop returns when it
\* sees done, the queue is drained, the gaps and the stop lines are written.
\* During a tick the loop has not looked at done yet: it goes on as if the
\* close came after the tick.
CloseWriter(w) ==
    /\ phase[w] = "loop" /\ attached = Nil
    /\ phase' = [phase EXCEPT ![w] = "stopping"]
    /\ UNCHANGED <<connState, attached, sticky, queue, gaps, noted, files>>

LoopEnds(w) ==
    /\ phase[w] = "stopping"
    /\ phase' = [phase EXCEPT ![w] = "draining"]
    /\ UNCHANGED <<connState, attached, sticky, queue, gaps, noted, files>>

\* Mutant: Close does not drain the queue.
BugDrained(w) ==
    /\ phase[w] = "draining"
    /\ phase' = [phase EXCEPT ![w] = "gaps"]
    /\ UNCHANGED <<connState, attached, sticky, queue, gaps, noted, files>>

Drained(w) ==
    /\ phase[w] = "draining" /\ queue[w] = <<>>
    /\ phase' = [phase EXCEPT ![w] = "gaps"]
    /\ UNCHANGED <<connState, attached, sticky, queue, gaps, noted, files>>

Stop(w) ==
    /\ phase[w] = "gaps"
    /\ Work(w, UNION {StopAll(f) : f \in WriteGaps(files, gaps[w])})
    /\ gaps' = [gaps EXCEPT ![w] = NoGaps]
    /\ phase' = [phase EXCEPT ![w] = "ended"]
    /\ UNCHANGED <<connState, attached, sticky, queue>>

-----------------------------------------------------------------------------
(* The service: attach, closeAudit; the snapshot's look at the drops *)

Attach(w) ==
    /\ attached = Nil /\ phase[w] = "none"
    /\ \A v \in Writers : v < w => phase[v] = "ended"
    /\ attached' = w
    /\ phase' = [phase EXCEPT ![w] = "loop"]
    /\ UNCHANGED <<connState, sticky, queue, gaps, noted, files>>

Detach ==
    /\ attached # Nil
    /\ attached' = Nil
    /\ UNCHANGED <<connState, sticky, phase, queue, gaps, noted, files>>

\* auditDropped: what a snapshot shows, and remembers.
AuditDropped == sticky \/ (attached # Nil /\ noted[attached])

Snapshot ==
    /\ sticky' = AuditDropped
    /\ UNCHANGED <<connState, attached, phase, queue, gaps, noted, files>>

LogNext ==
    \/ \E r \in Records : Begin(r) \/ Finish(r) \/ Submit(r)
    \/ \E w \in Writers : \/ TakeRecord(w) \/ Tick(w) \/ Cap(w) \/ CloseWriter(w)
                          \/ LoopEnds(w) \/ Drained(w) \/ Stop(w) \/ Attach(w)
    \/ Detach
    \/ Snapshot

LogSpec == LogInit /\ [][LogNext]_logVars

-----------------------------------------------------------------------------
(* Properties *)

Lines  == [kind : {"record", "gap", "stop"}, of : Records \cup {Nil},
           n : Nat \cup {Nil}]
Phases == {"none", "loop", "cap", "stopping", "draining", "gaps", "ended"}

\* Types of the variables (auditWriter, auditFile, connState).
LogTypeOK ==
    /\ connState \in [Records -> [pc : {"new", "unaudited", "live", "submit", "refused",
                                   "sent", "late"},
                             writer : Writers \cup {Nil}]]
    /\ attached \in Writers \cup {Nil} /\ sticky \in BOOLEAN
    /\ phase \in [Writers -> Phases]
    /\ \A w \in Writers : Len(queue[w]) <= QueueSize /\ ToSet(queue[w]) \subseteq Records
    /\ gaps \in [Writers -> [Identities -> Nat]] /\ noted \in [Writers -> BOOLEAN]
    /\ Len(files.open) <= MaxOpenFiles /\ files.broken \subseteq ToSet(files.open)
    /\ \A u \in Identities :
          /\ u \notin ToSet(files.open) => files.buffer[u] = <<>>
          /\ Len(files.buffer[u]) <= BufferLines
          /\ ToSet(files.buffer[u]) \cup ToSet(files.disk[u]) \subseteq Lines
    /\ files.faults <= MaxFaults

Rotated == [user : Identities, lines : Seq(Lines)]

\* The lines of an identity, rotated files included; the queues of all writers.
InLog(f, u, weight) ==
    Amount(f.rotated, [o \in Rotated |-> IF o.user = u THEN Amount(o.lines, weight) ELSE 0])
    + Amount(f.disk[u], weight) + Amount(f.buffer[u], weight)
InQueues(weight) == Amount(queue, [q \in Seq(Records) |-> Amount(q, weight)])

\* 1 for the members of S among those of T.
Of(S, T) == [x \in T |-> IF x \in S THEN 1 ELSE 0]

\* The records a line stands for.
StandsFor == [line \in Lines |-> CASE line.kind = "record"                -> 1
                                   [] line.kind = "gap" /\ line.n # Nil -> line.n
                                   [] OTHER                               -> 0]

OwnedBy(u)  == {r \in Records : Owner[r] = u}
Sent(u)     == {r \in OwnedBy(u) : connState[r].pc \in {"sent", "late"}}
Recorded(u) == InLog(files, u, StandsFor)
OpenGaps(u) == InLog(files, u, Of({Gap(Nil)}, Lines))
Waiting(u)  == InQueues(Of(OwnedBy(u), Records))
Counted(u)  == Amount(gaps, [g \in [Identities -> Nat] |-> g[u]])
Copies(r)   == InLog(files, Owner[r], Of({Record(r)}, Lines)) + InQueues(Of({r}, Records))
Dropped     == sticky \/ \E w \in Writers : noted[w]

\* A record handed to a writer before it had looked at its queue for the last
\* time is in the user's files, or is counted there by exactly one gap line, or
\* fell to the total cap under an open gap; else a drop was noted.  Neither
\* full queues, evictions, rotations, failed writes nor reloads lose one
\* without a trace (纪律 3, 9, 10, 13).  Records "late" are the exception.
LossIsTraced ==
    Dropped \/ \A u \in Identities :
       OpenGaps(u) > 0 \/ Cardinality(Sent(u)) = Recorded(u) + Waiting(u) + Counted(u)

\* A writer that has ended left nothing in its queue or its counts but what
\* came late, and no buffer (Close: drain, gaps, stop lines, flush).
CloseKeepsAll ==
    /\ \A w \in Writers : phase[w] = "ended" =>
          \A r \in Records :
             (r \in ToSet(queue[w]) \/ gaps[w][Owner[r]] > 0) =>
                \E q \in Records : /\ Owner[q] = Owner[r]
                                  /\ connState[q] = [pc |-> "late", writer |-> w]
    /\ (\A w \in Writers : phase[w] \in {"none", "ended"}) =>
          \A u \in Identities : files.buffer[u] = <<>>

\* A connection is in the log or in a queue at most once, although every copy
\* loop calls Close (纪律 1), also when its writer is drained by Close (纪律 13).
RecordOnce == \A r \in Records : Copies(r) <= 1
=============================================================================
