-------------------------- MODULE BackgroundOutput --------------------------
(***************************************************************************)
(* The output half of BackgroundBashManager, for one registered job: its   *)
(* log grows while callers read it through the shared cursor, with output, *)
(* an output-sensitive wait or a terminal-focused wait, each read being an *)
(* operation of the job's FIFO queue.                                      *)
(*                                                                         *)
(* A byte is what UTF-8 decoding tells apart: "a" stands alone, "2", "3"   *)
(* and "4" lead that many bytes, "c" continues, "o" is 0xC0 or 0xC1 and    *)
(* "x" is 0xF5 or above.                                                   *)
(***************************************************************************)
EXTENDS Naturals, Sequences, FiniteSets

CONSTANTS Reader,       \* the callers, each with one call at a time
          Limit,        \* OUTPUT_LIMIT
          Logs          \* the bytes a job may write, in all

ASSUME LimitAssumption == Limit \in Nat \ {0}
ASSUME LogsAssumption == Logs \subseteq Seq({"a", "2", "3", "4", "c", "o", "x"})

VARIABLES log,          \* what this job writes, in the end
          written,      \* how much of it is in the file
          cursor,       \* ManagedTask.cursor
          running,      \* state === 'running'
          closing,      \* the manager is shutting down
          queue,        \* readers with an operation in ManagedTask.serial
          call,         \* the call of each reader
          answer,       \* history: what the last step returned to a reader
          given,        \* history: in how many results each byte came back
          lost          \* history: the bytes a wait held when its read failed

outputVars == <<log, written, cursor, running, closing, queue, call, answer, given, lost>>

NoReason == "none"
Kinds == {"output", "wait", "terminal"}
Ends == {"cancelled", "shutdown", "timeout", "terminal"}
Reasons == Ends \cup {"read", "output", "changed"}

\* A range of the log with the bytes that were really put in it.
Empty == [start |-> 0, end |-> 0, bytes |-> {}]
IsEmpty(r) == r.bytes = {}

Idle == [kind |-> "none", at |-> "idle", final |-> NoReason, from |-> 0,
         size |-> 0, start |-> 0, held |-> Empty, urge |-> "none"]

\* Nothing came back in the last step.
Nothing == [reason |-> NoReason, running |-> TRUE, range |-> Empty]
Silent == answer' = Nothing

OutputInit ==
    /\ log \in Logs
    /\ written = 0
    /\ cursor = 0
    /\ running = TRUE
    /\ closing = FALSE
    /\ queue = <<>>
    /\ call = [r \in Reader |-> Idle]
    /\ answer = Nothing
    /\ given = [i \in 1 .. Len(log) |-> 0]
    /\ lost = {}

-----------------------------------------------------------------------------
\* completeUtf8Boundary()

Width == [b \in {"a", "2", "3", "4", "c", "o", "x"} |->
            CASE b \in {"a", "x"} -> 1 [] b = "2" -> 2
              [] b \in {"3", "c", "o"} -> 3 [] b = "4" -> 4]

\* Mutant: an unfinished code point is kept back at the end of the file too.
BoundaryKeepsBack(data, boundary, eof) ==
    LET low == IF boundary > 3 THEN boundary - 3 ELSE 0
        leads == {j \in low .. boundary - 1 : data[j + 1] # "c"}
        lead == CHOOSE j \in leads : \A k \in leads : k <= j
        needed == Width[data[lead + 1]] - (boundary - lead)
    IN  IF boundary = 0 \/ leads = {} \/ needed <= 0 THEN boundary
        ELSE IF boundary + needed > Len(data) THEN lead
        ELSE IF \A k \in 1 .. needed : data[boundary + k] = "c"
        THEN boundary + needed ELSE boundary

\* Mutant: a code point is completed whether or not its bytes were read.
BoundaryOvershoots(data, boundary, eof) ==
    LET low == IF boundary > 3 THEN boundary - 3 ELSE 0
        leads == {j \in low .. boundary - 1 : data[j + 1] # "c"}
        lead == CHOOSE j \in leads : \A k \in leads : k <= j
        needed == Width[data[lead + 1]] - (boundary - lead)
    IN  IF boundary = 0 \/ leads = {} \/ needed <= 0 THEN boundary
        ELSE boundary + needed

\* How many bytes of `data` to take when the limit falls after `boundary`:
\* the code point under the limit whole, or left for the next read when the
\* file ends in the middle of it and may still grow.
Boundary(data, boundary, eof) ==
    LET low == IF boundary > 3 THEN boundary - 3 ELSE 0
        leads == {j \in low .. boundary - 1 : data[j + 1] # "c"}
        \* -1 is the code's lead < 0; below the window it lands on low - 1
        lead == IF leads = {} THEN low - 1
                ELSE CHOOSE j \in leads : \A k \in leads : k <= j
        needed == Width[data[lead + 1]] - (boundary - lead)
    IN  IF boundary = 0 \/ (eof /\ boundary = Len(data)) \/ lead < 0
           \/ needed <= 0 THEN boundary
        ELSE IF boundary + needed > Len(data)
        THEN (IF eof THEN boundary ELSE lead)
        ELSE IF \A k \in 1 .. needed : data[boundary + k] = "c"
        THEN boundary + needed ELSE boundary

\* readOutput() of at most `limit` bytes from `start`, with the size the stat
\* returned.  Up to three bytes past the limit are read to complete a code point.
Read(start, size, limit) ==
    LET least(a, b) == IF a < b THEN a ELSE b
        count == least(size - start, limit + 3)
        data == SubSeq(log, start + 1, start + count)
        eof == ~running /\ start + count >= size
        taken == IF count = 0 THEN 0
                 ELSE Boundary(data, least(limit, count), eof)
    IN  [start |-> start, end |-> start + taken,
         bytes |-> start + 1 .. start + taken]

\* aggregateWaitOutput(): the range a terminal wait holds grows only while the
\* cursor is at its end and it is below the limit; otherwise later bytes stay
\* for the next reader.  An empty `held` is the code's undefined.
Aggregate(held, start, size) ==
    LET length == held.end - held.start
        next == Read(start, size, Limit - length)
    IN  IF IsEmpty(held) THEN IF IsEmpty(next) THEN Empty ELSE next
        ELSE IF held.end # start \/ length >= Limit
        THEN held
        ELSE [held EXCEPT !.end = next.end, !.bytes = @ \cup next.bytes]

-----------------------------------------------------------------------------
\* The job

Write ==
    /\ running
    /\ written < Len(log)
    /\ written' = written + 1
    /\ UNCHANGED <<log, cursor, running, closing, queue, call, given, lost>>
    /\ Silent

\* finish() runs as an operation of the queue: never during a read, and once
\* the process group is gone, so nothing is written afterwards.  A job may be
\* cut short in the middle of a code point.
SettleOutput ==
    /\ running
    /\ \A r \in Reader : call[r].at # "reading"
    /\ running' = FALSE
    /\ UNCHANGED <<log, written, cursor, closing, queue, call, given, lost>>
    /\ Silent

Close ==
    /\ ~closing
    /\ closing' = TRUE
    /\ UNCHANGED <<log, written, cursor, running, queue, call, given, lost>>
    /\ Silent

-----------------------------------------------------------------------------
\* The calls

Call(r, kind) ==
    /\ call[r].at = "idle"
    /\ call' = [call EXCEPT ![r] = [Idle EXCEPT !.kind = kind, !.at = "queued",
                           !.from = IF kind = "wait" THEN cursor ELSE 0]]
    /\ queue' = Append(queue, r)
    /\ UNCHANGED <<log, written, cursor, running, closing, given, lost>> /\ Silent

\* context.agent.cancelSignal aborts, or the deadline of a wait passes; an
\* abort is looked at first, so it covers a passed deadline.
Abort(r) ==
    /\ call[r].kind \in {"wait", "terminal"}
    /\ call[r].urge # "aborted"
    /\ call' = [call EXCEPT ![r].urge = "aborted"]
    /\ UNCHANGED <<log, written, cursor, running, closing, queue, given, lost>>
    /\ Silent

Expire(r) ==
    /\ call[r].kind \in {"wait", "terminal"}
    /\ call[r].urge = "none"
    /\ call' = [call EXCEPT ![r].urge = "late"]
    /\ UNCHANGED <<log, written, cursor, running, closing, queue, given, lost>>
    /\ Silent

\* The operation at the head opens the log and stats it.
BeginRead(r) ==
    /\ queue # <<>> /\ r = Head(queue)
    /\ call[r].at = "queued"
    /\ call' = [call EXCEPT ![r].at = "reading", ![r].size = written,
                            ![r].start = cursor]
    /\ UNCHANGED <<log, written, cursor, running, closing, queue, given, lost>>
    /\ Silent

\* The log was removed or replaced, or the read failed: the call rejects, and
\* a terminal wait loses what it held.
ReadFails(r) ==
    /\ call[r].at = "reading"
    /\ call' = [call EXCEPT ![r] = Idle]
    /\ lost' = lost \cup call[r].held.bytes
    /\ queue' = Tail(queue)
    /\ UNCHANGED <<log, written, cursor, running, closing, given>> /\ Silent

Return(r, reason, range) ==
    /\ call' = [call EXCEPT ![r] = Idle]
    /\ answer' = [reason |-> reason, running |-> running, range |-> range]
    /\ given' = [i \in DOMAIN given |->
                    IF i \in range.bytes THEN given[i] + 1 ELSE given[i]]

\* Go on waiting, or (final) queue the last read of the call.
Sleep(r, held) ==
    /\ call' = [call EXCEPT ![r].at = "sleeping", ![r].size = 0, ![r].start = 0,
                            ![r].held = held]
    /\ UNCHANGED given
    /\ Silent

Conclude(r, reason, held) ==
    /\ call' = [call EXCEPT ![r].at = "queued", ![r].size = 0, ![r].start = 0,
                            ![r].final = reason, ![r].held = held]
    /\ UNCHANGED given
    /\ Silent

\* What a read added to a range: the code's task.cursor += consumed.
Taken(now, before) == Cardinality(now.bytes) - Cardinality(before.bytes)

OutputEnds(r) ==
    /\ call[r].kind = "output"
    /\ LET read == Read(call[r].start, call[r].size, Limit)
       IN  /\ cursor' = cursor + Taken(read, Empty)
           /\ Return(r, "read", read)
    /\ queue' = Tail(queue)

\* The reason an output-sensitive wait returns after a read, or NoReason.
WaitReason(r, read) ==
    IF ~IsEmpty(read) THEN "output"
    ELSE IF ~running THEN "terminal"
    ELSE IF call[r].final # NoReason THEN call[r].final
    ELSE IF read.end # call[r].from THEN "changed"
    ELSE IF call[r].urge = "aborted" THEN "cancelled"
    ELSE IF closing THEN "shutdown"
    ELSE IF call[r].urge = "late" THEN "timeout" ELSE NoReason

WaitEnds(r) ==
    /\ call[r].kind = "wait"
    /\ LET read == Read(call[r].start, call[r].size, Limit)
           reason == WaitReason(r, read)
       IN  /\ cursor' = cursor + Taken(read, Empty)
           /\ IF reason = NoReason THEN Sleep(r, Empty)
              ELSE Return(r, reason, read)
    /\ queue' = Tail(queue)

\* finishTerminalWait(): a job that settled before the last read is terminal.
FinalReason(r) == IF running THEN call[r].final ELSE "terminal"

\* A terminal wait after one of its reads: the first of the reasons to end
\* makes it read once more.
TerminalPolls(r) ==
    /\ call[r].kind = "terminal" /\ call[r].final = NoReason
    /\ LET held == Aggregate(call[r].held, call[r].start, call[r].size)
       IN  /\ cursor' = cursor + Taken(held, call[r].held)
           /\ IF ~running THEN Conclude(r, "terminal", held)
              ELSE IF call[r].urge = "aborted" THEN Conclude(r, "cancelled", held)
              ELSE IF closing THEN Conclude(r, "shutdown", held)
              ELSE IF call[r].urge = "late" THEN Conclude(r, "timeout", held)
              ELSE Sleep(r, held)
    /\ queue' = IF call'[r].at = "queued" THEN Append(Tail(queue), r)
                                          ELSE Tail(queue)

\* Mutant: the last read moves the cursor, but what was held before is returned.
TerminalEndsForgets(r) ==
    /\ call[r].kind = "terminal" /\ call[r].final # NoReason
    /\ LET held == Aggregate(call[r].held, call[r].start, call[r].size)
       IN  /\ cursor' = cursor + Taken(held, call[r].held)
           /\ Return(r, FinalReason(r), call[r].held)
    /\ queue' = Tail(queue)

\* Its last read; one that still holds nothing reads a second time, within
\* the same operation and with a new stat.
TerminalEnds(r) ==
    /\ call[r].kind = "terminal" /\ call[r].final # NoReason
    /\ \E size \in IF IsEmpty(Aggregate(call[r].held, call[r].start, call[r].size))
                   THEN call[r].size .. written ELSE {call[r].size} :
          LET held == Aggregate(call[r].held, call[r].start, size)
          IN  /\ cursor' = cursor + Taken(held, call[r].held)
              /\ Return(r, FinalReason(r), held)
    /\ queue' = Tail(queue)

EndRead(r) ==
    /\ call[r].at = "reading"
    /\ OutputEnds(r) \/ WaitEnds(r) \/ TerminalPolls(r) \/ TerminalEnds(r)
    /\ UNCHANGED <<log, written, running, closing, lost>>

\* Mutant: every poll of a wait starts its deadline again.
WakeRestarts(r) ==
    /\ call[r].at = "sleeping"
    /\ \E why \in {NoReason} \cup (IF call[r].urge = "aborted" THEN {"cancelled"} ELSE {})
                             \cup (IF closing THEN {"shutdown"} ELSE {}) :
          call' = [call EXCEPT ![r].at = "queued", ![r].final = why,
                               ![r].urge = "none"]
    /\ queue' = Append(queue, r)
    /\ UNCHANGED <<log, written, cursor, running, closing, given, lost>> /\ Silent

\* waitForInterruption() resolves: an abort or the shutdown makes the wait
\* read once more, the poll interval makes it start over.
Wake(r) ==
    /\ call[r].at = "sleeping"
    /\ \E why \in {NoReason} \cup (IF call[r].urge = "aborted" THEN {"cancelled"} ELSE {})
                             \cup (IF closing THEN {"shutdown"} ELSE {}) :
          call' = [call EXCEPT ![r].at = "queued", ![r].final = why]
    /\ queue' = Append(queue, r)
    /\ UNCHANGED <<log, written, cursor, running, closing, given, lost>> /\ Silent

-----------------------------------------------------------------------------
OutputNext ==
    \/ Write \/ SettleOutput \/ Close
    \/ \E r \in Reader : \/ \E kind \in Kinds : Call(r, kind)
                         \/ Abort(r) \/ Expire(r) \/ BeginRead(r)
                         \/ ReadFails(r) \/ EndRead(r) \/ Wake(r)

OutputSpec == OutputInit /\ [][OutputNext]_outputVars

\* The file system answers, timers fire and deadlines pass; nobody has to
\* write, settle, close or call.
OutputFairness == \A r \in Reader :
    WF_outputVars(Expire(r)) /\ WF_outputVars(BeginRead(r) \/ EndRead(r) \/ Wake(r))

OutputFairSpec == OutputSpec /\ OutputFairness
-----------------------------------------------------------------------------
IsRange(g) == /\ g.start \in 0 .. cursor
              /\ g.end \in 0 .. cursor
              /\ g.bytes \subseteq 1 .. cursor

OutputTypeOK ==
    /\ log \in Logs
    /\ written \in 0 .. Len(log)
    /\ cursor \in 0 .. written
    /\ running \in BOOLEAN /\ closing \in BOOLEAN
    /\ \A i \in DOMAIN queue : queue[i] \in Reader
    /\ \A r \in Reader :
          /\ call[r].kind \in Kinds \cup {"none"}
          /\ call[r].at \in {"idle", "queued", "reading", "sleeping"}
          /\ call[r].final \in Ends \cup {NoReason}
          /\ call[r].from \in 0 .. cursor
          /\ call[r].size \in 0 .. written
          /\ call[r].start \in 0 .. call[r].size
          /\ call[r].urge \in {"none", "late", "aborted"}
          /\ IsRange(call[r].held)
    /\ answer.reason \in Reasons \cup {NoReason}
    /\ answer.running \in BOOLEAN
    /\ IsRange(answer.range)
    /\ \A i \in 1 .. Len(log) : given[i] \in Nat
    /\ lost \subseteq 1 .. cursor

\* Every byte behind the shared cursor is accounted for, and once: it came back
\* in exactly one result, or exactly one terminal wait holds it, or the wait
\* that held it was lost to a failed read.  No byte ahead of the cursor is.
Holders(i) == {r \in Reader : i \in call[r].held.bytes}
OnceOnly ==
    \A i \in 1 .. Len(log) :
        given[i] + Cardinality(Holders(i)) + (IF i \in lost THEN 1 ELSE 0)
            = IF i <= cursor THEN 1 ELSE 0

\* What a caller is given, and what a terminal wait accumulates over several
\* polls while others read, is the contiguous range its offsets say.
Ranges == {call[r].held : r \in Reader} \cup {answer.range}
HonestRange == \A g \in Ranges : g.bytes = g.start + 1 .. g.end

\* No result ends inside a well-formed code point of the log, wherever the
\* file ended when it was read.
InsideCodePoint(n) ==
    \E s \in 1 .. n : LET w == CASE log[s] = "2" -> 2 [] log[s] = "3" -> 3
                                 [] log[s] = "4" -> 4 [] OTHER -> 1
                      IN  /\ n < s + w - 1
                          /\ s + w - 1 <= written
                          /\ \A k \in s + 1 .. s + w - 1 : log[k] = "c"
WholeCodePoints == \A g \in Ranges : ~InsideCodePoint(g.end)

\* A wait that says why it stopped waiting was still waiting for something:
\* the snapshot in its result shows a running job.
HonestReason ==
    answer.reason \in {"timeout", "cancelled", "shutdown"} => answer.running

\* Once the job settled, a read with bytes left takes some of them: malformed
\* or unfinished UTF-8 at the end of the file is not kept back for ever.
SettledReadsAdvance ==
    [][\A r \in Reader :
          /\ ~running
          /\ call[r].at = "reading" /\ call[r].kind \in {"output", "wait"}
          /\ answer' # Nothing
          /\ call[r].size > call[r].start
          => cursor' > cursor]_outputVars

\* Every wait returns by its deadline, however many readers share the queue.
WaitReturns == \A r \in Reader : call[r].at = "queued" ~> call[r].at = "idle"

\* However the calls of several readers interleave and fail, what they are given
\* is the log: each byte once, as a range that is what its offsets say, with the
\* true reason for returning; only the held bytes of a failed wait are missing.
Faithful == OnceOnly /\ HonestRange /\ WholeCodePoints /\ HonestReason
=============================================================================
