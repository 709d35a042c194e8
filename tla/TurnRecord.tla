----------------------------- MODULE TurnRecord -----------------------------
(***************************************************************************)
(* What one session leaves behind of its turns: the trajectory, a file     *)
(* that is only appended to (trajectory/writer.ts); the facts a turn       *)
(* staged, committed once its end is on disk (memory/controller.ts); and   *)
(* the checkpoint taken before a prompt, listed after it (agent/rewind.ts).*)
(* runtime.send() drives all three and waits only for the input of a turn. *)
(* The session is run by one process after another, each of which may      *)
(* crash; a step is what happens between two awaits.                       *)
(***************************************************************************)
EXTENDS Naturals, FiniteSets, FiniteSetsExt, Sequences, SequencesExt

CONSTANTS
    Fact,           \* what a model may ask to remember
    Key,            \* the keys of facts
    KeyOf,          \* the key of each fact
    MaxLines,       \* the budget of the file, in lines (64 MiB)
    Budgets,        \* bounds: which turns a run has, and how often each kind of event happens in it
    Elsewhere,      \* whether /memory is used in another process of the project too
    None

\* How a stream ends: with an endTurn and no failure or partial text, with a
\* refusal, or otherwise; and whether its reader was there for it.
Outcomes == {<<"ok", TRUE>>, <<"refusal", TRUE>>, <<"other", TRUE>>, <<"ok", FALSE>>, <<"other", FALSE>>}

ASSUME LinesAssumption == MaxLines \in Nat \ {0} /\ Elsewhere \in BOOLEAN
ASSUME KeyAssumption == KeyOf \in [Fact -> Key] /\ None \notin Fact
ASSUME BudgetAssumption ==
    Budgets \subseteq [opens : SUBSET (BOOLEAN \X BOOLEAN), ends : SUBSET Outcomes,
                      sends : Nat, runs : Nat, exits : Nat, crash : Nat, events : Nat,
                      notes : Nat, faults : Nat, saves : Nat, commands : Nat, moves : Nat]

VARIABLES
    file,       \* trajectory.jsonl, line by line
    run,        \* which process has the session
    phase,      \* up, flushing and committing its shutdown, down
    rec,        \* its recorder
    pending,    \* records buffered but not yet flushed
    chain,      \* the batches of the append chain, the first being written
    io,         \* how far the first batch is
    detached,   \* a timed-out barrier gave the chain up
    waits,      \* the batches that close() still waits for
    stray,      \* batches of earlier processes that are still being written
    turn,       \* the send() that is running
    mem,        \* per send: the turn as the memory controller has it
    commits,    \* accepted turns, in the order of their commits
    commit,     \* the commit that holds the lock, with the state it read
    store,      \* state.json: per key the remembered fact
    suppressed, \* state.json: what the user forgot or corrected
    sound,      \* the facts whose evidence is still in the worktree
    catalogue,  \* the checkpoints offered to /rewind
    left,       \* what is left of the budget
    retired,    \* the process lives on without the session, after a /clear
    owed,       \* history: the turns whose success was certain when it was shut down
    guessed,    \* history: a process numbered its records without the whole file before it
    corrected,  \* history: per key, what the user last made of it
    forgotten   \* history: every fact the user had forgotten or corrected

recorder == <<file, rec, pending, chain, io>>
remembered == <<store, suppressed, sound, corrected, forgotten>>
memory == <<mem, commits, commit, remembered>>
life == <<run, phase, detached, waits, stray, retired, owed, guessed>>
vars == <<recorder, memory, life, turn, catalogue, left>>

Fresh == [state |-> "on", header |-> TRUE, turns |-> 0, seq |-> 0, size |-> 0,
          tail |-> FALSE, guard |-> FALSE]
NoTurn == [at |-> "idle", of |-> 0, n |-> 0, captured |-> FALSE, how |-> None, natural |-> FALSE]
Blank == [state |-> "none", turn |-> 0, facts |-> {}, sealed |-> FALSE, seq |-> 0, run |-> 0]
Idle == [of |-> 0, store |-> [k \in Key |-> None], suppressed |-> {}]
Sends == DOMAIN mem

Init ==
    /\ file = <<>> /\ run = 1 /\ phase = "starting"
    /\ rec = Fresh /\ pending = <<>> /\ chain = <<>> /\ io = "idle"
    /\ detached = FALSE /\ waits = 0 /\ stray = {}
    /\ turn = NoTurn /\ mem = <<>>
    /\ commits = <<>> /\ commit = Idle
    /\ store = [k \in Key |-> None] /\ suppressed = {} /\ sound = Fact
    /\ catalogue = {}
    /\ left \in Budgets
    /\ retired = FALSE /\ owed = {} /\ guessed = FALSE
    /\ corrected = [k \in Key |-> None] /\ forgotten = {}

Spend(kind) == left[kind] > 0 /\ left' = [left EXCEPT ![kind] = @ - 1]

---------------------------------------------------------------------------
(* The file *)

Line(kind, of, n, how) == [kind |-> kind, of |-> of, turn |-> n, how |-> how, run |-> run, seq |-> 0]
Torn == [kind |-> "torn", of |-> 0, turn |-> 0, how |-> None, run |-> run, seq |-> 0]
Whole(l) == l.kind \notin {"torn", "broken"}
Openings == {"header", "input", "wake"}

\* append(), encode() and header(): a batch as it is written, the header of the
\* process in front of its first one, numbered on from the last record.
Payload ==
    LET ls == (IF rec.header THEN <<Line("header", 0, 0, None)>> ELSE <<>>) \o Head(chain).lines
    IN [i \in DOMAIN ls |-> [ls[i] EXCEPT !.seq = rec.seq + i - 1]]

\* What the file is with these lines behind it: without the newline guard, a
\* piece of a line swallows the line that follows.
Joined(ls, guard) ==
    IF ls # <<>> /\ file # <<>> /\ Last(file).kind = "torn" /\ ~guard
    THEN [file EXCEPT ![Len(file)].kind = "broken"] \o Tail(ls)
    ELSE file \o ls

\* What a write that did not succeed may have left of its lines.
Tears(ls, guard) ==
    {Joined(SubSeq(ls, 1, n), guard) : n \in 0 .. Len(ls)}
    \cup {Joined(SubSeq(ls, 1, n) \o <<Torn>>, guard) : n \in 0 .. Len(ls) - 1}

\* Mutants: a piece of a line is not ended before the next; every process
\* numbers its turns from one.
NeverNewline == FALSE
TurnsFromOne == 0

\* readTail(): the complete records, by their places in the file, the number
\* after the last of them, and the highest turn.
Records == {i \in DOMAIN file : Whole(file[i])}
LastTurn == Max({0} \cup {file[i].turn : i \in Records})
NextSeq == IF Records = {} THEN 0 ELSE file[Max(Records)].seq + 1
NeedsNewline == file # <<>> /\ Last(file).kind = "torn"

\* tailReading(): the reading lands; it seeds the turn counter unless a turn
\* was opened before. An unreadable file counts as none.
TailLands ==
    /\ phase # "down" /\ ~rec.tail
    /\ \/ /\ rec' = [rec EXCEPT !.tail = TRUE, !.seq = NextSeq, !.size = Len(file), !.guard = NeedsNewline,
                                !.turns = IF @ = 0 THEN LastTurn ELSE @]
          /\ guessed' = (guessed \/ (rec.turns # 0 /\ LastTurn # 0))
          /\ UNCHANGED left
       \/ /\ Spend("faults")
          /\ rec' = [rec EXCEPT !.tail = TRUE]
          /\ guessed' = (guessed \/ file # <<>>)
    /\ UNCHANGED <<file, pending, chain, io, memory, run, phase, detached, waits, stray, retired, owed, turn, catalogue>>

\* open(), awaited by AgentRuntime.create(): it returns without the reading
\* after its time.
Opens ==
    /\ phase = "starting"
    /\ \/ rec.tail /\ UNCHANGED left
       \/ ~rec.tail /\ Spend("faults")
    /\ phase' = "up"
    /\ UNCHANGED <<recorder, memory, run, detached, waits, stray, retired, owed, guessed, turn, catalogue>>

---------------------------------------------------------------------------
(* The memory controller *)

\* queueCommit(): a turn with candidates joins the chain of commits.
Accepted(k) == IF mem[k].facts = {} THEN "gone" ELSE "committing"
Queue(k) == IF mem[k].facts = {} THEN commits ELSE Append(commits, k)

\* settle(): the closing batch of turn k was appended as record seq, or was not.
Settle(k, kept, seq) ==
    LET m == mem[k]
        next == IF ~kept THEN "gone" ELSE IF m.state = "sealed" THEN Accepted(k) ELSE "settled"
    IN IF m.state \notin {"open", "sealed"} THEN UNCHANGED <<mem, commits>>
       ELSE /\ mem' = [mem EXCEPT ![k] = [m EXCEPT !.state = next, !.seq = seq]]
            /\ commits' = IF kept /\ m.state = "sealed" THEN Queue(k) ELSE commits

\* Mutant: a sealed turn is committed whether its end is on disk or not.
SealCommits(k, success) ==
    LET m == mem[k]
        next == IF ~success THEN "gone" ELSE IF m.state = "settled" THEN Accepted(k) ELSE "sealed"
    IN IF m.state \notin {"open", "settled"} THEN UNCHANGED <<mem, commits>>
       ELSE /\ mem' = [mem EXCEPT ![k] = [m EXCEPT !.state = next, !.sealed = success]]
            /\ commits' = IF success THEN Queue(k) ELSE commits

\* seal(): the stream ran to its end, successfully or not.
SealTurn(k, success) ==
    LET m == mem[k]
        next == IF ~success THEN "gone" ELSE IF m.state = "settled" THEN Accepted(k) ELSE "sealed"
    IN IF m.state \notin {"open", "settled"} THEN UNCHANGED <<mem, commits>>
       ELSE /\ mem' = [mem EXCEPT ![k] = [m EXCEPT !.state = next, !.sealed = success]]
            /\ commits' = IF success /\ m.state = "settled" THEN Queue(k) ELSE commits

\* discard(): only the turn that is being consumed, and not once it is accepted.
Discard(k) ==
    /\ mem' = [mem EXCEPT ![k].state = IF @ \in {"open", "settled"} THEN "gone" ELSE @]
    /\ UNCHANGED commits

\* discardUnsettled(): every turn that was not accepted.
Unsettled ==
    [k \in Sends |-> [mem[k] EXCEPT !.state = IF @ \in {"open", "sealed", "settled"} THEN "gone" ELSE @]]

\* stage(): a save of the model whose evidence is in the worktree; a second
\* value for one key is refused. consolidation() refuses what the user forgot,
\* and a key the user corrected while the evidence of that entry is still
\* there; a state it cannot read refuses nothing. The commit looks again.
Stage(f) ==
    /\ turn.at = "streaming" /\ mem[turn.of].state = "open" /\ f \in sound
    /\ \A g \in mem[turn.of].facts : KeyOf[g] # KeyOf[f]
    /\ \/ /\ Spend("saves") /\ f \notin suppressed
          /\ LET old == store[KeyOf[f]]
             IN old # None => ~old.edited \/ old.fact = f \/ old.evidence \notin sound
       \/ /\ left.saves > 0 /\ left.faults > 0
          /\ left' = [left EXCEPT !.saves = @ - 1, !.faults = @ - 1]
    /\ mem' = [mem EXCEPT ![turn.of].facts = @ \cup {f}]
    /\ UNCHANGED <<recorder, commits, commit, remembered, life, turn, catalogue>>

\* commitGeneratedMemory(): the first commit of the chain takes the lock and
\* reads the state ...
CommitReads ==
    /\ phase # "down" /\ commit = Idle /\ commits # <<>>
    /\ commit' = [of |-> Head(commits), store |-> store, suppressed |-> suppressed]
    /\ UNCHANGED <<recorder, mem, commits, remembered, life, turn, catalogue, left>>

\* ... and refuses the batch as a whole, or writes it over what it read. A fact
\* the user corrected stays as it is; of the other old entries, those whose
\* evidence is gone are not written back.
Refused(facts) ==
    \/ facts \cap commit.suppressed # {}
    \/ ~(facts \subseteq sound)
    \/ \E f \in facts : LET old == commit.store[KeyOf[f]] IN old # None /\ old.edited /\ old.fact # f
Committed(k, facts) ==
    [key \in Key |->
       LET old == commit.store[key]
           new == {f \in facts : KeyOf[f] = key}
       IN CASE new = {} -> IF old # None /\ old.evidence \in sound THEN old ELSE None
            [] new # {} /\ old # None /\ old.edited -> old
            [] OTHER -> LET f == CHOOSE f \in new : TRUE
                        IN [fact |-> f, of |-> k, turn |-> mem[k].turn, seq |-> mem[k].seq,
                            edited |-> FALSE, evidence |-> f]]
CommitWrites ==
    /\ phase # "down" /\ commit # Idle
    /\ LET k == commit.of
       IN /\ mem' = [mem EXCEPT ![k].state = "done"]
          /\ \/ /\ ~Refused(mem[k].facts)
                /\ store' = Committed(k, mem[k].facts)
                /\ suppressed' = commit.suppressed
                /\ UNCHANGED left
             \/ /\ Refused(mem[k].facts)
                /\ UNCHANGED <<store, suppressed, left>>
             \/ /\ Spend("faults")
                /\ UNCHANGED <<store, suppressed>>
    /\ commits' = Tail(commits) /\ commit' = Idle
    /\ UNCHANGED <<recorder, sound, corrected, forgotten, life, turn, catalogue>>

\* withMemoryStateLock(): the commands of one process wait for its commit; the
\* lock is not seen by another process.
MayCommand == commit = Idle \/ Elsewhere

\* /memory forget: the entry goes, and its fact must not come back.
Forget(key) ==
    /\ MayCommand /\ store[key] # None /\ Spend("commands")
    /\ suppressed' = suppressed \cup {store[key].fact}
    /\ store' = [store EXCEPT ![key] = None]
    /\ corrected' = [corrected EXCEPT ![key] = None]
    /\ forgotten' = forgotten \cup {store[key].fact}
    /\ UNCHANGED <<recorder, mem, commits, commit, sound, life, turn, catalogue>>

\* /memory edit: another fact under the same key, with the old one's evidence.
Edit(key, f) ==
    /\ MayCommand /\ store[key] # None /\ KeyOf[f] = key
    /\ f \notin suppressed \cup {store[key].fact} /\ Spend("commands")
    /\ suppressed' = suppressed \cup {store[key].fact}
    /\ store' = [store EXCEPT ![key] = [@ EXCEPT !.fact = f, !.edited = TRUE]]
    /\ corrected' = [corrected EXCEPT ![key] = f]
    /\ forgotten' = (forgotten \cup {store[key].fact}) \ {f}
    /\ UNCHANGED <<recorder, mem, commits, commit, sound, life, turn, catalogue>>

\* The worktree moves on from under a fact.
SourceMoves(f) ==
    /\ f \in sound /\ Spend("moves") /\ sound' = sound \ {f}
    /\ UNCHANGED <<recorder, mem, commits, commit, store, suppressed, corrected, forgotten, life, turn, catalogue>>

---------------------------------------------------------------------------
(* The recorder *)

\* fail(): the first problem stops the recorder for the life of the process.
Failed == [rec EXCEPT !.state = IF @ = "on" THEN "failed" ELSE @]

\* flush(): the buffered records become one batch behind the others.
Flushed(lines, closes) == IF lines = <<>> THEN chain ELSE Append(chain, [lines |-> lines, closes |-> closes])

\* The head of the chain is done: a closing batch reports its settlement.
BatchDone(kept, seq) ==
    /\ chain' = Tail(chain) /\ io' = "idle"
    /\ waits' = IF waits = 0 THEN 0 ELSE waits - 1
    /\ IF Head(chain).closes = 0 THEN UNCHANGED <<mem, commits>>
       ELSE Settle(Head(chain).closes, kept /\ Last(Head(chain).lines).how = "ok", seq)

Running == phase # "down" /\ chain # <<>>
unwritten == <<commit, remembered, run, phase, detached, stray, retired, owed, guessed,
               turn, catalogue>>

\* append() once recording has stopped, also while the file was being opened.
SkipBatch ==
    /\ Running /\ io = "idle" /\ rec.state # "on"
    /\ BatchDone(FALSE, 0)
    /\ UNCHANGED <<file, rec, pending, left, unwritten>>

\* prepare() and openFile(): they need the tail.
BeginWrite ==
    /\ Running /\ io = "idle" /\ rec.state = "on" /\ rec.tail
    /\ io' = "writing"
    /\ UNCHANGED <<file, rec, pending, chain, waits, mem, commits, left, unwritten>>

OpenFails ==
    /\ Running /\ io = "idle" /\ rec.state = "on" /\ rec.tail /\ Spend("faults")
    /\ rec' = Failed /\ pending' = <<>>
    /\ BatchDone(FALSE, 0)
    /\ UNCHANGED <<file, unwritten>>

\* The write succeeds; a full file gets one record more, in a write of its own.
WriteSucceeds ==
    /\ Running /\ io = "writing"
    /\ file' = Joined(Payload, rec.guard)
    /\ LET n == Len(Payload)
       IN /\ rec' = [rec EXCEPT !.header = FALSE, !.guard = FALSE, !.seq = @ + n, !.size = @ + n]
          /\ IF rec.size + n >= MaxLines
             THEN io' = "stopping" /\ UNCHANGED <<chain, waits, mem, commits>>
             ELSE BatchDone(TRUE, rec.seq + n - 1)
    /\ UNCHANGED <<pending, left, unwritten>>

WriteFails ==
    /\ Running /\ io = "writing" /\ Spend("faults")
    /\ file' \in Tears(Payload, rec.guard)
    /\ rec' = Failed /\ pending' = IF rec.state = "on" THEN <<>> ELSE pending
    /\ BatchDone(FALSE, 0)
    /\ UNCHANGED unwritten

\* stopForBudget().
StopLine == [Line("stopped", 0, rec.turns, None) EXCEPT !.seq = rec.seq]
StopWritten ==
    /\ Running /\ io = "stopping"
    /\ file' = Append(file, StopLine)
    /\ rec' = [rec EXCEPT !.state = IF @ = "on" THEN "full" ELSE @, !.seq = @ + 1]
    /\ BatchDone(TRUE, rec.seq - 1)
    /\ UNCHANGED <<pending, left, unwritten>>
StopFails ==
    /\ Running /\ io = "stopping" /\ Spend("faults")
    /\ file' \in Tears(<<StopLine>>, FALSE)
    /\ rec' = Failed /\ pending' = IF rec.state = "on" THEN <<>> ELSE pending
    /\ BatchDone(FALSE, 0)
    /\ UNCHANGED unwritten

\* recordShellCommand() and its like, between turns.
Note ==
    /\ phase = "up" /\ turn.at = "idle" /\ rec.state = "on" /\ Spend("notes")
    /\ chain' = Flushed(<<Line("note", 0, rec.turns, None)>>, 0)
    /\ UNCHANGED <<file, rec, pending, io, memory, life, turn, catalogue>>

---------------------------------------------------------------------------
(* One send() *)

\* Up to inputDurable(): the checkpoint of a prompt is captured, the turn is
\* numbered, and its input flushed. A turn of the session itself has no prompt.
Begin(prompt, captured) ==
    /\ phase = "up" /\ turn.at = "idle" /\ Spend("sends") /\ (captured => prompt)
    /\ LET on == rec.state = "on"
           k == Len(mem) + 1
           n == IF on THEN rec.turns + 1 ELSE 0
           kind == IF prompt THEN "input" ELSE "wake"
       IN /\ turn' = [NoTurn EXCEPT !.at = IF on THEN "barrier" ELSE "streaming",
                                    !.of = k, !.n = n, !.captured = captured]
          /\ rec' = IF on THEN [rec EXCEPT !.turns = n] ELSE rec
          /\ mem' = Append(mem, [Blank EXCEPT !.state = IF on THEN "open" ELSE "gone",
                                                     !.turn = n, !.run = run])
          /\ chain' = IF on THEN Flushed(<<Line(kind, k, n, None)>>, 0) ELSE chain
    /\ UNCHANGED <<file, pending, io, commits, commit, remembered, life, catalogue>>

\* The input is on disk, or the recorder has stopped: the model is called,
\* unless a check of the delivery refuses the turn.
BarrierPasses ==
    /\ turn.at = "barrier" /\ chain = <<>>
    /\ IF rec.state = "on" THEN UNCHANGED <<mem, commits>> ELSE Discard(turn.of)
    /\ \E at \in {"streaming", "unwinding"} : turn' = [turn EXCEPT !.at = at]
    /\ UNCHANGED <<recorder, commit, remembered, life, catalogue, left>>

\* inputDurable() gives up: the recorder stops and its chain is left behind.
BarrierTimesOut ==
    /\ turn.at = "barrier" /\ chain # <<>> /\ Spend("faults")
    /\ rec' = Failed /\ pending' = <<>> /\ detached' = TRUE /\ waits' = 0
    /\ Discard(turn.of)
    /\ turn' = [turn EXCEPT !.at = "streaming"]
    /\ UNCHANGED <<file, chain, io, commit, remembered,
                   run, phase, stray, retired, owed, guessed, catalogue>>

\* record(): an event of the stream is buffered; one stands for all of them.
Emit ==
    /\ turn.at = "streaming" /\ turn.n # 0 /\ rec.state = "on" /\ pending = <<>> /\ Spend("events")
    /\ pending' = <<Line("event", turn.of, turn.n, None)>>
    /\ UNCHANGED <<file, rec, chain, io, memory, life, turn, catalogue>>

\* record() cannot describe an event: that is a problem of the recorder only.
RecordFails ==
    /\ turn.at = "streaming" /\ turn.n # 0 /\ rec.state = "on" /\ Spend("faults")
    /\ rec' = Failed /\ pending' = <<>>
    /\ UNCHANGED <<file, chain, io, memory, life, turn, catalogue>>

\* The stream ends naturally, throws, or is abandoned by its reader: end()
\* closes the turn.
StreamEnds(how, natural) ==
    /\ turn.at = "streaming"
    /\ LET closing == turn.n # 0 /\ rec.state = "on"
           end == Line("end", turn.of, turn.n, how)
       IN chain' = IF closing THEN Flushed(Append(pending, end), turn.of)
                   ELSE IF turn.n # 0 THEN Flushed(pending, 0) ELSE chain
    /\ pending' = IF turn.n # 0 THEN <<>> ELSE pending
    /\ turn' = [turn EXCEPT !.at = IF natural THEN "sealing" ELSE "unwinding", !.how = how, !.natural = natural]
    /\ UNCHANGED <<file, rec, io, memory, life, catalogue, left>>

Seal ==
    /\ turn.at = "sealing"
    /\ SealTurn(turn.of, turn.how = "ok" /\ rec.state = "on")
    /\ turn' = IF turn.captured /\ turn.how \in {"ok", "refusal"} THEN [turn EXCEPT !.at = "cataloguing"] ELSE NoTurn
    /\ UNCHANGED <<recorder, commit, remembered, life, catalogue, left>>

\* appendRewindCheckpoint(): written as a whole, or not at all.
Catalogue ==
    /\ turn.at = "cataloguing" /\ turn' = NoTurn
    /\ \/ catalogue' = catalogue \cup {[of |-> turn.of, turn |-> turn.n]} /\ UNCHANGED left
       \/ Spend("faults") /\ UNCHANGED catalogue
    /\ UNCHANGED <<recorder, memory, life>>

Unwind ==
    /\ turn.at = "unwinding" /\ turn' = NoTurn
    /\ Discard(turn.of)
    /\ UNCHANGED <<recorder, commit, remembered, life, catalogue, left>>

---------------------------------------------------------------------------
(* The life of the process *)

\* shutdown(), at any time, or retire(), between turns: trajectory.close().
Close(retire) ==
    /\ phase = "up" /\ (retire => turn.at = "idle") /\ Spend("exits")
    /\ phase' = "flushing" /\ retired' = retire
    /\ owed' = IF retire THEN {} ELSE {k \in Sends : mem[k].sealed /\ mem[k].run = run}
    /\ mem' = IF retire THEN Unsettled ELSE mem
    /\ chain' = Flushed(pending, 0) /\ pending' = <<>>
    /\ waits' = IF detached THEN 0 ELSE Len(chain')
    /\ UNCHANGED <<file, rec, io, commits, commit, remembered,
                   run, detached, stray, guessed, turn, catalogue>>

\* Mutant: the memory is closed while the trajectory is still being flushed.
DrainedAtOnce ==
    /\ phase = "flushing"
    /\ phase' = "committing" /\ mem' = Unsettled
    /\ UNCHANGED <<recorder, commits, commit, remembered,
                   run, detached, waits, stray, retired, owed, guessed, turn, catalogue, left>>

\* MemoryToolController.close(): what is not accepted by now never is.
Drained ==
    /\ phase = "flushing" /\ waits = 0
    /\ phase' = "committing" /\ mem' = Unsettled
    /\ UNCHANGED <<recorder, commits, commit, remembered,
                   run, detached, waits, stray, retired, owed, guessed, turn, catalogue, left>>

\* What the process was writing when it went, unless it lives on after a /clear.
InFlight == IF io = "writing" THEN Payload ELSE IF io = "stopping" THEN <<StopLine>> ELSE <<>>
Guarded == io = "writing" /\ rec.guard
Interrupted == Tears(InFlight, Guarded)
Gone ==
    /\ phase' = "down"
    /\ turn' = NoTurn /\ commits' = <<>> /\ commit' = Idle
    /\ mem' = [k \in Sends |-> [mem[k] EXCEPT !.state = IF @ = "done" THEN @ ELSE "gone"]]
    /\ pending' = <<>> /\ chain' = <<>> /\ io' = "idle" /\ detached' = FALSE /\ waits' = 0
    /\ UNCHANGED <<rec, remembered, run, guessed, catalogue>>

Leave ==
    /\ phase = "committing" /\ commits = <<>>
    /\ Gone
    /\ IF retired
       THEN /\ file' = file
            /\ stray' = IF io = "idle" THEN stray ELSE stray \cup {[lines |-> InFlight, guard |-> Guarded]}
       ELSE file' \in Interrupted /\ stray' = stray
    /\ UNCHANGED <<retired, owed, left>>

Crash ==
    /\ phase # "down" /\ Spend("crash")
    /\ Gone /\ file' \in Interrupted /\ owed' = {}
    /\ UNCHANGED <<stray, retired>>

\* The write a retired session had given up on lands after all.
StrayLands ==
    \E s \in stray :
        /\ stray' = stray \ {s}
        /\ file' = Joined(s.lines, s.guard)
        /\ guessed' = (guessed \/ Last(s.lines).run # run)
        /\ UNCHANGED <<rec, pending, chain, io, memory, run, phase, detached, waits, retired, owed, turn, catalogue, left>>

\* --resume: another process opens the session.
Restart ==
    /\ phase = "down" /\ Spend("runs")
    /\ run' = run + 1 /\ phase' = "starting" /\ rec' = Fresh /\ retired' = FALSE /\ owed' = {}
    /\ UNCHANGED <<file, pending, chain, io, memory, detached, waits, stray, guessed, turn, catalogue>>

Record == SkipBatch \/ BeginWrite \/ OpenFails \/ WriteSucceeds \/ WriteFails \/ StopWritten \/ StopFails \/ Note
Memory ==
    \/ CommitReads \/ CommitWrites
    \/ \E f \in Fact : Stage(f) \/ SourceMoves(f)
    \/ \E key \in Key : Forget(key)
    \/ \E key \in Key, f \in Fact : Edit(key, f)
Turn ==
    \/ \E o \in left.opens : Begin(o[1], o[2])
    \/ BarrierPasses \/ BarrierTimesOut \/ Emit \/ RecordFails
    \/ \E o \in left.ends : StreamEnds(o[1], o[2])
    \/ Seal \/ Catalogue \/ Unwind
Life == TailLands \/ Opens \/ (\E retire \in BOOLEAN : Close(retire)) \/ Drained \/ Leave \/ Crash \/ StrayLands \/ Restart
Next == Record \/ Memory \/ Turn \/ Life
Spec == Init /\ [][Next]_vars

---------------------------------------------------------------------------
(* Reading it back *)

\* rewindHistoryBoundary(): the recorded prompt of a checkpoint, if one line
\* and no other opens that turn and a successful end of it follows at once.
Boundary(c) ==
    LET openings == {i \in Records : file[i].kind = "input" /\ file[i].turn = c.turn}
        i == CHOOSE i \in openings : TRUE
        next == {j \in Records : /\ j > i
                                 /\ \/ file[j].kind \in Openings
                                    \/ file[j].kind = "end" /\ file[j].turn = c.turn}
    IN IF c.turn # 0 /\ Cardinality(openings) = 1 /\ next # {} /\ file[Min(next)].how \in {"ok", "refusal"}
       THEN i ELSE 0

Rank == [input |-> 1, wake |-> 1, event |-> 2, end |-> 3]
Recorded(kinds, k) == \E i \in Records : file[i].of = k /\ file[i].kind \in kinds

\* A record a and a later one b: numbers grow, processes follow one another,
\* each starting at its header and stopping for good at the budget, turns
\* follow one another with growing numbers, and a turn has one opening, then
\* its events, then one end.
InOrder(a, b) ==
    /\ a.seq < b.seq
    /\ a.run <= b.run
    /\ b.kind = "header" \/ a.kind = "stopped" => a.run < b.run
    /\ a.of # 0 /\ b.of # 0 =>
          \/ a.of < b.of /\ a.turn < b.turn
          \/ /\ a.of = b.of /\ a.turn = b.turn
             /\ Rank[a.kind] <= Rank[b.kind]
             /\ Rank[a.kind] = Rank[b.kind] => a.kind = "event"

\* The types, and what ties the parts together: an operation in flight has a
\* batch, close() waits for no more than there is, and a turn is waiting to be
\* committed exactly when the controller has accepted it.
TypeOK ==
    /\ phase \in {"starting", "up", "flushing", "committing", "down"}
    /\ rec.state \in {"on", "full", "failed"} /\ io \in {"idle", "writing", "stopping"}
    /\ turn.at \in {"idle", "barrier", "streaming", "sealing", "unwinding", "cataloguing"}
    /\ \A k \in Sends : mem[k].state \in {"open", "sealed", "settled", "gone", "committing", "done"}
    /\ io # "idle" => chain # <<>>
    /\ waits <= Len(chain) /\ (waits # 0 => phase = "flushing")
    /\ pending # <<>> => turn.at = "streaming"
    /\ commit # Idle => commits # <<>> /\ commit.of = Head(commits)
    /\ IsInjective(commits) /\ ToSet(commits) = {k \in Sends : mem[k].state = "committing"}
    /\ \A key \in Key : store[key] # None => KeyOf[store[key].fact] = key
    /\ stray # {} => run > 1 \/ phase = "down"

\* Unless a process had to number its records without having seen the file, the
\* file is what happened, in order and without a gap: every record has its
\* predecessor, its process's header and its turn's opening before it, and a
\* model is not called before its input can be read back.
FileTellsTruth == guessed \/
    /\ \A i, j \in Records : i < j => InOrder(file[i], file[j])
    /\ \A i \in Records :
          /\ file[i].seq # 0 => \E j \in Records : j < i /\ file[j].seq = file[i].seq - 1
          /\ file[i].kind # "header" => \E j \in Records : j < i /\ file[j].run = file[i].run
          /\ file[i].of # 0 => \E j \in Records : /\ j <= i /\ file[j].of = file[i].of
                                                 /\ file[j].kind \in {"input", "wake"}
    /\ turn.at = "streaming" /\ rec.state = "on" => Recorded({"input", "wake"}, turn.of)

\* What is remembered was earned: it names the record that ends its turn, a
\* turn that came to an end; it is not what the user forgot or corrected; and a
\* shutdown leaves no turn behind whose success and whose end are both certain.
MemoryIsEarned ==
    /\ \A key \in Key : LET e == store[key] IN e # None =>
          /\ e.fact \notin forgotten
          /\ \E i \in Records : LET r == file[i] IN
                r.kind = "end" /\ r.how = "ok" /\ r.of = e.of /\ r.turn = e.turn /\ r.seq = e.seq
    /\ phase \in {"committing", "down"} /\ rec.state # "failed" => \A k \in owed :
          Recorded({"end"}, k) /\ mem[k].facts # {} => mem[k].state \in {"committing", "done"}

\* A checkpoint whose prompt is in the file is never shown at another prompt,
\* and is found whenever its turn was recorded to its end.
RewindFinds ==
    \A c \in catalogue : Recorded({"input"}, c.of) =>
        /\ Boundary(c) # 0 => file[Boundary(c)].of = c.of
        /\ Recorded({"end"}, c.of) /\ ~guessed => Boundary(c) # 0

\* "Display boundaries must be recorded, never guessed": not kept for a
\* checkpoint whose prompt never reached the file.
BoundaryIsOwn == \A c \in catalogue : Boundary(c) # 0 => file[Boundary(c)].of = c.of

\* "Only /memory edit|forget may move it": not kept once the evidence of a
\* corrected fact is gone and a commit under another key drops the entry.
CorrectionStands ==
    \A key \in Key : corrected[key] # None /\ store[key] # None => store[key].fact = corrected[key]

=============================================================================
