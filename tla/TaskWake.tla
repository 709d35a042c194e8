------------------------------ MODULE TaskWake ------------------------------
(***************************************************************************)
(* The session loop of the interactive driver: one prompt queue shared by  *)
(* what the user typed and by the wakes that finished background jobs and  *)
(* delegations leave, drained one entry at a time into agent turns.        *)
(*                                                                         *)
(* A prompt is a number, in typing order.  A draft or a user entry is the  *)
(* sequence of prompts it is made of: taking the queue back joins entries. *)
(* A key handler and the drain effect close over the status of the last    *)
(* render React committed; refs are read live.  The commit may come any    *)
(* time after a change, its effects any time after it.  A permission       *)
(* prompt, an external store, and a /clear are rendered at once.           *)
(***************************************************************************)
EXTENDS BackgroundJob, Sequences, SequencesExt, FiniteSets

CONSTANTS Prompts,      \* how many prompts the user types
          Slash,        \* the prompts expandSlashCommand() has to load
          Delegation,   \* the background delegations
          MaxClear      \* how many times the user clears the session

ASSUME PromptsAssumption == Prompts \in Nat /\ MaxClear \in Nat
ASSUME SlashAssumption == Slash \subseteq 1 .. Prompts
ASSUME DelegationAssumption == IsFiniteSet(Delegation)

VARIABLES tail,         \* the tail reads under way, per job, by subscription
          delegation,   \* BackgroundDelegationObserver.pending
          queue,        \* queuedRef
          editor,       \* editorRef: the prompts of the draft
          typed,        \* how many prompts were typed
          status,       \* Status: "idle" or "streaming"
          turns,        \* the submit() calls that have not returned
          draining,     \* the drain's latch
          shown,        \* the status in the last committed render
          armed,        \* the next of its effects that React owes a run
          touched,      \* state set since, on which the drain effect depends
          aborted,      \* turnAborted
          clearing,     \* /clear's latch
          asking,       \* whose permission prompt is open
          gen,          \* which runtime is live
          seen,         \* TerminalDeliveryLedger.pending
          delivered,    \* TerminalDeliveryLedger.delivered
          woken,        \* delegationWakesSent
          sent,         \* history: the entries that became turns, in order
          told,         \* history: jobs completed turns reported, by runtime
          held,         \* history: prompts queued at a cancel, not resubmitted
          dropped,      \* history: what a /clear threw away
          clearFailed,  \* history: a /clear failed
          overlapped,   \* history: a turn or a /clear began while a turn ran
          unrendered    \* history: a turn was over before it was shown

sessionVars == <<queue, editor, typed, status, turns, draining, aborted,
                 clearing, asking, gen>>
wakeVars == <<tail, delegation, seen, delivered, woken>>
renderVars == <<shown, armed, touched>>
history == <<sent, told, held, dropped, clearFailed, overlapped, unrendered>>
vars == <<jobVars, sessionVars, wakeVars, history, renderVars>>

Entry == [kind : {"user"}, of : Seq(1 .. Prompts), gen : 0 .. MaxClear]
           \cup [kind : {"job"}, of : Task, gen : 0 .. MaxClear]
           \cup [kind : {"delegation"}, of : Delegation, gen : 0 .. MaxClear]

\* A submit() call; `own` is what its turn showed the model (history).
Call == [entry : Entry, drained : BOOLEAN, gen : 0 .. MaxClear,
         step : {"expanding", "running", "winding"}, own : SUBSET Task]

WakeInit ==
    /\ Init
    /\ tail = [t \in Task |-> {}]
    /\ delegation = [d \in Delegation |-> "none"]
    /\ queue = <<>> /\ editor = <<>> /\ typed = 0
    /\ status = "idle" /\ turns = {} /\ draining = FALSE /\ aborted = FALSE
    /\ clearing = FALSE /\ asking = "nobody" /\ gen = 0
    /\ seen = {} /\ delivered = {} /\ woken = {}
    /\ sent = <<>> /\ told = {} /\ held = {} /\ dropped = {}
    /\ shown = "idle" /\ armed = "sweep" /\ touched = FALSE
    /\ clearFailed = FALSE /\ overlapped = FALSE /\ unrendered = FALSE

-----------------------------------------------------------------------------
\* Renders and commits

\* setQueued(), setDrainCycle(), setRuntime() and the permission store: the drain
\* effect depends on them beside the status, and will run after the next commit.
Touches == touched' = \/ touched
                      \/ <<queue, asking, gen>>' # <<queue, asking, gen>>
                      \/ draining /\ ~draining'
Renders == Touches /\ UNCHANGED <<shown, armed>>

\* React renders and commits, once it has run the effects of the commit before.
\* The effects close over what is shown now: the sweep, when the status became
\* idle, and then the drain.
Commit ==
    /\ armed = "nothing"
    /\ touched \/ shown # status
    /\ shown' = status
    /\ armed' = IF status = "idle" /\ shown # "idle" THEN "sweep" ELSE "drain"
    /\ touched' = FALSE
    /\ UNCHANGED <<jobVars, sessionVars, wakeVars, history>>

-----------------------------------------------------------------------------
\* isTaskWake(), partitionQueue() and takeBackDraft()

IsWake(entry) == entry.kind # "user"
IsUser(entry) == entry.kind = "user"
Typed(entries) ==
    FlattenSeq([i \in DOMAIN entries |->
                  IF IsUser(entries[i]) THEN entries[i].of ELSE <<>>])

\* The entries that are in S, in their order: Array.filter().
Only(entries, S) ==
    FlattenSeq([i \in DOMAIN entries |->
                  IF entries[i] \in S THEN <<entries[i]>> ELSE <<>>])

\* Mutant: a wake is taken back as if it had been typed.
TakeBackEverything(entries, draft) ==
    FlattenSeq([i \in DOMAIN entries |->
                  IF IsUser(entries[i]) THEN entries[i].of
                                        ELSE <<entries[i].of>>]) \o draft

\* Mutant: the typed text goes ahead of what was queued before it.
DraftFirst(entries, draft) == draft \o Typed(entries)

TakeBackDraft(entries, draft) == Typed(entries) \o draft

\* returnQueuedToEditor(): what was typed comes back unsent, wakes stay queued.
ReturnToEditor(entries) ==
    /\ queue' = Only(entries, {entry \in ToSet(entries) : IsWake(entry)})
    /\ editor' = TakeBackDraft(entries, editor)

\* listBackgroundDelegations(): what the SDK still tracks.
Tracked == {d \in Delegation : delegation[d] \in {"running", "settled"}}

\* delegationWakeEntries(), in no particular order, and enqueueDelegationWakes().
EnqueueDelegations(ledger) ==
    LET due == {d \in Delegation : ledger[d] = "settled"} \ woken
        wakes == SetToSeq({[kind |-> "delegation", of |-> d, gen |-> gen] :
                             d \in due})
    IN  /\ woken' = woken \cup due
        /\ queue' = queue \o wakes

-----------------------------------------------------------------------------
\* submit() and runTurn() as far as the first await.

Running == {call \in turns : call.step = "running"}
Overlaps == overlapped' = (overlapped \/ Running # {})

\* runTurn() is entered: the entry is on its way to the model.
StartTurn(call) ==
    /\ turns' = turns \cup {[call EXCEPT !.step = "running"]}
    /\ status' = "streaming"
    /\ aborted' = FALSE
    /\ sent' = Append(sent, call.entry)
    /\ Overlaps

\* submit() at idle: a slash command is loaded first, with the status left idle.
Submit(entry, fromQueue) ==
    LET call == [entry |-> entry, drained |-> fromQueue, gen |-> gen,
                 step |-> "expanding", own |-> {}]
    IN  IF IsUser(entry) /\ Head(entry.of) \in Slash
        THEN /\ turns' = turns \cup {call}
             /\ UNCHANGED <<status, aborted, sent, overlapped>>
        ELSE StartTurn(call)

-----------------------------------------------------------------------------
\* The user

\* A permission prompt owns the keyboard while it is open.
Type ==
    /\ asking = "nobody"
    /\ typed < Prompts
    /\ typed' = typed + 1
    /\ editor' = Append(editor, typed')
    /\ UNCHANGED <<jobVars, wakeVars, history, queue, status, turns, draining,
                   aborted, clearing, asking, gen>>
    /\ Renders

\* Enter: queued if a busy session is shown, sent if an idle one is.  While /clear
\* assembles its successor the draft is refused and stays.
Enter ==
    LET entry == [kind |-> "user", of |-> editor, gen |-> gen]
    IN  /\ asking = "nobody" /\ ~clearing
        /\ editor # <<>>
        /\ editor' = <<>>
        /\ held' = held \ ToSet(editor)
        /\ IF shown # "idle"
           THEN /\ queue' = Append(queue, entry)
                /\ UNCHANGED <<turns, status, aborted, sent, overlapped>>
           ELSE /\ Submit(entry, FALSE)
                /\ UNCHANGED queue
        /\ UNCHANGED <<jobVars, wakeVars, typed, draining, clearing, asking,
                       gen, told, dropped, clearFailed, unrendered>>
        /\ Renders

\* Up on the first row: takeBackQueued().
TakeBack ==
    /\ asking = "nobody"
    /\ Typed(queue) # <<>>
    /\ ReturnToEditor(queue)
    /\ UNCHANGED <<jobVars, wakeVars, history, typed, status, turns, draining,
                   aborted, clearing, asking, gen>>
    /\ Renders

\* Ctrl+C while a busy session is shown: handleInterrupt().  The turn ends later.
Interrupt ==
    /\ shown # "idle" \/ asking # "nobody"
    /\ aborted' = TRUE
    /\ asking' = "nobody"
    /\ held' = IF status = "idle" THEN held ELSE held \cup ToSet(Typed(queue))
    /\ UNCHANGED <<jobVars, wakeVars, queue, editor, typed, status, turns,
                   draining, clearing, gen, sent, told, dropped, clearFailed,
                   overlapped, unrendered>>
    /\ Renders

\* A decision on the open permission prompt.
Answer ==
    /\ asking # "nobody"
    /\ asking' = "nobody"
    /\ UNCHANGED <<jobVars, wakeVars, history, queue, editor, typed, status,
                   turns, draining, aborted, clearing, gen>>
    /\ Renders

-----------------------------------------------------------------------------
\* A submit() that is under way

\* expandSlashCommand() returned.
Expanded(call) ==
    /\ call.step = "expanding"
    /\ turns' = (turns \ {call}) \cup {[call EXCEPT !.step = "running"]}
    /\ status' = "streaming"
    /\ aborted' = FALSE
    /\ sent' = Append(sent, call.entry)
    /\ Overlaps
    /\ UNCHANGED <<jobVars, wakeVars, queue, editor, typed, draining, clearing,
                   asking, gen, told, held, dropped, clearFailed, unrendered>>
    /\ Renders

\* A drained call holds the latch until its promise settles.
AfterCall(call) ==
    turns' = (turns \ {call})
               \cup {c \in {[call EXCEPT !.step = "winding"]} : c.drained}

\* expandSlashCommand() threw: the entry and all typed after it come back.
ExpansionFails(call) ==
    /\ call.step = "expanding"
    /\ ReturnToEditor(<<call.entry>> \o queue)
    /\ AfterCall(call)
    /\ UNCHANGED <<jobVars, wakeVars, history, typed, status, draining,
                   aborted, clearing, asking, gen>>
    /\ Renders

\* A bash result with a terminal state passes the ledger: observe().
ModelSees(call, t) ==
    /\ call.step = "running" /\ call.gen = gen
    /\ state[t] \in Terminal
    /\ seen' = seen \cup {t}
    /\ turns' = (turns \ {call}) \cup {[call EXCEPT !.own = @ \cup {t}]}
    /\ UNCHANGED <<jobVars, history, tail, delegation, delivered, woken, queue,
                   editor, typed, status, draining, aborted, clearing, asking,
                   gen>>
    /\ Renders

\* runWithStreamResumption(): the stream broke, one more send() in this turn.
Continue(call) ==
    /\ call.step = "running" /\ call.gen = gen
    /\ seen' = {}
    /\ turns' = (turns \ {call}) \cup {[call EXCEPT !.own = {}]}
    /\ UNCHANGED <<jobVars, history, tail, delegation, delivered, woken, queue,
                   editor, typed, status, draining, aborted, clearing, asking,
                   gen>>
    /\ Renders

\* closeTurn() of the runtime the call belongs to.
CloseTurn(call, completed) ==
    IF call.gen # gen THEN UNCHANGED <<seen, delivered, told>>
    ELSE /\ seen' = {}
         /\ delivered' = IF completed THEN delivered \cup seen ELSE delivered
         /\ told' = IF completed THEN told \cup (call.own \X {gen}) ELSE told

\* Mutant: whatever the turn showed counts, however the turn ended.
CloseTurnAlways(call, completed) ==
    IF call.gen # gen THEN UNCHANGED <<seen, delivered, told>>
    ELSE /\ seen' = {}
         /\ delivered' = delivered \cup seen
         /\ told' = IF completed THEN told \cup (call.own \X {gen}) ELSE told

\* Mutant: a cancelled turn leaves the queue to the drain.
TurnEndsSends(call) ==
    /\ call.step = "running" /\ asking # "turn"
    /\ \E completed, thrown \in BOOLEAN :
         /\ CloseTurn(call, completed)
         /\ IF thrown THEN ReturnToEditor(queue) ELSE UNCHANGED <<queue, editor>>
    /\ aborted' = FALSE
    /\ status' = "idle"
    /\ unrendered' = (unrendered \/ shown = "idle")
    /\ AfterCall(call)
    /\ UNCHANGED <<jobVars, tail, delegation, woken, typed, draining, clearing,
                   asking, gen, sent, held, dropped, clearFailed, overlapped>>
    /\ Renders

\* send() and runTurn() end: completed, thrown out of or cancelled.  A failed
\* turn gives the queue back instead of leaving it to the drain.
TurnEnds(call) ==
    /\ call.step = "running" /\ asking # "turn"
    /\ \E completed, thrown \in BOOLEAN :
         /\ CloseTurn(call, completed)
         /\ IF aborted \/ thrown
            THEN ReturnToEditor(queue) ELSE UNCHANGED <<queue, editor>>
    /\ aborted' = FALSE
    /\ status' = "idle"
    /\ unrendered' = (unrendered \/ shown = "idle")
    /\ AfterCall(call)
    /\ UNCHANGED <<jobVars, tail, delegation, woken, typed, draining, clearing,
                   asking, gen, sent, held, dropped, clearFailed, overlapped>>
    /\ Renders

\* The end of a drained submit(), after the notices and checks that follow a
\* turn: the latch opens.
WindUp(call) ==
    /\ call.step = "winding"
    /\ turns' = turns \ {call}
    /\ draining' = FALSE
    /\ UNCHANGED <<jobVars, wakeVars, history, queue, editor, typed, status,
                   aborted, clearing, asking, gen>>
    /\ Renders

-----------------------------------------------------------------------------
\* The drain

\* Mutant: wakes are not looked at again when they drain.
NeverPointless(entry) == FALSE

\* Wakes the model no longer needs: its job was reported by a completed turn,
\* its delegation is no longer tracked.
Pointless(entry) ==
    \/ entry.kind = "job" /\ entry.of \in delivered
    \/ entry.kind = "delegation" /\ entry.of \notin Tracked

\* Mutant: the drain does not look at the status at all.
DrainWhileBusy ==
    LET entries == Only(queue, {entry \in ToSet(queue) : ~Pointless(entry)})
    IN  /\ armed = "drain"
        /\ IF draining \/ asking # "nobody" \/ clearing
           THEN UNCHANGED <<queue, draining, turns, status, aborted, sent, overlapped>>
           ELSE IF entries = <<>>
           THEN /\ queue' = <<>>
                /\ UNCHANGED <<draining, turns, status, aborted, sent, overlapped>>
           ELSE /\ draining' = TRUE
                /\ queue' = Tail(entries)
                /\ Submit(Head(entries), TRUE)
        /\ UNCHANGED <<jobVars, wakeVars, editor, typed, clearing, asking, gen,
                       told, held, dropped, clearFailed, shown, unrendered>>
        /\ armed' = "nothing"
        /\ Touches

\* The drain effect: unless a busy session was shown when it was created, or
\* something else owns the session, the oldest entry that still matters goes
\* through the submit() of the same render.
Drain ==
    LET entries == Only(queue, {entry \in ToSet(queue) : ~Pointless(entry)})
    IN  /\ armed = "drain"
        /\ IF draining \/ shown # "idle" \/ asking # "nobody" \/ clearing
           THEN UNCHANGED <<queue, draining, turns, status, aborted, sent, overlapped>>
           ELSE IF entries = <<>>
           THEN /\ queue' = <<>>
                /\ UNCHANGED <<draining, turns, status, aborted, sent, overlapped>>
           ELSE /\ draining' = TRUE
                /\ queue' = Tail(entries)
                /\ Submit(Head(entries), TRUE)
        /\ UNCHANGED <<jobVars, wakeVars, editor, typed, clearing, asking, gen,
                       told, held, dropped, clearFailed, shown, unrendered>>
        /\ armed' = "nothing"
        /\ Touches

-----------------------------------------------------------------------------
\* Background jobs, through the manager's promises, and their wakes

\* The model starts jobs from inside a turn.
JobStarts(t) ==
    /\ \E call \in turns : call.step = "running"
    /\ Register(t)
    /\ UNCHANGED <<sessionVars, wakeVars, history>>
    /\ Renders

JobSettles(t) ==
    /\ Settle(t)
    /\ UNCHANGED <<sessionVars, wakeVars, history>>
    /\ Renders

\* The snapshot reaches the App, which reads the tail of the log first.
JobPublished(t) ==
    /\ Publish(t)
    /\ tail' = [tail EXCEPT ![t] = {gen}]
    /\ UNCHANGED <<sessionVars, history, delegation, seen, delivered, woken>>
    /\ Renders

\* The tail is read: one wake, unless the model knows or one is waiting.
TailRead(t) ==
    /\ tail[t] # {}
    /\ tail' = [tail EXCEPT ![t] = {}]
    /\ queue' = IF t \in delivered
                   \/ \E i \in DOMAIN queue : /\ queue[i].kind = "job"
                                              /\ queue[i].of = t
                THEN queue
                ELSE queue \o SetToSeq({[kind |-> "job", of |-> t, gen |-> g] :
                                          g \in tail[t]})
    /\ UNCHANGED <<jobVars, history, delegation, seen, delivered, woken,
                   editor, typed, status, turns, draining, aborted, clearing,
                   asking, gen>>
    /\ Renders

-----------------------------------------------------------------------------
\* Background delegations

\* A delegation tool call of a turn is routed to the background.
Dispatch(d) ==
    /\ \E call \in turns : call.step = "running" /\ call.gen = gen
    /\ delegation[d] = "none"
    /\ delegation' = [delegation EXCEPT ![d] = "running"]
    /\ UNCHANGED <<jobVars, sessionVars, history, tail, seen, delivered, woken>>
    /\ Renders

\* Mutant: a settlement during a turn is remembered as announced.
SettlesAnnounced(d) ==
    /\ delegation[d] = "running"
    /\ delegation' = [delegation EXCEPT ![d] = "settled"]
    /\ IF status = "idle"
       THEN EnqueueDelegations(delegation')
       ELSE woken' = woken \cup {d} /\ UNCHANGED queue
    /\ UNCHANGED <<jobVars, history, tail, seen, delivered, editor, typed,
                   status, turns, draining, aborted, clearing, asking, gen>>
    /\ Renders

\* The child ends, or was cancelled: an idle session queues the wake at once.
\* The listener reads the status live.
DelegationSettles(d) ==
    /\ delegation[d] = "running"
    /\ delegation' = [delegation EXCEPT ![d] = "settled"]
    /\ IF status = "idle"
       THEN EnqueueDelegations(delegation')
       ELSE UNCHANGED <<queue, woken>>
    /\ UNCHANGED <<jobVars, history, tail, seen, delivered, editor, typed,
                   status, turns, draining, aborted, clearing, asking, gen>>
    /\ Renders

\* The effect of the shown status becoming idle.
IdleSweep ==
    /\ armed = "sweep"
    /\ EnqueueDelegations(delegation)
    /\ armed' = "drain"
    /\ UNCHANGED <<jobVars, history, tail, delegation, seen, delivered, editor,
                   typed, status, turns, draining, aborted, clearing, asking,
                   gen, shown>>
    /\ Touches

\* The SDK hands the report to the turn that runs.
Deliver(d) ==
    /\ \E call \in turns : call.step = "running" /\ call.gen = gen
    /\ delegation[d] = "settled"
    /\ delegation' = [delegation EXCEPT ![d] = "delivered"]
    /\ UNCHANGED <<jobVars, sessionVars, history, tail, seen, delivered, woken>>
    /\ Renders

\* A tool call of the turn, or of a background child, needs a decision.
Ask ==
    /\ asking = "nobody"
    /\ \/ /\ \E call \in turns : call.step = "running"
          /\ asking' = "turn"
       \/ /\ \E d \in Delegation : delegation[d] = "running"
          /\ asking' = "child"
    /\ UNCHANGED <<jobVars, wakeVars, history, queue, editor, typed, status,
                   turns, draining, aborted, clearing, gen>>
    /\ Renders

-----------------------------------------------------------------------------
\* /clear

\* Typed at a session that is shown idle and tracks no delegation.
ClearBegins ==
    /\ shown = "idle" /\ asking = "nobody" /\ ~clearing
    /\ editor = <<>> /\ gen < MaxClear
    /\ Tracked = {}
    /\ clearing' = TRUE
    /\ Overlaps
    /\ UNCHANGED <<jobVars, wakeVars, queue, editor, typed, status, turns,
                   draining, aborted, asking, gen, sent, told, held, dropped,
                   clearFailed, unrendered>>
    /\ Renders

\* The successor is live and the predecessor retired, which cancels what it
\* still tracks.  The queue and the reads under way go with the conversation;
\* the jobs, and the memory of what was announced, stay.  The new runtime is
\* rendered before anything else happens.
ClearEnds ==
    /\ clearing
    /\ clearing' = FALSE
    /\ gen' = gen + 1
    /\ queue' = <<>>
    /\ tail' = [t \in Task |-> {}]
    /\ seen' = {} /\ delivered' = {}
    /\ dropped' = dropped \cup ToSet(queue)
         \cup {[kind |-> "job", of |-> t, gen |-> gen] :
                 t \in {u \in Task : tail[u] # {}}}
    /\ delegation' = [d \in Delegation |->
                        IF d \in Tracked THEN "lost" ELSE delegation[d]]
    /\ shown' = status
    /\ armed' = IF status = "idle" THEN "sweep" ELSE "drain"
    /\ touched' = FALSE
    /\ UNCHANGED <<jobVars, woken, editor, typed, status, turns, draining,
                   aborted, asking, sent, told, held, clearFailed, overlapped,
                   unrendered>>

\* startNewSession() threw: nothing was released.
ClearFails ==
    /\ clearing
    /\ clearing' = FALSE
    /\ clearFailed' = TRUE
    /\ UNCHANGED <<jobVars, wakeVars, queue, editor, typed, status, turns,
                   draining, aborted, asking, gen, sent, told, held, dropped,
                   overlapped, unrendered>>
    /\ Renders

-----------------------------------------------------------------------------
User == Type \/ Enter \/ TakeBack \/ Interrupt \/ Answer \/ ClearBegins

Outside ==
    \/ \E t \in Task : JobStarts(t) \/ JobSettles(t)
    \/ \E d \in Delegation : Dispatch(d) \/ DelegationSettles(d) \/ Deliver(d)
    \/ Ask
    \/ \E call \in turns : Continue(call) \/ \E t \in Task : ModelSees(call, t)

\* What the program does without anybody's help.
Calls == \E call \in turns : \/ Expanded(call) \/ ExpansionFails(call)
                             \/ TurnEnds(call) \/ WindUp(call)
Clears == ClearEnds \/ ClearFails
Wakes == \E t \in Task : JobPublished(t) \/ TailRead(t)

Progress == Commit \/ Drain \/ IdleSweep \/ Calls \/ Clears \/ Wakes

WakeNext == User \/ Outside \/ Progress

WakeSpec == WakeInit /\ [][WakeNext]_vars

\* Turns end, files are read, React renders and runs the effects; nobody has to
\* type or answer.
FairSpec == /\ WakeSpec
            /\ WF_vars(Commit) /\ WF_vars(Drain) /\ WF_vars(IdleSweep)
            /\ WF_vars(Calls) /\ WF_vars(Clears) /\ WF_vars(Wakes)

-----------------------------------------------------------------------------
\* Every variable stays within its type.
TypeOK ==
    /\ state \in [Task -> {"absent", "running"} \cup Terminal]
    /\ published \in [Task -> 0 .. 1]
    /\ tail \in [Task -> SUBSET (0 .. MaxClear)]
    /\ delegation \in [Delegation ->
                         {"none", "running", "settled", "delivered", "lost"}]
    /\ queue \in Seq(Entry) /\ sent \in Seq(Entry)
    /\ editor \in Seq(1 .. Prompts) /\ typed \in 0 .. Prompts
    /\ status \in {"idle", "streaming"}
    /\ turns \subseteq Call
    /\ {draining, aborted, clearing, touched} \subseteq BOOLEAN
    /\ {clearFailed, overlapped, unrendered} \subseteq BOOLEAN
    /\ asking \in {"nobody", "turn", "child"}
    /\ shown \in {"idle", "streaming"} /\ armed \in {"nothing", "sweep", "drain"}
    /\ gen \in 0 .. MaxClear
    /\ seen \cup delivered \subseteq Task /\ told \subseteq Task \X (0 .. MaxClear)
    /\ woken \subseteq Delegation
    /\ held \subseteq 1 .. Prompts
    /\ dropped \subseteq Entry

\* The agent runs one turn at a time, and the session is not idle meanwhile:
\* "the SDK runs one turn at a time", the comment above submit()'s busy branch.
\* The code does not keep it: a key or an effect may act on an older render.
OneTurnAtATime ==
    Cardinality(Running) <= 1 /\ (Running # {} => status = "streaming")

\* Nothing but an outdated render, or a command that is being loaded, lets a turn
\* or a /clear begin while a turn runs: the latches and the ends of turns, the
\* drained, the typed and the cancelled, never do.
OverlapHasCause ==
    [][~overlapped /\ overlapped' =>
         \/ shown # status
         \/ \E call \in turns : call.step = "expanding"]_vars

\* Not kept either: with commands that are loaded first, what is shown may be
\* what is so.
OverlapNeedsOldRender ==
    [][~overlapped /\ overlapped' => shown # status]_vars

\* No prompt is lost and none is sent twice: each one typed is in exactly one
\* place, the draft, the queue, a command being loaded, a turn, or a cleared
\* conversation.
EveryPromptOnce ==
    LET places == {<<"draft", editor>>, <<"queue", Typed(queue)>>, <<"sent", Typed(sent)>>}
                  \cup {<<"loading", call.entry.of, call>> :
                          call \in {c \in turns : c.step = "expanding"}}
                  \cup {<<"dropped", entry.of, entry>> :
                          entry \in {e \in dropped : IsUser(e)}}
    IN  /\ \A p \in places : IsInjective(p[2])
        /\ \A p, q \in places : p # q => ToSet(p[2]) \cap ToSet(q[2]) = {}
        /\ UNION {ToSet(p[2]) : p \in places} = 1 .. typed

\* What waits, in the order in which it would be sent.
Waiting == Typed(queue) \o editor

\* Without commands that have to be loaded it reads in the order it was typed.
WaitingInOrder ==
    \A i, j \in DOMAIN Waiting : i < j => Waiting[i] < Waiting[j]

\* Nothing that happens turns two prompts round while both wait: a take-back, a
\* cancelled turn or a command that would not load puts entries ahead of the
\* draft and leaves their order alone.
NeverReordered ==
    [][\A i, j \in DOMAIN Waiting, k, l \in DOMAIN Waiting' :
         i < j /\ Waiting'[k] = Waiting[i] /\ Waiting'[l] = Waiting[j] => k < l]_vars

\* A job or a delegation starts at most one turn, whatever ends that turn: a
\* wake waiting for its own turn has not had one, and none has two.
WokenOnce ==
    LET all == sent \o queue
    IN  \A i, j \in DOMAIN all :
          i # j /\ IsWake(all[i]) /\ all[i].kind = all[j].kind => all[i].of # all[j].of

\* What was queued when the user pressed Ctrl+C on a turn is not sent until the
\* user submits it again, as long as turns do not overlap.
CancelHolds == ~overlapped => ToSet(Typed(sent)) \cap held = {}

\* Nothing queued in a conversation, no prompt and no wake, reaches its
\* successor: not from the queue, and not from a tail read that ends late.
NoForeignEntry ==
    /\ \A i \in DOMAIN queue : queue[i].gen = gen
    /\ ~overlapped => \A call \in Running : call.gen = gen /\ call.entry.gen = gen

\* A /clear never cancels a background delegation, whose report is still owed,
\* unless it was begun while a turn ran.
ClearSparesDelegations == ~overlapped => \A d \in Delegation : delegation[d] # "lost"

\* A completed turn that told the model how a job ended is not followed by a
\* turn that says so again, as long as turns do not overlap.
NotToldTwice ==
    [][~overlapped' => \A t \in Task : <<t, gen>> \in told =>
         \A g \in 0 .. MaxClear :
           LET wake == [kind |-> "job", of |-> t, gen |-> g]
           IN  wake \in ToSet(sent') => wake \in ToSet(sent)]_vars

\* An idle session with nothing in the way does not sit on its queue: "when the
\* session is idle and nothing owns the keyboard, the oldest queued entry goes
\* back through the ordinary submit path", the comment of the drain effect.
NothingStranded ==
    ~overlapped /\ status = "idle" /\ asking = "nobody" /\ ~clearing /\ ~draining
      /\ queue # <<>> => armed # "nothing" \/ touched \/ shown # status

\* No /clear has failed and no turns have overlapped: a premise of what follows.
Undisturbed == ~clearFailed /\ ~overlapped

\* Unless a permission prompt stays in the way, a /clear fails or turns overlap,
\* the model hears of a finished job: from a turn it completed, or from the job's
\* own wake, or the conversation it belonged to was cleared.
JobIsReported ==
    <>[](asking = "nobody") /\ []Undisturbed =>
      \A t \in Task :
        published[t] = 1 ~> \/ \E g \in 0 .. MaxClear : <<t, g>> \in told
                            \/ \E e \in ToSet(sent) \cup dropped :
                                 e.kind = "job" /\ e.of = t

\* And of a finished delegation: a later turn carries the report, or one starts
\* for it.  A turn over before React rendered its start leaves no sweep behind.
DelegationIsReported ==
    <>[](asking = "nobody") /\ []Undisturbed /\ []~unrendered =>
      \A d \in Delegation :
        delegation[d] = "settled" ~>
          \/ delegation[d] = "delivered"
          \/ \E e \in ToSet(sent) : e.kind = "delegation" /\ e.of = d

\* Whatever the user does while prompts wait, cancel, clear or type on, each is
\* kept once, in order, for its own conversation, and is not sent behind his back.
PromptsKept == EveryPromptOnce /\ WaitingInOrder /\ CancelHolds /\ NoForeignEntry

\* A completion costs the user one turn at most, by a wake or by the model's own look.
ToldOnce == []WokenOnce /\ NotToldTwice

\* Every completion that nobody took reaches the model in the end.
Reported == []ClearSparesDelegations /\ JobIsReported /\ DelegationIsReported

\* The bookkeeping of prompts, also of those that are loaded first, several at a
\* time, and may fail to load.
KeptInOrder == []EveryPromptOnce /\ NeverReordered
=============================================================================
