# Verification of darwin

darwin is a terminal coding agent: an Ink/React interface over an agent SDK, with
background shell jobs, delegated child agents, resumable sessions, two memories and
collaboration between running instances. Nearly all of it runs in one Node event
loop, so what is hard is not data races but what happens *between two awaits*: a
callback, a cancellation, a second call or another process that gets in where the
author of one function saw straight-line code.

This directory holds TLA+ modules translated from the source, the TLC
configurations that check them on small instances, and TLAPS proofs. Source
paths below are relative to `src/src/` unless they say otherwise.

    tlc -workers 2 -config BackgroundBash.cfg BackgroundBash     # one run
    tlapm BackgroundManagerProofs.tla                            # one set of proofs

`PROJECT.json` is the index: components, runs, the mutant that shows each property
can fail, the source lines behind every definition (`map`), findings, hazards
and theorems.

## 1. Inventory

### Modelled

**Background jobs** (`tools/background-bash.ts`, 968 lines).
*State*: per job a `ManagedTask` (state, read cursor, `stopPromise`, `terminalState`
and the FIFO promise chain `serial`), and for the manager the set of launches in
flight, the set of live process groups the exit handler owns, and the shutdown latch.
*Operations*: `start`, `output`, `wait` (output-sensitive or terminal-focused),
`stop`, `shutdown`, natural cleanup after the leader's `close`, the `exit` handler.
*Interaction*: publishes terminal snapshots to the App (a wake) and job counts to the
interface; called by the bash tool, by `/tasks` and by the exit path.
*Hard*: an exit at any await, stop against natural end, shutdown during a launch,
groups that outlive their leader or SIGKILL, several readers of one cursor.
*Correct when*: no group outlives darwin unkilled, a terminal state is only reported
for an empty group, each job is published once, no byte is doubled and none is lost but
with a wait that fails, every wait returns by its deadline with a truthful reason.

**Interactive session loop** (`tui/App.tsx`, `tui/prompt-queue.ts`, `tui/task-wake.ts`,
`agent/task-terminal-delivery.ts`, `agent/background-delegation.ts`).
*State*: one prompt queue for typed prompts and wakes, the editor's draft, the status,
the drain's latch, the `clearing` and `turnAborted` refs, the terminal-delivery ledger
of the runtime, the set of delegations already announced.
*Operations*: submit, queue, take back, interrupt, drain, `/clear`, job completion,
delegation settlement, permission prompt.
*Hard*: a key handler and an effect see the status of the render they were created in;
effects run after the fact and only when a dependency changed; refs are not dependencies;
`submit()` awaits before it takes the session.
*Correct when*: no prompt lost or sent twice, a cancelled queue is not sent, every
completion is reported once and to its own conversation, and a second turn begins beside
one that runs through nothing but an outdated render or a command that is being loaded.

**Sessions and leases** (`agent/session.ts`, `agent/session-lease.ts`, the hand-over in
`agent/runtime.ts`). *State*: `lease.json` per session, `last-session.json`, the lease
each process holds. *Operations*: launch with each selector, acquire, take over, release,
`/clear`, `/rewind`, shutdown. *Hard*: several processes and hosts, file operations that
are not atomic, crashes, a clock for identity. *Correct when*: a session is open in one
process, and its lease file tells the truth to the next one.

**Delegation** (`agents/subagent-tool.ts`, `agents/workflow-tool.ts`,
`agents/dispatch-registry.ts`, `agents/concurrency-limit.ts`). *State*: the registry of
dispatch records, the live children of both tools, the abort controller of a workflow.
*Operations*: call, construct, invoke, resume after a stream interruption, settle, sweep,
cancel one / the turn / everything, shut down. *Hard*: cancellation before there is an
agent to cancel, or after the last look at the signals, a check of the cap that is apart from the taking of the slots, three
parties that may settle one record. *Correct when*: records tell the truth about
children, cancelled work is not started, overlapping writers are never concurrent, the
cap holds, shutdown returns.

**A tool call: permission gate, hook gate, same-path edits** (`agent/permission.ts`,
`agent/permission-rules.ts`, `agent/safety-classifier.ts`, `tui/permission-queue.ts`,
`hooks/tool-hooks.ts`, `tools/file-editor-serial.ts`). *State*: mode and rules, per call
the attempt it is in, the queue of questions and what React last drew of it, the turn's
cancel signal, per path the last edit. *Operations*: early guards, PreToolUse hooks that
block or rewrite, the static judgement, classifier, question, answer, grant, revoke,
`/mode` (which withdraws what waits and starts it over, up to a limit), interrupt, close,
joining and leaving the chain of a path. *Hard*: the mode changes, or the turn ends, while
a decision waits in one of four places; hooks change the input after it was looked at;
questions of parent and children share a queue. *Correct when*: a prohibition is stronger
than everything, one mode judges a call, the user's yes is for what he saw, every call is
recorded once and ends, edits of one path take turns.

**Collaboration** (`collaboration/local.ts`, `protocol.ts`, `storage.ts`, the turns of
`agent/runtime.ts` that run a message). *State*: `policy.json`, per session an endpoint
with an incarnation, a bounded inbox, what it knows to be queued elsewhere, the turn it
runs with its chain and send budget; per causal chain an age. *Operations*: the signed
exchange step by step, admission, take, invoke, continuation of an interrupted stream,
reply, expiry and its notice, resend, confirm / revoke / on / off, cancel, failure,
retirement. *Hard*: an exchange may break off at any point, authorization may go and come
back while a message waits, expiry races the turn, the resend is the retry of something
that may have happened. *Correct when*: each message is queued once and either taken by one
turn or dropped, its sender is told the truth, nothing runs whose ground has gone, causes
bound their effects, nothing waits for ever.

**AgentCore memory: the outbox** (`agentcore/controller.ts`, `auto-state.ts`,
`auto-policy.ts`, `state.ts`). *State*: files only: per turn a body, a proof, a sidecar, the
attempts, an acknowledgement, a receipt; the consent in the config file, session stops, the
epoch a refusal stopped, the day's ledger; three locks that fail instead of waiting; per
process a cached consent, a signal and a pass. *Operations*: prepare, begin, seal, settle,
publish in two writes, the automatic pass (clean, list, next, lock, quota, reserve, arm, fire,
answer, acknowledge, receipt, note), send / discard / clear by hand, consent given and
withdrawn, `/clear`, crash, restart, removal of a dead lock. *Hard*: consent is withdrawn by
another process at any await; a crash between any two files; retries that cost quota.
*Correct when*: a request leaves only under the consent of that moment, in order, paid for
in advance, never after its event was settled; and activity earns a pass.

**One turn on disk: trajectory, local memory, rewind** (`agent/runtime.ts` `send()`,
`shutdown()`, `retire()`; `trajectory/writer.ts`, `memory/controller.ts`, `memory/store.ts`,
`memory/state.ts`, `agent/rewind.ts`, `trajectory/rewind-history.ts`). *State*: the
trajectory file, the recorder's counters and append chain, the staged facts of each turn,
the commits behind the state lock, `state.json`, the catalogue of checkpoints.
*Operations*: open with the reading of the tail, the barrier of an input, batches, a disk
that fails or hangs, the byte budget, end of a stream in all its ways, seal, settle, commit,
forget and edit, capture and catalogue, close, `/clear`, crash, restart. *Hard*: three
records of one turn with different owners and no transaction, writes that land after they
were given up on, a file that ends in a piece of a line. *Correct when*: the file is what
happened, in order; what is remembered was earned by a turn that is on disk; a checkpoint
finds its own prompt.

### Not modelled

| component | why |
|---|---|
| Usage and context accounting | sums over one event stream; the recursion over records is a candidate for bounded checking |
| Hub service (`../hub/src`) | a separate package with its own deployment; PeerMessages assumes of a transport only that a frame arrives, or not, once or twice |
| MCP servers | connection state lives in the SDK client; the token store's refresh under its file lock is a candidate |
| Hook processes | a child process with a deadline and a two-step kill: the mechanism of BackgroundBash in a simpler form (the gate around them is in ToolCalls) |
| Goals | one more source of queued prompts; candidate extension of TaskWake |
| Headless driver | one turn after another with no queue |
| Configuration, command line, skills and commands | parsing and merging of files, no state after the start |
| Other tools, session assistance | one request and one answer; stale answers are dropped by the caller |
| Terminal interface | rendering and editing, pure functions of one state |
| SDK patches and packaging | build tooling |

### How the parts interact

    user ──> App (TaskWake) ──submit──> runtime.send ──> SDK agent ──> gate and tools (ToolCalls)
                 ^   ^                      │                          │
      snapshots  │   │ settlements          │                          ├─ bash ──> job manager
                 │   └── observer <─────────┼── subagent, workflow <───┘  (BackgroundBash,
                 └──────────────────────────┼─────────────────────────────  BackgroundOutput)
                                            ├─> trajectory, memory, checkpoint (TurnRecord)
                                            ├─> outbox of finished turns (Outbox) <── other processes
    other sessions ──> inbox (PeerMessages) ┘
    process ──> launch / /clear / shutdown ──> lease files (Sessions) <── other processes

TaskWake does not model a job again: it EXTENDS `BackgroundJob`, the abstract
specification that `BackgroundBash` is shown to implement. The other modules meet at
small interfaces, each taken as an arbitrary input by the one that uses it: TurnRecord
lets a turn end in any of the ways TaskWake and PeerMessages may end it, Outbox lets a
settlement come or be lost at any time after TurnRecord's begin, and ToolCalls lets the
turn be interrupted anywhere.

## 2. The modules

One action is what the code runs between two awaits (in Sessions and Outbox, between two
file operations), including every synchronous call it makes. Definitions keep the
names of the source where they can. A definition commented *Mutant* models a plausible
mistake and is used by nothing but the check that a property can fail.

| module | models | builds on |
|---|---|---|
| `BackgroundJob` | abstract: a job is registered, settles once, is published once | |
| `BackgroundBash` | the lifecycle half of the manager | EXTENDS and implements BackgroundJob |
| `BackgroundOutput` | the output half: shared cursor, three kinds of read, UTF-8 boundaries | |
| `MCBackgroundOutput` | the logs the two output runs read, the symmetry of the readers | BackgroundOutput |
| `BackgroundManagerProofs` | the theorems of both halves | BackgroundBash, BackgroundOutput, TLAPS |
| `TaskWake` | queue, drain, turns, wakes, `/clear` | BackgroundJob |
| `MCTaskWake` | the scenarios of the run with liveness | TaskWake |
| `TaskWakeProofs` | its theorems | TaskWake, TLAPS |
| `Sessions` | selection, leases, hand-over and shutdown over several processes | |
| `SessionsProofs` | its theorems | Sessions, TLAPS |
| `Delegations` | both tools, the registry, the cap, cancellation, shutdown | |
| `MCDelegations` | the two nodes of its run, one of each pair of mirrored graphs | Delegations |
| `DelegationsProofs` | its theorems | Delegations, TLAPS |
| `ToolCalls` | hook gate, permission gate, question queue, edit chains | |
| `MCToolCalls` | the messages its run starts from | ToolCalls |
| `ToolCallsProofs` | its theorems | ToolCalls, TLAPS |
| `PeerDelivery` | abstract: a message is queued once, then taken or dropped, and its sender told | |
| `PeerMessages` | inboxes, turns, policy, expiry and resends between two sessions | implements PeerDelivery |
| `MCPeerMessages` | its budgets | PeerMessages |
| `PeerMessagesProofs` | its theorems | PeerMessages, TLAPS |
| `Outbox` | publication, passes, sending, commands and consent over several processes | |
| `MCOutbox` | its turns and budgets | Outbox |
| `OutboxProofs` | its theorems | Outbox, TLAPS |
| `TurnRecord` | trajectory, local memory and checkpoints of one session | |
| `MCTurnRecord` | its facts and budgets | TurnRecord |
| `TurnRecordProofs` | its theorems | TurnRecord, TLAPS |

### BackgroundBash

| variable | code |
|---|---|
| `state`, `published` | `ManagedTask.state` ("absent" before `tasks.set`), the listener loop of `finish()` |
| `phase` | where `launch()` is: set-up, spawned, closing its log handle, reaping, tracked, failed |
| `group`, `closed`, `heard` | the OS process group, the leader's exit, whether `closed.then` has run |
| `serial`, `op`, `pc` | the promise chain of the job, the operation at its head, the step inside `cleanupProcessGroup()`/`finish()` |
| `stop`, `active` | `stopPromise`, `activeProcessGroups` |
| `shutdown`, `draining`, `exited`, `killed` | progress of `shutdown()`, what it awaits, the process's exit and what its handler killed |

`Start … Reaped` are the awaits of `launch()`; `FindGone`/`Escalate` the polls of
`waitForGroupExit` (SIGTERM, then SIGKILL, then giving up); `CloseCallback`,
`RequestStop`, `BeginOp`, `Finish`, `PublishSnapshot`, `Abandon` the two queued
operations; `ShutdownBegin/Stop/Done` and `ProcessExit` the end. `LeaderExits` and
`GroupEmpties` are the operating system, free to do neither. Reads are left out of the
queue here: they only delay lifecycle operations, and the FIFO with reads is
what BackgroundOutput has.

### BackgroundOutput

One registered job, a log that grows byte by byte, and callers that read through the one
`cursor`. A byte is one of the seven classes that `completeUtf8Boundary()` tells apart.
`Boundary` is that function and `Read` is `readOutput()`, which may read three bytes past
the limit; `Aggregate` is `aggregateWaitOutput()`. `call` is one caller's frame (the kind
of call, where it is, the range a terminal wait holds, whether its deadline passed or it
was aborted). `given`, `answer` and `lost` are history; `lost` is what a terminal wait had
taken when a later read of it failed. The file's size is taken by the `stat` that
begins a read, so bytes written during a read are not seen by it.

### TaskWake

`queue` is `queuedRef`, `turns` the `submit()` calls that have not returned (expanding a
slash command, running a turn, or winding up while the drain's latch is held), `gen` which
runtime is live.

React is modelled as far as the code depends on it. A key handler, the drain effect and the
`submit()` they call close over the status of a render, so `Enter`, `Interrupt`,
`ClearBegins` and `Drain` test `shown`, the status in the last render that was committed,
while `status` is what was set since. `Commit` may come any time after a change; it makes
`shown` current and owes the effects a run (`armed`): the sweep for settled delegations, if
the shown status became idle, and then the drain. `touched` says that something else
changed on which the drain effect depends. Refs (the queue, the draft, the latches) and the
status of the delegation listener are read live, as they are in the code.
`overlapped` and `unrendered` are history: a turn or a `/clear` began while a turn ran; a
turn was over before its start was shown.

A prompt is a number in typing order, so that loss, duplication and reordering are
visible. `Outside` is the model provider, the SDK and the jobs.

### Sessions

`at[p]` walks through `acquireLease()` one file operation at a time: exclusive create,
write of the record, read, classification, removal, the second attempt. `lease[s].whole` is
FALSE between the create and the write: the moment in which the file exists and is empty.
`old` is a lease past the 24 hours for which another host is believed. A process is one
incarnation; process ids are not reused. `Init` includes a session left by a crashed owner.

### Delegations

`rec` is the registry, `child` how far each call or node has got, `wanted` the requested
cancellations, `stop` the children whose agent was told. The SDK's graph is external and
is modelled by what it promises: a node starts once everything it depends on has
completed (a cancelled node counts as completed), no more than `maxConcurrency` at a
time, none once aborted. Between the last look at the cancel signals and the invocation a
child is "starting": its `initialize()` and the `subagentStart` hook are awaited, and
whatever is cancelled meanwhile does not keep it from being invoked (`Invoked`). Whether the
agent still knows then that it was told to cancel is the SDK's business, so both are
possible (`Recalled`). A call that was routed to the background outlives its turn, so
`NextTurn` may begin with calls under way. Nodes that an aborted run has not started are
settled as cancelled by the tool itself. Every acyclic or cyclic edge set, scope and width over the
nodes is offered to `Orchestrate`; `Valid` is what `validate()` lets through.

### ToolCalls

`call[c].at` is where the call waits: with the hooks, with the classifier, in the queue,
answered but not yet resumed, withdrawn by `/mode`, queued behind an edit, executing.
`Settled` is the static order of `decideOnce()`, prohibitions first; `Judge` one pass,
`Rejudge` its restart after a mode change, `Publish` what both gates do with a verdict
(including the look at the cancel signal) and the joining of the edit chain, which happens
in the same step because nothing is awaited between them. `screen` is what React last
drew: a key answers only that, and `/mode` gets through only when nothing is drawn.
An input is one of eight members that the gate tells apart; the grammar of rules and the
recognition of dangerous commands and credential paths are reduced to which member it is.
`origin` says whom the turn answers: the user, a peer, or a peer under a read-only ceiling.
`EarlyDenial` has the order of the code: the protection of instruction, credential and
policy files from a peer's turn, the deny rules, then plan mode and the ceiling.

### PeerMessages and PeerDelivery

`mail[m]` is the envelope, `wire[m]` how its exchange stands (posted, queued or refused at
the recipient, answered, cut off on the way there or back), `notice[m]` the "expired
unprocessed" notice, `age` the life of a causal chain. `ses[s]` is a `LocalCollaboration`
with the turn the session runs: `Take` fetches the item from the inbox, `Invoke` validates
it again and calls the model, so that what may happen between the two does. `Token` is the
authorization a pair has now; an item carries the one it was admitted under. A policy
change numbers its grant by what is left of the budget, so that a grant given again is a
different grant, as in the code. `Delivery` maps this to `PeerDelivery` by two expressions:
`stage` reads where a message is off the inboxes, the turns and the history of admissions,
`answer` off the exchange. It is the refinement checked as `DeliverySpec`.

### Outbox

`file[t]` is what is on disk for a turn, written by one action per file. `op` is the holder
of the outbox lock and its place in what it does, `config` and `printing` the other locks; a
lock of a dead process stays until `Recover`, the user's removal. `ctl[p]` is the
`CloudMemory` of a process: the consent it cached, its current signal (`sid`, `live`), what
it was told. `turn[t]` is the staged turn: the consent it began under (`origin`), the
driver's verdict (`done`, which can only be withdrawn), the settlement of the trajectory.
Consents are numbered, so "this consent" and "a consent" differ. `since`, `natural`,
`issued`, `launches`, `requests` and `owed` are history. `Authority` is `checkAutoAuthority()`, called
at both of its places; `Arm` is the last look, which keeps the config lock until `Fire`.

### TurnRecord

`file` is the trajectory line by line, a line carrying which turn of history it is of, so
that a wrong number is visible; a *torn* line is a piece without its newline, a *broken* one
two pieces joined. `rec` is the recorder with what it read off the tail, `chain` the append
chain, `io` how far its first batch is, `stray` writes of processes that are gone.
`turn` is the `send()` that is running, `mem[i]` the memory controller's view of a turn,
`commits` and `commit` the commits behind the lock, `store`/`suppressed`
`state.json`. `catalogue` is what `/rewind` offers and `Boundary(c)` is
`rewindHistoryBoundary()`. `Stage` checks a save against the entries whose evidence is
still there: a suppressed fact is refused, a corrected
key only while the evidence of that entry stands, and a state that cannot be read refuses
nothing. The commit looks again. `owed`, `guessed`, `corrected` and `forgotten` are history.
`Elsewhere` is whether `/memory` is used in another process of the project: the lock of
the state is a map inside one process.

## 3. The runs

| run | what it asks | bounds | result |
|---|---|---|---|
| `bash_lifecycle` | groups accounted for, precedence of a stop, refinement of BackgroundJob, liveness | 2 jobs | holds |
| `bash_output` | faithful results, progress on a settled job | 2 interchangeable readers, limit 2, 5 logs | holds |
| `bash_output_live` | every read and wait returns | 2 readers, limit 1, one log | holds |
| `task_wake` | prompts, wakes, cancel, `/clear`, and that every completion is reported; until turns overlap | 2 prompts, or 1 prompt and 1 delegation; 1 job, 1 `/clear` | holds |
| `task_wake_commands` | prompts with commands that load asynchronously and may fail; what lets turns overlap; also beyond an overlap | 3 prompts, the second and third commands, 1 delegation, 1 `/clear` | holds |
| `sessions` | exclusivity outside a race, truthful lease files | 2 processes on 2 hosts, 2 ids | holds |
| `lease_takeover` | two launches that take over one stale lease | 2 processes on 1 host, 2 ids | **violated** |
| `delegations` | write scopes, honest cancellation, shutdown | 1 call, 2 interchangeable nodes, cap 2 | holds |
| `tool_calls` | prohibitions, one judgement by one mode, edits in turn, every call ends | 3 calls, 4 modes, 3 origins, 2 restarts, 3 switches | holds |
| `peers` | causes bound effects, nothing void runs, nothing waits for ever, refinement of PeerDelivery | 2 sessions, 3 messages, 3 chains, queue 2 | holds |
| `outbox` | lawful sends, payment in advance, passes earned | 2 processes, 3 turns, 3 attempts, 3 requests a day | holds |
| `turn_record` | the file tells the truth, memory is earned, a checkpoint finds its prompt | 3 processes, 3 turns, 7 lines, 3 facts | holds |

What the properties say, beyond the table; a property that joins several is named with its
parts, each defined and commented in its module:

- `GroupsAccounted` = `NoOrphan`, `TerminalMeansGone`, `ShutdownLeavesNothing`: wherever
  the exit comes, every group still alive was sent SIGKILL by the exit handler; a terminal
  job has no group; `shutdown()` really finished. The last excepts a group that
  outlived SIGKILL (`gaveUp`), which the code documents as staying in the exit handler's set.
- `JobSpec`: BackgroundBash refines BackgroundJob under the identity on `state` and
  `published`, so TaskWake may rely on one settlement and one publication.
- `Settles` = `ShutdownResolves`, `EndedIsPublished`.
- `Faithful` = `OnceOnly`, `HonestRange`, `WholeCodePoints`, `HonestReason`. `OnceOnly`
  counts what became of each byte: one behind the cursor came back in one result, or is held by
  one wait, or was lost with a terminal wait a later read of which failed (`lost`), and
  exactly one of these; one ahead of the cursor none. `HonestReason`: a wait that
  reports a timeout, a cancellation or a shutdown shows a running job in the same result.
- `OverlapHasCause`: a turn, or a `/clear`, begins while a turn runs only if the status
  shown is not the status there is, or a command is being loaded. So neither the latches nor
  the way turns end, by themselves or cancelled, ever let it happen. That turns never overlap
  (`OneTurnAtATime`) the code does not keep (section 5). What an overlap breaks has
  "until turns overlap" as a premise: `CancelHolds`, the part of `NoForeignEntry` about turns,
  `NotToldTwice`, `ClearSparesDelegations` and `Reported`.
- `PromptsKept` = `EveryPromptOnce`, `WaitingInOrder`, `CancelHolds`, `NoForeignEntry`:
  what was queued when the user cancelled is not sent until the user submits it again.
  `KeptInOrder` is the part that commands do not break: no loss, and no step turns two
  prompts round while both wait (`NeverReordered`). With commands what waits need not read in
  the order it was typed: a command entered between the end of a turn and the drain is loaded
  ahead of what is queued, and if it fails to load it comes back in front of prompts typed
  before it; two commands may fail in the other order.
- `ToldOnce` = `WokenOnce`, `NotToldTwice`. `Reported` = `ClearSparesDelegations`,
  `JobIsReported`, `DelegationIsReported`: unless a permission prompt stays open for ever,
  a `/clear` failed or turns overlapped, a completion reaches the model through the turn it
  ended in or a wake. For a delegation there is one exception more: a turn that is over before
  React showed its start (`unrendered`) leaves no change of the shown status behind, so no
  sweep runs.
- `ExclusiveUnlessRaced`: `raced` marks, for good, a session for which two launches were ever
  inside `acquireLease()` at once, whether either removed a lease or not, or whose lease ever
  reached a day. Of any other session there is one holder at most, and of those two kinds the
  property says nothing. `LeaseIsTruthful` = `HolderIsNamed` (the file says who), `CleanExitLeavesNoLease`.
  `lease_takeover` shows what happens inside the race.
- `CancellationIsHonest` = `ExecutingIsCounted`, `TerminalIsFinal`, `CancelledHasCause`,
  `WithdrawnNeverStarts`: a dispatch cancelled while its model was being constructed,
  while it waited in the graph, or between two attempts of a broken stream is not started or
  continued afterwards; one that was already starting is invoked all the same
  (`DelegationsLate`, section 5), but never without having been told to cancel. The sweep and
  the catch blocks do not invent cancellations.
- `ProhibitionsHold`: what the rules, the mode, the protection of files from peers or the
  read-only ceiling of a peer's message forbid is not executed, whatever hooks made of the
  input and whatever was granted meanwhile.
- `CallsJudged` = `JudgedByOneMode`, `AnsweredAsSeen`, `OneRecordPerCall`. The first is about
  the moment a call is let through: the mode in force then permits that input on that word
  (classifier, rule, user, ...), whatever happened since it was asked for.
- `EditsInTurn` = `EditsSerialised`, `ChainsDrain`. `EveryCallEnds` = `CloseReleases`,
  `EditsGetTheirTurn`.
- `NothingVoidRuns`: `void` collects the admitted messages whose ground for running went
  away, even if it came back; none of them starts a turn afterwards. `CausalLimits` =
  `CeilingNarrows` (a read-only message makes everything it causes read-only),
  `BudgetHolds` (a peer turn, its continuation and the wakes after it share one budget).
- `LawfulSends` = `ConsentHolds`, `TurnsInOrder`, `SettledForGood`. The consent is looked at
  in the config file in the very state in which the request leaves, and must have been given
  before the turn began and never been withdrawn since, by any process.
- `PaidInAdvance`: requests ever sent never exceed the attempts of their event and the
  day's ledger on disk, so a crash buys nothing. `PassEarned`: no activity is forgotten,
  whatever pass was running or dying when it happened.
- `FileTellsTruth`: numbered without a gap, headers, the budget's last line, turns one after
  another with growing numbers, an input on disk before the model is called. Unless
  a process had to number its records without having read the whole file (`guessed`), which
  the code accepts after its time limit.
- `MemoryIsEarned`: a remembered fact names the record that ends its turn; it is not what
  the user forgot or replaced; and a shutdown leaves out no turn that was certain (`owed`).
- `RewindFinds`: a checkpoint whose prompt is in the file is shown at that prompt, and is
  found whenever its turn was recorded to its end.

### Bounds, and why they are enough

- *Two jobs*: jobs interact only through `active`, `shutdown` and `draining`, each a set
  over jobs, so two show every pairwise order; the theorems lift the safety results
  to any number.
- *Two readers, limit 2, logs of 2 to 4 bytes* put the limit inside a code point of every
  width it can cut, at its last byte, in malformed bytes and in an unfinished
  code point at the end of the file. The read window of the code, limit + 3, is kept.
- *Liveness of reads* has its own run with one short log: the wait logic does not depend on
  what the bytes are, only on whether a read came back empty.
- *Two or three prompts, one job or delegation, one `/clear`*: the shortest instances in
  which a prompt can overtake another, a take-back can meet a draft, a wake can go
  stale, and a conversation can have a successor. `MCScenarios`, the constraint of `task_wake`,
  gives a session its second prompt or its delegation, and cuts off what comes after an
  overlap: `Reported` says nothing of that, and `task_wake_commands`, which has no constraint,
  goes on there, as the theorems do. One prompt is
  enough for the reports: it is the turn that starts the job and the delegation, and every
  later turn is a wake. With the second and the third prompt being commands, `KeptInOrder`
  covers submissions that overlap, also two that load at once.
- *Two processes, two ids*: every race of a lease is between two parties; two ids give a
  `/clear` its successor and a retry its next id. `MaxId` caps the clock; a third fresh id
  that is taken too (the last try of `acquireFresh()`) needs one more and is left to the theorems.
- *One subagent, two nodes, cap 2*: the smallest instance in which a workflow and a call
  compete for slots and in which two nodes are ordered, unordered or cancelled. The
  nodes are interchangeable, so a graph and its mirror image are one (`MCOriented`).
- *Budgets* (`MCPeerMessages`, `MCOutbox`, `MCTurnRecord`) and *messages* (`MCToolCalls`):
  the initial state chooses one of a few scenarios, each a bound on how often every kind of
  event may happen in the run. Letting all kinds happen together is out of reach; each
  scenario lets one kind of trouble meet itself and one or two others: consent withdrawn
  twice, a crash with a hand command and a clean-up, a lost notice across a restart, and so
  on. Every counter in a budget is a bound on the environment, never on the code's answer to it.
- *Two calls of any kind under every mode; one call of a peer's turn with and without the
  ceiling; one call under three switches; three edits of one
  path*: two calls show every order of question, answer and switch; one call with
  `MaxRestarts` = 2 (16 in the code) reaches the limit; three edits are what it takes to
  remove the wrong entry of a chain.
- *Three messages, three chains*: work, its reply and its resend. `MaxHops` 1 is reached,
  `HumanSends` 2, `PeerSends` 1 and `MaxQueue` 2 can each be exceeded.
- *Two turns of one process and one of another* order turns within a session and race
  processes across it. `MaxAttempts` is the code's own 3; `DailyEvents` 3 runs out under retries.
- *Seven lines* hold two turns of two processes and can be filled by a third turn, so
  the stop line is reached; two facts under one key and one under another supersede, correct
  and leave each other alone.

`CHECK_DEADLOCK FALSE` is set where the system may stop: a process that exited, a
user who types no more, processes that all ended, a runtime that is down, a budget that
is spent. ToolCalls keeps the check on: a message whose calls cannot all end is a deadlock
there, and `Over` is the only way to stop.

### Fairness

Only what the event loop, timers, the file system or a documented timeout provides:

- BackgroundBash: the callbacks, timers and settled promises of each job, and the
  continuations of `shutdown()`. Nobody has to start, stop or exit, and no process
  has to die.
- BackgroundOutput: deadlines pass, and a queued or sleeping call goes on. Nobody has
  to write, settle or abort.
- TaskWake: React commits what was set and runs its effects, turns end, `/clear` resolves, log tails are read. Nobody has to
  type, press a key or answer a permission prompt: the liveness properties say so.
- Delegations: a provider answers or times out, a child that starts is invoked or
  throws, a child ends its turn, the graph starts what is ready.
- ToolCalls: a call's own awaits settle: hooks and the classifier have timeouts, tools
  return, a released edit runs. React need not draw and the user need not answer.
- PeerMessages: chains grow old, and the sweep of a session runs. No turn has to end and no
  frame has to arrive.

The fairness is weak throughout. Sessions, Outbox and TurnRecord have safety properties
only; what Outbox must eventually do is stated as the safety property `PassEarned`.

## 4. Proofs

TLC checks small instances; the theorems hold for every value of the constants. In each of
the eight proof modules none of the properties is inductive alone, so an inductive invariant
is what the proof is about: `IInv`, or `OutputInv` for BackgroundOutput, `WakeInv` and
`PlainInv` for TaskWake. Each was first checked by TLC as an invariant of the run of its
module. `Invariance` is `Spec => []IInv`, the properties follow from it, and a part of `IInv`
has a step lemma with one step per action that cites only the other parts it uses.

| module | theorem | states |
|---|---|---|
| `BackgroundManagerProofs` | `TypeCorrect` | `BashSpec => []TypeOK` |
| | `GroupsAccountedHolds` | `BashSpec => []GroupsAccounted`, from the next three |
| | `NoOrphanHolds` | `BashSpec => []NoOrphan` |
| | `TerminalMeansGoneHolds` | `BashSpec => []TerminalMeansGone` |
| | `ShutdownLeavesNothingHolds` | `BashSpec => []ShutdownLeavesNothing` |
| | `StopPrecedenceHolds` | `BashSpec => StopPrecedence`, an action property |
| | `Implements` | `BashSpec => JobSpec`: BackgroundBash refines BackgroundJob |
| | `OutputTypeCorrect` | `OutputSpec => []OutputTypeOK` |
| | `FaithfulHolds` | `OutputSpec => []Faithful`: once only, honest ranges, whole code points, honest reasons |
| | `SettledReadsAdvanceHolds` | `OutputSpec => SettledReadsAdvance`, an action property |
| `TaskWakeProofs` | `TypeCorrect` | `WakeSpec => []TypeOK` |
| | `KeptInOrderHolds` | `WakeSpec => KeptInOrder`: an invariant and an action property |
| | `WokenOnceHolds` | `WakeSpec => []WokenOnce` |
| | `OverlapHasCauseHolds` | `WakeSpec => OverlapHasCause`, an action property |
| | `PromptsKeptHolds` | `Slash = {} => (WakeSpec => []PromptsKept)` |
| | `ToldOnceHolds` | `Slash = {} => (WakeSpec => ToldOnce)`: an invariant and an action property |
| | `ClearSparesDelegationsHolds` | `Slash = {} => (WakeSpec => []ClearSparesDelegations)` |
| `SessionsProofs` | `TypeCorrect` | `Spec => []TypeOK` |
| | `ExclusiveUnlessRacedHolds` | `Spec => []ExclusiveUnlessRaced` |
| | `LeaseIsTruthfulHolds` | `Spec => []LeaseIsTruthful` |
| `DelegationsProofs` | `TypeCorrect` | `Spec => []TypeOK` |
| | `NoConcurrentOverlapHolds` | `Spec => []NoConcurrentOverlap` |
| | `CancellationIsHonestHolds` | `Spec => CancellationIsHonest`, an action property |
| `ToolCallsProofs` | `TypeCorrect` | `Spec => []TypeOK` |
| | `ProhibitionsHoldAlways` | `Spec => []ProhibitionsHold` |
| | `EditsInTurnAlways` | `Spec => []EditsInTurn` |
| | `CallsJudgedAlways` | `Spec => CallsJudged`, an action property |
| `PeerMessagesProofs` | `TypeCorrect` | `Spec => []TypeOK` |
| | `CausalLimitsHold` | `Spec => []CausalLimits` |
| | `NothingVoidRunsHolds` | `Spec => NothingVoidRuns`, an action property |
| | `Delivers` | `Spec => DeliverySpec`: PeerMessages refines PeerDelivery |
| `OutboxProofs` | `TypeCorrect` | `Spec => []TypeOK` |
| | `PaidInAdvanceHolds` | `Spec => []PaidInAdvance` |
| | `PassEarnedHolds` | `Spec => []PassEarned` |
| | `LawfulSendsHold` | `Spec => LawfulSends`, three action properties: consent, order, finality |
| `TurnRecordProofs` | `TypeCorrect` | `Spec => []TypeOK` |
| | `FileTellsTruthHolds` | `Spec => []FileTellsTruth` |
| | `RewindFindsHolds` | `Spec => []RewindFinds` |
| | `MemoryIsEarnedHolds` | `~Elsewhere => (Spec => []MemoryIsEarned)` |

**BackgroundBash**, for every set `Task`, with no assumption on it. `NoOrphan` says nothing
before the exit, so it needs *Owned*: an alive group is in `active` from the step that
spawned it. "Terminal means gone" needs *Located*, what a program counter knows of the group:
a cleanup that is past its poll saw the group gone, and a group never comes back.
`ShutdownLeavesNothing` needs *Queued* (a stop that settled left a terminal job or a group
that was given up on, and only registered jobs have a queue) and *Drained* (what was
established at the first await of `shutdown()` still holds at its end: the latch is read in
the same step as the spawn, so no launch is added). *Published* carries the refinement: at
most once, after settlement, by the operation that settled. `StopPrecedence` and `JobSpec`
are action properties: each step that settles or publishes is shown, under `IInv`, to be a
`Settle` or `Publish` of the abstract job, and every other to leave it alone.

**BackgroundOutput**, for any readers, every limit from 1 on and any set of logs
(`LimitAssumption`, `LogsAssumption`: a log is a sequence of the seven classes of bytes; the
runs read a handful of short ones). Two lemmas carry the arithmetic. `BoundaryIs`: where
`completeUtf8Boundary()` stops inside what looks like a code point of the bytes it was given, one of its
continuation bytes is missing; and at the end of a file, or with three bytes past
the limit read, it stops no earlier than asked. `ReadIs`: hence a read that
starts outside every code point ends outside every code point, and gets on in a complete
file. A code point may be cut by the end of a file that still grows, so `WholeCodePoints` is
not inductive: *Whole* speaks of all the log will ever have (`Extent`: the whole of it while the
job runs, what was written once it settled), and every offset the readers keep respects that.
*Serial* says that only the head of the queue reads and that it started at the cursor, which is
why `Once` holds: what a read takes nobody held, was given or lost before, and the cursor
leaves nothing out.

**TaskWake**, for any number of prompts and conversations, any jobs and any finite set of
delegations (`PromptsAssumption`, `SlashAssumption`: the commands are some of the prompts;
`DelegationAssumption`). `WakeInv` holds whichever prompts are commands that are loaded
first. Its part `KeptPart` speaks of the five places a prompt can be in, the draft, the queue, the
turns begun, the calls that load a command and the entries a `/clear` dropped: nothing is in
two of them or twice in one (`Placed`, `Singly`), and `Moves` lists the dozen things a step may do to
them, so that each action is looked at once and each kind of move once. `NeverReordered`
comes from the same list. `Announced` is about wakes: each in the queue or in a turn is of a
job that was published and whose tail was read, or of a delegation that was
announced, and a subscription that still owes a tail read is of a job with no wake yet;
hence no second one. *Single* says that, until turns overlap, at most one turn runs and the
status is streaming exactly while it does. With it `OverlapHasCause` is read off the actions:
a step that begins a turn or a `/clear` found an idle status shown, or carries out a command that was
being loaded, and if the status is idle too then no turn runs. It holds for any `Slash`.

The other theorems have the hypothesis `Slash = {}`, a session in which no command of the
loaded kind is typed. `PlainInv` adds that the queue belongs to the live conversation
(*OwnQueue*), that what waits is in order, and, until turns overlap, *Aligned*: a `/clear` is under way only with no turn running
(*Quiesced*), the turn is one of the live conversation (*OwnTurn*), a prompt held back by a cancel is in the
queue only until the cancelled turn ends (*Holds*), the ledger knows what a completed turn
reported (*Heard*), and a `/clear` under way finds no tracked delegation (*Spared*). A step of
such a session is one of five (`Does`): it leaves the turn alone, clears, begins a turn, ends it,
or lets it go on. Sequences are reasoned about through `BySteps`, an induction over sets of
sequences that is derived from the least element of a set of numbers.

**Sessions**, for any processes on two hosts and any number of ids. The heart is *Named*:
of a session that is not `raced`, at most one launch is inside `acquireLease()` (`Alone`)
and every process is right about its lease file (`Sure`): a launch about to write sees its own
unfinished file, one about to remove has seen a record whose owner is dead, a holder is
named. A removal by path is harmless only because of `Alone`, and `Alone` is
kept only because a second launch that enters marks the session `raced`. *Located* says which
session a place in the launch is about, *Born* that a complete file names a process that was
launched, *Truthful* that the file of a process that never crashed is held or being released.
`GhostAssumption`: the crashed owner that `Init` may leave behind is none of the processes
launched.

**Delegations**, for any calls, nodes and cap and every graph. *Ordered* keeps what
`validate()` established for as long as the workflow runs, and that a node starts after
everything with an edge to it completed; a lemma carries that along paths, by the minimal set
closed under edges that `Reachable` is. *Placed* and *Counted* say how far a child can be in
each phase and that what runs holds its slot; *Reached* that a child that is starting has
been told if it or its turn was cancelled; *Aborts* that a cancelled turn aborted
its workflow. `CancellationIsHonest` looks at every step: the end that was recorded stands.

**ToolCalls**, for any set of calls and paths, any message, hooks and number of restarts.
*Judged* says what has been established about a call at each place it can be, and it
survives `/mode` because the switch withdraws everything that waits. *Queued* ties the
questions to the calls that ask them. The chains of edits are the hard part: every
edit knows only the one before it, the entry of a path only the last, and neither tells who
precedes whom after some have gone. *Chained* says that some assignment of positions
explains the state: an edit that is not free waits for the nearest one before it, only a free one
runs, the entry is the last. From it follows that the edit which removes the entry
is alone.

**PeerMessages**, for any sessions, messages, chains and caps and every set of budgets. Its
assumptions: a peer turn may send no more than a human one (`collaboration/protocol.ts:40-41`),
messages and chains are the numbers from 1 on, and `None` is none of the values it stands
beside. *Numbered* says why nothing comes back: messages and chains are numbered without a
gap, endpoints upwards, and grants and generations by what is left of the policy's budget,
so that an authorization that was withdrawn is never given out again. Hence *Waits*: an item
that waits, in an inbox or between its take and the call of the model, has not run, and if
it is void then it is `Doomed`, for a reason no step takes back. `Valid` refuses what is
doomed, which is `NothingVoidRuns`. *Arrived* makes the admission exact: a recipient that is
still the endpoint a message was sent to remembers every message it admitted, so a
duplicate is refused; after a restart the endpoint is another one. *Causes* ties the budget a
session counts to the message that triggered its turn, over continuations and wakes: no more
replies to that message exist than were counted. *Written* carries the read-only ceiling
from a message to whatever it caused, *Heard* says that an exchange knows
whether its message was queued.

The refinement looks at what a step does to the messages, not at the session it happens in
(`Carries`): it sends one (`Sends`), queues one (`Admits`), tells one sender (`Tells`), or
lets some leave where they wait and at most one of them run (`Lets`). Each action is shown to
be one of the four, and each of the four to be a step of PeerDelivery or a stutter.

**Outbox**, for any processes, finite set of turns, owners, attempts, requests of a day and
every set of budgets (`NumberAssumption`: turns are numbers from 1 on, both caps at least 1;
`OwnerAssumption`: `None` is neither a process nor a number; `BudgetAssumption`: the shape of a
budget). What makes a send lawful was looked at many steps before it, by a process that others
do not wait for, so `IInv` says what cannot have changed since. *Driven*: what a pass has in
hand is, for as long as it has it, a turn whose proof is on disk under the epoch of the pass
(`Candidate`), and a pass that is owed is about to begin under the signal that earned it or
noted to (`Tidy`). *Published*: the turns of a process are settled and get their files in
their order (`Behind`), and a body goes only after its receipt (`Sane`). *Locked* is about the
holder of the outbox lock: while it sends, its turn is unsettled and nothing earlier of its
session waits (`Unsettled`), which other processes cannot undo because an earlier turn was published
before or never will be; between the last look and the request (`Armed`) the config lock keeps
out every writer of the consent and the session stops; and `Paid` counts the attempt and the
request that are reserved and not yet used. `LawfulSends` then looks at each step: only `Fire`
sends, and no action writes over a receipt or removes an acknowledgement without one.

**TurnRecord**, for any facts and keys, every size of the file and every set of budgets
(`LinesAssumption`, `KeyAssumption`, `BudgetAssumption`: the shape of each). What the file
says of a turn was decided long before the line got there, by steps that knew nothing of what
the disk would do, so `IInv` follows a line from its turn to its place. *Lines* and *Ends*
say of every line, in the file, in the chain or given up to a process that is gone, that it names
its turn and how that ended; *Order* that what is to come follows what is there, for as
long as the recorder is on; *Swallow* that the only line a torn one can swallow is a
header, so an end that was settled stays readable; *Opened* that no event is written
before the opening of its turn. *Told* is the file itself: each record has its predecessor,
header and opening (`Truth`), the numbers of this process go on from the file's (`Ahead`,
`Aligned`), and what the last process gave up would still fit if it landed, because `retire()`
is the one way to leave a write behind and there is one such write per process (*Strays*). It
is kept by a lemma about appending one line and one about a piece of a line, which all the
ways to write share. *Awaited* and *Promised* are the race of the closing record with the seal:
an end still in the chain is not settled, and one on disk whose turn was sealed was accepted for
commit by whichever of the two came second, also while `close()` waits. *Earned* ties the store,
and the store a commit has in hand, to an end in the file. `MemoryIsEarned` needs *Forgotten*
beside `IInv`: what a commit has read is still what is stored. That is kept only while one process at a
time uses `/memory`, hence the hypothesis `~Elsewhere`; without it the property is false, which
`TurnRecordElsewhere` shows. The other theorems need no such hypothesis.

Some definitions were put in another form so that they could be reasoned about:
`Reachable` in Delegations is stated over closed sets of nodes instead of by the graphs of the
community modules, `Without` in PeerMessages is a recursive function instead of
`SelectSeq`, in Outbox `requests` counts what was the sum of `launches` and `PassLock` and
`Fire` are disjunctions, in TurnRecord `Records` are the places of the complete lines
instead of a filtered copy of them, and in TaskWake `Typed` and `Only` join pieces of one
entry or none instead of calling `SelectSeq`, while `EveryPromptOnce` compares the places of prompts
pairwise instead of counting in one long sequence. One property was restated because it
was false: `KeptInOrder` used to ask that what waits reads in the order it was typed, which held with
the second of three prompts as the only command and fails with, for example, the third
(section 3 says how). That order is now part of `PromptsKept`, for prompts that need no
loading, and `KeptInOrder` asks of every step that it keeps the order it finds.

What stays with TLC: liveness (`Settles`, `WaitReturns`, `Reported`, `ShutdownEnds`,
`EveryCallEnds`, `NeverForever`) and ENABLED, which the prover has no means for, and the
refutations of section 5. Every safety property of a passing run is a theorem, but for the
safety part of `Reported`, which is one under `Slash = {}` by itself. No module declares
a RECURSIVE operator.

## 5. Findings

One run refutes a statement the repository makes about itself; `PROJECT.json` quotes the
lines. **`lease_takeover`** (`agent/session.ts:331`): two launches that take over one stale
lease can both hold it, since a file that was created but not yet written reads as stale, and
a stale file is removed by name whatever it is by then. The comment promises one holder.

Eleven further configurations are kept as demonstrations: each checks one statement that the
code does not keep, and TLC prints the shortest behaviour against it.

| configuration | module | property | what happens |
|---|---|---|---|
| `TaskWakeStale` | TaskWake | `OneTurnAtATime` | the drain effect and `submit()` test the status of the render they were created in (`tui/App.tsx:2571`, `2101`): a drain effect of an earlier commit that runs after an Enter has entered `runTurn()`, or an Enter before the commit that follows a drain, finds "idle" there and begins a second turn, though "the SDK runs one turn at a time" and a submission while a turn streams is said to be queued (`tui/App.tsx:2088`); no slash command and no job is needed |
| `TaskWakeOverlap` | TaskWake | `OverlapNeedsOldRender` | a slash command typed at an idle session is expanded with an await while the status is still idle (`tui/App.tsx:2503`): a second submission, or a wake, begins a turn of its own although what is shown is what is so |
| `TaskWakeStranded` | TaskWake | `NothingStranded` | the drain effect returns early on the `clearing` ref, which is not a dependency (`tui/App.tsx:2342`): when `/clear` fails, a wake that arrived meanwhile waits for an unrelated change |
| `DelegationsCap` | Delegations | `CapHolds` | the cap is compared once for a whole workflow while its slots are taken one by one across awaits (`agents/workflow-tool.ts:209`) |
| `DelegationsSlot` | Delegations | `EverySlotFreed` | a node whose model cannot be constructed has a record but is not in the array the `finally` sweep covers (`agents/workflow-tool.ts:236`): it holds a slot for the rest of the session |
| `DelegationsLate` | Delegations | `WithdrawnNeverInvoked` | `initialize()` and the `subagentStart` hook are awaited after the last look at the cancel signals (`agents/subagent-tool.ts:293`, `agents/workflow-tool.ts:345`): a dispatch that is cancelled there is invoked |
| `ToolCallsInterrupt` | MCToolCalls | `InterruptLeavesNoPrompt` | a call that waits for the classifier asks its question after the interrupt denied the questions (`agent/permission.ts:682`): a cancelled turn is left with a prompt |
| `PeerMessagesTwice` | MCPeerMessages | `ProcessedOnce` | a chain that expires while its message's own turn, or the continuation of that turn, is under way sends the notice that the message was never processed (`collaboration/local.ts:525`), and the sender's resend is processed too |
| `TurnRecordBoundary` | MCTurnRecord | `BoundaryIsOwn` | "Display boundaries must be recorded, never guessed" (`trajectory/rewind-history.ts:10`): a checkpoint whose prompt never reached the file finds, after a restart, another prompt that was given the same turn number |
| `TurnRecordElsewhere` | MCTurnRecord | `MemoryIsEarned` | the state lock is a map inside one process (`memory/state.ts:68`): a commit of one process restores what `/memory forget` removed in another, though "`forget` suppresses generated IDs so an exact forgotten fact cannot be restored" (`docs/user-guide/sessions-and-state.md:354`) |
| `TurnRecordCorrection` | MCTurnRecord | `CorrectionStands` | "Only `/memory edit\|forget` may move it" (`memory/store.ts`): once the evidence of a corrected fact moved, a commit under another key drops the entry, and a later turn may set its key again |

## 6. What the models leave out

- *BackgroundBash*: listing and rendering, log-file names, reads in the queue (see above),
  reuse of a process-group id by the operating system.
- *BackgroundOutput*: the decoded text; only which bytes a result holds.
- *TaskWake*: peer messages, goals, `!` shell commands, pickers, images, rendering. React
  commits the effects of a `/clear` at once, so a tail read that resolves between the reset
  of the queue and the removal of the old subscription is outside the model; so is a key or an effect between the two. The input handler is
  itself replaced in an effect, so a key may see a render slightly older than the last
  commit, which adds nothing to what an outdated render can do here. The permission prompt is
  read as an external store, that is, live. The order of
  prompts already *sent* is not promised by the queue and not checked.
- *Sessions*: snapshot and label contents, listing and deletion; whether a snapshot
  exists and what `last-session.json` names are left open, so every outcome of the
  selection is covered.
- *Delegations*: reports, retained conversations and `continue`, definition files, the
  permission requests of children. Two limits of the code noted while modelling:
  `shutdown()` does not latch the cancellation of a subagent whose model is under
  construction, and a failed child is retained for `continue` before its record settles. The
  cancel signal that is read after a construction is that of the turn which runs now, in the
  model as in the code: a background call whose turn was cancelled while its model was
  built, and after which the next turn has begun, goes on.
- *ToolCalls*: how an input is classified (rule grammar, dangerous commands, credential
  paths; the files protected from a peer's turn are one input, `save`), a call of an
  earlier turn's background child that meets the origin of a later turn, the text of questions and suggestions, PostToolUse hooks, the diff preview.
- *PeerMessages*: discovery, signatures and framing, the hub transport, the driver without a
  terminal, the flood windows, the policy file's lock, the denied latch, `/collaborate send`
  typed by the user outside a turn. A limit of the code noted while modelling: the
  continuation of a *human* turn begins a human turn again, with a fresh send budget.
- *Outbox*: recall and preferences, the projection of text, capacity and byte caps, the day's
  rollover, the preview check before a send by hand, contention for the ledger's own lock,
  the queue between two controllers of one process, the two-second limit of `close()`.
- *TurnRecord*: short writes (`handle.write` may write less than it was given), the 64 KiB
  window in which the tail is read, lines written by a process that has released its lease
  and is exiting, the candidates a `stage()` accepts after its last await, the screening of
  text, the caps of the store and of the catalogue. Seal and end are one step, as they
  run in one task.

## 7. Plan

What is left, in order of how much of the program depends on it:

1. The composition of Sessions and TurnRecord: what a session that lost the lease race does to
   the trajectory it shares; the rewind that restores a checkpoint as a start of a session.
2. Goals and peer messages as sources of prompts in TaskWake; retained conversations and
   `continue` in Delegations.
3. The hub transport as a third party of PeerMessages, with `hub-store.ts` and the stores of
   `../hub/src`; the MCP token store with its refresh under a file lock.
4. The order of output records in the headless driver; hook processes if BackgroundBash's
   cleanup can be reused as it is.

Proofs come with these models. Of the models there are, what is left unproved is
liveness.
