--------------------------- MODULE BackgroundBash ---------------------------
(***************************************************************************)
(* The lifecycle half of BackgroundBashManager: launching a detached       *)
(* process group, cleaning it up with SIGTERM and SIGKILL, settling the    *)
(* job, publishing its terminal snapshot, shutting the manager down, and   *)
(* the synchronous exit handler that is the last owner of every group.     *)
(*                                                                         *)
(* One step is the code between two awaits.  Processes are the             *)
(* environment: a leader exits and a group empties whenever it likes, and  *)
(* never has to.  The queue of a job (ManagedTask.serial) holds only the   *)
(* operations that change its lifecycle; reads only delay them.            *)
(***************************************************************************)
EXTENDS BackgroundJob, Sequences

VARIABLES
    phase,      \* how far launch() is, per job
    group,      \* the process group: "none", "alive" or "gone"
    closed,     \* the leader: "open", then its exit "zero" or "nonzero"
    heard,      \* jobs whose close callback ran
    serial,     \* operations waiting in ManagedTask.serial
    op,         \* the operation that is running, or "none"
    pc,         \* where cleanupProcessGroup() and finish() are
    stop,       \* stopPromise: "none", "pending" or "settled"
    active,     \* activeProcessGroups
    shutdown,   \* shutdown(): "open", "launches", "stopping" or "done"
    draining,   \* the running jobs shutdown() found and awaits
    exited,     \* the darwin process ended
    killed,     \* history: groups the exit handler sent SIGKILL
    gaveUp      \* history: jobs with a cleanup that outlived KILL_GRACE_MS

launchVars == <<phase, group, active>>
queueVars  == <<heard, serial, op, pc, stop>>
endVars    == <<shutdown, draining, exited, killed>>
vars == <<jobVars, launchVars, queueVars, endVars, closed, gaveUp>>

Closing == shutdown # "open"
StopRequested(t) == stop[t] # "none"
Launching == {"setup", "spawning", "closingHandle", "reaping"}
CleanupPc == {"probe", "term", "kill"}

BashInit ==
    /\ Init
    /\ phase = [t \in Task |-> "idle"]
    /\ group = [t \in Task |-> "none"]
    /\ closed = [t \in Task |-> "open"]
    /\ heard = {}
    /\ serial = [t \in Task |-> <<>>]
    /\ op = [t \in Task |-> "none"]
    /\ pc = [t \in Task |-> "idle"]
    /\ stop = [t \in Task |-> "none"]
    /\ active = {}
    /\ shutdown = "open"
    /\ draining = {}
    /\ exited = FALSE
    /\ killed = {}
    /\ gaveUp = {}

-----------------------------------------------------------------------------
\* launch()

\* start(): refused once closing, else in `launches` before its first await.
Start(t) ==
    /\ ~Closing
    /\ phase[t] = "idle"
    /\ phase' = [phase EXCEPT ![t] = "setup"]
    /\ UNCHANGED <<jobVars, queueVars, endVars, closed, gaveUp, group, active>>

\* mkdir, open or stat rejected: nothing was spawned.
SetupFails(t) ==
    /\ phase[t] = "setup"
    /\ phase' = [phase EXCEPT ![t] = "failed"]
    /\ UNCHANGED <<jobVars, queueVars, endVars, closed, gaveUp, group, active>>

\* The latch is read right before spawn(); the group is registered for the
\* exit handler before the event loop runs again.
Spawn(t) ==
    /\ phase[t] = "setup"
    /\ IF Closing
       THEN /\ phase' = [phase EXCEPT ![t] = "failed"]
            /\ UNCHANGED <<group, active>>
       ELSE /\ phase' = [phase EXCEPT ![t] = "spawning"]
            /\ group' = [group EXCEPT ![t] = "alive"]
            /\ active' = active \cup {t}
    /\ UNCHANGED <<jobVars, queueVars, endVars, closed, gaveUp>>

\* spawn() produced no pid: the error event rejects, with nothing to clean.
SpawnFails(t) ==
    /\ phase[t] = "setup"
    /\ ~Closing
    /\ phase' = [phase EXCEPT ![t] = "failed"]
    /\ UNCHANGED <<jobVars, queueVars, endVars, closed, gaveUp, group, active>>

\* An error event, or a failing close of the parent's descriptor, after the
\* child has a pid: launch() cleans its group up before it rejects.
LaunchFails(t) ==
    /\ phase[t] \in {"spawning", "closingHandle"}
    /\ phase' = [phase EXCEPT ![t] = "reaping"]
    /\ pc' = [pc EXCEPT ![t] = "probe"]
    /\ UNCHANGED <<jobVars, endVars, closed, gaveUp, group, active, heard,
                   serial, op, stop>>

SpawnConfirmed(t) ==
    /\ phase[t] = "spawning"
    /\ phase' = [phase EXCEPT ![t] = "closingHandle"]
    /\ UNCHANGED <<jobVars, queueVars, endVars, closed, gaveUp, group, active>>

\* The tail of launch(): tasks.set, publishActivity, closed.then.
Registered(t) ==
    /\ phase[t] = "closingHandle"
    /\ Register(t)
    /\ phase' = [phase EXCEPT ![t] = "tracked"]
    /\ UNCHANGED <<queueVars, endVars, closed, gaveUp, group, active>>

\* launch() rejects after its cleanup, whatever the cleanup returned.
Reaped(t) ==
    /\ phase[t] = "reaping"
    /\ pc[t] \in {"cleaned", "survived"}
    /\ phase' = [phase EXCEPT ![t] = "failed"]
    /\ pc' = [pc EXCEPT ![t] = "idle"]
    /\ UNCHANGED <<jobVars, endVars, closed, gaveUp, group, active, heard,
                   serial, op, stop>>

-----------------------------------------------------------------------------
\* cleanupProcessGroup() and waitForGroupExit()

\* A probe or a poll finds the group gone.
FindGone(t) ==
    /\ pc[t] \in CleanupPc
    /\ group[t] = "gone"
    /\ active' = active \ {t}
    /\ pc' = [pc EXCEPT ![t] = "cleaned"]
    /\ UNCHANGED <<jobVars, endVars, closed, gaveUp, phase, group, heard,
                   serial, op, stop>>

\* SIGTERM after the first probe, SIGKILL after TERM_GRACE_MS, and after
\* KILL_GRACE_MS the cleanup gives up; the group stays in `active`.
Escalate(t) ==
    /\ pc[t] \in CleanupPc
    /\ group[t] = "alive"
    /\ pc' = [pc EXCEPT ![t] = CASE @ = "probe" -> "term"
                                 [] @ = "term"  -> "kill"
                                 [] @ = "kill"  -> "survived"]
    /\ gaveUp' = IF pc[t] = "kill" THEN gaveUp \cup {t} ELSE gaveUp
    /\ UNCHANGED <<jobVars, launchVars, endVars, closed, heard, serial, op,
                   stop>>

-----------------------------------------------------------------------------
\* The two operations of a registered job, in the order of its queue

\* closed.then(...): the close event of the leader queues natural cleanup.
CloseCallback(t) ==
    /\ phase[t] = "tracked"
    /\ closed[t] # "open"
    /\ t \notin heard
    /\ heard' = heard \cup {t}
    /\ serial' = [serial EXCEPT ![t] = Append(@, "close")]
    /\ UNCHANGED <<jobVars, launchVars, endVars, closed, gaveUp, op, pc, stop>>

\* stop(): the first call on a running job sets the precedence at once and
\* queues the cleanup; a later call returns the same promise.
RequestStop(t) ==
    /\ phase[t] = "tracked"
    /\ state[t] = "running"
    /\ stop[t] = "none"
    /\ stop' = [stop EXCEPT ![t] = "pending"]
    /\ serial' = [serial EXCEPT ![t] = Append(@, "stop")]
    /\ UNCHANGED <<jobVars, launchVars, endVars, closed, gaveUp, heard, op, pc>>

\* Mutant: an operation that finds the job settled publishes it again.
BeginOpReplays(t) ==
    /\ op[t] = "none"
    /\ serial[t] # <<>>
    /\ serial' = [serial EXCEPT ![t] = Tail(@)]
    /\ op' = [op EXCEPT ![t] = Head(serial[t])]
    /\ pc' = [pc EXCEPT ![t] = IF state[t] = "running" THEN "probe"
                                                       ELSE "publish"]
    /\ UNCHANGED <<jobVars, launchVars, endVars, closed, gaveUp, heard, stop>>

\* An operation reaches the head of the queue: it cleans up a running job
\* and has nothing to do for a settled one.
BeginOp(t) ==
    /\ op[t] = "none"
    /\ serial[t] # <<>>
    /\ serial' = [serial EXCEPT ![t] = Tail(@)]
    /\ IF state[t] = "running"
       THEN /\ op' = [op EXCEPT ![t] = Head(serial[t])]
            /\ pc' = [pc EXCEPT ![t] = "probe"]
            /\ UNCHANGED stop
       ELSE /\ stop' = [stop EXCEPT ![t] =
                            IF Head(serial[t]) = "stop" THEN "settled" ELSE @]
            /\ UNCHANGED <<op, pc>>
    /\ UNCHANGED <<jobVars, launchVars, endVars, closed, gaveUp, heard>>

\* Mutants: the leader's exit passed on as it is; a close operation that
\* settles by the exit code alone.
OutcomeUnmapped(t) == IF StopRequested(t) THEN "stopped" ELSE closed[t]
OutcomeByCode(t) ==
    IF op[t] = "stop" THEN "stopped"
    ELSE IF closed[t] = "zero" THEN "succeeded" ELSE "failed"

\* The state the operation passes to finish(): stopRequested is read after
\* the cleanup, not when the callback was queued.
Outcome(t) ==
    IF op[t] = "stop" \/ StopRequested(t) THEN "stopped"
    ELSE IF closed[t] = "zero" THEN "succeeded" ELSE "failed"

\* Mutant: a snapshot that fails keeps the listeners from being called.
FinishSilently(t) ==
    /\ op[t] # "none"
    /\ pc[t] = "cleaned"
    /\ state[t] = "running"
    /\ state' = [state EXCEPT ![t] = Outcome(t)]
    /\ pc' = [pc EXCEPT ![t] = "idle"]
    /\ op' = [op EXCEPT ![t] = "none"]
    /\ UNCHANGED <<published, launchVars, endVars, closed, gaveUp, heard,
                   serial, stop>>

\* finish(), up to the await of its snapshot.
Finish(t) ==
    /\ op[t] # "none"
    /\ pc[t] = "cleaned"
    /\ state[t] = "running"
    /\ state' = [state EXCEPT ![t] = Outcome(t)]
    /\ pc' = [pc EXCEPT ![t] = "publish"]
    /\ UNCHANGED <<published, launchVars, endVars, closed, gaveUp, heard,
                   serial, op, stop>>

EndOp(t) ==
    /\ op' = [op EXCEPT ![t] = "none"]
    /\ pc' = [pc EXCEPT ![t] = "idle"]
    /\ stop' = [stop EXCEPT ![t] = IF op[t] = "stop" THEN "settled" ELSE @]

\* The rest of finish(): the listeners get the snapshot.
PublishSnapshot(t) ==
    /\ op[t] # "none"
    /\ pc[t] = "publish"
    /\ published' = [published EXCEPT ![t] = @ + 1]
    /\ EndOp(t)
    /\ UNCHANGED <<state, launchVars, endVars, closed, gaveUp, heard, serial>>

\* The group outlived SIGKILL: the operation ends, the job stays running.
Abandon(t) ==
    /\ op[t] # "none"
    /\ pc[t] = "survived"
    /\ EndOp(t)
    /\ UNCHANGED <<jobVars, launchVars, endVars, closed, gaveUp, heard, serial>>

-----------------------------------------------------------------------------
\* shutdown() and the exit handler

ShutdownBegin ==
    /\ shutdown = "open"
    /\ shutdown' = "launches"
    /\ UNCHANGED <<jobVars, launchVars, queueVars, closed, gaveUp, draining,
                   exited, killed>>

\* Mutant: the running jobs taken before the launches settle.
ShutdownStopEarly ==
    LET running == {t \in Task : state[t] = "running"}
        fresh == {t \in running : stop[t] = "none"}
    IN  /\ shutdown = "launches"
        /\ shutdown' = "stopping"
        /\ draining' = running
        /\ stop' = [t \in Task |-> IF t \in fresh THEN "pending" ELSE stop[t]]
        /\ serial' = [t \in Task |-> IF t \in fresh
                                     THEN Append(serial[t], "stop")
                                     ELSE serial[t]]
        /\ UNCHANGED <<jobVars, launchVars, closed, gaveUp, heard, op, pc,
                       exited, killed>>

\* Every launch settled: stop what runs, sharing a stop already requested.
ShutdownStop ==
    LET running == {t \in Task : state[t] = "running"}
        fresh == {t \in running : stop[t] = "none"}
    IN  /\ shutdown = "launches"
        /\ \A t \in Task : phase[t] \notin Launching
        /\ shutdown' = "stopping"
        /\ draining' = running
        /\ stop' = [t \in Task |-> IF t \in fresh THEN "pending" ELSE stop[t]]
        /\ serial' = [t \in Task |-> IF t \in fresh
                                     THEN Append(serial[t], "stop")
                                     ELSE serial[t]]
        /\ UNCHANGED <<jobVars, launchVars, closed, gaveUp, heard, op, pc,
                       exited, killed>>

ShutdownDone ==
    /\ shutdown = "stopping"
    /\ \A t \in draining : stop[t] = "settled"
    /\ shutdown' = "done"
    /\ UNCHANGED <<jobVars, launchVars, queueVars, closed, gaveUp, draining,
                   exited, killed>>

\* process.exit(), from a signal at any moment or after the shutdown.
ProcessExit ==
    /\ exited' = TRUE
    /\ killed' = active
    /\ UNCHANGED <<jobVars, launchVars, queueVars, closed, gaveUp, shutdown,
                   draining>>

-----------------------------------------------------------------------------
\* The processes

\* The leader ends by itself or by a signal; descendants may keep the group.
LeaderExits(t) ==
    /\ group[t] = "alive"
    /\ closed[t] = "open"
    /\ \E code \in {"zero", "nonzero"} : closed' = [closed EXCEPT ![t] = code]
    /\ UNCHANGED <<jobVars, launchVars, queueVars, endVars, gaveUp>>

GroupEmpties(t) ==
    /\ group[t] = "alive"
    /\ closed[t] # "open"
    /\ group' = [group EXCEPT ![t] = "gone"]
    /\ UNCHANGED <<jobVars, queueVars, endVars, closed, gaveUp, phase, active>>

-----------------------------------------------------------------------------
\* What the event loop runs for one job without being asked.
Progress(t) ==
    \/ SetupFails(t) \/ Spawn(t) \/ SpawnFails(t) \/ LaunchFails(t)
    \/ SpawnConfirmed(t) \/ Registered(t) \/ Reaped(t)
    \/ FindGone(t) \/ Escalate(t)
    \/ CloseCallback(t) \/ BeginOp(t) \/ Finish(t) \/ PublishSnapshot(t)
    \/ Abandon(t)

Manager ==
    \/ \E t \in Task : Start(t) \/ RequestStop(t) \/ Progress(t)
    \/ ShutdownBegin \/ ShutdownStop \/ ShutdownDone
    \/ ProcessExit

BashNext ==
    \/ ~exited /\ Manager
    \/ \E t \in Task : LeaderExits(t) \/ GroupEmpties(t)

BashSpec == BashInit /\ [][BashNext]_vars

\* The event loop serves every callback, timer and settled promise; nobody
\* has to start or stop a job, exit, or let a process die.
Fairness ==
    /\ \A t \in Task : WF_vars(~exited /\ Progress(t))
    /\ WF_vars(~exited /\ (ShutdownStop \/ ShutdownDone))

FairSpec == BashSpec /\ Fairness
-----------------------------------------------------------------------------
TypeOK ==
    /\ state \in [Task -> {"absent", "running"} \cup Terminal]
    /\ published \in [Task -> Nat]
    /\ phase \in [Task -> {"idle", "tracked", "failed"} \cup Launching]
    /\ group \in [Task -> {"none", "alive", "gone"}]
    /\ closed \in [Task -> {"open", "zero", "nonzero"}]
    /\ heard \subseteq Task
    /\ serial \in [Task -> Seq({"close", "stop"})]
    /\ op \in [Task -> {"none", "close", "stop"}]
    /\ pc \in [Task ->
                 {"idle", "cleaned", "survived", "publish"} \cup CleanupPc]
    /\ stop \in [Task -> {"none", "pending", "settled"}]
    /\ active \subseteq Task
    /\ shutdown \in {"open", "launches", "stopping", "done"}
    /\ draining \subseteq Task
    /\ exited \in BOOLEAN
    /\ killed \subseteq Task
    /\ gaveUp \subseteq Task

\* No process group outlives darwin without having been sent SIGKILL by the
\* exit handler, at whatever await of launch(), of a cleanup or of shutdown()
\* the exit came.
NoOrphan == exited => \A t \in Task : group[t] = "alive" => t \in killed

\* A terminal state is reported only when the whole process group is gone:
\* the leader's exit alone never settles a job.
TerminalMeansGone == \A t \in Task : state[t] \in Terminal => group[t] = "gone"

\* A stop requested while natural cleanup is under way wins the race, and
\* nothing else reports a job as stopped.
StopPrecedence ==
    [][\A t \in Task : state[t] = "running" /\ state'[t] \in Terminal
            => (StopRequested(t) <=> state'[t] = "stopped")]_vars

\* When shutdown() resolves no launch is under way, and the only groups still
\* alive are those a cleanup sent SIGKILL and waited for in vain.
ShutdownLeavesNothing ==
    shutdown = "done" => \A t \in Task : /\ phase[t] \notin Launching
                                         /\ group[t] = "alive" => t \in gaveUp

\* The manager answers for every process group it started, in each of these
\* three ways.
GroupsAccounted == NoOrphan /\ TerminalMeansGone /\ ShutdownLeavesNothing

\* The manager implements what its users rely on: a job settles once, and its
\* snapshot is published once, afterwards.
Job == INSTANCE BackgroundJob
JobSpec == Job!Spec

\* shutdown() resolves even if a launch is in flight or a group cannot be
\* killed.
ShutdownResolves == Closing ~> (shutdown = "done" \/ exited)

\* A job whose leader ended settles and is published, unless its group
\* outlived a SIGKILL.
EndedIsPublished ==
    \A t \in Task : (closed[t] # "open" /\ phase[t] = "tracked")
                        ~> (published[t] = 1 \/ t \in gaveUp \/ exited)

\* What was asked of the manager ends: a shutdown, and the life of a job.
Settles == ShutdownResolves /\ EndedIsPublished
=============================================================================
