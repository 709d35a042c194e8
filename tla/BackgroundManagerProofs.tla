---------------------- MODULE BackgroundManagerProofs ----------------------
(***************************************************************************)
(* Safety of BackgroundBashManager, in two parts that share no variable.   *)
(* The lifecycle of its jobs (BackgroundBash), for any set of jobs; and    *)
(* the output of a job (BackgroundOutput), for any readers, limit and      *)
(* logs: however the reads interleave, each byte comes back at most once,  *)
(* in a range that is what it says, and no code point is cut.              *)
(***************************************************************************)
EXTENDS BackgroundBash, BackgroundOutput, FiniteSetTheorems, SequenceTheorems, TLAPS

-----------------------------------------------------------------------------
(* The lifecycle of the jobs *)

\* The exit handler reaches exactly the groups in `active`: an alive group is
\* in it from the step that spawned it, and after the exit it was in it then.
Owned ==
    /\ \A t \in Task : group[t] = "alive" => t \in active
    /\ exited => \A t \in Task : group[t] = "alive" => t \in killed

\* What a program counter knows about the process group and the state.
Located ==
    \A t \in Task :
        /\ state[t] # "absent" => phase[t] = "tracked"
        /\ phase[t] \in {"idle", "setup"} => group[t] = "none"
        /\ phase[t] \in {"spawning", "closingHandle", "tracked"}
               => group[t] # "none"
        /\ pc[t] = "cleaned" => group[t] = "gone"
        /\ state[t] \in Terminal => group[t] = "gone"

\* Publication: at most once, after the job settled, by the operation that
\* settled it.
Published ==
    \A t \in Task :
        /\ published[t] \in {0, 1}
        /\ published[t] = 1 => state[t] \in Terminal
        /\ pc[t] = "publish" => state[t] \in Terminal /\ published[t] = 0

\* The queue of a job: only a registered job has one, a stop is queued or run
\* only after stopPromise was set, and a settled stop left nothing to do.
Queued ==
    \A t \in Task :
        /\ phase[t] = "tracked" <=> state[t] # "absent"
        /\ op[t] # "none" \/ serial[t] # <<>> => phase[t] = "tracked"
        /\ op[t] = "stop" => StopRequested(t)
        /\ \A i \in 1 .. Len(serial[t]) :
               serial[t][i] = "stop" => StopRequested(t)
        /\ stop[t] = "settled" => state[t] \in Terminal \/ t \in gaveUp
        /\ pc[t] = "publish" => state[t] \in Terminal
        /\ pc[t] = "survived" => t \in gaveUp
        /\ phase[t] = "failed" => group[t] # "alive" \/ t \in gaveUp

\* What shutdown() has established when it gets past its first await.
Drained ==
    /\ shutdown \in {"stopping", "done"} =>
           \A t \in Task : /\ phase[t] \notin Launching
                           /\ state[t] = "running" => t \in draining
    /\ shutdown = "done" => \A t \in draining : stop[t] = "settled"

IInv == TypeOK /\ Owned /\ Located /\ Published /\ Queued /\ Drained

-----------------------------------------------------------------------------
LEMMA InitInv == BashInit => IInv
<1>. SUFFICES ASSUME BashInit PROVE IInv
  OBVIOUS
<1>1. TypeOK
  <2>1. serial \in [Task -> Seq({"close", "stop"})]
    <3>1. <<>> \in Seq({"close", "stop"})
      OBVIOUS
    <3>. QED  BY <3>1 DEF BashInit
  <2>. QED
    BY <2>1 DEF BashInit, Init, TypeOK, Terminal, Launching, CleanupPc
<1>2. Owned /\ Located /\ Published /\ Queued /\ Drained
  BY DEF BashInit, Init, Owned, Located, Published, Queued, Drained,
         StopRequested, Terminal, Launching
<1>. QED  BY <1>1, <1>2 DEF IInv

LEMMA TypeStep == TypeOK /\ [BashNext]_vars => TypeOK'
<1>. SUFFICES ASSUME TypeOK, [BashNext]_vars PROVE TypeOK'
  OBVIOUS
<1>. USE DEF TypeOK, Terminal, Launching, CleanupPc, jobVars, launchVars,
              queueVars, endVars
<1>1. ASSUME NEW t \in Task, Start(t) PROVE TypeOK'
  BY <1>1 DEF Start
<1>2. ASSUME NEW t \in Task, SetupFails(t) PROVE TypeOK'
  BY <1>2 DEF SetupFails
<1>3. ASSUME NEW t \in Task, Spawn(t) PROVE TypeOK'
  <2>1. CASE Closing
    <3>1. /\ phase' = [phase EXCEPT ![t] = "failed"]
          /\ UNCHANGED <<group, active, jobVars, queueVars, endVars, closed,
                         gaveUp>>
      BY <1>3, <2>1 DEF Spawn, Closing
    <3>. QED  BY <3>1
  <2>2. CASE ~Closing
    <3>1. /\ phase' = [phase EXCEPT ![t] = "spawning"]
          /\ group' = [group EXCEPT ![t] = "alive"]
          /\ active' = active \cup {t}
          /\ UNCHANGED <<jobVars, queueVars, endVars, closed, gaveUp>>
      BY <1>3, <2>2 DEF Spawn, Closing
    <3>2. active' \subseteq Task
      BY <3>1
    <3>. QED  BY <3>1, <3>2
  <2>. QED  BY <2>1, <2>2
<1>4. ASSUME NEW t \in Task, SpawnFails(t) PROVE TypeOK'
  BY <1>4 DEF SpawnFails
<1>5. ASSUME NEW t \in Task, LaunchFails(t) PROVE TypeOK'
  BY <1>5 DEF LaunchFails
<1>6. ASSUME NEW t \in Task, SpawnConfirmed(t) PROVE TypeOK'
  BY <1>6 DEF SpawnConfirmed
<1>7. ASSUME NEW t \in Task, Registered(t) PROVE TypeOK'
  BY <1>7 DEF Registered, Register
<1>8. ASSUME NEW t \in Task, Reaped(t) PROVE TypeOK'
  BY <1>8 DEF Reaped
<1>9. ASSUME NEW t \in Task, FindGone(t) PROVE TypeOK'
  BY <1>9 DEF FindGone
<1>10. ASSUME NEW t \in Task, Escalate(t) PROVE TypeOK'
  BY <1>10 DEF Escalate
<1>11. ASSUME NEW t \in Task, CloseCallback(t) PROVE TypeOK'
  BY <1>11 DEF CloseCallback
<1>12. ASSUME NEW t \in Task, RequestStop(t) PROVE TypeOK'
  BY <1>12 DEF RequestStop
<1>13. ASSUME NEW t \in Task, BeginOp(t) PROVE TypeOK'
  <2>1. /\ serial' \in [Task -> Seq({"close", "stop"})]
        /\ Head(serial[t]) \in {"close", "stop"}
    BY <1>13 DEF BeginOp
  <2>2. CASE state[t] = "running"
    <3>1. /\ op' = [op EXCEPT ![t] = Head(serial[t])]
          /\ pc' = [pc EXCEPT ![t] = "probe"]
          /\ UNCHANGED <<stop, jobVars, launchVars, endVars, closed, gaveUp,
                         heard>>
      BY <1>13, <2>2 DEF BeginOp
    <3>. QED  BY <2>1, <3>1
  <2>3. CASE state[t] # "running"
    <3>1. /\ stop' = [stop EXCEPT ![t] =
                          IF Head(serial[t]) = "stop" THEN "settled" ELSE @]
          /\ UNCHANGED <<op, pc, jobVars, launchVars, endVars, closed, gaveUp,
                         heard>>
      BY <1>13, <2>3 DEF BeginOp
    <3>. QED  BY <2>1, <3>1
  <2>. QED  BY <2>2, <2>3
<1>14. ASSUME NEW t \in Task, Finish(t) PROVE TypeOK'
  BY <1>14 DEF Finish, Outcome, StopRequested
<1>15. ASSUME NEW t \in Task, PublishSnapshot(t) PROVE TypeOK'
  BY <1>15 DEF PublishSnapshot, EndOp
<1>16. ASSUME NEW t \in Task, Abandon(t) PROVE TypeOK'
  BY <1>16 DEF Abandon, EndOp
<1>17. ASSUME NEW t \in Task, LeaderExits(t) PROVE TypeOK'
  BY <1>17 DEF LeaderExits
<1>18. ASSUME NEW t \in Task, GroupEmpties(t) PROVE TypeOK'
  BY <1>18 DEF GroupEmpties
<1>19. CASE ShutdownBegin
  BY <1>19 DEF ShutdownBegin
<1>20. CASE ShutdownStop
  BY <1>20 DEF ShutdownStop
<1>21. CASE ShutdownDone
  BY <1>21 DEF ShutdownDone
<1>22. CASE ProcessExit
  BY <1>22 DEF ProcessExit
<1>23. CASE UNCHANGED vars
  BY <1>23 DEF vars
<1>. QED
  BY <1>1, <1>2, <1>3, <1>4, <1>5, <1>6, <1>7, <1>8, <1>9, <1>10, <1>11,
       <1>12, <1>13, <1>14, <1>15, <1>16, <1>17, <1>18, <1>19, <1>20, <1>21,
       <1>22, <1>23
  DEF BashNext, Manager, Progress

LEMMA OwnedStep == TypeOK /\ Owned /\ [BashNext]_vars => Owned'
<1>. SUFFICES ASSUME TypeOK /\ Owned, [BashNext]_vars PROVE Owned'
  OBVIOUS
<1>. USE DEF TypeOK, Owned, CleanupPc, jobVars, launchVars, queueVars, endVars
<1>1. ASSUME NEW t \in Task, Start(t) PROVE Owned'
  BY <1>1 DEF Start
<1>2. ASSUME NEW t \in Task, SetupFails(t) PROVE Owned'
  BY <1>2 DEF SetupFails
<1>3. ASSUME NEW t \in Task, ~exited, Spawn(t) PROVE Owned'
  BY <1>3 DEF Spawn, Closing
<1>4. ASSUME NEW t \in Task, SpawnFails(t) PROVE Owned'
  BY <1>4 DEF SpawnFails
<1>5. ASSUME NEW t \in Task, LaunchFails(t) PROVE Owned'
  BY <1>5 DEF LaunchFails
<1>6. ASSUME NEW t \in Task, SpawnConfirmed(t) PROVE Owned'
  BY <1>6 DEF SpawnConfirmed
<1>7. ASSUME NEW t \in Task, Registered(t) PROVE Owned'
  BY <1>7 DEF Registered, Register
<1>8. ASSUME NEW t \in Task, Reaped(t) PROVE Owned'
  BY <1>8 DEF Reaped
<1>9. ASSUME NEW t \in Task, FindGone(t) PROVE Owned'
  BY <1>9 DEF FindGone
<1>10. ASSUME NEW t \in Task, Escalate(t) PROVE Owned'
  BY <1>10 DEF Escalate
<1>11. ASSUME NEW t \in Task, CloseCallback(t) PROVE Owned'
  BY <1>11 DEF CloseCallback
<1>12. ASSUME NEW t \in Task, RequestStop(t) PROVE Owned'
  BY <1>12 DEF RequestStop
<1>13. ASSUME NEW t \in Task, BeginOp(t) PROVE Owned'
  BY <1>13 DEF BeginOp
<1>14. ASSUME NEW t \in Task, Finish(t) PROVE Owned'
  BY <1>14 DEF Finish, Outcome, StopRequested
<1>15. ASSUME NEW t \in Task, PublishSnapshot(t) PROVE Owned'
  BY <1>15 DEF PublishSnapshot, EndOp
<1>16. ASSUME NEW t \in Task, Abandon(t) PROVE Owned'
  BY <1>16 DEF Abandon, EndOp
<1>17. ASSUME NEW t \in Task, LeaderExits(t) PROVE Owned'
  BY <1>17 DEF LeaderExits
<1>18. ASSUME NEW t \in Task, GroupEmpties(t) PROVE Owned'
  BY <1>18 DEF GroupEmpties
<1>19. CASE ShutdownBegin
  BY <1>19 DEF ShutdownBegin
<1>20. CASE ShutdownStop
  BY <1>20 DEF ShutdownStop
<1>21. CASE ShutdownDone
  BY <1>21 DEF ShutdownDone
<1>22. CASE ProcessExit
  BY <1>22 DEF ProcessExit
<1>23. CASE UNCHANGED vars
  BY <1>23 DEF vars
<1>. QED
  BY <1>1, <1>2, <1>3, <1>4, <1>5, <1>6, <1>7, <1>8, <1>9, <1>10, <1>11,
       <1>12, <1>13, <1>14, <1>15, <1>16, <1>17, <1>18, <1>19, <1>20, <1>21,
       <1>22, <1>23
  DEF BashNext, Manager, Progress

LEMMA LocatedStep == TypeOK /\ Located /\ [BashNext]_vars => Located'
<1>. SUFFICES ASSUME TypeOK /\ Located, [BashNext]_vars PROVE Located'
  OBVIOUS
<1>. USE DEF TypeOK, Located, Terminal, Launching, CleanupPc, jobVars,
              launchVars, queueVars, endVars
<1>1. ASSUME NEW t \in Task, Start(t) PROVE Located'
  BY <1>1 DEF Start
<1>2. ASSUME NEW t \in Task, SetupFails(t) PROVE Located'
  BY <1>2 DEF SetupFails
<1>3. ASSUME NEW t \in Task, Spawn(t) PROVE Located'
  BY <1>3 DEF Spawn, Closing
<1>4. ASSUME NEW t \in Task, SpawnFails(t) PROVE Located'
  BY <1>4 DEF SpawnFails
<1>5. ASSUME NEW t \in Task, LaunchFails(t) PROVE Located'
  BY <1>5 DEF LaunchFails
<1>6. ASSUME NEW t \in Task, SpawnConfirmed(t) PROVE Located'
  BY <1>6 DEF SpawnConfirmed
<1>7. ASSUME NEW t \in Task, Registered(t) PROVE Located'
  BY <1>7 DEF Registered, Register
<1>8. ASSUME NEW t \in Task, Reaped(t) PROVE Located'
  BY <1>8 DEF Reaped
<1>9. ASSUME NEW t \in Task, FindGone(t) PROVE Located'
  BY <1>9 DEF FindGone
<1>10. ASSUME NEW t \in Task, Escalate(t) PROVE Located'
  BY <1>10 DEF Escalate
<1>11. ASSUME NEW t \in Task, CloseCallback(t) PROVE Located'
  BY <1>11 DEF CloseCallback
<1>12. ASSUME NEW t \in Task, RequestStop(t) PROVE Located'
  BY <1>12 DEF RequestStop
<1>13. ASSUME NEW t \in Task, BeginOp(t) PROVE Located'
  BY <1>13 DEF BeginOp
<1>14. ASSUME NEW t \in Task, Finish(t) PROVE Located'
  BY <1>14 DEF Finish, Outcome, StopRequested
<1>15. ASSUME NEW t \in Task, PublishSnapshot(t) PROVE Located'
  BY <1>15 DEF PublishSnapshot, EndOp
<1>16. ASSUME NEW t \in Task, Abandon(t) PROVE Located'
  BY <1>16 DEF Abandon, EndOp
<1>17. ASSUME NEW t \in Task, LeaderExits(t) PROVE Located'
  BY <1>17 DEF LeaderExits
<1>18. ASSUME NEW t \in Task, GroupEmpties(t) PROVE Located'
  BY <1>18 DEF GroupEmpties
<1>19. CASE ShutdownBegin
  BY <1>19 DEF ShutdownBegin
<1>20. CASE ShutdownStop
  BY <1>20 DEF ShutdownStop
<1>21. CASE ShutdownDone
  BY <1>21 DEF ShutdownDone
<1>22. CASE ProcessExit
  BY <1>22 DEF ProcessExit
<1>23. CASE UNCHANGED vars
  BY <1>23 DEF vars
<1>. QED
  BY <1>1, <1>2, <1>3, <1>4, <1>5, <1>6, <1>7, <1>8, <1>9, <1>10, <1>11,
       <1>12, <1>13, <1>14, <1>15, <1>16, <1>17, <1>18, <1>19, <1>20, <1>21,
       <1>22, <1>23
  DEF BashNext, Manager, Progress

LEMMA PublishedStep == TypeOK /\ Published /\ [BashNext]_vars => Published'
<1>. SUFFICES ASSUME TypeOK /\ Published, [BashNext]_vars PROVE Published'
  OBVIOUS
<1>. USE DEF TypeOK, Published, Terminal, CleanupPc, jobVars, launchVars,
              queueVars, endVars
<1>1. ASSUME NEW t \in Task, Start(t) PROVE Published'
  BY <1>1 DEF Start
<1>2. ASSUME NEW t \in Task, SetupFails(t) PROVE Published'
  BY <1>2 DEF SetupFails
<1>3. ASSUME NEW t \in Task, Spawn(t) PROVE Published'
  BY <1>3 DEF Spawn, Closing
<1>4. ASSUME NEW t \in Task, SpawnFails(t) PROVE Published'
  BY <1>4 DEF SpawnFails
<1>5. ASSUME NEW t \in Task, LaunchFails(t) PROVE Published'
  BY <1>5 DEF LaunchFails
<1>6. ASSUME NEW t \in Task, SpawnConfirmed(t) PROVE Published'
  BY <1>6 DEF SpawnConfirmed
<1>7. ASSUME NEW t \in Task, Registered(t) PROVE Published'
  BY <1>7 DEF Registered, Register
<1>8. ASSUME NEW t \in Task, Reaped(t) PROVE Published'
  BY <1>8 DEF Reaped
<1>9. ASSUME NEW t \in Task, FindGone(t) PROVE Published'
  BY <1>9 DEF FindGone
<1>10. ASSUME NEW t \in Task, Escalate(t) PROVE Published'
  BY <1>10 DEF Escalate
<1>11. ASSUME NEW t \in Task, CloseCallback(t) PROVE Published'
  BY <1>11 DEF CloseCallback
<1>12. ASSUME NEW t \in Task, RequestStop(t) PROVE Published'
  BY <1>12 DEF RequestStop
<1>13. ASSUME NEW t \in Task, BeginOp(t) PROVE Published'
  BY <1>13 DEF BeginOp
<1>14. ASSUME NEW t \in Task, Finish(t) PROVE Published'
  BY <1>14 DEF Finish, Outcome, StopRequested
<1>15. ASSUME NEW t \in Task, PublishSnapshot(t) PROVE Published'
  BY <1>15 DEF PublishSnapshot, EndOp
<1>16. ASSUME NEW t \in Task, Abandon(t) PROVE Published'
  BY <1>16 DEF Abandon, EndOp
<1>17. ASSUME NEW t \in Task, LeaderExits(t) PROVE Published'
  BY <1>17 DEF LeaderExits
<1>18. ASSUME NEW t \in Task, GroupEmpties(t) PROVE Published'
  BY <1>18 DEF GroupEmpties
<1>19. CASE ShutdownBegin
  BY <1>19 DEF ShutdownBegin
<1>20. CASE ShutdownStop
  BY <1>20 DEF ShutdownStop
<1>21. CASE ShutdownDone
  BY <1>21 DEF ShutdownDone
<1>22. CASE ProcessExit
  BY <1>22 DEF ProcessExit
<1>23. CASE UNCHANGED vars
  BY <1>23 DEF vars
<1>. QED
  BY <1>1, <1>2, <1>3, <1>4, <1>5, <1>6, <1>7, <1>8, <1>9, <1>10, <1>11,
       <1>12, <1>13, <1>14, <1>15, <1>16, <1>17, <1>18, <1>19, <1>20, <1>21,
       <1>22, <1>23
  DEF BashNext, Manager, Progress

LEMMA QueuedStep == TypeOK /\ Located /\ Queued /\ [BashNext]_vars => Queued'
<1>. SUFFICES ASSUME TypeOK /\ Located /\ Queued, [BashNext]_vars PROVE Queued'
  OBVIOUS
<1>. USE DEF TypeOK, Located, Queued, StopRequested, Terminal, Launching,
              CleanupPc, jobVars, launchVars, queueVars, endVars
<1>1. ASSUME NEW t \in Task, Start(t) PROVE Queued'
  BY <1>1 DEF Start
<1>2. ASSUME NEW t \in Task, SetupFails(t) PROVE Queued'
  BY <1>2 DEF SetupFails
<1>3. ASSUME NEW t \in Task, Spawn(t) PROVE Queued'
  BY <1>3 DEF Spawn, Closing
<1>4. ASSUME NEW t \in Task, SpawnFails(t) PROVE Queued'
  BY <1>4 DEF SpawnFails
<1>5. ASSUME NEW t \in Task, LaunchFails(t) PROVE Queued'
  BY <1>5 DEF LaunchFails
<1>6. ASSUME NEW t \in Task, SpawnConfirmed(t) PROVE Queued'
  BY <1>6 DEF SpawnConfirmed
<1>7. ASSUME NEW t \in Task, Registered(t) PROVE Queued'
  BY <1>7 DEF Registered, Register
<1>8. ASSUME NEW t \in Task, Reaped(t) PROVE Queued'
  BY <1>8 DEF Reaped
<1>9. ASSUME NEW t \in Task, FindGone(t) PROVE Queued'
  BY <1>9 DEF FindGone
<1>10. ASSUME NEW t \in Task, Escalate(t) PROVE Queued'
  BY <1>10 DEF Escalate
<1>11. ASSUME NEW t \in Task, CloseCallback(t) PROVE Queued'
  BY <1>11 DEF CloseCallback
<1>12. ASSUME NEW t \in Task, RequestStop(t) PROVE Queued'
  BY <1>12 DEF RequestStop
<1>13. ASSUME NEW t \in Task, BeginOp(t) PROVE Queued'
  BY <1>13 DEF BeginOp
<1>14. ASSUME NEW t \in Task, Finish(t) PROVE Queued'
  BY <1>14 DEF Finish, Outcome, StopRequested
<1>15. ASSUME NEW t \in Task, PublishSnapshot(t) PROVE Queued'
  BY <1>15 DEF PublishSnapshot, EndOp
<1>16. ASSUME NEW t \in Task, Abandon(t) PROVE Queued'
  BY <1>16 DEF Abandon, EndOp
<1>17. ASSUME NEW t \in Task, LeaderExits(t) PROVE Queued'
  BY <1>17 DEF LeaderExits
<1>18. ASSUME NEW t \in Task, GroupEmpties(t) PROVE Queued'
  BY <1>18 DEF GroupEmpties
<1>19. CASE ShutdownBegin
  BY <1>19 DEF ShutdownBegin
<1>20. CASE ShutdownStop
  BY <1>20 DEF ShutdownStop
<1>21. CASE ShutdownDone
  BY <1>21 DEF ShutdownDone
<1>22. CASE ProcessExit
  BY <1>22 DEF ProcessExit
<1>23. CASE UNCHANGED vars
  BY <1>23 DEF vars
<1>. QED
  BY <1>1, <1>2, <1>3, <1>4, <1>5, <1>6, <1>7, <1>8, <1>9, <1>10, <1>11,
       <1>12, <1>13, <1>14, <1>15, <1>16, <1>17, <1>18, <1>19, <1>20, <1>21,
       <1>22, <1>23
  DEF BashNext, Manager, Progress

LEMMA DrainedStep == TypeOK /\ Queued /\ Drained /\ [BashNext]_vars => Drained'
<1>. SUFFICES ASSUME TypeOK /\ Queued /\ Drained, [BashNext]_vars PROVE Drained'
  OBVIOUS
<1>. USE DEF TypeOK, Queued, Drained, Closing, Terminal, Launching, CleanupPc,
              jobVars, launchVars, queueVars, endVars
<1>1. ASSUME NEW t \in Task, Start(t) PROVE Drained'
  BY <1>1 DEF Start
<1>2. ASSUME NEW t \in Task, SetupFails(t) PROVE Drained'
  BY <1>2 DEF SetupFails
<1>3. ASSUME NEW t \in Task, Spawn(t) PROVE Drained'
  BY <1>3 DEF Spawn, Closing
<1>4. ASSUME NEW t \in Task, SpawnFails(t) PROVE Drained'
  BY <1>4 DEF SpawnFails
<1>5. ASSUME NEW t \in Task, LaunchFails(t) PROVE Drained'
  BY <1>5 DEF LaunchFails
<1>6. ASSUME NEW t \in Task, SpawnConfirmed(t) PROVE Drained'
  BY <1>6 DEF SpawnConfirmed
<1>7. ASSUME NEW t \in Task, Registered(t) PROVE Drained'
  BY <1>7 DEF Registered, Register
<1>8. ASSUME NEW t \in Task, Reaped(t) PROVE Drained'
  BY <1>8 DEF Reaped
<1>9. ASSUME NEW t \in Task, FindGone(t) PROVE Drained'
  BY <1>9 DEF FindGone
<1>10. ASSUME NEW t \in Task, Escalate(t) PROVE Drained'
  BY <1>10 DEF Escalate
<1>11. ASSUME NEW t \in Task, CloseCallback(t) PROVE Drained'
  BY <1>11 DEF CloseCallback
<1>12. ASSUME NEW t \in Task, RequestStop(t) PROVE Drained'
  BY <1>12 DEF RequestStop
<1>13. ASSUME NEW t \in Task, BeginOp(t) PROVE Drained'
  BY <1>13 DEF BeginOp
<1>14. ASSUME NEW t \in Task, Finish(t) PROVE Drained'
  BY <1>14 DEF Finish, Outcome, StopRequested
<1>15. ASSUME NEW t \in Task, PublishSnapshot(t) PROVE Drained'
  BY <1>15 DEF PublishSnapshot, EndOp
<1>16. ASSUME NEW t \in Task, Abandon(t) PROVE Drained'
  BY <1>16 DEF Abandon, EndOp
<1>17. ASSUME NEW t \in Task, LeaderExits(t) PROVE Drained'
  BY <1>17 DEF LeaderExits
<1>18. ASSUME NEW t \in Task, GroupEmpties(t) PROVE Drained'
  BY <1>18 DEF GroupEmpties
<1>19. CASE ShutdownBegin
  BY <1>19 DEF ShutdownBegin
<1>20. CASE ShutdownStop
  BY <1>20 DEF ShutdownStop
<1>21. CASE ShutdownDone
  BY <1>21 DEF ShutdownDone
<1>22. CASE ProcessExit
  BY <1>22 DEF ProcessExit
<1>23. CASE UNCHANGED vars
  BY <1>23 DEF vars
<1>. QED
  BY <1>1, <1>2, <1>3, <1>4, <1>5, <1>6, <1>7, <1>8, <1>9, <1>10, <1>11,
       <1>12, <1>13, <1>14, <1>15, <1>16, <1>17, <1>18, <1>19, <1>20, <1>21,
       <1>22, <1>23
  DEF BashNext, Manager, Progress

-----------------------------------------------------------------------------
\* The strengthened invariant holds in every reachable state.
THEOREM Invariance == BashSpec => []IInv
<1>1. IInv /\ [BashNext]_vars => IInv'
  BY TypeStep, OwnedStep, LocatedStep, PublishedStep, QueuedStep, DrainedStep
  DEF IInv
<1>. QED
  BY InitInv, <1>1, PTL DEF BashSpec

\* Every variable keeps its type, for any set of jobs.
THEOREM TypeCorrect == BashSpec => []TypeOK
BY Invariance, PTL DEF IInv

\* Whenever darwin exits, no process group it started is left alive without
\* having been sent SIGKILL.
THEOREM NoOrphanHolds == BashSpec => []NoOrphan
<1>1. IInv => NoOrphan
  BY DEF IInv, Owned, NoOrphan
<1>. QED
  BY Invariance, <1>1, PTL

\* A job is never reported terminal while its process group is alive.
THEOREM TerminalMeansGoneHolds == BashSpec => []TerminalMeansGone
<1>1. IInv => TerminalMeansGone
  BY DEF IInv, Located, TerminalMeansGone
<1>. QED
  BY Invariance, <1>1, PTL

\* When shutdown() resolves, no launch is in flight, and a group that is still
\* alive is one a cleanup sent SIGKILL and waited for.
THEOREM ShutdownLeavesNothingHolds == BashSpec => []ShutdownLeavesNothing
<1>1. IInv => ShutdownLeavesNothing
  <2>. SUFFICES ASSUME IInv, shutdown = "done", NEW t \in Task
                PROVE  /\ phase[t] \notin Launching
                       /\ group[t] = "alive" => t \in gaveUp
    BY DEF ShutdownLeavesNothing
  <2>. USE DEF IInv
  <2>1. phase[t] \notin Launching
    BY DEF Drained
  <2>2. ASSUME group[t] = "alive" PROVE t \in gaveUp
    <3>1. phase[t] \in {"tracked", "failed"}
      BY <2>1, <2>2 DEF TypeOK, Launching, Located
    <3>2. CASE phase[t] = "failed"
      BY <2>2, <3>2 DEF Queued
    <3>3. CASE phase[t] = "tracked"
      <4>1. state[t] = "running"
        BY <2>2, <3>3 DEF TypeOK, Queued, Located
      <4>2. stop[t] = "settled"
        BY <4>1 DEF Drained
      <4>. QED
        BY <4>1, <4>2 DEF Queued, Terminal
    <3>. QED
      BY <3>1, <3>2, <3>3
  <2>. QED
    BY <2>1, <2>2
<1>. QED
  BY Invariance, <1>1, PTL

\* No group is orphaned, none is alive behind a terminal state, and none but a
\* survivor of SIGKILL is left by shutdown(), for any set of jobs.
THEOREM GroupsAccountedHolds == BashSpec => []GroupsAccounted
<1>1. NoOrphan /\ TerminalMeansGone /\ ShutdownLeavesNothing => GroupsAccounted
  BY DEF GroupsAccounted
<1>. QED
  BY NoOrphanHolds, TerminalMeansGoneHolds, ShutdownLeavesNothingHolds, <1>1, PTL

\* A step that settles a job reports it stopped exactly when a stop was
\* requested before that step.
THEOREM StopPrecedenceHolds == BashSpec => StopPrecedence
<1>. DEFINE Ending(t) == state[t] = "running" /\ state'[t] \in Terminal
<1>1. IInv /\ [BashNext]_vars =>
        \A t \in Task : Ending(t) => (StopRequested(t) <=> state'[t] = "stopped")
  <2>. SUFFICES ASSUME IInv, [BashNext]_vars, NEW t \in Task, Ending(t)
                PROVE  StopRequested(t) <=> state'[t] = "stopped"
    OBVIOUS
  <2>. USE DEF IInv, TypeOK
  <2>1. PICK u \in Task : Registered(u) \/ Finish(u)
    <3>1. state' # state
      BY DEF Terminal
    <3>. QED
      BY <3>1 DEF BashNext, Manager, Progress, vars, jobVars, Start,
         SetupFails, Spawn, SpawnFails, LaunchFails, SpawnConfirmed, Reaped,
         FindGone, Escalate, CloseCallback, RequestStop, BeginOp,
         PublishSnapshot, Abandon, LeaderExits, GroupEmpties, ShutdownBegin,
         ShutdownStop, ShutdownDone, ProcessExit
  <2>2. ~Registered(u)
    BY DEF Registered, Register, Terminal
  <2>3. u = t /\ state'[t] = Outcome(t) /\ op[t] # "none"
    <3>1. /\ op[u] # "none"
          /\ state' = [state EXCEPT ![u] = Outcome(u)]
      BY <2>1, <2>2 DEF Finish
    <3>2. u = t
      BY <3>1 DEF Terminal
    <3>. QED
      BY <3>1, <3>2
  <2>4. op[t] = "stop" => StopRequested(t)
    BY DEF Queued
  <2>. QED
    BY <2>3, <2>4 DEF Outcome
<1>. QED
  BY Invariance, <1>1, PTL DEF BashSpec, StopPrecedence

\* The manager implements BackgroundJob: every step registers, settles or
\* publishes a job as the abstract specification allows, or changes neither
\* its state nor what was published.
THEOREM Implements == BashSpec => JobSpec
<1>1. BashInit => Job!Init
  BY DEF BashInit, Init, Job!Init
<1>2. IInv /\ [BashNext]_vars => [Job!Next]_(Job!jobVars)
  <2>. SUFFICES ASSUME IInv, [BashNext]_vars PROVE [Job!Next]_(Job!jobVars)
    OBVIOUS
  <2>. USE DEF IInv, TypeOK, Job!jobVars, Job!Next, Job!Terminal
  <2>1. CASE UNCHANGED jobVars
    BY <2>1 DEF jobVars
  <2>2. ASSUME NEW t \in Task, Registered(t) PROVE Job!Register(t)
    BY <2>2 DEF Registered, Register, Job!Register
  <2>3. ASSUME NEW t \in Task, Finish(t) PROVE Job!Settle(t)
    BY <2>3 DEF Finish, Job!Settle, Outcome, TypeOK
  <2>4. ASSUME NEW t \in Task, PublishSnapshot(t) PROVE Job!Publish(t)
    <3>1. state[t] \in Terminal /\ published[t] = 0
      BY <2>4 DEF PublishSnapshot, Published
    <3>2. published' = [published EXCEPT ![t] = 1] /\ state' = state
      BY <2>4, <3>1 DEF PublishSnapshot
    <3>. QED
      BY <3>1, <3>2 DEF Job!Publish, Terminal
  <2>. QED
    BY <2>1, <2>2, <2>3, <2>4
       DEF BashNext, Manager, Progress, vars, jobVars, Start,
         SetupFails, Spawn, SpawnFails, LaunchFails, SpawnConfirmed, Reaped,
         FindGone, Escalate, CloseCallback, RequestStop, BeginOp,
         Abandon, LeaderExits, GroupEmpties, ShutdownBegin,
         ShutdownStop, ShutdownDone, ProcessExit
<1>. QED
  BY Invariance, <1>1, <1>2, PTL DEF BashSpec, JobSpec, Job!Spec

-----------------------------------------------------------------------------
(* The output of a job *)

-----------------------------------------------------------------------------
(* The inductive invariant *)

Byte == {"a", "2", "3", "4", "c", "o", "x"}

\* The shapes of the variables.
ByteRange == [start : Nat, end : Nat, bytes : SUBSET Nat]
CallState == [kind : Kinds \cup {"none"}, at : {"idle", "queued", "reading", "sleeping"},
              final : Ends \cup {NoReason}, from : Nat, size : Nat, start : Nat, held : ByteRange,
              urge : {"none", "late", "aborted"}]
AnswerState == [reason : Reasons \cup {NoReason}, running : BOOLEAN, range : ByteRange]
Shape ==
    /\ log \in Logs /\ log \in Seq(Byte)
    /\ written \in 0 .. Len(log) /\ cursor \in 0 .. written
    /\ running \in BOOLEAN /\ closing \in BOOLEAN
    /\ queue \in Seq(Reader) /\ call \in [Reader -> CallState] /\ answer \in AnswerState
    /\ given \in [1 .. Len(log) -> Nat] /\ lost \in SUBSET (1 .. Len(log))

\* A range that is what its offsets say, behind the cursor n.
Honest(g, n) == g.start <= g.end /\ g.end <= n /\ g.bytes = g.start + 1 .. g.end

\* A call c when the cursor is at n, the file has m bytes and is complete or not:
\* a read under way started at the cursor, and has seen all of a complete file;
\* only a terminal wait holds anything between its reads.
Placed(c, n, m, complete) ==
    /\ c.from <= n /\ c.start <= c.size /\ c.size <= m
    /\ c.at = "reading" => c.start = n /\ (complete => c.size = m)
    /\ c.kind # "terminal" \/ c.at = "idle" => c.held.bytes = {}
    /\ Honest(c.held, n)
Serial ==
    /\ \A r \in Reader : /\ Placed(call[r], cursor, written, ~running)
                         /\ call[r].at = "reading" => queue # <<>> /\ r = Head(queue)
    /\ Honest(answer.range, cursor)
    /\ answer.reason \in {"timeout", "cancelled", "shutdown"} => answer.running

\* Where a byte behind the cursor is: it came back, or it was lost, or a call
\* holds it; and it is in one place only.
Once ==
    \A i \in 1 .. Len(log) :
        /\ given[i] <= 1
        /\ i > cursor => given[i] = 0 /\ i \notin lost
        /\ i <= cursor => \/ given[i] = 1
                          \/ i \in lost
                          \/ \E r \in Reader : i \in call[r].held.bytes
        /\ i \in lost => given[i] = 0
        /\ \A r \in Reader : i \in call[r].held.bytes =>
              /\ given[i] = 0 /\ i \notin lost
              /\ \A s \in Reader : i \in call[s].held.bytes => s = r

\* How many bytes a byte that leads a code point stands for.
Span == [b \in Byte |-> CASE b = "2" -> 2 [] b = "3" -> 3 [] b = "4" -> 4 [] OTHER -> 1]

\* The offset n falls inside a code point of the first m bytes of data.
Splits(data, n, m) ==
    \E s \in 1 .. n : /\ n < s + Span[data[s]] - 1
                      /\ s + Span[data[s]] - 1 <= m
                      /\ \A k \in s + 1 .. s + Span[data[s]] - 1 : data[k] = "c"

\* How much of the log there will ever be.
Extent == IF running THEN Len(log) ELSE written
Whole ==
    /\ ~Splits(log, cursor, Extent)
    /\ \A r \in Reader : ~Splits(log, call[r].held.end, Extent)
    /\ ~Splits(log, answer.range.end, Extent)

OutputInv == Shape /\ Serial /\ Once /\ Whole

-----------------------------------------------------------------------------
(* Where a read stops *)

\* The widths of bytes: what stands for more than itself is no continuation.
LEMMA ByteIs ==
    ASSUME NEW b \in Byte
    PROVE  /\ Width[b] \in 1 .. 4 /\ Span[b] \in 1 .. 4
           /\ Span[b] > 1 => Width[b] = Span[b] /\ b # "c"
BY DEF Byte, Width, Span

\* A read stops inside a code point of its bytes only if a continuation is
\* missing from it; and at the end of a file, or well before it, it stops no
\* earlier than it was asked to.
LEMMA BoundaryIs ==
    ASSUME NEW data \in Seq(Byte), NEW b \in 1 .. Len(data), NEW eof \in BOOLEAN
    PROVE  /\ Boundary(data, b, eof) \in 0 .. Len(data)
           /\ eof \/ b + 3 <= Len(data) => Boundary(data, b, eof) >= b
           /\ \A m \in Nat : (eof => m <= Len(data)) => 
                 \A s \in 1 .. Boundary(data, b, eof) :
                    /\ Boundary(data, b, eof) < s + Span[data[s]] - 1
                    /\ s + Span[data[s]] - 1 <= m
                    => \E k \in s + 1 .. s + Span[data[s]] - 1 :
                          k <= Len(data) /\ data[k] # "c"
<1>. DEFINE low == IF b > 3 THEN b - 3 ELSE 0
            leads == {j \in low .. b - 1 : data[j + 1] # "c"}
            lead == IF leads = {} THEN low - 1
                    ELSE CHOOSE j \in leads : \A k \in leads : k <= j
            needed == Width[data[lead + 1]] - (b - lead)
            B == IF b = 0 \/ (eof /\ b = Len(data)) \/ lead < 0 \/ needed <= 0 THEN b
                 ELSE IF b + needed > Len(data) THEN (IF eof THEN b ELSE lead)
                 ELSE IF \A k \in 1 .. needed : data[b + k] = "c" THEN b + needed ELSE b
<1>1. Boundary(data, b, eof) = B
  BY Zenon DEF Boundary
<1>2. low \in Nat /\ low < b /\ b - low <= 3 /\ (low = 0 \/ low = b - 3) /\ b \in Nat
      /\ Len(data) \in Nat /\ b <= Len(data) /\ b >= 1
  OBVIOUS
<1>3. \A i \in 1 .. Len(data) :
         /\ data[i] \in Byte /\ Width[data[i]] \in 1 .. 4 /\ Span[data[i]] \in 1 .. 4
         /\ Span[data[i]] > 1 => Width[data[i]] = Span[data[i]] /\ data[i] # "c"
  BY ByteIs
<1>4. leads # {} => lead \in leads /\ \A k \in leads : k <= lead
  <2>1. ASSUME leads # {} PROVE \E j \in leads : \A k \in leads : k <= j
    <3>1. \A k \in leads : k \in Nat /\ k <= b - 1 /\ (k = b - 1 \/ k = b - 2 \/ k = b - 3)
      BY <1>2
    <3>. HIDE DEF leads
    <3>2. CASE b - 1 \in leads
      BY <3>1, <3>2
    <3>3. CASE b - 1 \notin leads /\ b - 2 \in leads
      BY <3>1, <3>3, <1>2
    <3>4. CASE b - 1 \notin leads /\ b - 2 \notin leads
      BY <3>1, <3>4, <2>1, <1>2
    <3>. QED
      BY <3>2, <3>3, <3>4
  <2>. HIDE DEF leads
  <2>. QED
    BY <2>1
<1>5. /\ lead \in Int /\ lead < b /\ lead >= -1
      /\ lead \in leads => lead >= low /\ data[lead + 1] # "c"
      /\ leads = {} => lead = low - 1
      /\ \A j \in low .. b - 1 : data[j + 1] # "c" => lead \in leads /\ j <= lead
  <2>1. \A j \in leads : j \in low .. b - 1 /\ data[j + 1] # "c"
    OBVIOUS
  <2>2. \A j \in low .. b - 1 : data[j + 1] # "c" => j \in leads
    OBVIOUS
  <2>3. leads = {} => lead = low - 1
    OBVIOUS
  <2>. HIDE DEF leads, lead, low
  <2>. QED
    BY <1>2, <1>4, <2>1, <2>2, <2>3
<1>6. lead >= 0 => /\ lead + 1 \in 1 .. Len(data) /\ Width[data[lead + 1]] \in 1 .. 4
                   /\ needed \in Int /\ needed <= 3
                   /\ needed = Width[data[lead + 1]] - (b - lead)
  <2>1. lead >= 0 => lead + 1 \in 1 .. Len(data)
    <3>. HIDE DEF lead
    <3>. QED
      BY <1>2, <1>5
  <2>2. lead >= 0 => Width[data[lead + 1]] \in 1 .. 4
    <3>. HIDE DEF lead
    <3>. QED
      BY <1>3, <2>1
  <2>. HIDE DEF lead
  <2>. QED
    BY <1>2, <1>5, <2>1, <2>2
<1>7. leads = {} /\ lead >= 0 => needed <= 0
  <2>1. leads = {} /\ lead >= 0 => b - lead = 4
    <3>. HIDE DEF leads, lead, low
    <3>. QED
      BY <1>2, <1>5
  <2>. HIDE DEF leads, lead, low, needed
  <2>. QED
    BY <1>6, <2>1, <1>5, <1>2
<1>8. B \in 0 .. Len(data) /\ (eof \/ b + 3 <= Len(data) => B >= b)
  <2>. HIDE DEF leads, lead, low, needed
  <2>. QED
    BY <1>2, <1>5, <1>6
<1>9. ASSUME NEW m \in Nat, eof => m <= Len(data), NEW s \in 1 .. B,
             B < s + Span[data[s]] - 1, s + Span[data[s]] - 1 <= m
      PROVE  \E k \in s + 1 .. s + Span[data[s]] - 1 : k <= Len(data) /\ data[k] # "c"
  <2>1. PICK w \in 2 .. 4 : w = Span[data[s]] /\ w = Width[data[s]] /\ data[s] # "c"
    <3>. HIDE DEF B
    <3>1. s \in 1 .. Len(data)
      BY <1>8
    <3>. QED
      BY <1>3, <1>8, <1>9, <3>1, SMTT(30)
  <2>. HIDE DEF leads, lead, low, needed
  <2>2. ASSUME s <= b, b < s + w - 1
        PROVE  /\ lead \in leads /\ s - 1 <= lead
               /\ s - 1 # lead => /\ lead + 1 \in s + 1 .. s + w - 1 /\ lead + 1 <= Len(data)
                                  /\ data[lead + 1] # "c"
               /\ s - 1 = lead => needed = s + w - 1 - b
    <3>1. s - 1 \in low .. b - 1 /\ data[(s - 1) + 1] # "c"
      BY <1>2, <2>1, <2>2
    <3>2. lead \in leads /\ s - 1 <= lead
      BY <1>5, <3>1
    <3>3. lead \in Int /\ s \in Nat /\ lead < b /\ w \in Nat /\ lead >= 0
      BY <1>2, <1>5, <2>1, <3>2, SMTT(30)
    <3>4. CASE s - 1 = lead
      <4>1. lead + 1 = s
        BY <3>3, <3>4
      <4>2. needed = w - (b - lead)
        BY <1>6, <2>1, <3>3, <4>1
      <4>. QED
        BY <1>2, <3>2, <3>3, <3>4, <4>2
    <3>5. CASE s - 1 # lead
      <4>1. lead + 1 \in s + 1 .. s + w - 1
        BY <1>2, <2>2, <3>2, <3>3, <3>5
      <4>2. lead + 1 <= Len(data) /\ data[lead + 1] # "c"
        BY <1>5, <1>6, <3>2, <3>3
      <4>. QED
        BY <3>2, <3>5, <4>1, <4>2
    <3>. QED
      BY <3>4, <3>5
  <2>3. CASE B = b
    <3>1. s <= b /\ b < s + w - 1
      BY <2>1, <2>3, <1>9
    <3>2. CASE s - 1 # lead
      BY <2>1, <2>2, <3>1, <3>2
    <3>3. CASE s - 1 = lead
      <4>1. needed = s + w - 1 - b /\ needed > 0 /\ needed \in Nat /\ lead >= 0
        BY <1>2, <2>2, <3>1, <3>3
      <4>2. PICK k \in 1 .. needed : b + needed <= Len(data) /\ data[b + k] # "c"
        <5>1. ~(eof /\ b + needed > Len(data))
          BY <1>2, <1>9, <2>1, <4>1
        <5>2. ~(eof /\ b = Len(data))
          BY <1>2, <4>1, <5>1
        <5>3. ~(~eof /\ b + needed > Len(data))
          BY <1>2, <2>3, <4>1, <5>2, <3>3
        <5>4. b # 0 /\ ~(lead < 0) /\ ~(needed <= 0) /\ ~(b + needed > Len(data))
              /\ b + needed # b
          BY <1>2, <1>5, <4>1, <5>1, <5>3
        <5>5. ~ \A k \in 1 .. needed : data[b + k] = "c"
          BY <2>3, <5>2, <5>4
        <5>6. b + needed <= Len(data)
          BY <1>2, <4>1, <5>4
        <5>. QED
          BY <5>5, <5>6
      <4>3. b + k \in s + 1 .. s + w - 1 /\ b + k <= Len(data)
        <5>1. /\ b \in Nat /\ s \in Nat /\ w \in Nat /\ k \in Nat /\ Len(data) \in Nat
              /\ s <= b /\ needed = s + w - 1 - b /\ needed \in Nat /\ k >= 1 /\ k <= needed
              /\ b + needed <= Len(data)
          BY <1>2, <3>1, <4>1, <4>2
        <5>. QED
          BY <5>1
      <4>. QED
        BY <2>1, <4>2, <4>3
    <3>. QED
      BY <3>2, <3>3
  <2>4. CASE B = lead /\ lead >= 0 /\ needed > 0
    <3>1. leads # {} /\ lead \in leads
      BY <1>4, <1>6, <1>7, <2>4
    <3>2. lead + 1 \in s + 1 .. s + w - 1 /\ lead + 1 <= Len(data) /\ data[lead + 1] # "c"
      BY <1>2, <1>5, <1>9, <2>1, <2>4, <3>1, SMTT(30)
    <3>. QED
      BY <2>1, <3>2
  <2>5. CASE B = b + needed /\ lead >= 0 /\ needed > 0
             /\ \A k \in 1 .. needed : data[b + k] = "c"
    <3>1. s <= b
      <4>1. SUFFICES ASSUME s > b PROVE FALSE
        BY <1>2
      <4>2. s - b \in 1 .. needed /\ s = b + (s - b)
        BY <1>2, <1>6, <2>5, <4>1
      <4>3. data[s] = "c"
        BY <2>5, <4>2
      <4>. QED
        BY <2>1, <4>3
    <3>2. b < s + w - 1
      BY <1>2, <1>6, <1>9, <2>1, <2>5
    <3>3. s - 1 # lead
      BY <1>2, <1>6, <1>9, <2>1, <2>2, <2>5, <3>1, <3>2, SMTT(30)
    <3>. QED
      BY <2>1, <2>2, <3>1, <3>2, <3>3
  <2>6. \/ B = b
        \/ B = lead /\ lead >= 0 /\ needed > 0
        \/ /\ B = b + needed /\ lead >= 0 /\ needed > 0
           /\ \A k \in 1 .. needed : data[b + k] = "c"
    BY <1>2, <1>5, <1>6
  <2>. QED
    BY <2>3, <2>4, <2>5, <2>6
<1>. HIDE DEF B
<1>. QED
  BY <1>1, <1>8, <1>9

\* A read takes the bytes that follow its start, no more than there are, and
\* stops outside every code point of the log; in a complete file it gets on.
LEMMA ReadIs ==
    ASSUME Shape, NEW start \in Nat, NEW size \in Nat, NEW limit \in Nat, limit >= 1,
           start <= size, size <= written, ~running => size = written,
           ~Splits(log, start, Extent)
    PROVE  \E n \in 0 .. size - start :
              /\ Read(start, size, limit) = [start |-> start, end |-> start + n,
                                             bytes |-> start + 1 .. start + n]
              /\ ~Splits(log, start + n, Extent)
              /\ ~running /\ size > start => n > 0
<1>. DEFINE least(a, b) == IF a < b THEN a ELSE b
            count == least(size - start, limit + 3)
            data == SubSeq(log, start + 1, start + count)
            eof == ~running /\ start + count >= size
            b == least(limit, count)
            n == IF count = 0 THEN 0 ELSE Boundary(data, b, eof)
<1>1. Read(start, size, limit) = [start |-> start, end |-> start + n,
                                  bytes |-> start + 1 .. start + n]
  BY DEF Read
<1>2. /\ log \in Seq(Byte) /\ written \in 0 .. Len(log) /\ running \in BOOLEAN
      /\ Extent \in Nat /\ Extent >= written /\ (~running => Extent = written)
  BY DEF Shape, Extent
<1>3. /\ count \in Nat /\ count <= size - start /\ (count = size - start \/ count = limit + 3)
      /\ size > start => count > 0
      /\ b \in Nat /\ b <= count /\ b <= limit /\ (count > 0 => b > 0)
  OBVIOUS
<1>4. start + count <= Len(log)
  BY <1>2, <1>3
<1>. HIDE DEF count, b
<1>5. CASE count = 0
  <2>1. n = 0 /\ start + 0 = start
    BY <1>5
  <2>2. ~Splits(log, start + n, Extent)
    BY <2>1
  <2>3. n \in 0 .. size - start /\ ~(size > start)
    BY <1>3, <1>5, <2>1
  <2>. QED
    BY <1>1, <2>2, <2>3
<1>6. CASE count > 0
  <2>1. /\ data \in Seq(Byte) /\ Len(data) = count
        /\ \A i \in 1 .. count : data[i] = log[start + i] /\ start + i \in 1 .. Len(log)
    <3>1. PICK p, q \in Int : p = start + 1 /\ q = start + count
      BY <1>3, start + 1 \in Int, start + count \in Int
    <3>2. /\ p \in 1 .. Len(log) + 1 /\ q \in p - 1 .. Len(log)
          /\ p <= q + 1 /\ q - p + 1 = count
      BY <1>2, <1>3, <1>4, <3>1
    <3>3. SubSeq(log, p, q) \in Seq(Byte) /\ Len(SubSeq(log, p, q)) = count
          /\ \A i \in 1 .. count : SubSeq(log, p, q)[i] = log[p + i - 1]
      BY <1>2, <3>2, SubSeqProperties
    <3>4. \A i \in 1 .. count : p + i - 1 = start + i /\ start + i \in 1 .. Len(log)
      BY <1>2, <1>3, <1>4, <3>1
    <3>. QED
      BY <3>1, <3>3, <3>4
  <2>. HIDE DEF data
  <2>2. b \in 1 .. Len(data) /\ eof \in BOOLEAN
    BY <1>2, <1>3, <1>6, <2>1
  <2>3. n = Boundary(data, b, eof)
    BY <1>3, <1>6
  <2>4. eof => count = size - start
    BY <1>3
  <2>5. ~running /\ ~eof => count = limit + 3
    BY <1>3
  <2>. HIDE DEF eof
  <2>. HIDE DEF n
  <2>6. /\ n \in 0 .. count /\ (eof \/ b + 3 <= count => n >= b)
        /\ \A m \in Nat : (eof => m <= count) =>
              \A s \in 1 .. n : n < s + Span[data[s]] - 1 /\ s + Span[data[s]] - 1 <= m
                    => \E k \in s + 1 .. s + Span[data[s]] - 1 : k <= count /\ data[k] # "c"
    <3>1. PICK l \in Nat : l = Len(data) /\ l = count
      BY <1>3, <2>1
    <3>2. PICK B : B = Boundary(data, b, eof)
      OBVIOUS
    <3>3. /\ B \in 0 .. l /\ (eof \/ b + 3 <= l => B >= b)
          /\ \A m \in Nat : (eof => m <= l) =>
                \A s \in 1 .. B : B < s + Span[data[s]] - 1 /\ s + Span[data[s]] - 1 <= m
                      => \E k \in s + 1 .. s + Span[data[s]] - 1 : k <= l /\ data[k] # "c"
      <4>1. /\ Boundary(data, b, eof) \in 0 .. Len(data)
            /\ eof \/ b + 3 <= Len(data) => Boundary(data, b, eof) >= b
            /\ \A m \in Nat : (eof => m <= Len(data)) =>
                  \A s \in 1 .. Boundary(data, b, eof) :
                     /\ Boundary(data, b, eof) < s + Span[data[s]] - 1
                     /\ s + Span[data[s]] - 1 <= m
                     => \E k \in s + 1 .. s + Span[data[s]] - 1 :
                           k <= Len(data) /\ data[k] # "c"
        BY <2>1, <2>2, BoundaryIs, Zenon
      <4>. QED
        BY <3>1, <3>2, <4>1
    <3>. QED
      BY <2>3, <3>1, <3>2, <3>3
  <2>7. n \in 0 .. size - start
    BY <1>3, <2>6
  <2>8. ASSUME ~running PROVE n > 0
    <3>1. CASE eof
      BY <1>3, <1>6, <2>6, <3>1
    <3>2. CASE ~eof
      <4>1. b = limit /\ b + 3 <= count
        BY <1>3, <2>5, <2>8, <3>2 DEF b
      <4>. QED
        BY <1>3, <1>6, <2>6, <4>1
    <3>. QED
      BY <3>1, <3>2
  <2>9. ASSUME Splits(log, start + n, Extent) PROVE FALSE
    <3>1. PICK s \in 1 .. start + n :
             /\ start + n < s + Span[log[s]] - 1 /\ s + Span[log[s]] - 1 <= Extent
             /\ \A k \in s + 1 .. s + Span[log[s]] - 1 : log[k] = "c"
      BY <2>9 DEF Splits
    <3>2. s \in 1 .. Len(log) /\ s \in Nat
      BY <1>4, <2>6, <1>3
    <3>3. PICK w \in 1 .. 4 : w = Span[log[s]]
      BY <1>2, <3>2, ByteIs
    <3>4. CASE s <= start
      <4>1. s \in 1 .. start /\ start < s + w - 1
        BY <3>1, <3>3, <3>4, <2>6
      <4>. QED
        BY <3>1, <3>3, <4>1 DEF Splits
    <3>5. CASE s > start
      <4>1. PICK z \in 1 .. n : s = start + z
        BY <3>1, <3>5, <2>6, s - start \in 1 .. n, s = start + (s - start)
      <4>2. PICK m \in Nat : m = Extent - start
        BY <1>2, Extent - start \in Nat
      <4>3. eof => m <= count
        BY <1>2, <2>4, <4>2 DEF eof
      <4>4. data[z] = log[s]
        BY <2>1, <2>6, <4>1
      <4>5. n < z + w - 1 /\ z + w - 1 <= m
        BY <1>2, <2>6, <3>1, <3>3, <4>1, <4>2, SMTT(30)
      <4>6. PICK k \in z + 1 .. z + w - 1 : k <= count /\ data[k] # "c"
        BY <2>6, <3>3, <4>3, <4>4, <4>5
      <4>7. start + k \in s + 1 .. s + w - 1 /\ k \in 1 .. count
        BY <1>3, <4>1, <4>6
      <4>. QED
        BY <2>1, <3>1, <3>3, <4>6, <4>7
    <3>. QED
      BY <3>2, <3>4, <3>5
  <2>. QED
    BY <1>1, <2>7, <2>8, <2>9
<1>. QED
  BY <1>3, <1>5, <1>6

\* The offset 0 is in no code point.
LEMMA StartIsWhole ==
    ASSUME NEW data, NEW m
    PROVE  ~Splits(data, 0, m)
BY DEF Splits

\* How long an honest range is.
LEMMA LengthIs ==
    ASSUME NEW n \in Nat, NEW g \in ByteRange, Honest(g, n)
    PROVE  /\ Cardinality(g.bytes) = g.end - g.start
           /\ g.start \in Nat /\ g.end \in Nat
           /\ IsEmpty(g) <=> g.end = g.start
<1>1. g.start \in Nat /\ g.end \in Nat /\ g.start <= g.end /\ g.bytes = g.start + 1 .. g.end
  BY DEF ByteRange, Honest
<1>2. Cardinality(g.bytes) = g.end - g.start
  <2>1. PICK a, b \in Int : a = g.start + 1 /\ b = g.end
    BY <1>1, g.start + 1 \in Int
  <2>2. Cardinality(a .. b) = IF a > b THEN 0 ELSE b - a + 1
    BY <2>1, FS_Interval
  <2>. QED
    BY <1>1, <2>1, <2>2
<1>3. IsEmpty(g) <=> g.end = g.start
  BY <1>1 DEF IsEmpty
<1>. QED
  BY <1>1, <1>2, <1>3

\* What a wait holds grows by what it takes from behind the cursor, or not at all.
LEMMA AggregateIs ==
    ASSUME Shape, NEW held \in ByteRange, NEW start \in Nat, NEW size \in Nat,
           start <= size, size <= written, ~running => size = written,
           Honest(held, start), ~Splits(log, held.end, Extent), ~Splits(log, start, Extent)
    PROVE  \E n \in 0 .. size - start, h \in ByteRange :
              /\ Aggregate(held, start, size) = h /\ Honest(h, start + n)
              /\ h.bytes = held.bytes \cup (start + 1 .. start + n)
              /\ Taken(h, held) = n
              /\ ~Splits(log, h.end, Extent) /\ ~Splits(log, start + n, Extent)
<1>. DEFINE length == held.end - held.start
            next == Read(start, size, Limit - length)
<1>1. Aggregate(held, start, size)
        = IF IsEmpty(held) THEN IF IsEmpty(next) THEN Empty ELSE next
          ELSE IF held.end # start \/ length >= Limit THEN held
          ELSE [held EXCEPT !.end = next.end, !.bytes = @ \cup next.bytes]
  BY DEF Aggregate
<1>2. /\ held.start \in Nat /\ held.end \in Nat /\ Cardinality(held.bytes) = length
      /\ IsEmpty(held) <=> length = 0
      /\ held.start <= held.end /\ held.end <= start /\ held.bytes = held.start + 1 .. held.end
      /\ length \in Nat /\ Limit \in Nat /\ Limit >= 1
  BY LengthIs, LimitAssumption DEF Honest
<1>. HIDE DEF length
<1>3. CASE length # 0 /\ (held.end # start \/ length >= Limit)
  <2>1. Aggregate(held, start, size) = held
    BY <1>1, <1>2, <1>3
  <2>2. Taken(held, held) = 0 /\ start + 0 = start /\ 0 \in 0 .. size - start
    BY <1>2 DEF Taken
  <2>3. held.bytes = held.bytes \cup (start + 1 .. start + 0)
    BY <1>2
  <2>. QED
    BY <2>1, <2>2, <2>3
<1>4. CASE length = 0 \/ (held.end = start /\ length < Limit)
  <2>1. Limit - length \in Nat /\ Limit - length >= 1
    BY <1>2, <1>4
  <2>2. PICK n \in 0 .. size - start :
           /\ next = [start |-> start, end |-> start + n, bytes |-> start + 1 .. start + n]
           /\ ~Splits(log, start + n, Extent)
    BY <2>1, ReadIs
  <2>3. next \in ByteRange /\ next.start = start /\ next.end = start + n
        /\ next.bytes = start + 1 .. start + n
    BY <2>2 DEF ByteRange
  <2>. HIDE DEF next
  <2>4. Honest(next, start + n)
    BY <2>3 DEF Honest
  <2>5. Cardinality(next.bytes) = n /\ (IsEmpty(next) <=> n = 0)
    BY <2>3, <2>4, LengthIs
  <2>6. CASE length = 0 /\ n = 0
    <3>1. Aggregate(held, start, size) = Empty
      BY <1>1, <1>2, <2>5, <2>6
    <3>2. Empty \in ByteRange /\ Empty.start = 0 /\ Empty.end = 0 /\ Empty.bytes = {}
      BY DEF ByteRange, Empty
    <3>3. Honest(Empty, start + n)
      BY <3>2 DEF Honest
    <3>4. Cardinality(Empty.bytes) = 0
      BY <3>2, <3>3, LengthIs
    <3>5. Taken(Empty, held) = n
      BY <1>2, <2>6, <3>4 DEF Taken
    <3>6. Empty.bytes = held.bytes \cup (start + 1 .. start + n)
      BY <1>2, <2>6, <3>2 DEF length
    <3>. QED
      BY <2>2, <3>1, <3>2, <3>3, <3>5, <3>6, StartIsWhole
  <2>7. CASE length = 0 /\ n # 0
    <3>1. Aggregate(held, start, size) = next
      BY <1>1, <1>2, <2>5, <2>7
    <3>2. Taken(next, held) = n
      BY <1>2, <2>5, <2>7 DEF Taken
    <3>3. next.bytes = held.bytes \cup (start + 1 .. start + n)
      BY <1>2, <2>3, <2>7 DEF length
    <3>. QED
      BY <2>2, <2>3, <2>4, <3>1, <3>2, <3>3
  <2>8. CASE length # 0
    <3>. DEFINE h == [held EXCEPT !.end = next.end, !.bytes = held.bytes \cup next.bytes]
    <3>1. Aggregate(held, start, size) = h /\ held.end = start
      BY <1>1, <1>2, <1>4, <2>8
    <3>2. /\ h \in ByteRange /\ h.start = held.start /\ h.end = start + n
          /\ h.bytes = held.bytes \cup (start + 1 .. start + n)
      BY <2>3 DEF ByteRange
    <3>. HIDE DEF h
    <3>3. h.bytes = held.start + 1 .. start + n
      BY <1>2, <3>1, <3>2
    <3>4. Honest(h, start + n)
      BY <1>2, <3>2, <3>3 DEF Honest
    <3>5. Cardinality(h.bytes) = h.end - h.start
      BY <3>2, <3>4, start + n \in Nat, LengthIs, Zenon
    <3>6. Taken(h, held) = n
      BY <1>2, <3>1, <3>2, <3>5 DEF Taken, length
    <3>. QED
      BY <2>2, <3>1, <3>2, <3>4, <3>6
  <2>. QED
    BY <2>6, <2>7, <2>8
<1>. QED
  BY <1>2, <1>3, <1>4, SMTT(30)

-----------------------------------------------------------------------------
(* What a step may do to the ranges and the calls *)

\* What is inside a code point of a prefix is inside one of a longer prefix.
LEMMA SplitsGrows ==
    ASSUME NEW data \in Seq(Byte), NEW n \in 0 .. Len(data), NEW m \in Nat, NEW l \in Nat,
           m <= l, Splits(data, n, m)
    PROVE  Splits(data, n, l)
<1>1. PICK s \in 1 .. n : /\ n < s + Span[data[s]] - 1 /\ s + Span[data[s]] - 1 <= m
                          /\ \A k \in s + 1 .. s + Span[data[s]] - 1 : data[k] = "c"
  BY DEF Splits
<1>2. PICK w \in 1 .. 4 : w = Span[data[s]]
  BY ByteIs
<1>3. s + w - 1 <= l
  BY <1>1, <1>2
<1>. QED
  BY <1>1, <1>2, <1>3 DEF Splits

\* The empty range and the idle call.
LEMMA EmptyIs ==
    /\ Empty \in ByteRange /\ Empty.start = 0 /\ Empty.end = 0 /\ Empty.bytes = {}
    /\ \A n \in Nat : Honest(Empty, n)
<1>1. Empty \in ByteRange /\ Empty.start = 0 /\ Empty.end = 0 /\ Empty.bytes = {}
  BY DEF Empty, ByteRange
<1>2. ASSUME NEW n \in Nat PROVE Honest(Empty, n)
  BY <1>1 DEF Honest
<1>. QED
  BY <1>1, <1>2
LEMMA IdleIs ==
    /\ Idle \in CallState /\ Idle.at = "idle" /\ Idle.from = 0 /\ Idle.size = 0
    /\ Idle.start = 0 /\ Idle.held = Empty /\ Idle.held.bytes = {}
BY EmptyIs DEF Idle, CallState, Ends, NoReason
LEMMA NothingIs ==
    /\ Nothing \in AnswerState /\ Nothing.range = Empty /\ Nothing.reason = NoReason
    /\ NoReason \notin Reasons
BY EmptyIs DEF Nothing, AnswerState, Reasons, Ends, NoReason

\* The fields of a call.
LEMMA CallIs ==
    ASSUME NEW c \in CallState
    PROVE  /\ c.from \in Nat /\ c.size \in Nat /\ c.start \in Nat /\ c.held \in ByteRange
           /\ c.final \in Ends \cup {NoReason} /\ c.kind \in Kinds \cup {"none"}
           /\ c.at \in {"idle", "queued", "reading", "sleeping"}
           /\ c.urge \in {"none", "late", "aborted"}
BY DEF CallState
LEMMA RangeIs ==
    ASSUME NEW g \in ByteRange
    PROVE  g.start \in Nat /\ g.end \in Nat /\ g.bytes \in SUBSET Nat
BY DEF ByteRange

\* A step that reads nothing: every call keeps what it holds or drops it.
LEMMA QuietStep ==
    ASSUME OutputInv, log' = log, cursor' = cursor, given' = given, Silent,
           written' \in written .. Len(log), running' \in BOOLEAN, closing' \in BOOLEAN,
           queue' \in Seq(Reader), call' \in [Reader -> CallState],
           Extent' \in 0 .. Extent,
           \A r \in Reader :
              /\ Placed(call'[r], cursor, written', ~running')
              /\ call'[r].at = "reading" => queue' # <<>> /\ r = Head(queue')
              /\ \/ call'[r].held = call[r].held
                 \/ call'[r].held = Empty /\ call[r].held.bytes \subseteq lost',
           lost \subseteq lost', lost' \in SUBSET (1 .. Len(log)),
           \A i \in lost' : \/ i \in lost
                            \/ \E r \in Reader : i \in call[r].held.bytes
                                               /\ call'[r].held = Empty
    PROVE  OutputInv'
<1>. PICK cc : cc = call'
  OBVIOUS
<1>1. Shape
  BY DEF OutputInv
<1>2. answer' = Nothing /\ Nothing \in AnswerState
  BY NothingIs DEF Silent
<1>3. Shape'
  BY <1>1, <1>2 DEF Shape
<1>4. Serial'
  <2>1. cursor \in Nat
    BY <1>1 DEF Shape
  <2>2. Honest(answer'.range, cursor)
    BY <1>2, <2>1, EmptyIs, NothingIs
  <2>3. answer'.reason \notin {"timeout", "cancelled", "shutdown"}
    BY <1>2, NothingIs DEF NoReason
  <2>. QED
    BY <2>2, <2>3 DEF Serial
<1>5. Once'
  <2>. SUFFICES ASSUME NEW i \in 1 .. Len(log)
                PROVE  /\ given[i] <= 1
                       /\ i > cursor => given[i] = 0 /\ i \notin lost'
                       /\ i <= cursor => \/ given[i] = 1
                                         \/ i \in lost'
                                         \/ \E r \in Reader : i \in call'[r].held.bytes
                       /\ i \in lost' => given[i] = 0
                       /\ \A r \in Reader : i \in call'[r].held.bytes =>
                             /\ given[i] = 0 /\ i \notin lost'
                             /\ \A s \in Reader : i \in call'[s].held.bytes => s = r
    BY DEF Once
  <2>1. /\ given[i] <= 1
        /\ i > cursor => given[i] = 0 /\ i \notin lost
        /\ i <= cursor => \/ given[i] = 1
                          \/ i \in lost
                          \/ \E r \in Reader : i \in call[r].held.bytes
        /\ i \in lost => given[i] = 0
        /\ \A r \in Reader : i \in call[r].held.bytes =>
              /\ given[i] = 0 /\ i \notin lost
              /\ \A s \in Reader : i \in call[s].held.bytes => s = r
    BY DEF OutputInv, Once
  <2>2. ASSUME NEW r \in Reader, i \in call'[r].held.bytes
        PROVE  i \in call[r].held.bytes /\ call'[r].held # Empty
    BY <2>2, EmptyIs
  <2>3. ASSUME NEW r \in Reader, i \in call[r].held.bytes
        PROVE  i <= cursor /\ given[i] = 0
               /\ (i \in call'[r].held.bytes \/ i \in lost')
    <3>1. call[r].held \in ByteRange /\ Honest(call[r].held, cursor)
      BY <1>1, CallIs DEF Shape, OutputInv, Serial, Placed
    <3>2. i <= cursor
      BY <1>1, <2>3, <3>1, RangeIs DEF Honest, Shape
    <3>. QED
      BY <2>1, <2>3, <3>2
  <2>4. i \in lost' => /\ given[i] = 0 /\ i <= cursor
                       /\ \A r \in Reader : i \notin call'[r].held.bytes
    <3>1. CASE i \in lost
      <4>1. cursor \in Nat /\ ~(i > cursor)
        BY <1>1, <2>1, <3>1 DEF Shape
      <4>. QED
        BY <2>1, <2>2, <3>1, <4>1
    <3>2. ASSUME NEW r \in Reader, i \in call[r].held.bytes, call'[r].held = Empty
          PROVE  /\ given[i] = 0 /\ i <= cursor
                 /\ \A s \in Reader : i \notin call'[s].held.bytes
      <4>1. ASSUME NEW s \in Reader, i \in call'[s].held.bytes PROVE FALSE
        BY <2>1, <2>2, <3>2, <4>1
      <4>. QED
        BY <2>3, <3>2, <4>1
    <3>. QED
      BY <3>1, <3>2
  <2>5. \A r \in Reader : i \in call'[r].held.bytes =>
           given[i] = 0 /\ \A s \in Reader : i \in call'[s].held.bytes => s = r
    BY <2>1, <2>2
  <2>6. i <= cursor => \/ given[i] = 1 \/ i \in lost'
                       \/ \E r \in Reader : i \in call'[r].held.bytes
    BY <2>1, <2>3
  <2>7. i > cursor => i \notin lost'
    <3>1. cursor \in Nat
      BY <1>1 DEF Shape
    <3>. QED
      BY <2>4, <3>1
  <2>. QED
    BY <2>1, <2>4, <2>5, <2>6, <2>7
<1>6. Whole'
  <2>1. ASSUME NEW n \in 0 .. Len(log), ~Splits(log, n, Extent)
        PROVE  ~Splits(log, n, Extent')
    <3>1. PICK m, l \in Nat : m = Extent' /\ l = Extent /\ m <= l
      BY <1>1 DEF Shape, Extent
    <3>. QED
      BY <1>1, <2>1, <3>1, SplitsGrows DEF Shape
  <2>2. ~Splits(log, cursor, Extent')
    BY <1>1, <2>1 DEF Shape, OutputInv, Whole
  <2>3. ASSUME NEW r \in Reader PROVE ~Splits(log, call'[r].held.end, Extent')
    <3>1. CASE call'[r].held = Empty
      BY <3>1, EmptyIs, StartIsWhole
    <3>2. CASE call'[r].held = call[r].held
      <4>1. call[r].held.end \in 0 .. Len(log)
        <5>1. call[r].held \in ByteRange /\ Honest(call[r].held, cursor)
          BY <1>1, CallIs DEF Shape, OutputInv, Serial, Placed
        <5>. QED
          BY <1>1, <5>1, RangeIs DEF Honest, Shape
      <4>. QED
        BY <2>1, <3>2, <4>1 DEF OutputInv, Whole
    <3>. QED
      BY <3>1, <3>2
  <2>4. ~Splits(log, answer'.range.end, Extent')
    BY <1>2, NothingIs, EmptyIs, StartIsWhole
  <2>. QED
    BY <2>2, <2>3, <2>4 DEF Whole
<1>. QED
  BY <1>3, <1>4, <1>5, <1>6 DEF OutputInv

\* The end of the read of r: the cursor moves over n bytes, and the range h,
\* made of them and of what r held, goes on being held or is returned.
LEMMA ReadStep ==
    ASSUME OutputInv, NEW r \in Reader, call[r].at = "reading",
           log' = log, written' = written, running' = running, closing' = closing,
           lost' = lost, queue' \in Seq(Reader),
           NEW n \in 0 .. written - cursor, NEW h \in ByteRange, NEW c \in CallState,
           Honest(h, cursor + n),
           h.bytes = call[r].held.bytes \cup (cursor + 1 .. cursor + n),
           c.kind # "terminal" \/ c.at = "idle" => c.held.bytes = {},
           ~Splits(log, h.end, Extent), ~Splits(log, cursor + n, Extent),
           cursor' = cursor + n, call' = [call EXCEPT ![r] = c],
           c.at # "reading", c.from <= cursor, c.start = 0, c.size = 0,
           \/ c.held = h /\ given' = given /\ Silent
           \/ /\ c.held = Empty
              /\ \E reason \in Reasons :
                    /\ reason \in {"timeout", "cancelled", "shutdown"} => running
                    /\ answer' = [reason |-> reason, running |-> running, range |-> h]
              /\ given' = [i \in DOMAIN given |->
                              IF i \in h.bytes THEN given[i] + 1 ELSE given[i]]
    PROVE  OutputInv'
<1>1. /\ log \in Seq(Byte) /\ Len(log) \in Nat /\ written \in 0 .. Len(log)
      /\ cursor \in 0 .. written /\ running \in BOOLEAN
      /\ call \in [Reader -> CallState] /\ given \in [1 .. Len(log) -> Nat]
      /\ answer \in AnswerState /\ lost \in SUBSET (1 .. Len(log))
  BY DEF OutputInv, Shape
<1>2. PICK p \in 0 .. written : p = cursor + n /\ p = cursor' /\ p >= cursor
  BY <1>1
<1>3. ASSUME NEW s \in Reader, s # r
      PROVE  call'[s] = call[s] /\ call[s].at # "reading" /\ Placed(call[s], p, written, ~running)
  <2>1. call'[s] = call[s] /\ call[s] \in CallState
    BY <1>1, <1>3
  <2>2. call[s].at # "reading"
    BY <1>3 DEF OutputInv, Serial
  <2>3. Placed(call[s], cursor, written, ~running)
    BY DEF OutputInv, Serial
  <2>4. Honest(call[s].held, p)
    BY <1>1, <1>2, <2>1, <2>3, CallIs, RangeIs DEF Placed, Honest
  <2>. QED
    BY <1>1, <1>2, <2>1, <2>2, <2>3, <2>4, CallIs DEF Placed
<1>4. call'[r] = c /\ c.held \in ByteRange /\ Honest(c.held, p)
      /\ c.held.bytes \subseteq h.bytes /\ (c.held = h \/ c.held = Empty)
  BY <1>1, <1>2, EmptyIs
<1>5. answer' \in AnswerState /\ (answer'.range = h \/ answer'.range = Empty)
      /\ (answer'.reason \in {"timeout", "cancelled", "shutdown"} => answer'.running)
  <2>1. CASE Silent
    BY <2>1, NothingIs DEF Silent, NoReason
  <2>2. ASSUME NEW reason \in Reasons,
               reason \in {"timeout", "cancelled", "shutdown"} => running,
               answer' = [reason |-> reason, running |-> running, range |-> h]
        PROVE  answer' \in AnswerState /\ answer'.range = h
               /\ (answer'.reason \in {"timeout", "cancelled", "shutdown"} => answer'.running)
    BY <1>1, <2>2 DEF AnswerState
  <2>. QED
    BY <2>1, <2>2
<1>6. Shape'
  <2>1. given' \in [1 .. Len(log) -> Nat]
    BY <1>1
  <2>2. call' \in [Reader -> CallState]
    BY <1>1
  <2>. QED
    BY <1>1, <1>2, <1>5, <2>1, <2>2 DEF OutputInv, Shape
<1>7. Serial'
  <2>1. Placed(c, p, written, ~running)
    BY <1>1, <1>2, <1>4, CallIs DEF Placed
  <2>2. Honest(answer'.range, p)
    BY <1>2, <1>5, EmptyIs
  <2>3. ASSUME NEW s \in Reader
        PROVE  /\ Placed(call'[s], cursor', written', ~running')
               /\ call'[s].at # "reading"
    BY <1>2, <1>3, <1>4, <2>1
  <2>. QED
    BY <1>2, <1>5, <2>2, <2>3 DEF Serial
<1>8. Once'
  <2>. SUFFICES ASSUME NEW i \in 1 .. Len(log)
                PROVE  /\ given'[i] <= 1
                       /\ i > p => given'[i] = 0 /\ i \notin lost
                       /\ i <= p => \/ given'[i] = 1
                                    \/ i \in lost
                                    \/ \E s \in Reader : i \in call'[s].held.bytes
                       /\ i \in lost => given'[i] = 0
                       /\ \A s \in Reader : i \in call'[s].held.bytes =>
                             /\ given'[i] = 0 /\ i \notin lost
                             /\ \A t \in Reader : i \in call'[t].held.bytes => t = s
    BY <1>2 DEF Once
  <2>1. /\ given[i] \in Nat /\ given[i] <= 1
        /\ i > cursor => given[i] = 0 /\ i \notin lost
        /\ i <= cursor => \/ given[i] = 1
                          \/ i \in lost
                          \/ \E s \in Reader : i \in call[s].held.bytes
        /\ i \in lost => given[i] = 0
        /\ \A s \in Reader : i \in call[s].held.bytes =>
              /\ given[i] = 0 /\ i \notin lost
              /\ \A t \in Reader : i \in call[t].held.bytes => t = s
    BY <1>1 DEF OutputInv, Once
  <2>2. ASSUME NEW s \in Reader, s # r, i \in call[s].held.bytes
        PROVE  i <= cursor /\ i \notin h.bytes /\ given[i] = 0
    <3>1. i <= cursor
      <4>1. Honest(call[s].held, cursor) /\ call[s].held \in ByteRange
        BY <1>1, CallIs DEF OutputInv, Serial, Placed
      <4>. QED
        BY <1>1, <2>2, <4>1, RangeIs DEF Honest
    <3>2. i \notin call[r].held.bytes /\ given[i] = 0
      BY <2>1, <2>2
    <3>. QED
      BY <1>1, <3>1, <3>2
  <2>3. i \in h.bytes => given[i] = 0 /\ i <= p /\ i \notin lost
    <3>1. i \in h.bytes => i <= p
      BY <1>1, <1>2, RangeIs DEF Honest
    <3>2. i \in cursor + 1 .. cursor + n => i > cursor
      BY <1>1
    <3>. QED
      BY <2>1, <3>1, <3>2
  <2>4. /\ i > p => i > cursor
        /\ i <= p => i <= cursor \/ i \in h.bytes
    BY <1>1, <1>2
  <2>5. i <= p => \/ given[i] = 1 \/ i \in lost \/ i \in h.bytes
                  \/ \E s \in Reader : s # r /\ i \in call'[s].held.bytes
    <3>1. ASSUME NEW s \in Reader, i \in call[s].held.bytes
          PROVE  i \in h.bytes \/ (s # r /\ i \in call'[s].held.bytes)
      <4>1. CASE s = r
        <5>1. i \in call[r].held.bytes \cup (cursor + 1 .. cursor + n)
          BY <3>1, <4>1
        <5>. QED
          BY <5>1
      <4>2. CASE s # r
        BY <1>3, <3>1, <4>2
      <4>. QED
        BY <4>1, <4>2
    <3>. QED
      BY <2>1, <2>4, <3>1
  <2>6. CASE c.held = h /\ given' = given
    <3>1. ASSUME NEW s \in Reader, i \in call'[s].held.bytes
          PROVE  /\ given[i] = 0 /\ i \notin lost
                 /\ s = r => i \in h.bytes
                 /\ s # r => i \notin h.bytes /\ i \in call[s].held.bytes
      BY <1>3, <1>4, <2>1, <2>2, <2>3, <2>6, <3>1
    <3>2. i \in h.bytes => i \in call'[r].held.bytes
      BY <1>4, <2>6
    <3>3. \A s, t \in Reader : i \in call'[s].held.bytes /\ i \in call'[t].held.bytes => t = s
      BY <2>1, <3>1
    <3>. QED
      BY <2>1, <2>4, <2>5, <2>6, <3>1, <3>2, <3>3
  <2>7. CASE c.held = Empty
             /\ given' = [j \in DOMAIN given |-> IF j \in h.bytes THEN given[j] + 1 ELSE given[j]]
    <3>1. given'[i] = IF i \in h.bytes THEN given[i] + 1 ELSE given[i]
      BY <1>1, <2>7
    <3>2. i \notin call'[r].held.bytes
      BY <1>4, <2>7, EmptyIs
    <3>3. given'[i] <= 1 /\ (i > p => given'[i] = 0 /\ i \notin lost)
          /\ (i \in h.bytes => given'[i] = 1) /\ (i \notin h.bytes => given'[i] = given[i])
      BY <1>1, <1>2, <2>1, <2>3, <2>4, <3>1
    <3>4. ASSUME NEW s \in Reader, i \in call'[s].held.bytes
          PROVE  s # r /\ i \in call[s].held.bytes /\ given'[i] = 0 /\ i \notin lost
      BY <1>3, <2>1, <2>2, <3>1, <3>2, <3>4
    <3>5. i \in lost => given'[i] = 0
      BY <2>1, <2>3, <3>3
    <3>6. i <= p => \/ given'[i] = 1 \/ i \in lost
                    \/ \E s \in Reader : i \in call'[s].held.bytes
      BY <2>5, <3>3
    <3>. QED
      BY <2>1, <3>3, <3>4, <3>5, <3>6
  <2>. QED
    BY <2>6, <2>7
<1>9. Whole'
  <2>1. Extent' = Extent
    BY DEF Extent
  <2>2. ~Splits(log, Empty.end, Extent)
    BY EmptyIs, StartIsWhole
  <2>3. ASSUME NEW s \in Reader PROVE ~Splits(log, call'[s].held.end, Extent)
    BY <1>3, <1>4, <2>2 DEF OutputInv, Whole
  <2>. QED
    BY <1>2, <1>5, <2>1, <2>2, <2>3 DEF Whole
<1>. QED
  BY <1>6, <1>7, <1>8, <1>9 DEF OutputInv

-----------------------------------------------------------------------------
(* The steps that read nothing *)

\* The queue of the job.
LEMMA QueueIs ==
    ASSUME NEW q \in Seq(Reader), NEW r \in Reader
    PROVE  /\ Append(q, r) \in Seq(Reader) /\ Append(q, r) # <<>>
           /\ q # <<>> => Head(Append(q, r)) = Head(q) /\ Tail(q) \in Seq(Reader)
<1>1. Append(q, r) \in Seq(Reader) /\ Append(q, r) # <<>>
      /\ \A i \in 1 .. Len(q) : Append(q, r)[i] = q[i]
  BY AppendProperties
<1>2. ASSUME q # <<>> PROVE Head(Append(q, r)) = Head(q) /\ Tail(q) \in Seq(Reader)
  <2>1. 1 \in 1 .. Len(q) /\ Head(q) = q[1] /\ Head(Append(q, r)) = Append(q, r)[1]
    BY <1>1, <1>2
  <2>. QED
    BY <1>1, <1>2, <2>1, HeadTailProperties
<1>. QED
  BY <1>1, <1>2

\* A step of the caller r that moves nothing but its call, to c, and the queue.
LEMMA CallStep ==
    ASSUME OutputInv, NEW r \in Reader, NEW c \in CallState,
           UNCHANGED <<log, written, cursor, running, closing, given>>, Silent,
           call' = [call EXCEPT ![r] = c], Placed(c, cursor, written, ~running),
           \/ c.held = call[r].held /\ lost' = lost
           \/ c.held = Empty /\ lost' = lost \cup call[r].held.bytes,
           c.at = "reading" => queue # <<>> /\ r = Head(queue),
           \/ queue' = queue
           \/ queue' = Append(queue, r)
           \/ call[r].at = "reading" /\ c.at # "reading" /\ queue' = Tail(queue)
    PROVE  OutputInv'
<1>1. /\ written' \in written .. Len(log) /\ running' \in BOOLEAN /\ closing' \in BOOLEAN
      /\ queue \in Seq(Reader) /\ call \in [Reader -> CallState]
      /\ Extent' = Extent /\ Extent \in Nat
  BY DEF OutputInv, Shape, Extent
<1>2. call' \in [Reader -> CallState] /\ call'[r] = c
      /\ \A s \in Reader : s # r => call'[s] = call[s]
  BY <1>1
<1>3. \A s \in Reader : call[s].at = "reading" => queue # <<>> /\ s = Head(queue)
  BY DEF OutputInv, Serial
<1>4. ASSUME NEW s \in Reader, call'[s].at = "reading"
      PROVE  queue' # <<>> /\ s = Head(queue')
  <2>1. queue # <<>> /\ s = Head(queue)
    BY <1>2, <1>3, <1>4
  <2>2. CASE queue' \in {queue, Append(queue, r)}
    BY <1>1, <2>1, <2>2, QueueIs
  <2>3. CASE call[r].at = "reading" /\ c.at # "reading"
    BY <1>2, <1>3, <1>4, <2>1, <2>3
  <2>. QED
    BY <2>2, <2>3
<1>5. queue' \in Seq(Reader)
  BY <1>1, <1>3, QueueIs
<1>6. ASSUME NEW s \in Reader
      PROVE  /\ Placed(call'[s], cursor, written', ~running')
             /\ \/ call'[s].held = call[s].held
                \/ call'[s].held = Empty /\ call[s].held.bytes \subseteq lost'
  <2>1. CASE s = r
    BY <1>2, <2>1
  <2>2. CASE s # r
    BY <1>2, <2>2 DEF OutputInv, Serial
  <2>. QED
    BY <2>1, <2>2
<1>7. /\ lost \subseteq lost' /\ lost' \in SUBSET (1 .. Len(log))
      /\ \A i \in lost' : i \in lost \/ (i \in call[r].held.bytes /\ call'[r].held = Empty)
  <2>1. /\ lost \in SUBSET (1 .. Len(log)) /\ call[r] \in CallState /\ Len(log) \in Nat
        /\ written \in 0 .. Len(log) /\ cursor \in 0 .. written
    BY DEF OutputInv, Shape
  <2>2. call[r].held \in ByteRange /\ Honest(call[r].held, cursor)
    BY <2>1, CallIs DEF OutputInv, Serial, Placed
  <2>3. call[r].held.bytes \subseteq 1 .. Len(log)
    BY <2>1, <2>2, RangeIs DEF Honest
  <2>. PICK held \in SUBSET (1 .. Len(log)) : held = call[r].held.bytes
    BY <2>3
  <2>4. CASE c.held = call[r].held /\ lost' = lost
    BY <2>1, <2>4
  <2>5. CASE c.held = Empty /\ lost' = lost \cup held
    BY <1>2, <2>1, <2>5
  <2>. QED
    BY <2>4, <2>5
<1>. QED
  BY <1>1, <1>2, <1>4, <1>5, <1>6, <1>7, QuietStep

\* The log grows only while the job runs, and a code point that is whole in the
\* log to come is whole already.
LEMMA WriteStep == OutputInv /\ Write => OutputInv'
<1>. SUFFICES ASSUME OutputInv, Write PROVE OutputInv'
  OBVIOUS
<1>1. /\ log' = log /\ cursor' = cursor /\ given' = given /\ lost' = lost /\ Silent
      /\ queue' = queue
      /\ call' = call /\ running' = running /\ closing' = closing /\ running
      /\ written' = written + 1 /\ written < Len(log)
  BY DEF Write
<1>2. /\ written \in 0 .. Len(log) /\ Len(log) \in Nat /\ cursor \in 0 .. written
      /\ queue \in Seq(Reader) /\ call \in [Reader -> CallState] /\ lost \in SUBSET (1 .. Len(log)) /\ closing \in BOOLEAN
  BY DEF OutputInv, Shape
<1>3. written' \in written .. Len(log) /\ Extent' \in 0 .. Extent
  BY <1>1, <1>2 DEF Extent
<1>4. ASSUME NEW r \in Reader
      PROVE  /\ Placed(call'[r], cursor, written', ~running')
             /\ call'[r].at = "reading" => queue' # <<>> /\ r = Head(queue')
  <2>1. call[r] \in CallState /\ Placed(call[r], cursor, written, ~running)
        /\ (call[r].at = "reading" => queue # <<>> /\ r = Head(queue))
    BY <1>2 DEF OutputInv, Serial
  <2>. QED
    BY <1>1, <1>2, <2>1, CallIs DEF Placed
<1>. QED
  BY <1>1, <1>2, <1>3, <1>4, QuietStep

\* The job settles while nobody reads: what it wrote is all there will be.
LEMMA SettleOutputStep == OutputInv /\ SettleOutput => OutputInv'
<1>. SUFFICES ASSUME OutputInv, SettleOutput PROVE OutputInv'
  OBVIOUS
<1>1. /\ log' = log /\ cursor' = cursor /\ given' = given /\ lost' = lost /\ Silent
      /\ queue' = queue
      /\ call' = call /\ closing' = closing /\ running /\ running' = FALSE
      /\ written' = written /\ \A r \in Reader : call[r].at # "reading"
  BY DEF SettleOutput
<1>2. /\ written \in 0 .. Len(log) /\ Len(log) \in Nat /\ cursor \in 0 .. written
      /\ queue \in Seq(Reader) /\ call \in [Reader -> CallState] /\ lost \in SUBSET (1 .. Len(log)) /\ closing \in BOOLEAN
  BY DEF OutputInv, Shape
<1>3. written' \in written .. Len(log) /\ Extent' \in 0 .. Extent
  BY <1>1, <1>2 DEF Extent
<1>4. ASSUME NEW r \in Reader
      PROVE  Placed(call'[r], cursor, written', ~running') /\ call'[r].at # "reading"
  BY <1>1 DEF OutputInv, Serial, Placed
<1>. QED
  BY <1>1, <1>2, <1>3, <1>4, QuietStep

\* The manager begins to close.
LEMMA CloseStep == OutputInv /\ Close => OutputInv'
<1>. SUFFICES ASSUME OutputInv, Close PROVE OutputInv'
  OBVIOUS
<1>1. /\ log' = log /\ cursor' = cursor /\ given' = given /\ lost' = lost /\ Silent
      /\ queue' = queue
      /\ call' = call /\ running' = running /\ written' = written /\ closing' = TRUE
  BY DEF Close
<1>2. /\ written' \in written .. Len(log) /\ running' \in BOOLEAN
      /\ queue \in Seq(Reader) /\ call \in [Reader -> CallState] /\ lost \in SUBSET (1 .. Len(log))
      /\ Extent' \in 0 .. Extent
  BY <1>1 DEF OutputInv, Shape, Extent
<1>3. ASSUME NEW r \in Reader
      PROVE  /\ Placed(call'[r], cursor, written', ~running')
             /\ call'[r].at = "reading" => queue' # <<>> /\ r = Head(queue')
  BY <1>1 DEF OutputInv, Serial
<1>. QED
  BY <1>1, <1>2, <1>3, QuietStep

\* A call joins the queue; a wait remembers where the cursor was.
LEMMA JoinStep ==
    ASSUME OutputInv, NEW r \in Reader, NEW kind \in Kinds, Call(r, kind)
    PROVE  OutputInv'
<1>. DEFINE from == IF kind = "wait" THEN cursor ELSE 0
            c == [Idle EXCEPT !.kind = kind, !.at = "queued", !.from = from]
<1>1. call' = [call EXCEPT ![r] = c]
  BY DEF Call
<1>2. from \in Nat /\ from <= cursor /\ cursor \in Nat /\ written \in Nat
  BY DEF OutputInv, Shape
<1>. HIDE DEF from
<1>3. /\ c \in CallState /\ c.at = "queued" /\ c.from = from /\ c.size = 0 /\ c.start = 0
      /\ c.held = Empty
  BY <1>2, EmptyIs DEF Idle, CallState, Ends, NoReason
<1>. HIDE DEF c
<1>4. Placed(c, cursor, written, ~running)
  BY <1>2, <1>3, EmptyIs DEF Placed
<1>5. UNCHANGED <<log, written, cursor, running, closing, given, lost>> /\ Silent
      /\ queue' = Append(queue, r)
  BY DEF Call
<1>6. lost' = lost \cup call[r].held.bytes
  BY <1>5 DEF Call, OutputInv, Serial, Placed
<1>. QED
  BY <1>1, <1>3, <1>4, <1>5, <1>6, CallStep

\* An abort or a deadline only marks the call.
LEMMA UrgeStep ==
    ASSUME OutputInv, NEW r \in Reader, Abort(r) \/ Expire(r)
    PROVE  OutputInv'
<1>1. PICK urge \in {"late", "aborted"} : call' = [call EXCEPT ![r].urge = urge]
  BY DEF Abort, Expire
<1>2. PICK a \in CallState : a = call[r] /\ Placed(a, cursor, written, ~running)
         /\ (a.at = "reading" => queue # <<>> /\ r = Head(queue))
  BY DEF OutputInv, Shape, Serial
<1>. DEFINE c == [a EXCEPT !.urge = urge]
<1>3. /\ c \in CallState /\ c.at = a.at /\ c.from = a.from /\ c.size = a.size
      /\ c.start = a.start /\ c.held = a.held /\ c.kind = a.kind
  BY DEF CallState
<1>4. call' = [call EXCEPT ![r] = c]
  BY <1>1, <1>2
<1>. HIDE DEF c
<1>5. Placed(c, cursor, written, ~running)
  BY <1>2, <1>3 DEF Placed
<1>6. UNCHANGED <<log, written, cursor, running, closing, given, lost>> /\ Silent /\ queue' = queue
  BY DEF Abort, Expire
<1>. QED
  BY <1>2, <1>3, <1>4, <1>5, <1>6, CallStep

\* A read begins at the cursor and sees what the file has.
LEMMA BeginStep ==
    ASSUME OutputInv, NEW r \in Reader, BeginRead(r)
    PROVE  OutputInv'
<1>1. PICK a \in CallState : a = call[r] /\ Placed(a, cursor, written, ~running)
  BY DEF OutputInv, Shape, Serial
<1>2. cursor \in Nat /\ written \in Nat /\ cursor <= written
  BY DEF OutputInv, Shape
<1>. DEFINE c == [a EXCEPT !.at = "reading", !.size = written, !.start = cursor]
<1>3. /\ c \in CallState /\ c.at = "reading" /\ c.from = a.from /\ c.size = written
      /\ c.start = cursor /\ c.held = a.held /\ c.kind = a.kind
  BY <1>2 DEF CallState
<1>4. call' = [call EXCEPT ![r] = c]
  BY <1>1 DEF BeginRead
<1>. HIDE DEF c
<1>5. Placed(c, cursor, written, ~running)
  BY <1>1, <1>2, <1>3 DEF Placed
<1>6. UNCHANGED <<log, written, cursor, running, closing, given, lost>> /\ Silent /\ queue' = queue
      /\ queue # <<>> /\ r = Head(queue)
  BY DEF BeginRead
<1>. QED
  BY <1>1, <1>3, <1>4, <1>5, <1>6, CallStep

\* A read fails: the call is over.
LEMMA FailStep ==
    ASSUME OutputInv, NEW r \in Reader, ReadFails(r)
    PROVE  OutputInv'
<1>1. cursor \in Nat /\ written \in Nat
  BY DEF OutputInv, Shape
<1>2. Placed(Idle, cursor, written, ~running)
  BY <1>1, IdleIs, EmptyIs DEF Placed
<1>3. /\ UNCHANGED <<log, written, cursor, running, closing, given>> /\ Silent
      /\ lost' = lost \cup call[r].held.bytes
      /\ queue' = Tail(queue) /\ call[r].at = "reading" /\ call' = [call EXCEPT ![r] = Idle]
  BY DEF ReadFails
<1>. QED
  BY <1>2, <1>3, IdleIs, CallStep

\* A sleeping wait queues again.
LEMMA WakeStep ==
    ASSUME OutputInv, NEW r \in Reader, Wake(r)
    PROVE  OutputInv'
<1>1. PICK why \in {NoReason, "cancelled", "shutdown"} :
         call' = [call EXCEPT ![r].at = "queued", ![r].final = why]
  BY DEF Wake
<1>2. PICK a \in CallState : a = call[r] /\ Placed(a, cursor, written, ~running)
  BY DEF OutputInv, Shape, Serial
<1>. DEFINE c == [a EXCEPT !.at = "queued", !.final = why]
<1>3. /\ c \in CallState /\ c.at = "queued" /\ c.from = a.from /\ c.size = a.size
      /\ c.start = a.start /\ c.held = a.held /\ c.kind = a.kind
  BY DEF CallState, Ends
<1>4. call' = [call EXCEPT ![r] = c]
  BY <1>1, <1>2
<1>. HIDE DEF c
<1>5. Placed(c, cursor, written, ~running)
  BY <1>2, <1>3 DEF Placed
<1>6. UNCHANGED <<log, written, cursor, running, closing, given, lost>> /\ Silent
      /\ queue' = Append(queue, r)
  BY DEF Wake
<1>. QED
  BY <1>2, <1>3, <1>4, <1>5, <1>6, CallStep

-----------------------------------------------------------------------------
(* The end of a read *)

\* The call of a reader whose operation runs.
LEMMA ReadingIs ==
    ASSUME OutputInv, NEW r \in Reader, call[r].at = "reading"
    PROVE  /\ Shape /\ cursor \in Nat /\ written \in Nat /\ cursor <= written
           /\ call[r] \in CallState /\ Placed(call[r], cursor, written, ~running)
           /\ call[r].start = cursor /\ call[r].size \in cursor .. written
           /\ ~running => call[r].size = written
           /\ call[r].held \in ByteRange /\ Honest(call[r].held, cursor)
           /\ call[r].kind # "terminal" => call[r].held.bytes = {}
           /\ ~Splits(log, call[r].held.end, Extent) /\ ~Splits(log, cursor, Extent)
           /\ queue \in Seq(Reader) /\ queue # <<>>
           /\ Tail(queue) \in Seq(Reader) /\ Append(Tail(queue), r) \in Seq(Reader)
<1>1. /\ Shape /\ cursor \in Nat /\ written \in Nat /\ cursor <= written
      /\ call[r] \in CallState /\ Placed(call[r], cursor, written, ~running)
      /\ queue \in Seq(Reader) /\ queue # <<>>
  BY DEF OutputInv, Shape, Serial
<1>2. /\ call[r].start = cursor /\ call[r].size \in cursor .. written
      /\ (~running => call[r].size = written)
      /\ call[r].held \in ByteRange /\ Honest(call[r].held, cursor)
      /\ (call[r].kind # "terminal" => call[r].held.bytes = {})
  BY <1>1, CallIs DEF Placed
<1>3. ~Splits(log, call[r].held.end, Extent) /\ ~Splits(log, cursor, Extent)
  BY DEF OutputInv, Whole
<1>4. Tail(queue) \in Seq(Reader)
  BY <1>1, QueueIs
<1>5. Append(Tail(queue), r) \in Seq(Reader)
  BY <1>4, QueueIs
<1>. QED
  BY <1>1, <1>2, <1>3, <1>4, <1>5

\* What an output call or an output-sensitive wait reads.
LEMMA TakenIs ==
    ASSUME OutputInv, NEW r \in Reader, call[r].at = "reading"
    PROVE  \E n \in 0 .. written - cursor, read \in ByteRange :
              /\ Read(call[r].start, call[r].size, Limit) = read
              /\ Taken(read, Empty) = n /\ Honest(read, cursor + n)
              /\ read.bytes = cursor + 1 .. cursor + n
              /\ ~Splits(log, read.end, Extent) /\ ~Splits(log, cursor + n, Extent)
              /\ ~running /\ call[r].size > call[r].start => n > 0
<1>1. PICK size \in cursor .. written : size = call[r].size /\ (~running => size = written)
  BY ReadingIs
<1>2. Shape /\ cursor \in Nat /\ written \in Nat /\ call[r].start = cursor
      /\ ~Splits(log, cursor, Extent)
  BY <1>1, ReadingIs
<1>. size \in Nat /\ cursor <= size /\ size <= written /\ Limit \in Nat /\ Limit >= 1
  BY <1>1, <1>2, LimitAssumption
<1>3. PICK n \in 0 .. size - cursor :
         /\ Read(cursor, size, Limit) = [start |-> cursor, end |-> cursor + n,
                                         bytes |-> cursor + 1 .. cursor + n]
         /\ ~Splits(log, cursor + n, Extent)
         /\ ~running /\ size > cursor => n > 0
  BY <1>1, <1>2, ReadIs, ZenonT(40)
<1>4. PICK read : read = Read(cursor, size, Limit)
  OBVIOUS
<1>5. read \in ByteRange /\ read.start = cursor /\ read.end = cursor + n
      /\ read.bytes = cursor + 1 .. cursor + n
  BY <1>2, <1>3, <1>4 DEF ByteRange
<1>6. Honest(read, cursor + n) /\ cursor + n \in Nat /\ n \in 0 .. written - cursor
  BY <1>1, <1>2, <1>5 DEF Honest
<1>7. Cardinality(read.bytes) = n
  <2>1. Cardinality(read.bytes) = read.end - read.start
    BY <1>5, <1>6, LengthIs, Zenon
  <2>. QED
    BY <1>2, <1>5, <2>1
<1>8. Cardinality(Empty.bytes) = 0
  BY EmptyIs, FS_EmptySet
<1>9. Taken(read, Empty) = n
  BY <1>7, <1>8, <1>6 DEF Taken
<1>. QED
  BY <1>1, <1>2, <1>3, <1>4, <1>5, <1>6, <1>9

\* A read that returns.
LEMMA OutputStep ==
    ASSUME OutputInv, NEW r \in Reader, EndRead(r), OutputEnds(r)
    PROVE  OutputInv'
<1>1. call[r].at = "reading" /\ UNCHANGED <<log, written, running, closing, lost>>
  BY DEF EndRead
<1>2. PICK n \in 0 .. written - cursor, read \in ByteRange :
         /\ Read(call[r].start, call[r].size, Limit) = read
         /\ Taken(read, Empty) = n /\ Honest(read, cursor + n)
         /\ read.bytes = cursor + 1 .. cursor + n
         /\ ~Splits(log, read.end, Extent) /\ ~Splits(log, cursor + n, Extent)
  BY <1>1, TakenIs
<1>3. cursor' = cursor + n /\ Return(r, "read", read) /\ queue' = Tail(queue)
  BY <1>2 DEF OutputEnds
<1>4. /\ call' = [call EXCEPT ![r] = Idle]
      /\ answer' = [reason |-> "read", running |-> running, range |-> read]
      /\ given' = [i \in DOMAIN given |-> IF i \in read.bytes THEN given[i] + 1 ELSE given[i]]
  BY <1>3 DEF Return
<1>5. "read" \in Reasons /\ queue' \in Seq(Reader) /\ Idle.from <= cursor
  BY <1>1, <1>3, ReadingIs, IdleIs DEF Reasons
<1>6. read.bytes = call[r].held.bytes \cup (cursor + 1 .. cursor + n)
  BY <1>1, <1>2, ReadingIs DEF OutputEnds
<1>. QED
  BY <1>1, <1>2, <1>3, <1>4, <1>5, <1>6, IdleIs, ReadStep

\* A wait that returns its read or sleeps on.
LEMMA WaitStep ==
    ASSUME OutputInv, NEW r \in Reader, EndRead(r), WaitEnds(r)
    PROVE  OutputInv'
<1>1. call[r].at = "reading" /\ UNCHANGED <<log, written, running, closing, lost>>
  BY DEF EndRead
<1>2. PICK n \in 0 .. written - cursor, read \in ByteRange :
         /\ Read(call[r].start, call[r].size, Limit) = read
         /\ Taken(read, Empty) = n /\ Honest(read, cursor + n)
         /\ read.bytes = cursor + 1 .. cursor + n
         /\ ~Splits(log, read.end, Extent) /\ ~Splits(log, cursor + n, Extent)
  BY <1>1, TakenIs
<1>3. PICK reason : reason = WaitReason(r, read)
  OBVIOUS
<1>4. /\ cursor' = cursor + n /\ queue' = Tail(queue)
      /\ \/ reason = NoReason /\ Sleep(r, Empty)
         \/ reason # NoReason /\ Return(r, reason, read)
  BY <1>2, <1>3 DEF WaitEnds
<1>5. /\ queue' \in Seq(Reader) /\ call[r] \in CallState
      /\ Placed(call[r], cursor, written, ~running)
      /\ cursor \in Nat /\ cursor + n \in Nat /\ call[r].held.bytes = {}
  BY <1>1, <1>4, ReadingIs DEF WaitEnds
<1>6. CASE reason = NoReason /\ Sleep(r, Empty)
  <2>. DEFINE c == [call[r] EXCEPT !.at = "sleeping", !.size = 0, !.start = 0, !.held = Empty]
  <2>1. /\ c \in CallState /\ c.at = "sleeping" /\ c.from = call[r].from /\ c.size = 0
        /\ c.start = 0 /\ c.held = Empty
    BY <1>5, EmptyIs DEF CallState
  <2>2. call' = [call EXCEPT ![r] = c] /\ given' = given /\ Silent
    BY <1>6 DEF Sleep
  <2>. HIDE DEF c
  <2>3. c.from <= cursor /\ Honest(Empty, cursor + n) /\ ~Splits(log, Empty.end, Extent)
    BY <1>5, <2>1, EmptyIs, StartIsWhole DEF Placed
  <2>4. Empty.bytes = call[r].held.bytes \cup (cursor + 1 .. cursor + n)
    <3>1. read.bytes = {}
      BY <1>3, <1>6 DEF WaitReason, IsEmpty, NoReason
    <3>. QED
      BY <1>2, <1>5, <3>1, EmptyIs
  <2>. QED
    BY <1>1, <1>2, <1>4, <1>5, <2>1, <2>2, <2>3, <2>4, EmptyIs, ReadStep
<1>7. CASE reason # NoReason /\ Return(r, reason, read)
  <2>1. /\ call' = [call EXCEPT ![r] = Idle]
        /\ answer' = [reason |-> reason, running |-> running, range |-> read]
        /\ given' = [i \in DOMAIN given |->
                        IF i \in read.bytes THEN given[i] + 1 ELSE given[i]]
    BY <1>7 DEF Return
  <2>2. reason \in Reasons /\ (reason \in {"timeout", "cancelled", "shutdown"} => running)
    BY <1>3, <1>5, <1>7, CallIs DEF WaitReason, Reasons, Ends
  <2>3. Idle.from <= cursor /\ read.bytes = call[r].held.bytes \cup (cursor + 1 .. cursor + n)
    BY <1>2, <1>5, IdleIs
  <2>. QED
    BY <1>1, <1>2, <1>4, <1>5, <2>1, <2>2, <2>3, IdleIs, ReadStep
<1>. QED
  BY <1>4, <1>6, <1>7

\* A terminal wait that adds to what it holds.
LEMMA PollStep ==
    ASSUME OutputInv, NEW r \in Reader, EndRead(r), TerminalPolls(r)
    PROVE  OutputInv'
<1>1. call[r].at = "reading" /\ UNCHANGED <<log, written, running, closing, lost>>
  BY DEF EndRead
<1>2. /\ Shape /\ cursor \in Nat /\ written \in Nat /\ call[r].start = cursor
      /\ call[r] \in CallState /\ Placed(call[r], cursor, written, ~running)
      /\ Tail(queue) \in Seq(Reader) /\ Append(Tail(queue), r) \in Seq(Reader)
      /\ call[r].kind = "terminal"
  BY <1>1, ReadingIs DEF TerminalPolls
<1>3. PICK held \in ByteRange, size \in cursor .. written :
         /\ held = call[r].held /\ size = call[r].size /\ (~running => size = written)
         /\ Honest(held, cursor) /\ ~Splits(log, held.end, Extent)
         /\ ~Splits(log, cursor, Extent)
  BY <1>1, ReadingIs
<1>4. PICK n \in 0 .. size - cursor, h \in ByteRange :
         /\ Aggregate(held, cursor, size) = h /\ Honest(h, cursor + n)
         /\ h.bytes = held.bytes \cup (cursor + 1 .. cursor + n)
         /\ Taken(h, held) = n
         /\ ~Splits(log, h.end, Extent) /\ ~Splits(log, cursor + n, Extent)
  <2>1. /\ Shape /\ cursor \in Nat /\ size \in Nat /\ cursor <= size /\ size <= written
        /\ ~running => size = written
        /\ Honest(held, cursor) /\ ~Splits(log, held.end, Extent) /\ ~Splits(log, cursor, Extent)
    BY <1>2, <1>3
  <2>. QED
    BY <2>1, AggregateIs
<1>5. /\ cursor' = cursor + n /\ queue' \in Seq(Reader)
      /\ Sleep(r, h) \/ \E why \in Ends : Conclude(r, why, h)
  <2>1. Aggregate(call[r].held, call[r].start, call[r].size) = h
    BY <1>2, <1>3, <1>4
  <2>. QED
    BY <1>2, <1>3, <1>4, <2>1 DEF TerminalPolls, Ends
<1>6. n \in 0 .. written - cursor
  BY <1>2, <1>3
<1>7. CASE Sleep(r, h)
  <2>. DEFINE c == [call[r] EXCEPT !.at = "sleeping", !.size = 0, !.start = 0, !.held = h]
  <2>1. /\ c \in CallState /\ c.at = "sleeping" /\ c.from = call[r].from /\ c.size = 0
        /\ c.start = 0 /\ c.held = h /\ c.kind = "terminal"
    BY <1>2 DEF CallState
  <2>2. call' = [call EXCEPT ![r] = c] /\ given' = given /\ Silent
    BY <1>7 DEF Sleep
  <2>. HIDE DEF c
  <2>3. c.from <= cursor
    BY <1>2, <2>1 DEF Placed
  <2>. QED
    BY <1>1, <1>3, <1>4, <1>5, <1>6, <2>1, <2>2, <2>3, ReadStep
<1>8. ASSUME NEW why \in Ends, Conclude(r, why, h) PROVE OutputInv'
  <2>. DEFINE c == [call[r] EXCEPT !.at = "queued", !.size = 0, !.start = 0,
                                   !.final = why, !.held = h]
  <2>1. /\ c \in CallState /\ c.at = "queued" /\ c.from = call[r].from /\ c.size = 0
        /\ c.start = 0 /\ c.held = h /\ c.kind = "terminal"
    BY <1>2 DEF CallState
  <2>2. call' = [call EXCEPT ![r] = c] /\ given' = given /\ Silent
    BY <1>8 DEF Conclude
  <2>. HIDE DEF c
  <2>3. c.from <= cursor
    BY <1>2, <2>1 DEF Placed
  <2>. QED
    BY <1>1, <1>3, <1>4, <1>5, <1>6, <2>1, <2>2, <2>3, ReadStep
<1>. QED
  BY <1>5, <1>7, <1>8

\* A terminal wait that returns what it holds and what its last read adds.
LEMMA LastStep ==
    ASSUME OutputInv, NEW r \in Reader, EndRead(r), TerminalEnds(r)
    PROVE  OutputInv'
<1>1. call[r].at = "reading" /\ UNCHANGED <<log, written, running, closing, lost>>
  BY DEF EndRead
<1>2. /\ Shape /\ cursor \in Nat /\ written \in Nat /\ call[r].start = cursor
      /\ call[r] \in CallState /\ Tail(queue) \in Seq(Reader)
  BY <1>1, ReadingIs
<1>3. PICK held \in ByteRange :
         /\ held = call[r].held /\ Honest(held, cursor) /\ ~Splits(log, held.end, Extent)
         /\ ~Splits(log, cursor, Extent)
  BY <1>1, ReadingIs
<1>4. PICK size \in cursor .. written :
         /\ ~running => size = written
         /\ cursor' = cursor + Taken(Aggregate(held, cursor, size), held)
         /\ Return(r, FinalReason(r), Aggregate(held, cursor, size))
         /\ queue' = Tail(queue) /\ call[r].final # NoReason
  <2>1. call[r].size \in cursor .. written /\ (~running => call[r].size = written)
    BY <1>1, ReadingIs
  <2>2. PICK size \in call[r].size .. written \cup {call[r].size} :
           /\ cursor' = cursor + Taken(Aggregate(held, cursor, size), held)
           /\ Return(r, FinalReason(r), Aggregate(held, cursor, size))
    BY <1>2, <1>3, <2>1 DEF TerminalEnds
  <2>3. size \in cursor .. written /\ (~running => size = written)
    BY <1>2, <2>1, <2>2
  <2>. QED
    BY <2>2, <2>3 DEF TerminalEnds
<1>5. PICK n \in 0 .. size - cursor, h \in ByteRange :
         /\ Aggregate(held, cursor, size) = h /\ Honest(h, cursor + n)
         /\ h.bytes = held.bytes \cup (cursor + 1 .. cursor + n)
         /\ Taken(h, held) = n
         /\ ~Splits(log, h.end, Extent) /\ ~Splits(log, cursor + n, Extent)
  <2>1. /\ Shape /\ cursor \in Nat /\ size \in Nat /\ cursor <= size /\ size <= written
        /\ ~running => size = written
        /\ Honest(held, cursor) /\ ~Splits(log, held.end, Extent) /\ ~Splits(log, cursor, Extent)
    BY <1>2, <1>3, <1>4
  <2>. QED
    BY <2>1, AggregateIs
<1>6. /\ n \in 0 .. written - cursor /\ cursor' = cursor + n /\ queue' \in Seq(Reader)
      /\ call' = [call EXCEPT ![r] = Idle] /\ Idle.from <= cursor
      /\ answer' = [reason |-> FinalReason(r), running |-> running, range |-> h]
      /\ given' = [i \in DOMAIN given |-> IF i \in h.bytes THEN given[i] + 1 ELSE given[i]]
  BY <1>2, <1>4, <1>5, IdleIs DEF Return
<1>7. FinalReason(r) \in Reasons
      /\ (FinalReason(r) \in {"timeout", "cancelled", "shutdown"} => running)
  BY <1>2, <1>4, CallIs DEF FinalReason, Reasons, Ends
<1>. QED
  BY <1>1, <1>3, <1>5, <1>6, <1>7, IdleIs, ReadStep, ZenonT(40)

-----------------------------------------------------------------------------
(* The theorems *)

\* Nothing is read at first.
LEMMA Initially == OutputInit => OutputInv
<1>. SUFFICES ASSUME OutputInit PROVE OutputInv
  OBVIOUS
<1>1. /\ log \in Logs /\ written = 0 /\ cursor = 0 /\ running = TRUE /\ closing = FALSE
      /\ queue = <<>> /\ call = [r \in Reader |-> Idle] /\ answer = Nothing
      /\ given = [i \in 1 .. Len(log) |-> 0] /\ lost = {}
  BY DEF OutputInit
<1>2. log \in Seq(Byte) /\ Len(log) \in Nat
  BY <1>1, LogsAssumption DEF Byte
<1>3. Shape
  <2>1. running \in BOOLEAN /\ closing \in BOOLEAN /\ queue \in Seq(Reader)
    BY <1>1, EmptySeq, Zenon
  <2>2. call \in [Reader -> CallState]
    BY <1>1, IdleIs
  <2>3. answer \in AnswerState
    BY <1>1, NothingIs
  <2>4. given \in [1 .. Len(log) -> Nat] /\ lost \in SUBSET (1 .. Len(log))
    BY <1>1
  <2>. QED
    BY <1>1, <1>2, <2>1, <2>2, <2>3, <2>4 DEF Shape
<1>4. Serial
  <2>1. Placed(Idle, cursor, written, ~running)
    BY <1>1, IdleIs, EmptyIs DEF Placed
  <2>2. Honest(answer.range, cursor)
    BY <1>1, NothingIs, EmptyIs
  <2>. QED
    BY <1>1, <2>1, <2>2, IdleIs, NothingIs DEF Serial, NoReason
<1>5. Once
  BY <1>1, <1>2, IdleIs, EmptyIs DEF Once
<1>6. Whole
  BY <1>1, IdleIs, EmptyIs, NothingIs, StartIsWhole DEF Whole
<1>. QED
  BY <1>3, <1>4, <1>5, <1>6 DEF OutputInv

\* Every step keeps the invariant.
LEMMA Stepwise == OutputInv /\ [OutputNext]_outputVars => OutputInv'
<1>. SUFFICES ASSUME OutputInv, [OutputNext]_outputVars PROVE OutputInv'
  OBVIOUS
<1>1. CASE Write
  BY <1>1, WriteStep
<1>2. CASE SettleOutput
  BY <1>2, SettleOutputStep
<1>3. CASE Close
  BY <1>3, CloseStep
<1>4. ASSUME NEW r \in Reader, NEW kind \in Kinds, Call(r, kind) PROVE OutputInv'
  BY <1>4, JoinStep
<1>5. ASSUME NEW r \in Reader, Abort(r) \/ Expire(r) PROVE OutputInv'
  BY <1>5, UrgeStep
<1>6. ASSUME NEW r \in Reader, BeginRead(r) PROVE OutputInv'
  BY <1>6, BeginStep
<1>7. ASSUME NEW r \in Reader, ReadFails(r) PROVE OutputInv'
  BY <1>7, FailStep
<1>8. ASSUME NEW r \in Reader, EndRead(r) PROVE OutputInv'
  <2>1. OutputEnds(r) \/ WaitEnds(r) \/ TerminalPolls(r) \/ TerminalEnds(r)
    BY <1>8 DEF EndRead
  <2>. QED
    BY <1>8, <2>1, OutputStep, WaitStep, PollStep, LastStep
<1>9. ASSUME NEW r \in Reader, Wake(r) PROVE OutputInv'
  BY <1>9, WakeStep
<1>10. CASE UNCHANGED outputVars
  BY <1>10 DEF outputVars, OutputInv, Shape, Serial, Once, Whole, Extent
<1>. QED
  BY <1>1, <1>2, <1>3, <1>4, <1>5, <1>6, <1>7, <1>8, <1>9, <1>10 DEF OutputNext

\* The inductive invariant holds in every state.
THEOREM OutputInvariance == OutputSpec => []OutputInv
BY Initially, Stepwise, PTL DEF OutputSpec

\* The variables keep their types, and no range goes past the shared cursor.
THEOREM OutputTypeCorrect == OutputSpec => []OutputTypeOK
<1>1. ASSUME OutputInv PROVE OutputTypeOK
  <2>1. Shape /\ Serial /\ cursor \in Nat /\ written \in Nat
    BY <1>1 DEF OutputInv, Shape
  <2>2. ASSUME NEW g \in ByteRange, Honest(g, cursor) PROVE IsRange(g)
    BY <2>1, <2>2, RangeIs DEF Honest, IsRange
  <2>3. ASSUME NEW r \in Reader
        PROVE  /\ call[r].kind \in Kinds \cup {"none"}
               /\ call[r].at \in {"idle", "queued", "reading", "sleeping"}
               /\ call[r].final \in Ends \cup {NoReason}
               /\ call[r].from \in 0 .. cursor /\ call[r].size \in 0 .. written
               /\ call[r].start \in 0 .. call[r].size
               /\ call[r].urge \in {"none", "late", "aborted"} /\ IsRange(call[r].held)
    <3>1. call[r] \in CallState /\ Placed(call[r], cursor, written, ~running)
      BY <2>1 DEF Shape, Serial
    <3>2. call[r].held \in ByteRange /\ Honest(call[r].held, cursor)
      BY <3>1, CallIs DEF Placed
    <3>. QED
      BY <2>1, <2>2, <3>1, <3>2, CallIs DEF Placed
  <2>4. answer.reason \in Reasons \cup {NoReason} /\ answer.running \in BOOLEAN
        /\ answer.range \in ByteRange
    BY <2>1 DEF Shape, AnswerState
  <2>5. IsRange(answer.range)
    BY <2>1, <2>2, <2>4 DEF Serial
  <2>6. /\ log \in Logs /\ written \in 0 .. Len(log) /\ cursor \in 0 .. written
        /\ running \in BOOLEAN /\ closing \in BOOLEAN
    BY <2>1, Zenon DEF Shape
  <2>7. \A i \in DOMAIN queue : queue[i] \in Reader
    BY <2>1 DEF Shape
  <2>8. (\A i \in 1 .. Len(log) : given[i] \in Nat) /\ lost \subseteq 1 .. cursor
    <3>1. ASSUME NEW i \in lost PROVE i \in 1 .. cursor
      <4>1. i \in 1 .. Len(log)
        BY <2>1, <3>1 DEF Shape
      <4>2. ~(i > cursor)
        BY <1>1, <3>1, <4>1 DEF OutputInv, Once
      <4>. QED
        BY <2>1, <4>1, <4>2
    <3>. QED
      BY <2>1, <3>1 DEF Shape
  <2>. QED
    BY <2>3, <2>4, <2>5, <2>6, <2>7, <2>8, Zenon DEF OutputTypeOK
<1>. QED
  BY <1>1, OutputInvariance, PTL

\* Faithful answers: however the calls interleave and fail, every byte behind the
\* cursor came back once or is held by one wait or was lost with a failed one, each
\* range is what its offsets say, no result ends in a code point, and a wait that
\* gave up left a job that runs.
THEOREM FaithfulHolds == OutputSpec => []Faithful
<1>1. ASSUME OutputInv PROVE OnceOnly
  <2>. SUFFICES ASSUME NEW i \in 1 .. Len(log)
                PROVE  given[i] + Cardinality(Holders(i)) + (IF i \in lost THEN 1 ELSE 0)
                          = IF i <= cursor THEN 1 ELSE 0
    BY DEF OnceOnly
  <2>1. /\ given[i] \in Nat /\ cursor \in Nat /\ given[i] <= 1
        /\ i > cursor => given[i] = 0 /\ i \notin lost
        /\ i <= cursor => given[i] = 1 \/ i \in lost \/ \E r \in Reader : i \in call[r].held.bytes
        /\ i \in lost => given[i] = 0
        /\ \A r \in Reader : i \in call[r].held.bytes =>
              /\ given[i] = 0 /\ i \notin lost
              /\ \A s \in Reader : i \in call[s].held.bytes => s = r
    BY <1>1, SMTT(30) DEF OutputInv, Shape, Once
  <2>2. CASE Holders(i) = {}
    <3>1. \A r \in Reader : i \notin call[r].held.bytes
      BY <2>2 DEF Holders
    <3>2. Cardinality(Holders(i)) = 0
      BY <2>2, FS_EmptySet
    <3>3. i <= cursor => (given[i] = 1 /\ i \notin lost) \/ (given[i] = 0 /\ i \in lost)
      BY <2>1, <3>1
    <3>4. i > cursor => given[i] = 0 /\ i \notin lost
      BY <2>1
    <3>5. CASE i <= cursor
      BY <2>1, <3>2, <3>3, <3>5
    <3>6. CASE i > cursor
      BY <2>1, <3>2, <3>4, <3>6
    <3>. QED
      BY <2>1, <3>5, <3>6
  <2>3. ASSUME NEW r \in Holders(i)
        PROVE  Holders(i) = {r} /\ given[i] = 0 /\ i <= cursor /\ i \notin lost
    <3>1. r \in Reader /\ i \in call[r].held.bytes
      BY DEF Holders
    <3>2. Holders(i) = {r} /\ given[i] = 0 /\ i \notin lost
      BY <2>1, <3>1 DEF Holders
    <3>3. call[r].held \in ByteRange /\ Honest(call[r].held, cursor)
      BY <1>1, <3>1, CallIs DEF OutputInv, Shape, Serial, Placed
    <3>. QED
      BY <2>1, <3>1, <3>2, <3>3, RangeIs DEF Honest
  <2>4. CASE Holders(i) # {}
    <3>1. PICK r \in Holders(i) : TRUE
      BY <2>4
    <3>2. Cardinality(Holders(i)) = 1
      BY <2>3, <3>1, FS_Singleton
    <3>. QED
      BY <2>1, <2>3, <3>1, <3>2
  <2>. QED
    BY <2>2, <2>4
<1>2. ASSUME OutputInv, NEW g \in Ranges
      PROVE  /\ g.bytes = g.start + 1 .. g.end /\ ~InsideCodePoint(g.end)
  <2>1. g \in ByteRange /\ Honest(g, cursor) /\ ~Splits(log, g.end, Extent)
    <3>1. CASE g = answer.range
      BY <1>2, <3>1 DEF OutputInv, Shape, AnswerState, Serial, Whole
    <3>2. ASSUME NEW r \in Reader, g = call[r].held
          PROVE  g \in ByteRange /\ Honest(g, cursor) /\ ~Splits(log, g.end, Extent)
      BY <1>2, <3>2, CallIs DEF OutputInv, Shape, Serial, Placed, Whole
    <3>. QED
      BY <3>1, <3>2 DEF Ranges
  <2>2. /\ g.end \in 0 .. Len(log) /\ log \in Seq(Byte) /\ Len(log) \in Nat
        /\ Extent \in Nat /\ written \in Nat /\ written <= Extent
    BY <1>2, <2>1, RangeIs DEF OutputInv, Shape, Honest, Extent
  <2>3. ASSUME InsideCodePoint(g.end) PROVE Splits(log, g.end, Extent)
    <3>. DEFINE w(s) == CASE log[s] = "2" -> 2 [] log[s] = "3" -> 3
                          [] log[s] = "4" -> 4 [] OTHER -> 1
    <3>1. PICK s \in 1 .. g.end : /\ g.end < s + w(s) - 1 /\ s + w(s) - 1 <= written
                                  /\ \A k \in s + 1 .. s + w(s) - 1 : log[k] = "c"
      BY <2>3 DEF InsideCodePoint
    <3>2. log[s] \in Byte /\ w(s) = Span[log[s]] /\ Span[log[s]] \in 1 .. 4
      BY <2>2, ByteIs DEF Span
    <3>. HIDE DEF w
    <3>3. s + w(s) - 1 <= Extent
      BY <2>2, <3>1, <3>2, SMTT(30)
    <3>. QED
      BY <3>1, <3>2, <3>3 DEF Splits
  <2>. QED
    BY <2>1, <2>3 DEF Honest
<1>3. ASSUME OutputInv PROVE HonestReason
  BY <1>3 DEF OutputInv, Serial, HonestReason
<1>4. OutputInv => Faithful
  BY <1>1, <1>2, <1>3 DEF Faithful, HonestRange, WholeCodePoints
<1>. QED
  BY <1>4, OutputInvariance, PTL

\* Progress of each read: a call that reads a settled job with bytes left moves
\* the cursor, so unfinished UTF-8 at the end of its file is not kept for ever.
THEOREM SettledReadsAdvanceHolds == OutputSpec => SettledReadsAdvance
<1>. DEFINE A == \A r \in Reader :
                    /\ ~running
                    /\ call[r].at = "reading" /\ call[r].kind \in {"output", "wait"}
                    /\ answer' # Nothing
                    /\ call[r].size > call[r].start
                    => cursor' > cursor
<1>1. OutputInv /\ [OutputNext]_outputVars => [A]_outputVars
  <2>. SUFFICES ASSUME OutputInv, OutputNext, NEW r \in Reader, ~running, call[r].at = "reading",
                       call[r].kind \in {"output", "wait"}, answer' # Nothing,
                       call[r].size > call[r].start
                PROVE  cursor' > cursor
    OBVIOUS
  <2>1. PICK s \in Reader : EndRead(s)
    BY DEF OutputNext, Write, SettleOutput, Close, Call, Abort, Expire, BeginRead, ReadFails, Wake, Silent
  <2>2. s = r
    BY <2>1 DEF OutputInv, Serial, EndRead
  <2>3. OutputEnds(r) \/ WaitEnds(r)
    BY <2>1, <2>2 DEF EndRead, TerminalPolls, TerminalEnds
  <2>4. cursor' = cursor + Taken(Read(call[r].start, call[r].size, Limit), Empty)
    BY <2>3 DEF OutputEnds, WaitEnds
  <2>5. PICK n \in 0 .. written - cursor :
           Taken(Read(call[r].start, call[r].size, Limit), Empty) = n /\ n > 0
    BY TakenIs
  <2>6. cursor \in Nat /\ written \in Nat
    BY DEF OutputInv, Shape
  <2>. QED
    BY <2>4, <2>5, <2>6
<1>. QED
  BY <1>1, OutputInvariance, PTL DEF OutputSpec, SettledReadsAdvance
=============================================================================
