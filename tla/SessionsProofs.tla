--------------------------- MODULE SessionsProofs ---------------------------
(***************************************************************************)
(* Safety of the session leases, for any set of processes on two hosts and *)
(* any number of session ids: what the lease file promises to the next     *)
(* launch, and when a session can be open twice.                           *)
(***************************************************************************)
EXTENDS Sessions, FiniteSetTheorems, TLAPS

\* What a place in the launch, the life or the release of a runtime says of the
\* sessions the process knows: a lease that is held is the one of the runtime
\* or the one just taken.
Located ==
    \A p \in Proc :
        /\ at[p] \in Taking \cup {"pause", "assembling"}
              => try[p].want \in Session
        /\ at[p] \in {"release", "unlink"} => old[p] \in Session
        /\ at[p] = "live" => cur[p] \in Session
        /\ at[p] \in {"unborn", "gone"} => cur[p] = NoSession
        /\ at[p] = "assembling" => try[p].want \in leases[p]
        /\ \A s \in leases[p] : \/ s = cur[p]
                                \/ at[p] = "assembling" /\ s = try[p].want

\* A complete lease file names a process that was launched.
Born == \A s \in Session :
            lease[s].whole =>
                \A p \in Proc : lease[s].by = p => at[p] # "unborn"

\* No two launches are inside acquireLease() for s.
Alone(s) ==
    \A p, q \in Proc :
        {at[p], at[q]} \subseteq Taking /\ try[p].want = s /\ try[q].want = s
            => p = q

\* What p knows of the file of s.
Sure(p, s) ==
    /\ s \in leases[p] \cup {cur[p]}
          => s \in leases[p] /\ lease[s].whole /\ lease[s].by = p
    /\ at[p] = "write" /\ try[p].want = s => ~lease[s].whole /\ lease[s].by = p
    /\ at[p] = "assembling" /\ try[p].want = s => cur[p] # s
    /\ at[p] = "remove" /\ try[p].want = s /\ lease[s].whole => ~Up(lease[s].by)
    /\ at[p] \in {"release", "unlink"} /\ old[p] = s => s \notin leases[p]
    /\ at[p] = "unlink" /\ old[p] = s => lease[s].whole /\ lease[s].by = p

\* A session nobody fought over: its file is believed by both hosts, at most
\* one launch is inside acquireLease() for it, and every process is right about
\* it.
Named ==
    \A s \in Session \ raced :
        ~lease[s].old /\ Alone(s) /\ \A p \in Proc : Sure(p, s)

\* A file that names a process which could always remove its leases is held or
\* being released.
Truthful ==
    \A p \in Proc \ crashed, s \in Session :
        lease[s].whole /\ lease[s].by = p
            => \/ s \in leases[p]
               \/ at[p] \in {"release", "unlink"} /\ old[p] = s

IInv == TypeOK /\ Located /\ Born /\ Named /\ Truthful

-----------------------------------------------------------------------------
USE DEF Session, NoSession, files, launch, hold

\* What a launch that found a file does next.
LEMMA ReadCases ==
    ASSUME NEW p \in Proc, Read(p)
    PROVE  \/ GiveUp(p)
           \/ Seek(p, "new", clock, 0)
           \/ Pause(p)
           \/ /\ ~Live(p, lease[try[p].want])
              /\ at' = [at EXCEPT ![p] = "remove"] /\ UNCHANGED try
  BY DEF Read, Held

\* What a launch does after its second attempt.
LEMMA LastLookCases ==
    ASSUME NEW p \in Proc, LastLook(p)
    PROVE  \/ GiveUp(p)
           \/ Seek(p, "new", clock, 0)
           \/ Pause(p)
  BY DEF LastLook, Held

\* Every step records the races it starts.
LEMMA NextRaces == Next => Races
BY DEF Next, Acquire, Ends, Runs, Launch, Create, Write, WriteFails, Read,
       Remove, LastLook, AcquireFails, Retry, Assembled, AssemblyFails,
       StartNewSession, Shutdown, Release, Unlink, ReleaseFails, Crash, Tick, Age

\* The races are races for sessions.
LEMMA RacedStep ==
    raced \subseteq Session /\ [Next]_vars => raced' \subseteq Session
BY NextRaces DEF Races, vars

\* The values that are written to a lease file and to an attempt.
LEMMA EntryTypes ==
    /\ NoFile \in Lease /\ NoTry \in Attempt
    /\ \A p \in Proc, w, o \in BOOLEAN :
          [by |-> p, whole |-> w, old |-> o] \in Lease
    /\ \A k \in {"new", "continue", "id"}, s \in Session, n \in 0 .. 2 :
          [kind |-> k, want |-> s, round |-> 0, tries |-> n] \in Attempt
    /\ \A a \in Attempt : [a EXCEPT !.round = 1] \in Attempt
    /\ \A a \in Attempt : a.tries < 2 => [a EXCEPT !.tries = @ + 1] \in Attempt
    /\ \A f \in Lease : /\ [f EXCEPT !.whole = TRUE] \in Lease
                        /\ [f EXCEPT !.old = TRUE] \in Lease
<1>1. NoFile \in Lease /\ NoTry \in Attempt
  BY MaxIdAssumption DEF NoFile, NoTry, Lease, Attempt
<1>2. \A p \in Proc, w, o \in BOOLEAN :
          [by |-> p, whole |-> w, old |-> o] \in Lease
  BY DEF Lease
<1>3. \A k \in {"new", "continue", "id"}, s \in Session, n \in 0 .. 2 :
          [kind |-> k, want |-> s, round |-> 0, tries |-> n] \in Attempt
  BY DEF Attempt
<1>4. \A a \in Attempt : [a EXCEPT !.round = 1] \in Attempt
  BY DEF Attempt
<1>5. \A a \in Attempt : a.tries < 2 => [a EXCEPT !.tries = @ + 1] \in Attempt
  BY DEF Attempt
<1>6. \A f \in Lease : /\ [f EXCEPT !.whole = TRUE] \in Lease
                        /\ [f EXCEPT !.old = TRUE] \in Lease
  BY DEF Lease
<1>. QED BY <1>1, <1>2, <1>3, <1>4, <1>5, <1>6

\* Taking a session keeps the types.
LEMMA SeekType ==
    ASSUME TypeOK, NEW p \in Proc, NEW k \in {"new", "continue", "id"},
           NEW s \in Session, NEW n \in 0 .. 2, Seek(p, k, s, n)
    PROVE  at' \in [Proc -> Place] /\ try' \in [Proc -> Attempt]
<1>1. [kind |-> k, want |-> s, round |-> 0, tries |-> n] \in Attempt
  BY EntryTypes
<1>. QED  BY <1>1 DEF TypeOK, Seek, Place, Taking

\* Ending a launch keeps the types.
LEMMA GiveUpType ==
    ASSUME TypeOK, NEW p \in Proc, GiveUp(p)
    PROVE  at' \in [Proc -> Place] /\ try' \in [Proc -> Attempt]
BY EntryTypes DEF TypeOK, GiveUp, Place, Taking

\* Finding the session open elsewhere keeps the types.
LEMMA HeldType ==
    ASSUME TypeOK, NEW p \in Proc, Held(p)
    PROVE  at' \in [Proc -> Place] /\ try' \in [Proc -> Attempt]
<1>1. CASE GiveUp(p)
  BY <1>1, GiveUpType
<1>2. CASE Seek(p, "new", clock, 0)
  BY <1>2, SeekType DEF TypeOK
<1>3. CASE try[p].tries < 2 /\ Pause(p)
  <2>1. [try[p] EXCEPT !.tries = @ + 1] \in Attempt
    BY <1>3, EntryTypes DEF TypeOK
  <2>2. try' = [try EXCEPT ![p] = [try[p] EXCEPT !.tries = @ + 1]]
    BY <1>3 DEF TypeOK, Pause
  <2>. QED  BY <1>3, <2>1, <2>2 DEF TypeOK, Place, Pause
<1>. QED  BY <1>1, <1>2, <1>3 DEF Held

\* The invariant holds at first, with the lease of a crashed owner or without.
LEMMA InitInv == Init => IInv
<1>. SUFFICES ASSUME Init PROVE IInv
  OBVIOUS
<1>1. NoFile \in Lease /\ ~NoFile.old /\ ~NoFile.whole /\ NoTry \in Attempt
  BY EntryTypes DEF NoFile
<1>2. /\ lease \in [Session -> Lease]
      /\ \A s \in Session : /\ ~lease[s].old
                            /\ lease[s].whole => lease[s].by = Ghost
  <2>1. CASE lease \in [Session -> {NoFile}]
    BY <1>1, <2>1
  <2>2. ASSUME NEW w \in BOOLEAN,
               lease = [s \in Session |-> IF s = 1
                                          THEN [by |-> Ghost, whole |-> w,
                                                old |-> FALSE]
                                          ELSE NoFile]
        PROVE  /\ lease \in [Session -> Lease]
               /\ \A s \in Session : /\ ~lease[s].old
                                     /\ lease[s].whole => lease[s].by = Ghost
    <3>1. [by |-> Ghost, whole |-> w, old |-> FALSE] \in Lease
      BY DEF Lease
    <3>. QED  BY <1>1, <2>2, <3>1
  <2>. QED  BY <2>1, <2>2 DEF Init
<1>3. TypeOK
  BY <1>1, <1>2, MaxIdAssumption DEF Init, TypeOK, Place, Taking
<1>4. Located /\ Born /\ Truthful
  BY <1>2, GhostAssumption DEF Init, Located, Born, Truthful, Taking
<1>5. Named
  BY <1>2 DEF Init, Named, Alone, Sure, Taking
<1>. QED  BY <1>3, <1>4, <1>5 DEF IInv

\* Every step keeps the types.
LEMMA TypeStep == TypeOK /\ Located /\ [Next]_vars => TypeOK'
<1>. SUFFICES ASSUME TypeOK, Located, [Next]_vars PROVE TypeOK'
  OBVIOUS
<1>0. raced' \subseteq Session
  BY RacedStep DEF TypeOK
<1>. USE <1>0, MaxIdAssumption DEF TypeOK
<1>1. ASSUME NEW p \in Proc, Launch(p) PROVE TypeOK'
  <2>1. at' \in [Proc -> Place] /\ try' \in [Proc -> Attempt]
    BY <1>1, SeekType, GiveUpType DEF Launch
  <2>. QED  BY <1>1, <2>1 DEF Launch
<1>2. ASSUME NEW p \in Proc, Create(p) PROVE TypeOK'
  <2>1. [by |-> p, whole |-> FALSE, old |-> FALSE] \in Lease
    BY EntryTypes
  <2>2. lease' \in [Session -> Lease]
    BY <1>2, <2>1 DEF Create
  <2>3. at' \in [Proc -> Place]
    BY <1>2 DEF Create, Place, Taking
  <2>. QED  BY <1>2, <2>2, <2>3 DEF Create
<1>3. ASSUME NEW p \in Proc, Write(p) PROVE TypeOK'
  <2>1. at[p] = "write" /\ try[p].want \in Session
    BY <1>3 DEF Write, Located, Taking
  <2>2. lease' \in [Session -> Lease]
    BY <1>3, EntryTypes DEF Write
  <2>3. leases' \in [Proc -> SUBSET Session]
    BY <1>3, <2>1 DEF Write
  <2>. QED  BY <1>3, <2>2, <2>3 DEF Write, Place
<1>4. ASSUME NEW p \in Proc, WriteFails(p) PROVE TypeOK'
  BY <1>4, GiveUpType DEF WriteFails
<1>5. ASSUME NEW p \in Proc, Read(p) PROVE TypeOK'
  <2>1. CASE Held(p)
    BY <1>5, <2>1, HeldType DEF Read
  <2>2. CASE at' = [at EXCEPT ![p] = "remove"] /\ UNCHANGED try
    BY <1>5, <2>2 DEF Read, Place, Taking
  <2>. QED  BY <1>5, <2>1, <2>2 DEF Read
<1>6. ASSUME NEW p \in Proc, Remove(p) PROVE TypeOK'
  <2>1. NoFile \in Lease /\ [try[p] EXCEPT !.round = 1] \in Attempt
    <3>1. try[p] \in Attempt
      OBVIOUS
    <3>. QED  BY <3>1, EntryTypes
  <2>2. at' \in [Proc -> Place]
    BY <1>6 DEF Remove, Place, Taking
  <2>3. try' = [try EXCEPT ![p] = [try[p] EXCEPT !.round = 1]]
    BY <1>6 DEF Remove
  <2>. QED  BY <1>6, <2>1, <2>2, <2>3 DEF Remove
<1>7. ASSUME NEW p \in Proc, LastLook(p) PROVE TypeOK'
  BY <1>7, HeldType, GiveUpType DEF LastLook
<1>8. ASSUME NEW p \in Proc, AcquireFails(p) PROVE TypeOK'
  BY <1>8, GiveUpType DEF AcquireFails
<1>9. ASSUME NEW p \in Proc, Retry(p) PROVE TypeOK'
  <2>1. try[p].tries \in 0 .. 2
    BY DEF Attempt
  <2>. QED  BY <1>9, <2>1, SeekType DEF Retry
<1>10. ASSUME NEW p \in Proc, Assembled(p) PROVE TypeOK'
  <2>1. try[p].want \in Session /\ NoTry \in Attempt
    BY <1>10, EntryTypes DEF Assembled, Located
  <2>2. CASE /\ cur' = [cur EXCEPT ![p] = try[p].want]
             /\ at' = [at EXCEPT ![p] = "live"]
             /\ try' = [try EXCEPT ![p] = NoTry]
             /\ UNCHANGED <<old, leases>>
    BY <1>10, <2>1, <2>2 DEF Assembled, Place
  <2>3. CASE StartRelease(p, cur[p], try[p].want)
    BY <1>10, <2>1, <2>3 DEF Assembled, StartRelease, Place
  <2>. QED  BY <1>10, <2>2, <2>3 DEF Assembled
<1>11. ASSUME NEW p \in Proc, AssemblyFails(p) PROVE TypeOK'
  <2>1. try[p].want \in Session /\ NoTry \in Attempt
    BY <1>11, EntryTypes DEF AssemblyFails, Located
  <2>. QED  BY <1>11, <2>1 DEF AssemblyFails, StartRelease, Place
<1>12. ASSUME NEW p \in Proc, StartNewSession(p) PROVE TypeOK'
  BY <1>12, SeekType DEF StartNewSession
<1>13. ASSUME NEW p \in Proc, Shutdown(p) PROVE TypeOK'
  BY <1>13, EntryTypes DEF Shutdown, StartRelease, Place
<1>14. ASSUME NEW p \in Proc, Release(p) PROVE TypeOK'
  <2>1. CASE at' = [at EXCEPT ![p] = "unlink"] /\ UNCHANGED <<try, old>>
    BY <1>14, <2>1 DEF Release, Place
  <2>2. CASE GiveUp(p) /\ old' = [old EXCEPT ![p] = NoSession]
    BY <1>14, <2>2, GiveUpType DEF Release
  <2>. QED  BY <1>14, <2>1, <2>2 DEF Release
<1>15. ASSUME NEW p \in Proc, Unlink(p) PROVE TypeOK'
  BY <1>15, GiveUpType, EntryTypes DEF Unlink
<1>16. ASSUME NEW p \in Proc, ReleaseFails(p) PROVE TypeOK'
  BY <1>16, GiveUpType DEF ReleaseFails
<1>17. ASSUME NEW p \in Proc, Crash(p) PROVE TypeOK'
  BY <1>17, EntryTypes DEF Crash, Place
<1>18. ASSUME Tick PROVE TypeOK'
  BY <1>18 DEF Tick
<1>19. ASSUME NEW s \in Session, Age(s) PROVE TypeOK'
  <2>1. [lease[s] EXCEPT !.old = TRUE] \in Lease
    BY EntryTypes
  <2>2. lease' = [lease EXCEPT ![s] = [lease[s] EXCEPT !.old = TRUE]]
    BY <1>19 DEF Age
  <2>. QED  BY <1>19, <2>1, <2>2 DEF Age
<1>20. CASE UNCHANGED vars
  BY <1>20 DEF vars
<1>. QED
  BY <1>1, <1>2, <1>3, <1>4, <1>5, <1>6, <1>7, <1>8, <1>9, <1>10, <1>11,
     <1>12, <1>13, <1>14, <1>15, <1>16, <1>17, <1>18, <1>19, <1>20
  DEF Next, Acquire, Ends, Runs

\* Every step keeps what the places say.
LEMMA LocatedStep == TypeOK /\ Located /\ [Next]_vars => Located'
<1>. SUFFICES ASSUME TypeOK, Located, [Next]_vars PROVE Located'
  OBVIOUS
<1>. USE MaxIdAssumption DEF TypeOK, Located, Taking, NoTry, NoFile
<1>1. ASSUME NEW p \in Proc, Launch(p) PROVE Located'
  BY <1>1 DEF Launch, Seek, GiveUp
<1>2. ASSUME NEW p \in Proc, Create(p) PROVE Located'
  BY <1>2 DEF Create
<1>3. ASSUME NEW p \in Proc, Write(p) PROVE Located'
  BY <1>3 DEF Write
<1>4. ASSUME NEW p \in Proc, WriteFails(p) PROVE Located'
  BY <1>4 DEF WriteFails, GiveUp
<1>5. ASSUME NEW p \in Proc, Read(p) PROVE Located'
  <2>1. CASE GiveUp(p)
    BY <1>5, <2>1 DEF Read, GiveUp
  <2>2. CASE Seek(p, "new", clock, 0)
    BY <1>5, <2>2 DEF Read, Seek
  <2>3. CASE Pause(p)
    BY <1>5, <2>3 DEF Read, Attempt, Pause
  <2>4. CASE /\ ~Live(p, lease[try[p].want])
             /\ at' = [at EXCEPT ![p] = "remove"] /\ UNCHANGED try
    BY <1>5, <2>4 DEF Read
  <2>. QED  BY <1>5, <2>1, <2>2, <2>3, <2>4, ReadCases
<1>6. ASSUME NEW p \in Proc, Remove(p) PROVE Located'
  BY <1>6 DEF Remove
<1>7. ASSUME NEW p \in Proc, LastLook(p) PROVE Located'
  <2>1. CASE GiveUp(p)
    BY <1>7, <2>1 DEF LastLook, GiveUp
  <2>2. CASE Seek(p, "new", clock, 0)
    BY <1>7, <2>2 DEF LastLook, Seek
  <2>3. CASE Pause(p)
    BY <1>7, <2>3 DEF LastLook, Attempt, Pause
  <2>. QED  BY <1>7, <2>1, <2>2, <2>3, LastLookCases
<1>8. ASSUME NEW p \in Proc, AcquireFails(p) PROVE Located'
  BY <1>8 DEF AcquireFails, GiveUp
<1>9. ASSUME NEW p \in Proc, Retry(p) PROVE Located'
  BY <1>9 DEF Retry, Seek
<1>10. ASSUME NEW p \in Proc, Assembled(p) PROVE Located'
  BY <1>10 DEF Assembled, StartRelease
<1>11. ASSUME NEW p \in Proc, AssemblyFails(p) PROVE Located'
  BY <1>11 DEF AssemblyFails, StartRelease
<1>12. ASSUME NEW p \in Proc, StartNewSession(p) PROVE Located'
  BY <1>12 DEF StartNewSession, Seek
<1>13. ASSUME NEW p \in Proc, Shutdown(p) PROVE Located'
  BY <1>13 DEF Shutdown, StartRelease
<1>14. ASSUME NEW p \in Proc, Release(p) PROVE Located'
  BY <1>14 DEF Release, GiveUp
<1>15. ASSUME NEW p \in Proc, Unlink(p) PROVE Located'
  BY <1>15 DEF Unlink, GiveUp
<1>16. ASSUME NEW p \in Proc, ReleaseFails(p) PROVE Located'
  BY <1>16 DEF ReleaseFails, GiveUp
<1>17. ASSUME NEW p \in Proc, Crash(p) PROVE Located'
  BY <1>17 DEF Crash
<1>18. ASSUME Tick PROVE Located'
  BY <1>18 DEF Tick
<1>19. ASSUME NEW s \in Session, Age(s) PROVE Located'
  BY <1>19 DEF Age
<1>20. CASE UNCHANGED vars
  BY <1>20 DEF vars
<1>. QED
  BY <1>1, <1>2, <1>3, <1>4, <1>5, <1>6, <1>7, <1>8, <1>9, <1>10, <1>11,
     <1>12, <1>13, <1>14, <1>15, <1>16, <1>17, <1>18, <1>19, <1>20
  DEF Next, Acquire, Ends, Runs

\* Every step keeps the owners of complete files launched.
LEMMA BornStep == TypeOK /\ Born /\ [Next]_vars => Born'
<1>. SUFFICES ASSUME TypeOK, Born, [Next]_vars PROVE Born'
  OBVIOUS
<1>. USE MaxIdAssumption DEF TypeOK, Born, Taking, NoTry, NoFile
<1>1. ASSUME NEW p \in Proc, Launch(p) PROVE Born'
  <2>1. \A q \in Proc : at'[q] = "unborn" => at[q] = "unborn"
    BY <1>1 DEF Launch, Seek, GiveUp
  <2>. QED  BY <1>1, <2>1 DEF Launch
<1>2. ASSUME NEW p \in Proc, Create(p) PROVE Born'
  <2>1. \A s \in Session : lease'[s] = lease[s] \/ ~lease'[s].whole
    BY <1>2 DEF Create
  <2>2. \A q \in Proc : at'[q] = "unborn" => at[q] = "unborn"
    BY <1>2 DEF Create
  <2>. QED  BY <2>1, <2>2
<1>3. ASSUME NEW p \in Proc, Write(p) PROVE Born'
  <2>1. \A s \in Session : /\ lease'[s].by = lease[s].by
                          /\ lease'[s].whole
                                => lease[s].whole \/ lease[s].by = p
    BY <1>3 DEF Write, Lease
  <2>. QED  BY <1>3, <2>1 DEF Write
<1>4. ASSUME NEW p \in Proc, WriteFails(p) PROVE Born'
  BY <1>4 DEF WriteFails, Pause, GiveUp
<1>5. ASSUME NEW p \in Proc, Read(p) PROVE Born'
  <2>1. \A q \in Proc : at'[q] = "unborn" => at[q] = "unborn"
    BY <1>5, ReadCases DEF Seek, Pause, GiveUp
  <2>. QED  BY <1>5, <2>1 DEF Read
<1>6. ASSUME NEW p \in Proc, Remove(p) PROVE Born'
  BY <1>6 DEF Remove
<1>7. ASSUME NEW p \in Proc, LastLook(p) PROVE Born'
  BY <1>7 DEF LastLook, Held, Seek, Pause, GiveUp
<1>8. ASSUME NEW p \in Proc, AcquireFails(p) PROVE Born'
  BY <1>8 DEF AcquireFails, Pause, GiveUp
<1>9. ASSUME NEW p \in Proc, Retry(p) PROVE Born'
  BY <1>9 DEF Retry, Seek
<1>10. ASSUME NEW p \in Proc, Assembled(p) PROVE Born'
  BY <1>10 DEF Assembled, StartRelease
<1>11. ASSUME NEW p \in Proc, AssemblyFails(p) PROVE Born'
  BY <1>11 DEF AssemblyFails, StartRelease
<1>12. ASSUME NEW p \in Proc, StartNewSession(p) PROVE Born'
  BY <1>12 DEF StartNewSession, Seek
<1>13. ASSUME NEW p \in Proc, Shutdown(p) PROVE Born'
  BY <1>13 DEF Shutdown, StartRelease
<1>14. ASSUME NEW p \in Proc, Release(p) PROVE Born'
  BY <1>14 DEF Release, Pause, GiveUp
<1>15. ASSUME NEW p \in Proc, Unlink(p) PROVE Born'
  BY <1>15 DEF Unlink, Pause, GiveUp
<1>16. ASSUME NEW p \in Proc, ReleaseFails(p) PROVE Born'
  BY <1>16 DEF ReleaseFails, Pause, GiveUp
<1>17. ASSUME NEW p \in Proc, Crash(p) PROVE Born'
  BY <1>17 DEF Crash
<1>18. ASSUME Tick PROVE Born'
  BY <1>18 DEF Tick
<1>19. ASSUME NEW s \in Session, Age(s) PROVE Born'
  <2>1. \A t \in Session : /\ lease'[t].by = lease[t].by
                          /\ lease'[t].whole => lease[t].whole
    BY <1>19 DEF Age, Lease
  <2>. QED  BY <1>19, <2>1 DEF Age
<1>20. CASE UNCHANGED vars
  BY <1>20 DEF vars
<1>. QED
  BY <1>1, <1>2, <1>3, <1>4, <1>5, <1>6, <1>7, <1>8, <1>9, <1>10, <1>11,
     <1>12, <1>13, <1>14, <1>15, <1>16, <1>17, <1>18, <1>19, <1>20
  DEF Next, Acquire, Ends, Runs

\* Every step keeps the files of clean processes held or under release.
LEMMA TruthfulStep == TypeOK /\ Located /\ Truthful /\ [Next]_vars => Truthful'
<1>. SUFFICES ASSUME TypeOK, Located, Truthful, [Next]_vars PROVE Truthful'
  OBVIOUS
<1>. USE MaxIdAssumption DEF TypeOK, Located, Truthful, Taking, NoTry, NoFile
<1>1. ASSUME NEW p \in Proc, Launch(p) PROVE Truthful'
  <2>1. at[p] = "unborn" /\ \A q \in Proc \ {p} : at'[q] = at[q]
    BY <1>1 DEF Launch, Seek, GiveUp
  <2>. QED  BY <1>1, <2>1 DEF Launch
<1>2. ASSUME NEW p \in Proc, Create(p) PROVE Truthful'
  <2>1. \A s \in Session : lease'[s] = lease[s] \/ ~lease'[s].whole
    BY <1>2 DEF Create
  <2>2. \A q \in Proc : at'[q] \in {"release", "unlink"}
                          <=> at[q] \in {"release", "unlink"}
    BY <1>2 DEF Create
  <2>. QED  BY <1>2, <2>1, <2>2 DEF Create
<1>3. ASSUME NEW p \in Proc, Write(p) PROVE Truthful'
  BY <1>3 DEF Write
<1>4. ASSUME NEW p \in Proc, WriteFails(p) PROVE Truthful'
  BY <1>4 DEF WriteFails, Pause, GiveUp
<1>5. ASSUME NEW p \in Proc, Read(p) PROVE Truthful'
  BY <1>5 DEF Read, Held, Seek, Pause, GiveUp
<1>6. ASSUME NEW p \in Proc, Remove(p) PROVE Truthful'
  BY <1>6 DEF Remove
<1>7. ASSUME NEW p \in Proc, LastLook(p) PROVE Truthful'
  BY <1>7 DEF LastLook, Held, Seek, Pause, GiveUp
<1>8. ASSUME NEW p \in Proc, AcquireFails(p) PROVE Truthful'
  BY <1>8 DEF AcquireFails, Pause, GiveUp
<1>9. ASSUME NEW p \in Proc, Retry(p) PROVE Truthful'
  BY <1>9 DEF Retry, Seek
<1>10. ASSUME NEW p \in Proc, Assembled(p) PROVE Truthful'
  <2>1. CASE /\ at' = [at EXCEPT ![p] = "live"]
             /\ UNCHANGED <<old, leases>>
    BY <1>10, <2>1 DEF Assembled
  <2>2. CASE StartRelease(p, cur[p], try[p].want)
    BY <1>10, <2>2 DEF Assembled, StartRelease
  <2>. QED  BY <1>10, <2>1, <2>2 DEF Assembled
<1>11. ASSUME NEW p \in Proc, AssemblyFails(p) PROVE Truthful'
  BY <1>11 DEF AssemblyFails, StartRelease
<1>12. ASSUME NEW p \in Proc, StartNewSession(p) PROVE Truthful'
  BY <1>12 DEF StartNewSession, Seek
<1>13. ASSUME NEW p \in Proc, Shutdown(p) PROVE Truthful'
  BY <1>13 DEF Shutdown, StartRelease
<1>14. ASSUME NEW p \in Proc, Release(p) PROVE Truthful'
  BY <1>14 DEF Release, Pause, GiveUp
<1>15. ASSUME NEW p \in Proc, Unlink(p) PROVE Truthful'
  BY <1>15 DEF Unlink, Pause, GiveUp
<1>16. ASSUME NEW p \in Proc, ReleaseFails(p) PROVE Truthful'
  BY <1>16 DEF ReleaseFails, Pause, GiveUp
<1>17. ASSUME NEW p \in Proc, Crash(p) PROVE Truthful'
  BY <1>17 DEF Crash
<1>18. ASSUME Tick PROVE Truthful'
  BY <1>18 DEF Tick
<1>19. ASSUME NEW s \in Session, Age(s) PROVE Truthful'
  BY <1>19 DEF Age
<1>20. CASE UNCHANGED vars
  BY <1>20 DEF vars
<1>. QED
  BY <1>1, <1>2, <1>3, <1>4, <1>5, <1>6, <1>7, <1>8, <1>9, <1>10, <1>11,
     <1>12, <1>13, <1>14, <1>15, <1>16, <1>17, <1>18, <1>19, <1>20
  DEF Next, Acquire, Ends, Runs

\* A session that is not fought over after a step was not before it, its file
\* is not a day old, and at most one launch wants it.
LEMMA Unraced ==
    ASSUME TypeOK, Races, NEW s \in Session \ raced'
    PROVE  s \notin raced /\ ~lease'[s].old /\ Alone(s)'
BY DEF Races, Alone

\* No step makes a process wrong about a session nobody fought over.
LEMMA NamedStep == TypeOK /\ Located /\ Born /\ Named /\ [Next]_vars => Named'
<1>. SUFFICES ASSUME TypeOK, Located, Born, Named, [Next]_vars,
                     NEW s \in Session \ raced'
              PROVE  ~lease'[s].old /\ Alone(s)' /\ \A q \in Proc : Sure(q, s)'
  BY DEF Named
<1>a. CASE UNCHANGED vars
  BY <1>a DEF Named, Alone, Sure, Up, vars
<1>b. ASSUME Next PROVE s \notin raced /\ ~lease'[s].old /\ Alone(s)'
  BY <1>b, NextRaces, Unraced
<1>c. ASSUME s \notin raced
      PROVE  ~lease[s].old /\ Alone(s) /\ \A q \in Proc : Sure(q, s)
  BY <1>c DEF Named
<1>d. ASSUME NEW q \in Proc, Next PROVE Sure(q, s)'
  <2>0. /\ s \in Session /\ ~lease[s].old /\ Alone(s) /\ Alone(s)'
        /\ \A p \in Proc : Sure(p, s)
    BY <1>b, <1>c, <1>d
  <2>. USE <2>0, MaxIdAssumption DEF TypeOK, Located, Taking, NoTry, Sure, Up
<2>1. ASSUME NEW p \in Proc, Launch(p) PROVE Sure(q, s)'
    <3>1. lease[s].whole => lease[s].by # p
      BY <2>1 DEF Launch, Born
    <3>. QED  BY <2>1, <3>1 DEF Launch, Seek, Pause, GiveUp
<2>2. ASSUME NEW p \in Proc, Create(p) PROVE Sure(q, s)'
    <3>1. CASE lease[try[p].want] = NoFile /\ p = q
      BY <2>2, <3>1 DEF Create, NoFile
    <3>2. CASE lease[try[p].want] = NoFile /\ p # q
      <4>1. try[p].want = s => try[q].want # s \/ at[q] \notin Taking
        BY <2>2, <3>2 DEF Create, Alone
      <4>. QED  BY <2>2, <3>2, <4>1 DEF Create, NoFile
    <3>3. CASE lease[try[p].want] # NoFile
      BY <2>2, <3>3 DEF Create
    <3>. QED  BY <3>1, <3>2, <3>3
<2>3. ASSUME NEW p \in Proc, Write(p) PROVE Sure(q, s)'
    <3>1. CASE p = q
      BY <2>3, <3>1 DEF Write, Lease
    <3>2. CASE p # q
      <4>1. try[p].want = s => try[q].want # s \/ at[q] \notin Taking
        BY <2>3, <3>2 DEF Write, Alone
      <4>. QED  BY <2>3, <3>2, <4>1 DEF Write, Lease
    <3>. QED  BY <3>1, <3>2
<2>4. ASSUME NEW p \in Proc, WriteFails(p) PROVE Sure(q, s)'
  BY <2>4 DEF WriteFails, Pause, GiveUp
<2>5. ASSUME NEW p \in Proc, Read(p) PROVE Sure(q, s)'
    <3>1. CASE GiveUp(p)
      BY <2>5, <3>1 DEF Read, Pause, GiveUp
    <3>2. CASE Seek(p, "new", clock, 0)
      BY <2>5, <3>2 DEF Read, Seek
    <3>3. CASE Pause(p)
      BY <2>5, <3>3 DEF Read, Attempt, Pause
    <3>4. CASE /\ ~Live(p, lease[try[p].want])
             /\ at' = [at EXCEPT ![p] = "remove"] /\ UNCHANGED try
      BY <2>5, <3>4 DEF Read, Live
    <3>. QED  BY <2>5, <3>1, <3>2, <3>3, <3>4, ReadCases
<2>6. ASSUME NEW p \in Proc, Remove(p) PROVE Sure(q, s)'
    <3>1. CASE p = q
      BY <2>6, <3>1 DEF Remove, NoFile
    <3>2. CASE p # q
      <4>1. try[p].want = s => try[q].want # s \/ at[q] \notin Taking
        BY <2>6, <3>2 DEF Remove, Alone
      <4>2. try[p].want = s => ~(lease[s].whole /\ lease[s].by = q)  \/ ~Up(q)
        BY <2>6 DEF Remove
      <4>3. lease'[s] = lease[s] \/ try[p].want = s
        BY <2>6 DEF Remove
      <4>. QED  BY <2>6, <3>2, <4>1, <4>2, <4>3 DEF Remove, NoFile
    <3>. QED  BY <3>1, <3>2
<2>7. ASSUME NEW p \in Proc, LastLook(p) PROVE Sure(q, s)'
  BY <2>7 DEF LastLook, Held, Seek, Pause, GiveUp
<2>8. ASSUME NEW p \in Proc, AcquireFails(p) PROVE Sure(q, s)'
  BY <2>8 DEF AcquireFails, Pause, GiveUp
<2>9. ASSUME NEW p \in Proc, Retry(p) PROVE Sure(q, s)'
  BY <2>9 DEF Retry, Seek
<2>10. ASSUME NEW p \in Proc, Assembled(p) PROVE Sure(q, s)'
  BY <2>10 DEF Assembled, StartRelease
<2>11. ASSUME NEW p \in Proc, AssemblyFails(p) PROVE Sure(q, s)'
  BY <2>11 DEF AssemblyFails, StartRelease
<2>12. ASSUME NEW p \in Proc, StartNewSession(p) PROVE Sure(q, s)'
  BY <2>12 DEF StartNewSession, Seek
<2>13. ASSUME NEW p \in Proc, Shutdown(p) PROVE Sure(q, s)'
  BY <2>13 DEF Shutdown, StartRelease
<2>14. ASSUME NEW p \in Proc, Release(p) PROVE Sure(q, s)'
  BY <2>14 DEF Release, Pause, GiveUp
<2>15. ASSUME NEW p \in Proc, Unlink(p) PROVE Sure(q, s)'
  BY <2>15 DEF Unlink, Pause, GiveUp
<2>16. ASSUME NEW p \in Proc, ReleaseFails(p) PROVE Sure(q, s)'
  BY <2>16 DEF ReleaseFails, Pause, GiveUp
<2>17. ASSUME NEW p \in Proc, Crash(p) PROVE Sure(q, s)'
  BY <2>17 DEF Crash
<2>18. ASSUME Tick PROVE Sure(q, s)'
  BY <2>18 DEF Tick
<2>19. ASSUME NEW t \in Session, Age(t) PROVE Sure(q, s)'
  BY <2>19 DEF Age
<2>20. CASE UNCHANGED vars
  BY <2>20 DEF vars
<2>. QED
  BY <2>1, <2>2, <2>3, <2>4, <2>5, <2>6, <2>7, <2>8, <2>9, <2>10, <2>11,
     <2>12, <2>13, <2>14, <2>15, <2>16, <2>17, <2>18, <2>19, <2>20
  DEF Next, Acquire, Ends, Runs
<1>. QED  BY <1>a, <1>b, <1>d

\* The strengthened invariant holds in every reachable state.
THEOREM Invariance == Spec => []IInv
<1>1. IInv /\ [Next]_vars => IInv'
  BY TypeStep, LocatedStep, BornStep, NamedStep, TruthfulStep DEF IInv
<1>. QED  BY InitInv, <1>1, PTL DEF Spec

\* Every variable keeps its type.
THEOREM TypeCorrect == Spec => []TypeOK
<1>1. IInv => TypeOK
  BY DEF IInv
<1>. QED  BY Invariance, <1>1, PTL

\* While a process holds a session with neither of the two exemptions below
\* (two launches at once, a lease a day old), the file says so to every later
\* launch, through failed and successful /clear; and a process that ended
\* without a crash has left no lease behind, in any session.
THEOREM LeaseIsTruthfulHolds == Spec => []LeaseIsTruthful
<1>1. IInv => HolderIsNamed
  BY DEF IInv, Named, Sure, HolderIsNamed
<1>2. IInv => CleanExitLeavesNoLease
  BY DEF IInv, TypeOK, Located, Truthful, CleanExitLeavesNoLease
<1>3. IInv => LeaseIsTruthful
  BY <1>1, <1>2 DEF LeaseIsTruthful
<1>. QED  BY Invariance, <1>3, PTL

\* A session is open in one process at most. Exempt, and for good, is every
\* session for which two launches were ever inside acquireLease() at the same
\* moment, whether one of them removed a file or not, and every session whose
\* lease file ever reached the age at which the other host gives up on it.
THEOREM ExclusiveUnlessRacedHolds == Spec => []ExclusiveUnlessRaced
<1>1. ASSUME IInv, NEW s \in Session \ raced PROVE Cardinality(Holders(s)) <= 1
  <2>1. \A p \in Holders(s) : lease[s].by = p
    BY <1>1 DEF IInv, Named, Sure, Holders
  <2>2. Holders(s) \subseteq {lease[s].by}
    BY <2>1
  <2>3. /\ IsFiniteSet({lease[s].by})
        /\ Cardinality({lease[s].by}) = 1
    BY FS_Singleton
  <2>4. /\ IsFiniteSet(Holders(s))
        /\ Cardinality(Holders(s)) <= Cardinality({lease[s].by})
    BY <2>2, <2>3, FS_Subset
  <2>. QED  BY <2>3, <2>4
<1>2. IInv => ExclusiveUnlessRaced
  BY <1>1 DEF ExclusiveUnlessRaced
<1>. QED  BY Invariance, <1>2, PTL
=============================================================================
