------------------------------ MODULE Sessions ------------------------------
(***************************************************************************)
(* Which process has which session open.  A launch resolves a session and  *)
(* takes its lease.json, an exclusive file that names its owner; a runtime *)
(* holds the lease until it is retired by /clear or /rewind, or shut down. *)
(* Nothing but liveness of the owner ends a lease: there is no unlock.     *)
(*                                                                         *)
(* A process is one incarnation of darwin; a crashed one never comes back. *)
(* A session is the number of its id, which is derived from the clock.     *)
(* One step is one file operation of a launch or of a release.             *)
(***************************************************************************)
EXTENDS Naturals, FiniteSets

CONSTANTS Proc,         \* darwin processes
          Remote,       \* those of them that run on the other host
          MaxId         \* bound: the last session id the clock reaches

ASSUME RemoteAssumption == Remote \subseteq Proc
ASSUME MaxIdAssumption == MaxId \in Nat \ {0}

Session == 1 .. MaxId
NoSession == 0
Ghost == "ghost"        \* a process that crashed before the model starts
ASSUME GhostAssumption == Ghost \notin Proc

NoFile == [by |-> "none", whole |-> FALSE, old |-> FALSE]
NoTry == [kind |-> "new", want |-> NoSession, round |-> 0, tries |-> 0]

VARIABLES lease,        \* lease.json of each session
          clock,        \* what newSessionId() returns now
          at,           \* where each process is
          asked,        \* the session an explicit selector names
          try,          \* the launch or /clear under way: its SessionSelector,
                        \* the session acquireLease() wants, the attempt it is
                        \* at (0 or 1), and the attempts of acquireFresh()
          cur,          \* the session of the live runtime
          old,          \* the lease being released
          leases,       \* leases held: taken and not yet released
          crashed,      \* history: processes that could not remove a lease
          raced         \* history: sessions two launches wanted at once, or with a lease a day old

files == <<lease, clock>>
launch == <<asked, try>>
hold == <<cur, old, leases>>
vars == <<files, at, launch, hold, crashed, raced>>

Init ==
    /\ lease \in [Session -> {NoFile}] \cup
         {[s \in Session |-> IF s = 1
                             THEN [by |-> Ghost, whole |-> w, old |-> FALSE]
                             ELSE NoFile] : w \in BOOLEAN}
    /\ clock = 1
    /\ at = [p \in Proc |-> "unborn"]
    /\ asked = [p \in Proc |-> NoSession] /\ try = [p \in Proc |-> NoTry]
    /\ cur = [p \in Proc |-> NoSession] /\ old = [p \in Proc |-> NoSession]
    /\ leases = [p \in Proc |-> {}]
    /\ crashed = {} /\ raced = {}

Up(p) == p \in Proc /\ at[p] \notin {"unborn", "gone"}
Taking == {"create", "write", "read", "remove", "last"}

\* Two launches inside acquireLease() for one session, or a lease that another
\* host gave up on after 24 hours: what the exclusive create cannot decide.
Races == raced' = raced
    \cup {s \in Session :
            \/ \E p, q \in Proc : /\ p # q
                                 /\ {at'[p], at'[q]} \subseteq Taking
                                 /\ try'[p].want = s /\ try'[q].want = s
            \/ lease'[s].old}

-----------------------------------------------------------------------------
\* classifyLease(), as p reads the file

SameHost(p, q) == (p \in Remote) = (q \in Remote)

\* Mutant: an owner that cannot be probed is taken for dead.
LiveHere(p, file) == file.whole /\ SameHost(p, file.by) /\ Up(file.by)

\* An absent, half-written or malformed file is stale; so is the file of a dead
\* process of this host, and one of another host when it is a day old.
Live(p, file) ==
    /\ file.whole
    /\ IF SameHost(p, file.by) THEN Up(file.by) ELSE ~file.old

-----------------------------------------------------------------------------
\* resolveSession() and acquireLease()

\* Take the next fresh id, or the session that was named.
Seek(p, k, s, n) ==
    /\ try' = [try EXCEPT ![p] =
                 [kind |-> k, want |-> s, round |-> 0, tries |-> n]]
    /\ at' = [at EXCEPT ![p] = "create"]

\* A launch that ends here throws; a /clear goes back to the runtime it had.
GiveUp(p) ==
    /\ at' = [at EXCEPT ![p] = IF cur[p] = NoSession THEN "gone" ELSE "live"]
    /\ try' = [try EXCEPT ![p] = NoTry]

\* new, --resume, --resume <id>.  Which of the ids of the past have a snapshot,
\* and which of those last-session.json names, is left open: an explicit id
\* without a snapshot is refused, and --resume without one starts fresh.
Launch(p) ==
    /\ at[p] = "unborn"
    /\ \/ /\ Seek(p, "new", clock, 0)
          /\ UNCHANGED asked
       \/ \E s \in 1 .. clock : /\ Seek(p, "continue", s, 0)
                                /\ UNCHANGED asked
       \/ \E s \in 1 .. clock : /\ Seek(p, "id", s, 0) \/ GiveUp(p)
                                /\ asked' = [asked EXCEPT ![p] = s]
    /\ UNCHANGED <<files, hold, crashed>> /\ Races

\* writeFile(file, body, 'wx'): the name is created before the bytes are there.
Create(p) ==
    /\ at[p] = "create"
    /\ \/ /\ lease[try[p].want] = NoFile
          /\ lease' = [lease EXCEPT ![try[p].want] =
                         [by |-> p, whole |-> FALSE, old |-> FALSE]]
          /\ at' = [at EXCEPT ![p] = "write"]
       \/ /\ lease[try[p].want] # NoFile
          /\ at' = [at EXCEPT ![p] = "read"]
          /\ UNCHANGED lease
    /\ UNCHANGED <<clock, launch, hold, crashed>> /\ Races

\* The bytes go to the file that was created, linked or not; the lease is held.
Write(p) ==
    /\ at[p] = "write"
    /\ lease' = [s \in Session |->
                    IF s = try[p].want /\ lease[s].by = p
                    THEN [lease[s] EXCEPT !.whole = TRUE] ELSE lease[s]]
    /\ leases' = [leases EXCEPT ![p] = @ \cup {try[p].want}]
    /\ at' = [at EXCEPT ![p] = "assembling"]
    /\ UNCHANGED <<clock, launch, cur, old, crashed>> /\ Races

\* The name was created and the write failed: an empty file stays, which every
\* later launch reads as stale.
WriteFails(p) ==
    /\ at[p] = "write"
    /\ GiveUp(p)
    /\ UNCHANGED <<files, asked, hold, crashed>> /\ Races

\* Wait for another millisecond of the clock before the next fresh id.
Pause(p) ==
    /\ at' = [at EXCEPT ![p] = "pause"]
    /\ try' = [try EXCEPT ![p].tries = @ + 1]

\* The session is open elsewhere: an explicit id is refused, --resume starts
\* fresh, and a fresh id is tried again, three times in all.
Held(p) ==
    \/ /\ try[p].kind = "id" \/ (try[p].kind = "new" /\ try[p].tries = 2)
       /\ GiveUp(p)
    \/ try[p].kind = "continue" /\ Seek(p, "new", clock, 0)
    \/ try[p].kind = "new" /\ try[p].tries < 2 /\ Pause(p)

\* The file exists: read and classify it.
Read(p) ==
    /\ at[p] = "read"
    /\ \/ Live(p, lease[try[p].want]) /\ Held(p)
       \/ /\ ~Live(p, lease[try[p].want])
          /\ at' = [at EXCEPT ![p] = "remove"]
          /\ UNCHANGED try
    /\ UNCHANGED <<files, asked, hold, crashed>> /\ Races

\* Mutant: the two attempts are not counted.
RemoveForever(p) ==
    /\ at[p] = "remove"
    /\ lease' = [lease EXCEPT ![try[p].want] = NoFile]
    /\ try' = [try EXCEPT ![p].round = @ + 1]
    /\ at' = [at EXCEPT ![p] = "create"]
    /\ UNCHANGED <<clock, asked, hold, crashed>>
    /\ Races

\* rm(file, { force: true }), whatever is there now.
Remove(p) ==
    /\ at[p] = "remove"
    /\ lease' = [lease EXCEPT ![try[p].want] = NoFile]
    /\ try' = [try EXCEPT ![p].round = 1]
    /\ at' = [at EXCEPT ![p] = IF try[p].round = 0 THEN "create" ELSE "last"]
    /\ UNCHANGED <<clock, asked, hold, crashed>>
    /\ Races

\* Both attempts found a file: refuse, or throw when it vanished once more.
LastLook(p) ==
    /\ at[p] = "last"
    /\ \/ Live(p, lease[try[p].want]) /\ Held(p)
       \/ ~Live(p, lease[try[p].want]) /\ GiveUp(p)
    /\ UNCHANGED <<files, asked, hold, crashed>> /\ Races

\* mkdir or the create failed for another reason than an existing file.
AcquireFails(p) ==
    /\ at[p] = "create"
    /\ GiveUp(p)
    /\ UNCHANGED <<files, asked, hold, crashed>> /\ Races

\* Two milliseconds later newSessionId() returns another id.
Retry(p) ==
    /\ at[p] = "pause"
    /\ clock > try[p].want
    /\ Seek(p, "new", clock, try[p].tries)
    /\ UNCHANGED <<files, asked, hold, crashed>> /\ Races

-----------------------------------------------------------------------------
\* The runtime that owns the session

\* release() starts: from here on this process holds the session no more.
StartRelease(p, s, next) ==
    /\ old' = [old EXCEPT ![p] = s]
    /\ leases' = [leases EXCEPT ![p] = @ \ {s}]
    /\ cur' = [cur EXCEPT ![p] = next]
    /\ at' = [at EXCEPT ![p] = "release"]
    /\ try' = [try EXCEPT ![p] = NoTry]

\* create() returned: a first runtime is live, a successor retires the one
\* before it.
Assembled(p) ==
    /\ at[p] = "assembling"
    /\ \/ /\ cur[p] = NoSession
          /\ cur' = [cur EXCEPT ![p] = try[p].want]
          /\ at' = [at EXCEPT ![p] = "live"]
          /\ try' = [try EXCEPT ![p] = NoTry]
          /\ UNCHANGED <<old, leases>>
       \/ cur[p] # NoSession /\ StartRelease(p, cur[p], try[p].want)
    /\ UNCHANGED <<files, asked, crashed>> /\ Races

\* Mutant: a failed assembly releases the lease of the runtime that stays.
AssemblyUnwindsAll(p) ==
    /\ at[p] = "assembling"
    /\ LET s == IF cur[p] = NoSession THEN try[p].want ELSE cur[p]
       IN  StartRelease(p, s, cur[p])
    /\ UNCHANGED <<files, asked, crashed>> /\ Races

\* create() threw after the lease was taken: it is released on the way out.
AssemblyFails(p) ==
    /\ at[p] = "assembling"
    /\ StartRelease(p, try[p].want, cur[p])
    /\ UNCHANGED <<files, asked, crashed>> /\ Races

\* /clear, /rewind: the successor takes a fresh session of its own.
StartNewSession(p) ==
    /\ at[p] = "live"
    /\ Seek(p, "new", clock, 0)
    /\ asked' = [asked EXCEPT ![p] = NoSession]
    /\ UNCHANGED <<files, hold, crashed>> /\ Races

Shutdown(p) ==
    /\ at[p] = "live"
    /\ StartRelease(p, cur[p], NoSession)
    /\ UNCHANGED <<files, asked, crashed>> /\ Races

\* release() reads the file: only one that names this process is removed.
Release(p) ==
    /\ at[p] = "release"
    /\ \/ /\ lease[old[p]].whole /\ lease[old[p]].by = p
          /\ at' = [at EXCEPT ![p] = "unlink"]
          /\ UNCHANGED <<try, old>>
       \/ /\ ~(lease[old[p]].whole /\ lease[old[p]].by = p)
          /\ GiveUp(p) /\ old' = [old EXCEPT ![p] = NoSession]
    /\ UNCHANGED <<files, asked, cur, leases, crashed>> /\ Races

Unlink(p) ==
    /\ at[p] = "unlink"
    /\ lease' = [lease EXCEPT ![old[p]] = NoFile]
    /\ GiveUp(p) /\ old' = [old EXCEPT ![p] = NoSession]
    /\ UNCHANGED <<clock, asked, cur, leases, crashed>> /\ Races

\* release() swallows the error of its read or its rm: the file stays.
ReleaseFails(p) ==
    /\ at[p] \in {"release", "unlink"}
    /\ GiveUp(p) /\ old' = [old EXCEPT ![p] = NoSession]
    /\ crashed' = crashed \cup {p}
    /\ UNCHANGED <<files, asked, cur, leases>> /\ Races

-----------------------------------------------------------------------------
\* The environment

Crash(p) ==
    /\ Up(p)
    /\ at' = [at EXCEPT ![p] = "gone"]
    /\ try' = [try EXCEPT ![p] = NoTry]
    /\ cur' = [cur EXCEPT ![p] = NoSession]
    /\ old' = [old EXCEPT ![p] = NoSession]
    /\ leases' = [leases EXCEPT ![p] = {}]
    /\ crashed' = crashed \cup {p}
    /\ UNCHANGED <<files, asked>> /\ Races

Tick ==
    /\ clock < MaxId
    /\ clock' = clock + 1
    /\ UNCHANGED <<lease, at, launch, hold, crashed>> /\ Races

\* A lease becomes a day old, which only another host looks at.
Age(s) ==
    /\ Remote # {}
    /\ lease[s].whole /\ ~lease[s].old
    /\ lease' = [lease EXCEPT ![s].old = TRUE]
    /\ UNCHANGED <<clock, at, launch, hold, crashed>> /\ Races

Acquire(p) == \/ Create(p) \/ Write(p) \/ WriteFails(p) \/ Read(p)
              \/ Remove(p) \/ LastLook(p) \/ AcquireFails(p) \/ Retry(p)
Ends(p) == \/ Assembled(p) \/ AssemblyFails(p)
           \/ Release(p) \/ Unlink(p) \/ ReleaseFails(p)
Runs(p) == StartNewSession(p) \/ Shutdown(p)

Next == \/ \E p \in Proc : \/ Launch(p) \/ Acquire(p) \/ Ends(p) \/ Runs(p)
                          \/ Crash(p)
        \/ Tick
        \/ \E s \in Session : Age(s)

Spec == Init /\ [][Next]_vars

\* The same from a session whose last owner crashed.
TakeoverSpec == Init /\ lease[1].whole /\ [][Next]_vars
-----------------------------------------------------------------------------
Lease == [by : Proc \cup {"none", Ghost}, whole : BOOLEAN, old : BOOLEAN]
Place == Taking \cup {"unborn", "pause", "assembling", "live", "release",
                     "unlink", "gone"}
Attempt == [kind : {"new", "continue", "id"}, want : Session \cup {NoSession},
            round : 0 .. 1, tries : 0 .. 2]

TypeOK ==
    /\ lease \in [Session -> Lease]
    /\ clock \in Session
    /\ at \in [Proc -> Place] /\ try \in [Proc -> Attempt]
    /\ \A f \in {asked, cur, old} : f \in [Proc -> Session \cup {NoSession}]
    /\ leases \in [Proc -> SUBSET Session]
    /\ crashed \subseteq Proc /\ raced \subseteq Session

Holders(s) == {p \in Proc : s \in leases[p]}

\* Launches that take over the lease of a crashed owner at the same instant
\* "still end with one holder", the comment of acquireLease().
TakeoverHasOneHolder == Cardinality(Holders(1)) <= 1

\* What the lease does guarantee: a session for which no two launches were ever
\* inside acquireLease() at once, and whose lease never reached the age at which
\* another host stops believing in it, is open in one process at most.
ExclusiveUnlessRaced ==
    \A s \in Session \ raced : Cardinality(Holders(s)) <= 1

\* While a process holds a session, through a failed or successful /clear too,
\* the file in that session says so to every later launch.
HolderIsNamed ==
    \A p \in Proc, s \in Session \ raced :
        s \in leases[p] \cup {cur[p]} => lease[s].whole /\ lease[s].by = p

\* Every process that ended by itself, from whatever failure, took its leases
\* along: the next launch of its session is not told of a takeover.
CleanExitLeavesNoLease ==
    \A p \in Proc \ crashed : at[p] = "gone" =>
        \A s \in Session : ~(lease[s].whole /\ lease[s].by = p)

\* The lease file tells the truth to the next launch, after every exit but a crash.
LeaseIsTruthful == HolderIsNamed /\ CleanExitLeavesNoLease
=============================================================================
