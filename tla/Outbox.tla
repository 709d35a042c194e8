------------------------------- MODULE Outbox -------------------------------
(***************************************************************************)
(* The outbox of AgentCore memory (agentcore/controller.ts): the processes *)
(* of one project publish their finished turns as files in one directory   *)
(* and send them, automatically under a consent that the user may withdraw *)
(* from any process, or by hand. The files are the only memory: they are   *)
(* written one at a time, under locks that fail instead of waiting and are *)
(* never taken from a dead owner. A step is what happens between two       *)
(* awaits; a turn is a number, in the order in which a pass sorts them.    *)
(***************************************************************************)
EXTENDS Naturals, FiniteSets, FiniteSetsExt

CONSTANTS
    Proc,           \* the processes
    Turn,           \* the turns of the run, numbered
    Owner,          \* the process that runs each turn
    MaxAttempts,    \* requests per event (3)
    DailyEvents,    \* automatic requests per day
    Budgets,        \* bounds: the turns of a run, how often each kind of event may happen in it
    None

ASSUME NumberAssumption ==
    Turn \subseteq Nat \ {0} /\ IsFiniteSet(Turn) /\ {MaxAttempts, DailyEvents} \subseteq Nat \ {0}
ASSUME OwnerAssumption == Owner \in [Turn -> Proc] /\ None \notin Proc \cup Nat
ASSUME BudgetAssumption ==
    Budgets \subseteq [turns : SUBSET Turn, mode : Nat, cancel : Nat, fault : Nat, crash : Nat,
                       hand : Nat, aged : Nat, leave : Nat, lost : Nat]

VARIABLES
    policy,     \* the config file: the epoch of the consent in force, 0 for manual
    issued,     \* history: how many consents were ever given
    stops,      \* the session-stop files
    halt,       \* auto-stop.json: the epoch a permanent refusal stopped
    used,       \* the day's quota ledger
    file,       \* per turn: its files in the outbox
    config,     \* the config lock: free, held, dead
    printing,   \* the publication lock: free, a process, dead
    op,         \* the outbox lock: what its holder is doing
    turn,       \* per turn: how its publication stands in its process
    ctl,        \* per process: its CloudMemory and what its user is doing
    pass,       \* per process: its automatic pass
    left,       \* what is left of the budget of the run
    launches,   \* history: per turn, the requests that left, automatic and by hand
    requests    \* history: the automatic requests that left

files == <<stops, halt, used, file>>
history == <<launches, requests>>
vars == <<policy, issued, files, config, printing, op, turn, ctl, pass, left, history>>

NoNote == <<"none", "next">>
Off == [at |-> "off", sid |-> 0, epoch |-> 0, todo |-> {}, blocked |-> {}, cur |-> None, retry |-> 0, note |-> NoNote]
Free == [by |-> None, kind |-> "free", t |-> None, todo |-> {}, at |-> "free"]
Dead == [Free EXCEPT !.kind = "dead"]
NoFile == [body |-> "none", proof |-> None, side |-> "none", tries |-> 0, ack |-> "none", receipt |-> "none"]
New == [at |-> "new", sess |-> 0, origin |-> 0, sid |-> 0, done |-> "unknown", settled |-> FALSE,
        since |-> 0, natural |-> FALSE]
Controller(sess, epoch) ==
    [phase |-> "idle", sess |-> sess, cached |-> epoch, sid |-> 1, live |-> TRUE,
     suspended |-> FALSE, stopped |-> FALSE, again |-> 0, owed |-> 0]

Init ==
    /\ policy \in {0, 1} /\ issued = policy
    /\ stops = {} /\ halt = 0 /\ used = 0
    /\ file = [t \in Turn |-> NoFile]
    /\ config = "free" /\ printing = "free" /\ op = Free
    /\ turn = [t \in Turn |-> New]
    /\ ctl = [p \in Proc |-> Controller(1, policy)]
    /\ pass = [p \in Proc |-> Off]
    /\ left \in Budgets
    /\ launches = [t \in Turn |-> [auto |-> 0, hand |-> 0]] /\ requests = 0

\* Something happens to the processes, within the budget.
Event(kind) == left[kind] > 0 /\ left' = [left EXCEPT ![kind] = @ - 1]

Session(t) == <<Owner[t], turn[t].sess>>
Stopped(t) == Session(t) \in stops
Terminal(t) == file[t].receipt # "none" \/ file[t].ack # "none"
Mine(p) == {t \in Turn : Owner[t] = p}
Upcoming(p) == {t \in Mine(p) \cap left.turns : turn[t].at = "new"}
Begun(p) == {t \in Mine(p) : turn[t].at # "new"}

\* A pass, or a publication, may go on while the signal it began under does.
Live(p, sid) == ctl[p].live /\ ctl[p].sid = sid
MayPass(p) == ~ctl[p].suspended /\ ctl[p].cached # 0 /\ ~ctl[p].stopped /\ ctl[p].live

---------------------------------------------------------------------------
(* Turns and their publication *)

\* refreshPolicy(), at the start of a turn: consent given or withdrawn by
\* another process, and a session stop, are seen here.
Prepare(p) ==
    /\ ctl[p].phase = "idle" /\ Upcoming(p) # {}
    /\ LET c == ctl[p]
       IN ctl' = [ctl EXCEPT ![p] =
             [c EXCEPT !.phase = "ready", !.cached = policy,
                       !.live = c.live /\ policy # 0 /\ policy = c.cached,
                       !.stopped = c.stopped /\ policy = c.cached,
                       !.suspended = c.suspended \/ <<p, c.sess>> \in stops]]
    /\ UNCHANGED <<policy, issued, files, config, printing, op, turn, pass, left, history>>

\* begin(): the turn remembers the consent and the signal it began under.
Begin(p) ==
    /\ ctl[p].phase = "ready" /\ Upcoming(p) # {}
    /\ LET c == ctl[p]
           origin == IF c.suspended THEN 0 ELSE c.cached
           sid == IF origin # 0 /\ ~c.live THEN c.sid + 1 ELSE c.sid
       IN /\ ctl' = [ctl EXCEPT ![p] = [c EXCEPT !.phase = "turn", !.sid = sid, !.live = c.live \/ origin # 0]]
          /\ turn' = [turn EXCEPT ![Min(Upcoming(p))] =
                [@ EXCEPT !.at = "open", !.sess = c.sess, !.origin = origin, !.sid = sid, !.since = issued]]
    /\ UNCHANGED <<policy, issued, files, config, printing, op, pass, left, history>>

\* sealTurn(): the driver's verdict, which can only be withdrawn; the turn is
\* published when its settlement is there.
Sealed(t, completed) ==
    LET done == IF turn[t].done # "no" /\ completed THEN "yes" ELSE "no"
    IN [turn[t] EXCEPT !.done = done, !.at = IF turn[t].settled THEN "queued" ELSE "sealed"]
SealAllFalse(p) ==
    [t \in Turn |-> IF t \in Mine(p) /\ turn[t].at \in {"open", "sealed"} THEN Sealed(t, FALSE) ELSE turn[t]]

\* The driver is done with the turn, naturally or not.
TurnEnds(p) ==
    /\ ctl[p].phase = "turn" /\ Begun(p) # {}
    /\ ctl' = [ctl EXCEPT ![p].phase = "idle"]
    /\ LET t == Max(Begun(p))
       IN turn' \in IF turn[t].at \in {"open", "sealed"}
                    THEN {[turn EXCEPT ![t] = [Sealed(t, natural /\ ~ctl[p].suspended)
                                               EXCEPT !.natural = natural /\ turn[t].done # "no"]] :
                          natural \in BOOLEAN}
                    ELSE {turn}
    /\ UNCHANGED <<policy, issued, files, config, printing, op, pass, left, history>>

\* settle(): the trajectory has the end of the turn on disk, or failed to.
Settle(t) ==
    /\ turn[t].at \in {"open", "sealed"} /\ ~turn[t].settled
    /\ \A u \in Mine(Owner[t]) : u < t => turn[u].settled \/ turn[u].at = "lost"
    /\ \/ /\ turn' = [turn EXCEPT ![t].settled = TRUE,
                                  ![t].at = IF turn[t].done # "unknown" THEN "queued" ELSE @]
          /\ UNCHANGED left
       \/ /\ Event("lost")
          /\ turn' = [turn EXCEPT ![t].at = "lost"]
    /\ UNCHANGED <<policy, issued, files, config, printing, op, ctl, pass, history>>

\* cancel(): the signal dies and no turn that is not yet published qualifies.
Cancel(p) ==
    /\ ctl[p].phase = "turn" /\ Event("cancel")
    /\ ctl' = [ctl EXCEPT ![p].live = FALSE]
    /\ turn' = SealAllFalse(p)
    /\ UNCHANGED <<policy, issued, files, config, printing, op, pass, history>>

\* kickAuto(): activity earns a pass; a running pass is told to go round again.
\* Mutant: activity during a pass is not remembered.
KickForgotten(p, sid) ==
    IF Live(p, sid) /\ MayPass(p)
    THEN /\ ctl' = [ctl EXCEPT ![p].owed = sid]
         /\ pass' = IF pass[p].at = "off" THEN [pass EXCEPT ![p] = [Off EXCEPT !.at = "begin", !.sid = sid]] ELSE pass
    ELSE UNCHANGED <<ctl, pass>>
Kick(p, sid) ==
    IF ~Live(p, sid) \/ ~MayPass(p) THEN UNCHANGED <<ctl, pass>>
    ELSE IF pass[p].at = "off"
    THEN /\ pass' = [pass EXCEPT ![p] = [Off EXCEPT !.at = "begin", !.sid = sid]]
         /\ ctl' = [ctl EXCEPT ![p].owed = sid]
    ELSE /\ ctl' = [ctl EXCEPT ![p].owed = sid, ![p].again = sid]
         /\ UNCHANGED pass

\* A publication job, in the order of the settlements: the body first; another
\* publication in flight, or the lock of a dead one, loses the turn.
PublishBody(t) ==
    LET p == Owner[t] IN
    /\ turn[t].at = "queued"
    /\ \A u \in Mine(p) : u < t => turn[u].at \notin {"queued", "body"}
    /\ \/ /\ printing # "free"
          /\ turn' = [turn EXCEPT ![t].at = "lost"]
          /\ Kick(p, turn[t].sid)
          /\ UNCHANGED <<file, printing>>
       \/ /\ printing = "free" /\ turn[t].origin = 0
          /\ file' = [file EXCEPT ![t].body = "present"]
          /\ turn' = [turn EXCEPT ![t].at = "done"]
          /\ Kick(p, turn[t].sid)
          /\ UNCHANGED printing
       \/ /\ printing = "free" /\ turn[t].origin # 0
          /\ file' = [file EXCEPT ![t].body = "present"]
          /\ turn' = [turn EXCEPT ![t].at = "body"]
          /\ printing' = p
          /\ UNCHANGED <<ctl, pass>>
    /\ UNCHANGED <<policy, issued, stops, halt, used, config, op, left, history>>

\* Then the proof, which holds the turn for the user unless it ended naturally.
PublishProof(t) ==
    LET p == Owner[t] IN
    /\ turn[t].at = "body"
    /\ file' = [file EXCEPT ![t].proof = IF turn[t].done = "yes" THEN turn[t].origin ELSE 0]
    /\ turn' = [turn EXCEPT ![t].at = "done"]
    /\ printing' = "free"
    /\ Kick(p, turn[t].sid)
    /\ UNCHANGED <<policy, issued, stops, halt, used, config, op, left, history>>

---------------------------------------------------------------------------
(* The automatic pass *)

\* The pass is over: it goes round, or hands over to the signal that earned more.
PassEnds(p) ==
    LET c == ctl[p]
        more == c.again # 0 /\ Live(p, c.again) /\ ~c.suspended /\ ~c.stopped
                /\ (c.again = pass[p].sid \/ c.cached # 0)
    IN /\ pass' = [pass EXCEPT ![p] = IF more THEN [Off EXCEPT !.at = "begin", !.sid = c.again] ELSE Off]
       /\ ctl' = [ctl EXCEPT ![p].again = 0]

\* drainAuto() starts by removing what was accepted automatically and has aged
\* (seven days, here any of it), under the outbox lock.
PassBegin(p) ==
    /\ pass[p].at = "begin"
    /\ LET go == Live(p, pass[p].sid) /\ ~ctl[p].stopped /\ ~ctl[p].suspended
           old == IF policy = ctl[p].cached THEN {t \in Turn : file[t].ack = "auto"} ELSE {}
       IN \/ /\ ~go
             /\ PassEnds(p)
             /\ UNCHANGED <<op, left>>
          \/ /\ go /\ op # Free           \* refused by the lock: the pass was had
             /\ pass' = [pass EXCEPT ![p].at = "end"]
             /\ ctl' = [ctl EXCEPT ![p].again = 0, ![p].owed = 0]
             /\ UNCHANGED <<op, left>>
          \/ /\ go /\ op = Free
             /\ pass' = [pass EXCEPT ![p].at = "list"]
             /\ ctl' = [ctl EXCEPT ![p].again = 0, ![p].owed = 0]
             /\ UNCHANGED <<op, left>>
          \/ /\ go /\ op = Free /\ old # {} /\ Event("aged")
             /\ op' = [by |-> p, kind |-> "expire", t |-> Min(old), todo |-> old \ {Min(old)}, at |-> "clean"]
             /\ pass' = [pass EXCEPT ![p].at = "busy"]
             /\ ctl' = [ctl EXCEPT ![p].again = 0, ![p].owed = 0]
    /\ UNCHANGED <<policy, issued, files, config, printing, turn, history>>

\* The candidates: unsent events of a session that goes on, under the consent
\* this process knows.
PassList(p) ==
    /\ pass[p].at = "list"
    /\ pass' = [pass EXCEPT ![p].at = "next", ![p].epoch = ctl[p].cached, ![p].todo =
          {t \in Turn : /\ file[t].body = "present" /\ ~Terminal(t) /\ ~Stopped(t)
                        /\ file[t].proof = ctl[p].cached /\ file[t].proof # 0}]
    /\ UNCHANGED <<policy, issued, files, config, printing, op, turn, ctl, left, history>>

\* The next candidate; what has been settled meanwhile, and what follows a held
\* event of its session, is passed over.
PassNext(p) ==
    /\ pass[p].at = "next" /\ pass[p].todo # {} /\ Live(p, pass[p].sid)
    /\ LET t == Min(pass[p].todo)
           rest == [pass[p] EXCEPT !.todo = @ \ {t}]
       IN pass' = [pass EXCEPT ![p] =
             IF Terminal(t) \/ Session(t) \in rest.blocked THEN rest
             ELSE IF file[t].side # "held" THEN [rest EXCEPT !.at = "lock", !.cur = t, !.retry = 0]
             ELSE IF op = Free THEN [rest EXCEPT !.blocked = @ \cup {Session(t)}]
             ELSE [rest EXCEPT !.at = "end"]]
    /\ UNCHANGED <<policy, issued, files, config, printing, op, turn, ctl, left, history>>

PassOver(p) ==
    /\ pass[p].at = "end" \/ (pass[p].at = "next" /\ (pass[p].todo = {} \/ ~Live(p, pass[p].sid)))
    /\ PassEnds(p)
    /\ UNCHANGED <<policy, issued, files, config, printing, op, turn, left, history>>

\* A send of the pass is refused: what the sidecar of the event will say, and
\* how the pass goes on. The lock is released before the sidecar is written.
Refused(p, side, then) ==
    /\ op' = Free
    /\ pass' = [pass EXCEPT ![p].at = "note", ![p].note = <<side, then>>]

PassNote(p) ==
    /\ pass[p].at = "note"
    /\ LET t == pass[p].cur
           then == pass[p].note[2]
       IN IF ~Live(p, pass[p].sid)
          THEN PassEnds(p) /\ UNCHANGED <<file, halt>>
          ELSE /\ file' = [file EXCEPT ![t].side = pass[p].note[1]]
               /\ halt' = IF then = "halt" THEN pass[p].epoch ELSE halt
               /\ ctl' = [ctl EXCEPT ![p].stopped = @ \/ then = "halt"]
               /\ pass' = [pass EXCEPT ![p].at = IF then = "next" THEN "next" ELSE "end",
                                       ![p].blocked = @ \cup {Session(t)}, ![p].cur = None, ![p].note = NoNote]
    /\ UNCHANGED <<policy, issued, stops, used, config, printing, op, turn, left, history>>

---------------------------------------------------------------------------
(* Sending, by the holder of the outbox lock *)

\* checkAutoAuthority(): the note this event is refused with, or none. Refused inside
\* the request, a stopped epoch counts as a permanent failure of the transport.
Authority(p, t, inRequest) ==
    IF ~Live(p, pass[p].sid) \/ ctl[p].suspended \/ ctl[p].stopped \/ Stopped(t) THEN <<"held", "next">>
    ELSE IF halt = pass[p].epoch THEN <<"held", IF inRequest THEN "halt" ELSE "next">>
    ELSE IF policy # pass[p].epoch THEN <<"held", "return">>
    ELSE NoNote

EarlierPending(t) ==
    {u \in Turn : u < t /\ Session(u) = Session(t) /\ file[u].body = "present" /\ ~Terminal(u)}

\* Mutant: one request too many.
SpentLate(t) == file[t].tries > MaxAttempts
Spent(t) == file[t].tries >= MaxAttempts

\* The pass takes the lock and reads everything send() decides on.
PassLock(p) ==
    /\ pass[p].at = "lock"
    /\ LET t == pass[p].cur
           why == Authority(p, t, FALSE)
           known == \/ file[t].receipt = "accepted"
                    \/ file[t].receipt = "none" /\ why = NoNote /\ file[t].ack # "none"
           refuse(side, then) == /\ pass' = [pass EXCEPT ![p].at = "note", ![p].note = <<side, then>>]
                                 /\ UNCHANGED op
       IN \/ op # Free /\ refuse("paused", "next")
          \/ op = Free /\ file[t].receipt = "discarded" /\ refuse("held", "next")
          \/ /\ op = Free /\ known
             /\ pass' = [pass EXCEPT ![p].at = "next", ![p].cur = None]
             /\ UNCHANGED op
          \/ /\ op = Free /\ file[t].receipt = "none" /\ ~known
             /\ \/ why # NoNote /\ refuse(why[1], why[2])
                \/ why = NoNote /\ EarlierPending(t) # {} /\ refuse("paused", "next")
                \/ why = NoNote /\ EarlierPending(t) = {} /\ Spent(t) /\ refuse("held", "next")
                \/ /\ why = NoNote /\ EarlierPending(t) = {} /\ ~Spent(t)
                   /\ op' = [by |-> p, kind |-> "auto", t |-> t, todo |-> {}, at |-> "quota"]
                   /\ pass' = [pass EXCEPT ![p].at = "busy"]
    /\ UNCHANGED <<policy, issued, files, config, printing, turn, ctl, left, history>>

Sending(p, kind, at) == op.by = p /\ op.kind = kind /\ op.at = at

\* reserveQuota(), after the credentials and the signature: one request of the day.
Quota(p) ==
    /\ Sending(p, "auto", "quota")
    /\ LET why == Authority(p, op.t, TRUE)
       IN IF why # NoNote THEN Refused(p, why[1], why[2]) /\ UNCHANGED used
          ELSE IF used = DailyEvents THEN Refused(p, "paused", "return") /\ UNCHANGED used
          ELSE /\ used' = used + 1
               /\ op' = [op EXCEPT !.at = "reserve"]
               /\ UNCHANGED pass
    /\ UNCHANGED <<policy, issued, stops, halt, file, config, printing, turn, ctl, left, history>>

\* reserveAttempt(): the attempt is on disk before the request leaves.
Reserve(p) ==
    /\ op.by = p /\ op.at = "reserve"
    /\ IF op.kind = "auto" /\ ~Live(p, pass[p].sid) THEN Refused(p, "held", "next") /\ UNCHANGED file
       ELSE /\ file' = [file EXCEPT ![op.t].tries = @ + 1]
            /\ op' = [op EXCEPT !.at = IF op.kind = "auto" THEN "arm" ELSE "fire"]
            /\ UNCHANGED pass
    /\ UNCHANGED <<policy, issued, stops, halt, used, config, printing, turn, ctl, left, history>>

\* The last look at consent and session stop is under the lock of their writers,
\* and the lock is kept until the request has left.
\* Mutant: the last look is without the lock.
ArmUnlocked(p) ==
    /\ Sending(p, "auto", "arm")
    /\ LET why == Authority(p, op.t, TRUE)
       IN IF why # NoNote THEN Refused(p, why[1], why[2])
          ELSE op' = [op EXCEPT !.at = "fire"] /\ UNCHANGED pass
    /\ UNCHANGED <<policy, issued, files, config, printing, turn, ctl, left, history>>
Arm(p) ==
    /\ Sending(p, "auto", "arm")
    /\ LET why == Authority(p, op.t, TRUE)
       IN IF why # NoNote THEN Refused(p, why[1], why[2]) /\ UNCHANGED config
          ELSE IF config # "free" THEN Refused(p, "paused", "next") /\ UNCHANGED config
          ELSE /\ config' = "held"
               /\ op' = [op EXCEPT !.at = "fire"]
               /\ UNCHANGED pass
    /\ UNCHANGED <<policy, issued, files, printing, turn, ctl, left, history>>

Fire(p) ==
    /\ op.by = p /\ op.at = "fire"
    /\ \/ /\ op.kind = "auto" /\ ~Live(p, pass[p].sid)
          /\ Refused(p, "held", "next")
          /\ UNCHANGED history
       \/ /\ op.kind = "auto" /\ Live(p, pass[p].sid)
          /\ launches' = [launches EXCEPT ![op.t].auto = @ + 1] /\ requests' = requests + 1
          /\ op' = [op EXCEPT !.at = "wait"]
          /\ UNCHANGED pass
       \/ /\ op.kind = "send"
          /\ launches' = [launches EXCEPT ![op.t].hand = @ + 1]
          /\ op' = [op EXCEPT !.at = "wait"]
          /\ UNCHANGED <<pass, requests>>
    /\ config' = IF op.kind = "auto" THEN "free" ELSE config
    /\ UNCHANGED <<policy, issued, files, printing, turn, ctl, left>>

ByHandEnds(p) == op' = Free /\ ctl' = [ctl EXCEPT ![p].phase = "idle"]

\* The answer, an error worth a retry, a refusal for good, or the abort. A retry
\* begins again with the lock.
\* Mutant: a retry sends what was reserved for the request that failed.
RespondResend(p) ==
    /\ op.by = p /\ op.at = "wait" /\ op.kind = "auto" /\ Live(p, pass[p].sid)
    /\ \/ op' = [op EXCEPT !.at = "ack"] /\ UNCHANGED left
       \/ op' = [op EXCEPT !.at = "arm"] /\ Event("fault")
    /\ UNCHANGED <<policy, issued, files, config, printing, turn, ctl, pass, history>>
Respond(p) ==
    /\ op.by = p /\ op.at = "wait"
    /\ \/ /\ op.kind = "auto" /\ ~Live(p, pass[p].sid)
          /\ Refused(p, "held", "next")
          /\ UNCHANGED <<ctl, left>>
       \/ /\ op.kind = "auto" => Live(p, pass[p].sid)
          /\ op' = [op EXCEPT !.at = "ack"]
          /\ UNCHANGED <<ctl, pass, left>>
       \/ /\ op.kind = "auto" /\ Live(p, pass[p].sid) /\ Event("fault")
          /\ IF pass[p].retry + 1 < MaxAttempts
             THEN op' = Free /\ pass' = [pass EXCEPT ![p].at = "lock", ![p].retry = @ + 1]
             ELSE Refused(p, "held", "next")
          /\ UNCHANGED ctl
       \/ /\ op.kind = "auto" /\ Live(p, pass[p].sid) /\ Event("fault")
          /\ Refused(p, "held", "halt")
          /\ UNCHANGED ctl
       \/ /\ op.kind = "send" /\ Event("fault")
          /\ ByHandEnds(p)
          /\ UNCHANGED pass
    /\ UNCHANGED <<policy, issued, files, config, printing, turn, history>>

\* accepted.json, written whatever has been cancelled meanwhile.
Acknowledge(p) ==
    /\ op.by = p /\ op.at = "ack"
    /\ file' = [file EXCEPT ![op.t].ack = IF op.kind = "auto" THEN "auto" ELSE "hand"]
    /\ IF op.kind = "auto" THEN op' = [op EXCEPT !.at = "receipt"] /\ UNCHANGED ctl
       ELSE ByHandEnds(p)
    /\ UNCHANGED <<policy, issued, stops, halt, used, config, printing, turn, pass, left, history>>

\* saveReceipt() of an automatic acceptance.
SaveReceipt(p) ==
    /\ Sending(p, "auto", "receipt")
    /\ file' = [file EXCEPT ![op.t].receipt = "accepted"]
    /\ op' = Free
    /\ pass' = [pass EXCEPT ![p].at = "next", ![p].cur = None]
    /\ UNCHANGED <<policy, issued, stops, halt, used, config, printing, turn, ctl, left, history>>

---------------------------------------------------------------------------
(* The user: sending by hand, discarding, clearing; a refused command changes nothing *)

Command(p, kind, t, todo, at) ==
    /\ ctl[p].phase = "idle" /\ op = Free /\ Event("hand")
    /\ op' = [by |-> p, kind |-> kind, t |-> t, todo |-> todo, at |-> at]
    /\ ctl' = [ctl EXCEPT ![p].phase = "command"]
    /\ UNCHANGED <<policy, issued, files, config, printing, turn, pass, history>>

Send(p, t) ==
    /\ file[t].body = "present" /\ ~Terminal(t) /\ EarlierPending(t) = {} /\ ~Spent(t)
    /\ Command(p, "send", t, {}, "reserve")

Discard(p, t) ==
    /\ file[t].ack = "none" /\ file[t].receipt # "accepted"
    /\ file[t].body = "present" \/ file[t].receipt = "discarded"
    /\ Command(p, "discard", t, {}, "clean")

ClearAccepted(p) ==
    LET accepted == {t \in Turn : file[t].ack # "none"
                        \/ (file[t].receipt = "accepted" /\ (file[t].body = "present" \/ file[t].side # "none"))}
    IN accepted # {} /\ Command(p, "clear", Min(accepted), accepted \ {Min(accepted)}, "clean")

\* cleanup(): the receipt, then the body, then everything else, for each event;
\* removing what has aged stops with the signal of the pass.
Cleaning(p, at) == op.by = p /\ op.kind \in {"discard", "clear", "expire"} /\ op.at = at
Kept(p) == op.kind = "expire" => Live(p, pass[p].sid)

CleanReceipt(p) ==
    /\ Cleaning(p, "clean") /\ Kept(p)
    /\ file' = [file EXCEPT ![op.t].receipt = IF @ # "none" THEN @
                                              ELSE IF op.kind = "discard" THEN "discarded" ELSE "accepted"]
    /\ op' = [op EXCEPT !.at = "body"]
    /\ UNCHANGED <<policy, issued, stops, halt, used, config, printing, turn, ctl, pass, left, history>>

CleanBody(p) ==
    /\ Cleaning(p, "body") /\ Kept(p)
    /\ file' = [file EXCEPT ![op.t].body = "gone"]
    /\ op' = [op EXCEPT !.at = "rest"]
    /\ UNCHANGED <<policy, issued, stops, halt, used, config, printing, turn, ctl, pass, left, history>>

CleanRest(p) ==
    /\ Cleaning(p, "rest") /\ Kept(p)
    /\ file' = [file EXCEPT ![op.t] = [NoFile EXCEPT !.body = "gone", !.receipt = file[op.t].receipt]]
    /\ IF op.todo # {}
       THEN /\ op' = [op EXCEPT !.t = Min(op.todo), !.todo = @ \ {Min(op.todo)}, !.at = "clean"]
            /\ UNCHANGED <<ctl, pass>>
       ELSE IF op.kind = "expire"
       THEN op' = Free /\ pass' = [pass EXCEPT ![p].at = "list"] /\ UNCHANGED ctl
       ELSE ByHandEnds(p) /\ UNCHANGED pass
    /\ UNCHANGED <<policy, issued, stops, halt, used, config, printing, turn, left, history>>

CleanAborted(p) ==
    /\ op.by = p /\ op.kind = "expire" /\ ~Kept(p)
    /\ op' = Free
    /\ pass' = [pass EXCEPT ![p].at = "end"]
    /\ UNCHANGED <<policy, issued, files, config, printing, turn, ctl, left, history>>

---------------------------------------------------------------------------
(* The user: consent, a new session, a crash *)

\* /cloud-memory auto and manual: the signal dies first, the file is written
\* under the config lock, and only then does the controller know.
AskMode(p, mode) ==
    /\ ctl[p].phase = "idle" /\ Event("mode")
    /\ ctl' = [ctl EXCEPT ![p].live = FALSE, ![p].phase = mode]
    /\ UNCHANGED <<policy, issued, files, config, printing, op, turn, pass, history>>

WriteMode(p) ==
    /\ ctl[p].phase \in {"auto", "manual"}
    /\ LET c == ctl[p]
           auto == c.phase = "auto"
           epoch == IF auto THEN issued + 1 ELSE 0
       IN IF config # "free" THEN ctl' = [ctl EXCEPT ![p].phase = "idle"] /\ UNCHANGED <<policy, issued>>
          ELSE /\ policy' = epoch
               /\ issued' = IF auto THEN epoch ELSE issued
               /\ ctl' = [ctl EXCEPT ![p] =
                     [c EXCEPT !.phase = "idle", !.cached = epoch, !.sid = c.sid + 1, !.live = TRUE,
                               !.stopped = FALSE, !.suspended = c.suspended \/ <<p, c.sess>> \in stops]]
    /\ UNCHANGED <<files, config, printing, op, turn, pass, left, history>>

\* /clear or a rewind: stopAutoForSuccessor() ends automatic work of the session,
\* for every process, before the successor exists.
Leave(p) ==
    /\ ctl[p].phase = "idle" /\ Event("leave")
    /\ ctl' = [ctl EXCEPT ![p].suspended = TRUE, ![p].live = FALSE, ![p].phase = "stopping"]
    /\ turn' = SealAllFalse(p)
    /\ UNCHANGED <<policy, issued, files, config, printing, op, pass, history>>

WriteStop(p) ==
    /\ ctl[p].phase = "stopping"
    /\ IF config # "free" THEN ctl' = [ctl EXCEPT ![p].phase = "idle"] /\ UNCHANGED stops
       ELSE /\ stops' = stops \cup {<<p, ctl[p].sess>>}
            /\ ctl' = [ctl EXCEPT ![p].phase = "leaving"]
    /\ UNCHANGED <<policy, issued, halt, used, file, config, printing, op, turn, pass, left, history>>

\* The successor fails to start, or starts and its predecessor is closed: what
\* still waits for its settlement is lost, what is being written is finished.
Successor(p) ==
    /\ ctl[p].phase = "leaving"
    /\ \/ /\ pass[p].at = "off" /\ \A t \in Mine(p) : turn[t].at \notin {"queued", "body"}
          /\ ctl' = [ctl EXCEPT ![p] = Controller(@.sess + 1, policy)]
          /\ turn' = [t \in Turn |-> IF t \in Mine(p) /\ turn[t].at = "sealed"
                                     THEN [turn[t] EXCEPT !.at = "lost"] ELSE turn[t]]
       \/ /\ ctl' = [ctl EXCEPT ![p].phase = "idle"]
          /\ UNCHANGED turn
    /\ UNCHANGED <<policy, issued, files, config, printing, op, pass, left, history>>

\* A crash leaves the files as they are, and the locks.
Crash(p) ==
    /\ ctl[p].phase # "down" /\ Event("crash")
    /\ ctl' = [ctl EXCEPT ![p] = [Controller(@.sess, 0) EXCEPT !.phase = "down", !.live = FALSE]]
    /\ pass' = [pass EXCEPT ![p] = Off]
    /\ turn' = [t \in Turn |-> IF t \in Mine(p) /\ turn[t].at \notin {"new", "done"}
                               THEN [turn[t] EXCEPT !.at = "lost"] ELSE turn[t]]
    /\ op' = IF op.by = p THEN Dead ELSE op
    /\ config' = IF Sending(p, "auto", "fire") THEN "dead" ELSE config
    /\ printing' = IF printing = p THEN "dead" ELSE printing
    /\ UNCHANGED <<policy, issued, files, history>>

Restart(p) ==
    /\ ctl[p].phase = "down"
    /\ ctl' = [ctl EXCEPT ![p] = Controller(@.sess, policy)]
    /\ UNCHANGED <<policy, issued, files, config, printing, op, turn, pass, left, history>>

\* No process takes the lock of a dead one: the user looks and removes it.
Recover ==
    /\ op = Dead \/ config = "dead" \/ printing = "dead"
    /\ op' = IF op = Dead THEN Free ELSE op
    /\ config' = IF config = "dead" THEN "free" ELSE config
    /\ printing' = IF printing = "dead" THEN "free" ELSE printing
    /\ UNCHANGED <<policy, issued, files, turn, ctl, pass, left, history>>

Turns(p) == Prepare(p) \/ Begin(p) \/ TurnEnds(p) \/ Cancel(p)
Passing(p) == PassBegin(p) \/ PassList(p) \/ PassNext(p) \/ PassOver(p) \/ PassNote(p) \/ PassLock(p)
Requesting(p) == \/ Quota(p) \/ Reserve(p) \/ Arm(p) \/ Fire(p)
                 \/ Respond(p) \/ Acknowledge(p) \/ SaveReceipt(p)
Clearing(p) == CleanReceipt(p) \/ CleanBody(p) \/ CleanRest(p) \/ CleanAborted(p)
User(p) == \/ \E t \in Turn : Send(p, t) \/ Discard(p, t)
           \/ ClearAccepted(p)
           \/ \E mode \in {"auto", "manual"} : AskMode(p, mode)
           \/ WriteMode(p) \/ Leave(p) \/ WriteStop(p) \/ Successor(p) \/ Crash(p) \/ Restart(p)

Next == \/ \E p \in Proc : Turns(p) \/ Passing(p) \/ Requesting(p) \/ Clearing(p) \/ User(p)
        \/ \E t \in Turn : Settle(t) \/ PublishBody(t) \/ PublishProof(t)
        \/ Recover
Spec == Init /\ [][Next]_vars

---------------------------------------------------------------------------
(* Properties *)

Epochs == 0 .. issued
\* Every variable keeps its shape; in particular no event is tried more often
\* than the attempt files allow.
TypeOK ==
    /\ policy \in Epochs /\ halt \in Epochs /\ used \in 0 .. DailyEvents
    /\ stops \subseteq Proc \X Nat
    /\ file \in [Turn -> [body : {"none", "present", "gone"}, proof : Epochs \cup {None},
                          side : {"none", "paused", "held"}, tries : 0 .. MaxAttempts,
                          ack : {"none", "auto", "hand"}, receipt : {"none", "accepted", "discarded"}]]
    /\ config \in {"free", "held", "dead"} /\ printing \in Proc \cup {"free", "dead"}
    /\ op.by \in Proc \cup {None} /\ op.t \in Turn \cup {None} /\ op.todo \subseteq Turn
    /\ \A t \in Turn : turn[t].origin \in Epochs /\ turn[t].since \in Epochs
    /\ \A p \in Proc : ctl[p].cached \in Epochs /\ {ctl[p].again, ctl[p].owed} \subseteq 0 .. ctl[p].sid
                       /\ pass[p].todo \subseteq Turn /\ pass[p].retry < MaxAttempts

SentBy(t, kind) == launches'[t][kind] # launches[t][kind]

\* No turn is sent automatically unless, at that very moment, the consent in the
\* config file is one the user gave before the turn began and has not withdrawn
\* since, the session of the turn has not been left, and the turn ended naturally,
\* whoever sends it and whatever that process believes.
ConsentHolds == [][\A t \in Turn : SentBy(t, "auto") =>
    /\ policy # 0 /\ policy <= turn[t].since
    /\ ~Stopped(t)
    /\ turn[t].natural]_vars

\* The turns of a session reach the service in their order: when one is sent, by
\* whatever process or hand, each earlier one in the outbox was accepted or
\* discarded.
TurnsInOrder == [][\A t \in Turn : SentBy(t, "auto") \/ SentBy(t, "hand") =>
    \A u \in Turn : u < t /\ Session(u) = Session(t) /\ file[u].body = "present" => Terminal(u)]_vars

\* A request has been paid for on disk before it leaves, in attempts of its event
\* and in requests of the day, so that no crash buys another.
PaidInAdvance ==
    /\ \A t \in Turn : file[t].body = "present" => launches[t].auto + launches[t].hand <= file[t].tries
    /\ requests <= used

\* What was accepted or discarded stays so: the evidence survives every crash
\* and clean-up, no body goes without it, and the event is never sent again.
SettledForGood == [][\A t \in Turn :
    /\ Terminal(t) => Terminal(t)' /\ ~SentBy(t, "auto") /\ ~SentBy(t, "hand")
    /\ file'[t].body = "gone" => Terminal(t)'
    /\ file[t].receipt # "none" => file'[t].receipt = file[t].receipt]_vars

\* What leaves the outbox leaves it with consent, in turn, and for the last time.
LawfulSends == ConsentHolds /\ TurnsInOrder /\ SettledForGood

\* Activity under a live consent earns a pass: as long as one is owed, one is
\* running that will begin again.
PassEarned == \A p \in Proc :
    ctl[p].owed # 0 /\ Live(p, ctl[p].owed) /\ MayPass(p)
    => pass[p].at # "off" /\ (pass[p].at = "begin" \/ ctl[p].again = ctl[p].owed)
=============================================================================
