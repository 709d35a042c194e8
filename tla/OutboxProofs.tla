----------------------------- MODULE OutboxProofs -----------------------------
(***************************************************************************)
(* Safety of the outbox for any processes, turns, caps and budgets: what   *)
(* leaves it is lawful, every request was paid for before, and no pass     *)
(* that was earned is forgotten.                                           *)
(***************************************************************************)
EXTENDS Outbox, FiniteSetTheorems, WellFoundedInduction, TLAPS

\* The least of some turns.
LEMMA MinIs ==
    ASSUME NEW S \in SUBSET Nat, S # {}
    PROVE  Min(S) \in S /\ \A y \in S : Min(S) <= y
<1>. DEFINE Less == {ss \in Nat \X Nat : ss[1] < ss[2]}
<1>1. IsWellFoundedOn(Less, Nat)
  BY NatLessThanWellFounded, Zenon DEF OpToRel
<1>2. PICK x \in S : \A y \in S : ~ (<<y, x>> \in Less)
  <2>. HIDE DEF Less
  <2>. QED
    BY <1>1, WFMin
<1>3. ASSUME NEW y \in S PROVE x <= y
  <2>1. <<y, x>> \in Nat \X Nat /\ <<y, x>>[1] = y /\ <<y, x>>[2] = x
    OBVIOUS
  <2>2. ~ (y < x)
    BY <1>2, <2>1
  <2>. QED
    BY <2>2
<1>. QED
  BY <1>3 DEF Min

\* The greatest of finitely many turns: the one with the fewest others above it.
LEMMA MaxIs ==
    ASSUME NEW S \in SUBSET Nat, S # {}, IsFiniteSet(S)
    PROVE  Max(S) \in S /\ \A y \in S : y <= Max(S)
<1>. DEFINE Above(x) == {y \in S : y >= x}
            Counts == {Cardinality(Above(x)) : x \in S}
<1>1. ASSUME NEW x \in S PROVE IsFiniteSet(Above(x)) /\ Cardinality(Above(x)) \in Nat
  BY FS_Subset, FS_CardinalityType, Above(x) \in SUBSET S
<1>2. Counts \in SUBSET Nat /\ Counts # {}
  BY <1>1
<1>3. PICK x \in S : \A y \in S : Cardinality(Above(x)) <= Cardinality(Above(y))
  <2>1. Min(Counts) \in Counts /\ \A n \in Counts : Min(Counts) <= n
    <3>. HIDE DEF Counts
    <3>. QED
      BY <1>2, MinIs
  <2>2. PICK x \in S : Min(Counts) = Cardinality(Above(x))
    BY <2>1
  <2>3. \A y \in S : Cardinality(Above(y)) \in Counts
    OBVIOUS
  <2>. QED
    BY <2>1, <2>2, <2>3
<1>4. ASSUME NEW y \in S PROVE x >= y
  <2>1. SUFFICES ASSUME y > x PROVE FALSE
    OBVIOUS
  <2>2. Above(y) \in SUBSET Above(x) /\ x \in Above(x) /\ x \notin Above(y)
    <3>1. x \in Nat /\ y \in Nat /\ \A z \in S : z \in Nat
      OBVIOUS
    <3>2. x >= x /\ ~(x >= y) /\ \A z \in S : z >= y => z >= x
      BY <2>1, <3>1
    <3>. QED
      BY <3>2
  <2>3. Cardinality(Above(y)) = Cardinality(Above(x))
    <3>1. Cardinality(Above(y)) <= Cardinality(Above(x))
      BY <1>1, <2>2, FS_Subset
    <3>. QED
      BY <1>1, <1>3, <3>1
  <2>. QED
    BY <1>1, <2>2, <2>3, FS_Subset
<1>. QED
  BY <1>4 DEF Max

\* Turns are numbers; None is neither a turn, nor a process, nor a number.
LEMMA Names == /\ Turn \subseteq Nat /\ None \notin Turn /\ None \notin Proc /\ None \notin Nat
               /\ MaxAttempts \in Nat /\ MaxAttempts >= 1 /\ DailyEvents \in Nat
               /\ \A t \in Turn : Owner[t] \in Proc
<1>1. /\ Turn \subseteq Nat /\ MaxAttempts \in Nat /\ MaxAttempts # 0 /\ DailyEvents \in Nat
      /\ None \notin Proc \cup Nat /\ Owner \in [Turn -> Proc]
  BY NumberAssumption, OwnerAssumption
<1>2. MaxAttempts >= 1
  BY <1>1
<1>. QED
  BY <1>1, <1>2

-----------------------------------------------------------------------------
(* The inductive invariant *)

\* What the files of a turn, a turn, a controller, a pass and the outbox lock are.
FileState == [body : {"none", "present", "gone"}, proof : Nat \cup {None},
              side : {"none", "paused", "held"}, tries : Nat,
              ack : {"none", "auto", "hand"}, receipt : {"none", "accepted", "discarded"}]
TurnState == [at : {"new", "open", "sealed", "queued", "body", "done", "lost"}, sess : Nat,
              origin : Nat, sid : Nat, done : {"unknown", "yes", "no"}, settled : BOOLEAN,
              since : Nat, natural : BOOLEAN]
CtlState == [phase : {"idle", "ready", "turn", "command", "auto", "manual", "stopping",
                      "leaving", "down"},
             sess : Nat, cached : Nat, sid : Nat, live : BOOLEAN, suspended : BOOLEAN,
             stopped : BOOLEAN, again : Nat, owed : Nat]
Notes == {"none", "paused", "held"} \X {"next", "return", "halt"}
PassState == [at : {"off", "begin", "list", "next", "end", "lock", "busy", "note"},
              sid : Nat, epoch : Nat, todo : SUBSET Turn, blocked : SUBSET (Proc \X Nat),
              cur : Turn \cup {None}, retry : Nat, note : Notes]
OpState == [by : Proc \cup {None}, t : Turn \cup {None}, todo : SUBSET Turn,
            kind : {"free", "dead", "auto", "send", "discard", "clear", "expire"},
            at : {"free", "quota", "reserve", "arm", "fire", "wait", "ack", "receipt",
                  "clean", "body", "rest"}]
LeftState == [turns : SUBSET Turn, mode : Nat, cancel : Nat, fault : Nat, crash : Nat,
              hand : Nat, aged : Nat, leave : Nat, lost : Nat]

\* No number is ahead of the last consent that was given.
Scalars ==
    /\ policy \in 0 .. issued /\ issued \in Nat /\ halt \in 0 .. issued
    /\ used \in 0 .. DailyEvents /\ requests \in Nat
    /\ stops \subseteq Proc \X Nat
    /\ config \in {"free", "held", "dead"} /\ printing \in Proc \cup {"free", "dead"}
    /\ left \in LeftState

\* A pass r and its controller c when n consents were given: what the pass has in
\* hand, and that a pass which is owed will begin under the signal that earned it.
Tidy(c, r, n) ==
    /\ c.cached <= n /\ r.epoch <= n /\ r.retry < MaxAttempts
    /\ c.again <= c.sid /\ c.owed <= c.sid
    /\ r.at \in {"lock", "note"} => r.cur # None
    /\ r.at \in {"off", "begin", "list", "next", "end"} => r.cur = None
    /\ /\ c.owed # 0 /\ c.owed = c.sid /\ c.live
       /\ ~c.suspended /\ c.cached # 0 /\ ~c.stopped
       => /\ r.at # "off"
          /\ (r.at = "begin" /\ r.sid = c.owed) \/ c.again = c.owed

\* A turn whose proof is on disk, under the consent e.
Candidate(t, e) == turn[t].at = "done" /\ turn[t].natural /\ turn[t].origin = e /\ e # 0

\* The controllers and their passes: a pass has candidates of its epoch in hand.
Driven ==
    /\ ctl \in [Proc -> CtlState] /\ pass \in [Proc -> PassState]
    /\ \A p \in Proc :
          /\ Tidy(ctl[p], pass[p], issued)
          /\ \A t \in pass[p].todo \cup {pass[p].cur} : t # None => Candidate(t, pass[p].epoch)

\* The turns that have no file yet.
Early == {"new", "open", "sealed", "queued"}

\* A turn a and its files f when n consents were given.
Sane(a, f, n) ==
    /\ a.origin <= a.since /\ a.since <= n /\ f.tries <= MaxAttempts
    /\ a.at \in {"new", "sealed"} => ~a.settled
    /\ a.at = "sealed" => a.done # "unknown"
    /\ a.at \in {"queued", "body", "done"} => a.settled
    /\ a.done = "yes" => a.natural
    /\ a.at \in Early => /\ f.body = "none" /\ f.proof = None
                         /\ f.ack = "none" /\ f.receipt = "none"
    /\ a.at = "body" => f.proof = None
    /\ f.proof \notin {None, 0} => a.at = "done" /\ a.natural /\ f.proof = a.origin
    /\ f.body = "none" => f.ack = "none" /\ f.receipt = "none"
    /\ f.body = "gone" => f.receipt # "none"
    /\ a.at \in {"body", "done"} => f.body # "none"

\* A turn a with files f, and an earlier turn b of its process, which is one of
\* the run or not.
Behind(a, f, b, ofRun) ==
    /\ a.at # "new" => b.at # "open" /\ ~(b.at = "new" /\ ofRun)
    /\ a.settled => b.settled \/ b.at = "lost"
    /\ f.body # "none" => b.at \in {"done", "lost"}

Before(u, t) == u < t /\ Owner[u] = Owner[t]

\* The turns and their files: they are published in their order.
Published ==
    /\ turn \in [Turn -> TurnState] /\ file \in [Turn -> FileState]
    /\ \A t \in Turn : Sane(turn[t], file[t], issued)
    /\ \A t, u \in Turn : Before(u, t) => Behind(turn[t], file[t], turn[u], u \in left.turns)
    /\ \A t \in Turn : turn[t].at = "open" => ctl[Owner[t]].phase = "turn"

\* The holder of the outbox lock is a process with an event in hand, at a step of
\* what it does; its pass, or its user, waits for it.
Holding ==
    /\ op.kind \in {"free", "dead"} => op = Free \/ op = Dead
    /\ op.kind \notin {"free", "dead"} =>
          /\ op.by \in Proc /\ op.t \in Turn
          /\ \A t \in op.todo \cup {op.t} : turn[t].at \notin Early /\ file[t].body # "none"
    /\ op.kind = "auto" =>
          /\ op.at \in {"quota", "reserve", "arm", "fire", "wait", "ack", "receipt"}
          /\ pass[op.by].at = "busy" /\ pass[op.by].cur = op.t
    /\ op.kind = "send" => op.at \in {"reserve", "fire", "wait", "ack"}
    /\ op.kind \in {"discard", "clear", "expire"} => op.at \in {"clean", "body", "rest"}
    /\ op.kind = "expire" => pass[op.by].at = "busy" /\ pass[op.by].cur = None
    /\ op.kind \in {"send", "discard", "clear"} => ctl[op.by].phase = "command"

\* What is being sent was neither accepted nor discarded and waits for nothing
\* earlier; what is being removed has its receipt.
Unsettled ==
    /\ op.kind \in {"auto", "send"} =>
         /\ file[op.t].receipt = "none" /\ file[op.t].body = "present"
         /\ op.at # "receipt" => file[op.t].ack = "none"
         /\ op.at \in {"quota", "reserve"} => ~Spent(op.t)
         /\ op.at \in {"quota", "reserve", "arm", "fire"} => EarlierPending(op.t) = {}
    /\ op.at \in {"body", "rest"} => file[op.t].receipt # "none"
    /\ op.at = "rest" => file[op.t].body = "gone"

\* Between the last look and the request the writers of the consent are kept out.
Armed == op.kind = "auto" /\ op.at = "fire" =>
    config = "held" /\ policy = pass[op.by].epoch /\ ~Stopped(op.t)

\* The attempt, and the request of the day, that are paid for and not yet used.
Due(t) == IF op.kind \in {"auto", "send"} /\ op.t = t /\ op.at \in {"arm", "fire"} THEN 1 ELSE 0
DueToday == IF op.kind = "auto" /\ op.at \in {"reserve", "arm", "fire"} THEN 1 ELSE 0
Paid ==
    /\ launches \in [Turn -> [auto : Nat, hand : Nat]]
    /\ \A t \in Turn :
          /\ turn[t].at \in Early => launches[t].auto + launches[t].hand = 0
          /\ file[t].body # "gone" =>
                launches[t].auto + launches[t].hand + Due(t) <= file[t].tries
    /\ requests + DueToday <= used

\* The inductive invariant.
Locked == op \in OpState /\ Holding /\ Unsettled /\ Armed /\ Paid
IInv == Scalars /\ Driven /\ Published /\ Locked

-----------------------------------------------------------------------------
(* What a step must keep of each part *)

\* The events of a run change the budget, never its turns.
LEMMA EventIs ==
    ASSUME left \in LeftState,
           NEW k \in {"mode", "cancel", "fault", "crash", "hand", "aged", "leave", "lost"},
           Event(k)
    PROVE  left' \in LeftState /\ left'.turns = left.turns
BY DEF Event, LeftState

\* What is published stays as it is.
Lasting == \A t \in Turn :
    /\ turn[t].at = "done" => turn'[t] = turn[t]
    /\ turn[t].at \notin Early => turn'[t].at \notin Early /\ turn'[t].sess = turn[t].sess

\* Process p goes on with controller c and pass r.
LEMMA DrivenStep ==
    ASSUME IInv, NEW p \in Proc, NEW c \in CtlState, NEW r \in PassState,
           ctl' = [ctl EXCEPT ![p] = c], pass' = [pass EXCEPT ![p] = r],
           issued' \in Nat, issued <= issued', Tidy(c, r, issued'), Lasting,
           \A t \in r.todo \cup {r.cur} : t # None => Candidate(t, r.epoch)
    PROVE  Driven'
<1>1. /\ ctl \in [Proc -> CtlState] /\ pass \in [Proc -> PassState] /\ issued \in Nat
      /\ \A q \in Proc :
          /\ Tidy(ctl[q], pass[q], issued)
          /\ \A t \in pass[q].todo \cup {pass[q].cur} : t # None => Candidate(t, pass[q].epoch)
  BY DEF IInv, Driven, Scalars
<1>2. ctl' \in [Proc -> CtlState] /\ pass' \in [Proc -> PassState]
  BY <1>1
<1>3. ASSUME NEW q \in Proc
      PROVE  /\ Tidy(ctl'[q], pass'[q], issued')
             /\ \A t \in pass'[q].todo \cup {pass'[q].cur} :
                   t # None => /\ turn'[t].at = "done" /\ turn'[t].natural
                               /\ turn'[t].origin = pass'[q].epoch /\ pass'[q].epoch # 0
  <2>1. CASE q = p
    <3>1. ctl'[q] = c /\ pass'[q] = r
      BY <1>1, <2>1
    <3>2. r.todo \cup {r.cur} \subseteq Turn \cup {None}
      BY DEF PassState
    <3>. QED
      BY <3>1, <3>2 DEF Candidate, Lasting
  <2>2. CASE q # p
    <3>1. ctl'[q] = ctl[q] /\ pass'[q] = pass[q]
      BY <1>1, <2>2
    <3>2. ctl[q] \in CtlState /\ pass[q] \in PassState
      BY <1>1
    <3>3. Tidy(ctl[q], pass[q], issued')
      BY <1>1, <3>2 DEF Tidy, CtlState, PassState
    <3>4. pass[q].todo \cup {pass[q].cur} \subseteq Turn \cup {None}
      BY <3>2 DEF PassState
    <3>. QED
      BY <1>1, <3>1, <3>3, <3>4 DEF Candidate, Lasting
  <2>. QED
    BY <2>1, <2>2
<1>. QED
  BY <1>2, <1>3 DEF Driven, Candidate

\* The controllers and passes are left alone.
LEMMA DrivenSame ==
    ASSUME IInv, ctl' = ctl, pass' = pass, issued' = issued, Lasting
    PROVE  Driven'
<1>1. \A q \in Proc : pass[q].todo \cup {pass[q].cur} \subseteq Turn \cup {None}
  BY DEF IInv, Driven, PassState
<1>. QED
  BY <1>1 DEF IInv, Driven, Candidate, Lasting

\* The turns and files are left alone.
LEMMA PublishedSame ==
    ASSUME IInv, turn' = turn, file' = file, left'.turns = left.turns,
           issued' \in Nat, issued <= issued',
           \A t \in Turn : turn[t].at = "open" => ctl'[Owner[t]].phase = "turn"
    PROVE  Published' /\ Lasting
<1>1. \A t \in Turn : Sane(turn[t], file[t], issued')
  BY DEF IInv, Scalars, Published, Sane, TurnState
<1>. QED
  BY <1>1 DEF IInv, Published, Lasting

\* Turn t becomes a and its files f.
LEMMA PublishedStep ==
    ASSUME IInv, NEW t \in Turn, NEW a \in TurnState, NEW f \in FileState,
           turn' = [turn EXCEPT ![t] = a], file' = [file EXCEPT ![t] = f],
           left'.turns = left.turns, issued' = issued, Sane(a, f, issued),
           \A u \in Turn : Before(u, t) => Behind(a, f, turn[u], u \in left.turns),
           \A w \in Turn : Before(t, w) => Behind(turn[w], file[w], a, t \in left.turns),
           \A u \in Turn \ {t} : turn[u].at = "open" => ctl'[Owner[u]].phase = "turn",
           a.at = "open" => ctl'[Owner[t]].phase = "turn"
    PROVE  Published'
<1>1. /\ turn \in [Turn -> TurnState] /\ file \in [Turn -> FileState]
      /\ \A u \in Turn : Sane(turn[u], file[u], issued)
      /\ \A w, u \in Turn : Before(u, w) => Behind(turn[w], file[w], turn[u], u \in left.turns)
  BY DEF IInv, Published
<1>2. turn' \in [Turn -> TurnState] /\ file' \in [Turn -> FileState]
  BY <1>1
<1>3. /\ turn'[t] = a /\ file'[t] = f
      /\ \A u \in Turn \ {t} : turn'[u] = turn[u] /\ file'[u] = file[u]
  BY <1>1
<1>4. \A u \in Turn : Sane(turn'[u], file'[u], issued')
  BY <1>1, <1>3
<1>5. ASSUME NEW w \in Turn, NEW u \in Turn, Before(u, w)
      PROVE  Behind(turn'[w], file'[w], turn'[u], u \in left'.turns)
  <2>1. u # w
    BY <1>5, Names DEF Before
  <2>. QED
    BY <1>1, <1>3, <1>5, <2>1
<1>6. \A u \in Turn : turn'[u].at = "open" => ctl'[Owner[u]].phase = "turn"
  BY <1>3
<1>. QED
  BY <1>2, <1>4, <1>5, <1>6 DEF Published, Before

\* The files of what is published keep what the lock is about.
Standing == \A t \in Turn : turn[t].at \notin Early =>
    /\ file'[t].body = file[t].body /\ file'[t].receipt = file[t].receipt
    /\ file'[t].ack = file[t].ack /\ file'[t].tries = file[t].tries

\* The attempts of what may still be sent are left alone.
Counted == \A t \in Turn : turn[t].at \notin Early /\ file'[t].body # "gone" =>
    file[t].body # "gone" /\ file'[t].tries = file[t].tries

LEMMA StandingCounts == Standing => Counted
BY DEF Standing, Counted

\* What is paid for stays so while the lock is.
LEMMA PaidSame ==
    ASSUME IInv, Counted, Lasting, Published', launches' = launches, requests' = requests,
           used' = used,
           \A t \in Turn : Due(t)' = 0 \/ Due(t)' = Due(t),
           DueToday' = 0 \/ DueToday' = DueToday
    PROVE  Paid'
<1>1. /\ turn \in [Turn -> TurnState] /\ file \in [Turn -> FileState] /\ Paid
      /\ used \in Nat /\ requests \in Nat
  BY DEF IInv, Published, Locked, Scalars
<1>2. /\ file' \in [Turn -> FileState] /\ turn' \in [Turn -> TurnState]
  BY DEF Published
<1>3. ASSUME NEW t \in Turn
      PROVE  /\ turn'[t].at \in Early => launches[t].auto + launches[t].hand = 0
             /\ file'[t].body # "gone" =>
                   launches[t].auto + launches[t].hand + Due(t)' <= file'[t].tries
  <2>1. launches[t].auto \in Nat /\ launches[t].hand \in Nat /\ file[t].tries \in Nat
        /\ file'[t].tries \in Nat /\ Due(t) \in 0 .. 1
    BY <1>1, <1>2 DEF Paid, FileState, Due
  <2>2. Due(t)' <= Due(t) /\ Due(t)' \in Nat
    BY <2>1
  <2>3. CASE turn[t].at \in Early
    <3>1. launches[t].auto + launches[t].hand = 0
      BY <1>1, <2>3 DEF Paid
    <3>2. Due(t) = 0
      BY <2>3 DEF IInv, Locked, Holding, Due
    <3>. QED
      BY <2>1, <2>2, <3>1, <3>2
  <2>4. CASE turn[t].at \notin Early
    <3>1. /\ turn'[t].at \notin Early
          /\ file'[t].body # "gone" =>
                 file[t].body # "gone" /\ file'[t].tries = file[t].tries
      BY <2>4 DEF Lasting, Counted
    <3>2. file[t].body # "gone" =>
             launches[t].auto + launches[t].hand + Due(t) <= file[t].tries
      BY <1>1 DEF Paid
    <3>. QED
      BY <2>1, <2>2, <3>1, <3>2
  <2>. QED
    BY <2>3, <2>4
<1>4. requests + DueToday' <= used
  BY <1>1 DEF Paid, DueToday
<1>. QED
  BY <1>1, <1>3, <1>4 DEF Paid

\* Nobody holds the lock.
LEMMA LockFree ==
    ASSUME IInv, op' = Free \/ op' = Dead, Counted, Lasting, Published',
           launches' = launches, requests' = requests, used' = used
    PROVE  Locked'
<1>1. op' \in OpState /\ op'.kind \in {"free", "dead"} /\ op'.at = "free"
  BY DEF OpState, Free, Dead
<1>2. Holding' /\ Unsettled' /\ Armed'
  BY <1>1 DEF Holding, Unsettled, Armed, Free, Dead
<1>3. DueToday' = 0 /\ \A t \in Turn : Due(t)' = 0
  BY <1>1 DEF DueToday, Due
<1>4. Paid'
  BY <1>3, PaidSame
<1>. QED
  BY <1>1, <1>2, <1>4 DEF Locked

\* What waits for nothing earlier never will: an earlier turn is published by now,
\* or lost.
LEMMA PendingKept ==
    ASSUME IInv, Lasting, NEW t \in Turn, file[t].body = "present", EarlierPending(t) = {},
           \A u \in Turn \ {t} : turn[u].at \notin Early =>
               /\ file'[u].body = file[u].body /\ file'[u].receipt = file[u].receipt
               /\ file'[u].ack = file[u].ack
    PROVE  EarlierPending(t)' = {}
<1>1. ASSUME NEW u \in Turn, u < t, Owner[u] = Owner[t], turn'[u].sess = turn'[t].sess,
             file'[u].body = "present", file'[u].receipt = "none", file'[u].ack = "none"
      PROVE  FALSE
  <2>1. Behind(turn[t], file[t], turn[u], u \in left.turns) /\ Sane(turn[t], file[t], issued)
    BY <1>1 DEF IInv, Published, Before
  <2>2. turn[u].at \notin Early /\ turn[t].at \notin Early /\ u # t
    BY <1>1, <2>1, Names DEF Behind, Sane, Early
  <2>3. turn[u].sess = turn[t].sess
    BY <1>1, <2>2 DEF Lasting
  <2>4. u \in EarlierPending(t)
    BY <1>1, <2>2, <2>3 DEF EarlierPending, Session, Terminal
  <2>. QED
    BY <2>4
<1>. QED
  BY <1>1 DEF EarlierPending, Session, Terminal

\* The holder of the lock goes on, and so does what it is about.
LEMMA LockKept ==
    ASSUME IInv, op' = op, Standing, Lasting, Published',
           launches' = launches, requests' = requests, used' = used,
           op.kind \in {"auto", "expire"} =>
               /\ pass'[op.by].at = pass[op.by].at /\ pass'[op.by].cur = pass[op.by].cur
               /\ pass'[op.by].epoch = pass[op.by].epoch,
           op.kind \in {"send", "discard", "clear"} => ctl'[op.by].phase = "command",
           op.kind = "auto" /\ op.at = "fire" =>
               config' = config /\ policy' = policy /\ stops' = stops
    PROVE  Locked'
<1>1. op \in OpState /\ Holding /\ Unsettled /\ Armed
  BY DEF IInv, Locked
<1>2. Holding'
  BY <1>1 DEF Holding, Lasting, Standing, OpState
<1>3. Unsettled'
  <2>1. CASE op.kind \in {"free", "dead"}
    BY <1>1, <2>1 DEF Unsettled, Holding, Free, Dead
  <2>2. CASE op.kind \notin {"free", "dead"}
    <3>1. op.t \in Turn /\ turn[op.t].at \notin Early
      BY <1>1, <2>2 DEF Holding
    <3>2. /\ file'[op.t].body = file[op.t].body /\ file'[op.t].receipt = file[op.t].receipt
          /\ file'[op.t].ack = file[op.t].ack /\ file'[op.t].tries = file[op.t].tries
      BY <3>1 DEF Standing
    <3>3. op.kind \in {"auto", "send"} /\ op.at \in {"quota", "reserve", "arm", "fire"} =>
             EarlierPending(op.t)' = {}
      BY <1>1, <3>1, PendingKept DEF Unsettled, Standing
    <3>. QED
      BY <1>1, <3>2, <3>3 DEF Unsettled, Spent, EarlierPending
  <2>. QED
    BY <2>1, <2>2
<1>4. Armed'
  BY <1>1 DEF Armed, Holding, Stopped, Session, Lasting
<1>5. DueToday' = DueToday /\ \A t \in Turn : Due(t)' = Due(t)
  BY DEF DueToday, Due
<1>6. Paid'
  BY <1>5, StandingCounts, PaidSame
<1>. QED
  BY <1>1, <1>2, <1>3, <1>4, <1>6 DEF Locked

\* The step is about the processes, not about the turns, their files or the lock;
\* a request that is leaving leaves.
Aside == /\ UNCHANGED <<turn, file, op, launches, requests, used>>
         /\ left'.turns = left.turns /\ issued <= issued'
         /\ op.kind = "auto" /\ op.at = "fire" =>
               config' = config /\ policy' = policy /\ stops' = stops

\* Process p goes on with controller c and pass r.
Goes(p, c, r) ==
    /\ ctl' = [ctl EXCEPT ![p] = c] /\ pass' = [pass EXCEPT ![p] = r]
    /\ Tidy(c, r, issued')
    /\ \A t \in r.todo \cup {r.cur} : t # None => Candidate(t, r.epoch)
    /\ pass[p].at = "busy" => r = pass[p]
    /\ ctl[p].phase = "command" => c.phase = "command"

\* A process goes on outside the lock, and what is locked stays.
LEMMA ControlStep ==
    ASSUME IInv, Scalars', Published', Lasting, Standing,
           NEW p \in Proc, NEW c \in CtlState, NEW r \in PassState, Goes(p, c, r),
           UNCHANGED <<op, launches, requests, used>>, issued <= issued',
           op.kind = "auto" /\ op.at = "fire" =>
               config' = config /\ policy' = policy /\ stops' = stops
    PROVE  IInv'
<1>1. ctl \in [Proc -> CtlState] /\ pass \in [Proc -> PassState]
  BY DEF IInv, Driven
<1>2. /\ ctl'[p] = c /\ pass'[p] = r
      /\ \A q \in Proc \ {p} : ctl'[q] = ctl[q] /\ pass'[q] = pass[q]
  BY <1>1 DEF Goes
<1>3. Driven'
  BY DrivenStep DEF Scalars, Goes
<1>4. op.kind \in {"auto", "expire", "send", "discard", "clear"} => op.by \in Proc
  BY DEF IInv, Locked, Holding
<1>5. /\ op.kind \in {"auto", "expire"} => pass[op.by].at = "busy"
      /\ op.kind \in {"send", "discard", "clear"} => ctl[op.by].phase = "command"
  BY DEF IInv, Locked, Holding
<1>6. Locked'
  BY <1>2, <1>4, <1>5, LockKept DEF Goes
<1>. QED
  BY <1>3, <1>6 DEF IInv

\* A process goes on; neither turns nor files change.
LEMMA ProcessStep ==
    ASSUME IInv, Scalars', NEW p \in Proc, NEW c \in CtlState, NEW r \in PassState,
           Aside, Goes(p, c, r), ctl[p].phase = "turn" => c.phase = "turn"
    PROVE  IInv'
<1>1. ctl \in [Proc -> CtlState] /\ ctl' = [ctl EXCEPT ![p] = c]
  BY DEF IInv, Driven, Goes
<1>2. \A t \in Turn : turn[t].at = "open" => ctl'[Owner[t]].phase = "turn"
  BY <1>1, Names DEF IInv, Published, Goes
<1>3. Published' /\ Lasting
  BY <1>2, PublishedSame DEF Scalars, Aside
<1>4. Standing
  BY DEF Standing, Aside
<1>. QED
  BY <1>3, <1>4, ControlStep DEF Aside

-----------------------------------------------------------------------------
(* The controllers and the passes *)

\* A process without a pass.
LEMMA OffIs == /\ Off \in PassState /\ Off.at = "off" /\ Off.sid = 0 /\ Off.epoch = 0
               /\ Off.todo = {} /\ Off.cur = None /\ Off.retry = 0
<1>. DEFINE e == {}
            z == 0
            n == NoNote
            r == [at |-> "off", sid |-> z, epoch |-> z, todo |-> e, blocked |-> e, cur |-> None,
                  retry |-> z, note |-> n]
<1>1. n \in Notes /\ z \in Nat /\ e \in SUBSET Turn /\ e \in SUBSET (Proc \X Nat)
  BY DEF Notes, NoNote
<1>2. Off = r /\ e = {} /\ z = 0
  BY DEF Off
<1>3. r \in PassState /\ r.at = "off" /\ r.sid = z /\ r.epoch = z
      /\ r.todo = e /\ r.cur = None /\ r.retry = z
  <2>. HIDE DEF e, z, n
  <2>. QED
    BY <1>1 DEF PassState
<1>. QED
  BY <1>2, <1>3

\* What the invariant says of one process.
LEMMA ProcessIs ==
    ASSUME IInv, NEW p \in Proc
    PROVE  /\ ctl[p] \in CtlState /\ pass[p] \in PassState /\ Tidy(ctl[p], pass[p], issued)
           /\ \A t \in pass[p].todo \cup {pass[p].cur} : t # None => Candidate(t, pass[p].epoch)
           /\ ctl \in [Proc -> CtlState] /\ pass \in [Proc -> PassState]
           /\ ctl = [ctl EXCEPT ![p] = ctl[p]] /\ pass = [pass EXCEPT ![p] = pass[p]]
           /\ policy \in Nat /\ issued \in Nat /\ policy <= issued
BY DEF IInv, Driven, Scalars

\* refreshPolicy() at the start of a turn.
LEMMA PrepareStep ==
    ASSUME IInv, NEW p \in Proc, Prepare(p)
    PROVE  IInv'
<1>. DEFINE s == ctl[p].suspended \/ <<p, ctl[p].sess>> \in stops
            l == ctl[p].live /\ policy # 0 /\ policy = ctl[p].cached
            d == ctl[p].stopped /\ policy = ctl[p].cached
            h == "ready"
            c == [ctl[p] EXCEPT !.phase = h, !.cached = policy, !.live = l,
                                !.stopped = d, !.suspended = s]
<1>1. ctl' = [ctl EXCEPT ![p] = c] /\ pass' = [pass EXCEPT ![p] = pass[p]]
  <2>1. pass' = pass
    BY DEF Prepare
  <2>2. ctl' = [ctl EXCEPT ![p] = c]
    BY Zenon DEF Prepare
  <2>. QED
    BY <2>1, <2>2, ProcessIs
<1>2. s \in BOOLEAN /\ l \in BOOLEAN /\ d \in BOOLEAN /\ policy \in Nat
  BY ProcessIs DEF CtlState
<1>3. /\ l => ctl[p].live /\ policy = ctl[p].cached
      /\ ~s => ~ctl[p].suspended
      /\ ~d /\ policy = ctl[p].cached => ~ctl[p].stopped
  BY ProcessIs DEF CtlState
<1>4. c = [ctl[p] EXCEPT !.phase = h, !.cached = policy, !.live = l,
                         !.stopped = d, !.suspended = s]
      /\ h = "ready"
  OBVIOUS
<1>. HIDE DEF s, l, d, c, h
<1>5. /\ c \in CtlState /\ c.phase = h /\ c.cached = policy /\ c.live = l
      /\ c.stopped = d /\ c.suspended = s /\ c.sid = ctl[p].sid
      /\ c.again = ctl[p].again /\ c.owed = ctl[p].owed
  BY <1>2, <1>4, ProcessIs DEF CtlState
<1>6. Tidy(c, pass[p], issued)
  BY <1>3, <1>5, ProcessIs DEF Tidy
<1>7. Scalars' /\ Aside /\ issued' = issued
  BY ProcessIs DEF IInv, Scalars, Aside, Prepare, files, history
<1>8. Goes(p, c, pass[p])
  BY <1>1, <1>4, <1>5, <1>6, <1>7, ProcessIs DEF Goes, Prepare
<1>9. ctl[p].phase # "turn"
  BY DEF Prepare
<1>. QED
  BY <1>5, <1>7, <1>8, <1>9, ProcessStep, ProcessIs

\* The pass is over and goes round if it is owed.
LEMMA PassEndsIs ==
    ASSUME IInv, NEW p \in Proc, PassEnds(p),
           pass[p].at = "begin" => ~Live(p, pass[p].sid) \/ ctl[p].stopped \/ ctl[p].suspended
    PROVE  \E c \in CtlState, r \in PassState :
             /\ ctl' = [ctl EXCEPT ![p] = c] /\ pass' = [pass EXCEPT ![p] = r]
             /\ Tidy(c, r, issued) /\ r.todo = {} /\ r.cur = None /\ c.phase = ctl[p].phase
<1>. DEFINE more == /\ ctl[p].again # 0 /\ Live(p, ctl[p].again) /\ ~ctl[p].suspended
                    /\ ~ctl[p].stopped /\ (ctl[p].again = pass[p].sid \/ ctl[p].cached # 0)
            a == IF more THEN "begin" ELSE "off"
            i == IF more THEN ctl[p].again ELSE 0
            z == 0
            r == [Off EXCEPT !.at = a, !.sid = i]
            c == [ctl[p] EXCEPT !.again = z]
<1>1. r \in PassState
  <2>1. a \in {"begin", "off"} /\ i \in Nat
    BY ProcessIs DEF CtlState
  <2>. HIDE DEF a, i
  <2>. QED
    BY <2>1, OffIs DEF PassState
<1>2. ctl' = [ctl EXCEPT ![p] = c] /\ pass' = [pass EXCEPT ![p] = r]
  <2>1. ctl' = [ctl EXCEPT ![p] = c]
    BY DEF PassEnds
  <2>2. CASE more
    <3>1. a = "begin" /\ i = ctl[p].again
      BY <2>2
    <3>2. pass' = [pass EXCEPT ![p] = [Off EXCEPT !.at = "begin", !.sid = ctl[p].again]]
      BY <2>2 DEF PassEnds
    <3>. QED
      BY <2>1, <3>1, <3>2
  <2>3. CASE ~more
    <3>1. a = "off" /\ i = 0
      BY <2>3
    <3>2. pass' = [pass EXCEPT ![p] = Off]
      BY <2>3 DEF PassEnds
    <3>3. r = Off
      BY <3>1, OffIs DEF PassState
    <3>. QED
      BY <2>1, <3>2, <3>3
  <2>. QED
    BY <2>1, <2>2, <2>3
<1>3. z \in Nat
  OBVIOUS
<1>4. c \in CtlState /\ c.again = 0 /\ c.phase = ctl[p].phase /\ c.cached = ctl[p].cached
      /\ c.sid = ctl[p].sid /\ c.owed = ctl[p].owed /\ c.live = ctl[p].live
      /\ c.suspended = ctl[p].suspended /\ c.stopped = ctl[p].stopped
  BY <1>3, ProcessIs DEF CtlState
<1>5. /\ r.at = a /\ r.sid = i /\ r.epoch = 0 /\ r.retry = 0 /\ r.cur = None /\ r.todo = {}
  BY OffIs DEF PassState
<1>6. more => a = "begin" /\ i = ctl[p].again
  OBVIOUS
<1>7. /\ ctl[p].owed # 0 /\ ctl[p].owed = ctl[p].sid /\ ctl[p].live
      /\ ~ctl[p].suspended /\ ctl[p].cached # 0 /\ ~ctl[p].stopped
      => more /\ ctl[p].again = ctl[p].owed
  BY ProcessIs DEF Tidy, Live
<1>8. a \in {"begin", "off"}
  OBVIOUS
<1>. HIDE DEF more, a, i, r, c
<1>9. Tidy(c, r, issued)
  BY <1>4, <1>5, <1>6, <1>7, <1>8, ProcessIs, Names DEF Tidy, CtlState
<1>. QED
  BY <1>1, <1>2, <1>4, <1>5, <1>9

\* The pass is over (PassOver).
LEMMA PassOverStep ==
    ASSUME IInv, NEW p \in Proc, PassOver(p)
    PROVE  IInv'
<1>1. PICK c \in CtlState, r \in PassState :
             /\ ctl' = [ctl EXCEPT ![p] = c] /\ pass' = [pass EXCEPT ![p] = r]
             /\ Tidy(c, r, issued) /\ r.todo = {} /\ r.cur = None /\ c.phase = ctl[p].phase
  BY PassEndsIs DEF PassOver
<1>2. Scalars' /\ Aside /\ issued' = issued
  BY ProcessIs DEF IInv, Scalars, Aside, PassOver, files, history
<1>3. Goes(p, c, r)
  BY <1>1, <1>2 DEF Goes, PassOver
<1>. QED
  BY <1>1, <1>2, <1>3, ProcessStep

\* The candidates are listed.
LEMMA PassListStep ==
    ASSUME IInv, NEW p \in Proc, PassList(p)
    PROVE  IInv'
<1>. DEFINE S == {t \in Turn : /\ file[t].body = "present" /\ ~Terminal(t) /\ ~Stopped(t)
                               /\ file[t].proof = ctl[p].cached /\ file[t].proof # 0}
            e == ctl[p].cached
            a == "next"
            r == [pass[p] EXCEPT !.at = a, !.epoch = e, !.todo = S]
<1>1. ctl' = [ctl EXCEPT ![p] = ctl[p]] /\ pass' = [pass EXCEPT ![p] = r]
  BY ProcessIs DEF PassList
<1>2. S \in SUBSET Turn /\ e \in Nat /\ e <= issued /\ a = "next"
  BY ProcessIs DEF CtlState, Tidy
<1>3. \A t \in S : Candidate(t, e)
  <2>1. ASSUME NEW t \in S PROVE Candidate(t, e)
    <3>1. t \in Turn /\ file[t].proof = e /\ e # 0 /\ e # None
      BY <1>2, Names
    <3>2. Sane(turn[t], file[t], issued)
      BY <3>1 DEF IInv, Published
    <3>. QED
      BY <3>1, <3>2 DEF Sane, Candidate
  <2>. QED
    BY <2>1
<1>4. r = [pass[p] EXCEPT !.at = a, !.epoch = e, !.todo = S]
  OBVIOUS
<1>. HIDE DEF S, e, r, a
<1>5. /\ r \in PassState /\ r.at = a /\ r.epoch = e /\ r.todo = S /\ r.cur = pass[p].cur
      /\ r.sid = pass[p].sid /\ r.retry = pass[p].retry
  BY <1>2, <1>4, ProcessIs DEF PassState
<1>6. pass[p].at = "list" /\ pass[p].cur = None
  BY ProcessIs DEF PassList, Tidy
<1>7. Tidy(ctl[p], r, issued)
  BY <1>2, <1>5, <1>6, ProcessIs DEF Tidy
<1>8. Scalars' /\ Aside /\ issued' = issued
  BY ProcessIs DEF IInv, Scalars, Aside, PassList, files, history
<1>9. Goes(p, ctl[p], r)
  BY <1>1, <1>3, <1>5, <1>6, <1>7, <1>8 DEF Goes
<1>. QED
  BY <1>5, <1>8, <1>9, ProcessStep, ProcessIs

\* A turn a that its process gives up, or that waits for its settlement or its
\* publication, becomes b: its session, consent and settlement are what they were.
Onward(a, b) ==
    \/ b = a
    \/ /\ b.sess = a.sess /\ b.origin = a.origin /\ b.since = a.since /\ b.settled = a.settled
       /\ b.done = "yes" => b.natural
       /\ \/ a.at \notin {"new", "done"} /\ b.at = "lost"
          \/ a.at \in {"open", "sealed"} /\ a.settled /\ b.at = "queued"
          \/ a.at \in {"open", "sealed"} /\ ~a.settled /\ b.at = "sealed" /\ b.done # "unknown"

\* Some turns go onward.
LEMMA PublishedOnward ==
    ASSUME IInv, turn' \in [Turn -> TurnState], \A t \in Turn : Onward(turn[t], turn'[t]),
           file' = file, left'.turns = left.turns, issued' = issued,
           \A t \in Turn : turn'[t].at = "open" => ctl'[Owner[t]].phase = "turn"
    PROVE  Published' /\ Lasting /\ Standing
<1>1. /\ turn \in [Turn -> TurnState] /\ file \in [Turn -> FileState]
      /\ \A u \in Turn : Sane(turn[u], file[u], issued)
      /\ \A w, u \in Turn : Before(u, w) => Behind(turn[w], file[w], turn[u], u \in left.turns)
  BY DEF IInv, Published
<1>2. ASSUME NEW t \in Turn PROVE Sane(turn'[t], file'[t], issued')
  <2>1. PICK b \in TurnState : b = turn'[t]
    OBVIOUS
  <2>2. Onward(turn[t], b) /\ Sane(turn[t], file[t], issued)
    BY <1>1, <2>1
  <2>3. Sane(b, file[t], issued)
    BY <2>2 DEF Onward, Sane, Early
  <2>. QED
    BY <2>1, <2>3
<1>3. ASSUME NEW w \in Turn, NEW u \in Turn, Before(u, w)
      PROVE  Behind(turn'[w], file'[w], turn'[u], u \in left'.turns)
  <2>1. PICK b \in TurnState, d \in TurnState : b = turn'[w] /\ d = turn'[u]
    OBVIOUS
  <2>2. Onward(turn[w], b) /\ Onward(turn[u], d)
        /\ Behind(turn[w], file[w], turn[u], u \in left.turns)
    BY <1>1, <1>3, <2>1
  <2>3. Behind(b, file[w], d, u \in left.turns)
    BY <2>2 DEF Onward, Behind
  <2>. QED
    BY <2>1, <2>3
<1>4. ASSUME NEW t \in Turn
      PROVE  /\ turn[t].at = "done" => turn'[t] = turn[t]
             /\ turn[t].at \notin Early =>
                   turn'[t].at \notin Early /\ turn'[t].sess = turn[t].sess
  <2>1. Onward(turn[t], turn'[t])
    OBVIOUS
  <2>. QED
    BY <2>1 DEF Onward, Early
<1>5. Standing
  BY DEF Standing
<1>6. Lasting
  BY <1>4 DEF Lasting
<1>7. file' \in [Turn -> FileState]
  BY <1>1
<1>8. \A t, u \in Turn :
         Before(u, t) => Behind(turn'[t], file'[t], turn'[u], u \in left'.turns)
  BY <1>3
<1>. QED
  BY <1>2, <1>5, <1>6, <1>7, <1>8 DEF Published, Before

\* begin().
LEMMA BeginStep ==
    ASSUME IInv, NEW p \in Proc, Begin(p)
    PROVE  IInv'
<1>1. PICK t \in Turn : t = Min(Upcoming(p)) /\ Owner[t] = p /\ turn[t].at = "new"
                        /\ t \in left.turns /\ \A y \in Upcoming(p) : t <= y
  BY MinIs, Names DEF Begin, Upcoming, Mine
<1>. DEFINE og == IF ctl[p].suspended THEN 0 ELSE ctl[p].cached
            sg == IF og # 0 /\ ~ctl[p].live THEN ctl[p].sid + 1 ELSE ctl[p].sid
            l == ctl[p].live \/ og # 0
            ph == "turn"
            op1 == "open"
            s == ctl[p].sess
            c == [ctl[p] EXCEPT !.phase = ph, !.sid = sg, !.live = l]
            a == [turn[t] EXCEPT !.at = op1, !.sess = s, !.origin = og, !.sid = sg,
                                 !.since = issued]
<1>2. /\ ctl' = [ctl EXCEPT ![p] = c] /\ turn' = [turn EXCEPT ![t] = a]
      /\ UNCHANGED <<policy, issued, files, config, printing, op, pass, left, history>>
  BY <1>1, Zenon DEF Begin
<1>3. /\ og \in Nat /\ og <= issued /\ (og # 0 => ~ctl[p].suspended)
      /\ sg \in Nat /\ sg >= ctl[p].sid /\ l \in BOOLEAN /\ s \in Nat
      /\ ctl[p].live => l /\ sg = ctl[p].sid
      /\ l /\ ~ctl[p].live => sg = ctl[p].sid + 1
  BY ProcessIs DEF CtlState, Tidy
<1>4. /\ ph = "turn" /\ op1 = "open"
      /\ c = [ctl[p] EXCEPT !.phase = ph, !.sid = sg, !.live = l]
      /\ a = [turn[t] EXCEPT !.at = op1, !.sess = s, !.origin = og, !.sid = sg, !.since = issued]
  OBVIOUS
<1>. HIDE DEF og, sg, l, ph, op1, s, c, a
<1>5. /\ c \in CtlState /\ c.phase = "turn" /\ c.sid = sg /\ c.live = l
      /\ c.cached = ctl[p].cached /\ c.suspended = ctl[p].suspended
      /\ c.stopped = ctl[p].stopped /\ c.again = ctl[p].again /\ c.owed = ctl[p].owed
  BY <1>3, <1>4, ProcessIs DEF CtlState
<1>6. turn[t] \in TurnState /\ file[t] \in FileState /\ issued \in Nat
      /\ Sane(turn[t], file[t], issued)
  BY DEF IInv, Published, Scalars
<1>7. /\ a \in TurnState /\ a.at = "open" /\ a.origin = og /\ a.since = issued
      /\ a.settled = turn[t].settled /\ a.done = turn[t].done /\ a.natural = turn[t].natural
  BY <1>3, <1>4, <1>6 DEF TurnState
<1>8. Tidy(c, pass[p], issued)
  BY <1>3, <1>5, ProcessIs DEF Tidy, CtlState
<1>9. Scalars'
  BY <1>2 DEF IInv, Scalars, files, history
<1>10. Published'
  <2>1. Sane(a, file[t], issued)
    BY <1>1, <1>3, <1>6, <1>7 DEF Sane, Early
  <2>2. ASSUME NEW u \in Turn, Before(u, t)
        PROVE  Behind(a, file[t], turn[u], u \in left.turns)
    <3>1. turn[u].at # "open"
      BY <1>1, <2>2 DEF Begin, IInv, Published, Before
    <3>2. ~(turn[u].at = "new" /\ u \in left.turns)
      BY <1>1, <2>2, Names DEF Before, Upcoming, Mine
    <3>. QED
      BY <1>1, <1>6, <1>7, <3>1, <3>2 DEF Behind, Sane, Early
  <2>3. ASSUME NEW w \in Turn, Before(t, w)
        PROVE  Behind(turn[w], file[w], a, t \in left.turns)
    <3>1. Behind(turn[w], file[w], turn[t], t \in left.turns) /\ Sane(turn[w], file[w], issued)
      BY <2>3 DEF IInv, Published
    <3>. QED
      BY <1>1, <3>1 DEF Behind, Sane, Early
  <2>4. file' = [file EXCEPT ![t] = file[t]] /\ left' = left /\ issued' = issued
    BY <1>2 DEF IInv, Published, files
  <2>5. \A u \in Turn : Owner[u] = p => ctl'[Owner[u]].phase = "turn"
    BY <1>2, <1>5, ProcessIs
  <2>6. \A u \in Turn : Owner[u] # p => ctl'[Owner[u]] = ctl[Owner[u]]
    BY <1>2, ProcessIs, Names
  <2>7. \A u \in Turn \ {t} : turn[u].at = "open" => ctl'[Owner[u]].phase = "turn"
    BY <2>5, <2>6 DEF IInv, Published
  <2>. QED
    BY <1>1, <1>2, <1>6, <1>7, <2>1, <2>2, <2>3, <2>4, <2>5, <2>7, PublishedStep
<1>11. Lasting /\ Standing
  <2>1. turn \in [Turn -> TurnState]
    BY DEF IInv, Published
  <2>. QED
    BY <1>1, <1>2, <2>1 DEF Lasting, Standing, Early, files
<1>12. Goes(p, c, pass[p])
  <2>1. ctl[p].phase = "ready"
    BY DEF Begin
  <2>. QED
    BY <1>2, <1>8, <2>1, ProcessIs DEF Goes
<1>. QED
  BY <1>2, <1>5, <1>9, <1>10, <1>11, <1>12, ProcessIs, ControlStep DEF files, history

\* sealTurn() gives a turn its verdict, or withdraws it.
LEMMA SealedIs ==
    ASSUME IInv, NEW t \in Turn, NEW completed \in BOOLEAN
    PROVE  /\ Sealed(t, completed) \in TurnState
           /\ LET b == Sealed(t, completed) IN
                /\ b.at = IF turn[t].settled THEN "queued" ELSE "sealed"
                /\ b.done = IF turn[t].done # "no" /\ completed THEN "yes" ELSE "no"
                /\ b.sess = turn[t].sess /\ b.origin = turn[t].origin /\ b.since = turn[t].since
                /\ b.settled = turn[t].settled /\ b.natural = turn[t].natural
<1>. DEFINE d == IF turn[t].done # "no" /\ completed THEN "yes" ELSE "no"
            x == IF turn[t].settled THEN "queued" ELSE "sealed"
            b == [turn[t] EXCEPT !.done = d, !.at = x]
<1>1. Sealed(t, completed) = b
  BY DEF Sealed
<1>2. d \in {"yes", "no"} /\ x \in {"queued", "sealed"} /\ turn[t] \in TurnState
  BY DEF IInv, Published
<1>3. b \in TurnState /\ b.at = x /\ b.done = d
      /\ b.sess = turn[t].sess /\ b.origin = turn[t].origin /\ b.since = turn[t].since
      /\ b.settled = turn[t].settled /\ b.natural = turn[t].natural
  <2>. HIDE DEF d, x
  <2>. QED
    BY <1>2 DEF TurnState
<1>. QED
  BY <1>1, <1>3

\* No turn that is not yet published qualifies.
LEMMA SealAllIs ==
    ASSUME IInv, NEW p \in Proc, turn' = SealAllFalse(p)
    PROVE  /\ turn' \in [Turn -> TurnState]
           /\ \A t \in Turn : /\ Onward(turn[t], turn'[t])
                              /\ turn'[t].at = "open" => Owner[t] # p /\ turn[t].at = "open"
<1>1. turn \in [Turn -> TurnState]
  BY DEF IInv, Published
<1>2. ASSUME NEW t \in Turn
      PROVE  /\ turn'[t] \in TurnState /\ Onward(turn[t], turn'[t])
             /\ turn'[t].at = "open" => Owner[t] # p /\ turn[t].at = "open"
  <2>1. CASE t \in Mine(p) /\ turn[t].at \in {"open", "sealed"}
    <3>1. turn'[t] = Sealed(t, FALSE)
      BY <2>1 DEF SealAllFalse
    <3>2. PICK b \in TurnState : b = Sealed(t, FALSE)
      BY SealedIs
    <3>3. /\ b.at = IF turn[t].settled THEN "queued" ELSE "sealed"
          /\ b.done = "no" /\ b.sess = turn[t].sess /\ b.origin = turn[t].origin
          /\ b.since = turn[t].since /\ b.settled = turn[t].settled
      BY <3>2, SealedIs
    <3>4. Onward(turn[t], b) /\ b.at # "open"
      BY <1>1, <2>1, <3>3 DEF Onward, TurnState
    <3>. QED
      BY <3>1, <3>2, <3>4
  <2>2. CASE ~(t \in Mine(p) /\ turn[t].at \in {"open", "sealed"})
    <3>1. turn'[t] = turn[t]
      BY <2>2 DEF SealAllFalse
    <3>. QED
      BY <1>1, <2>2, <3>1 DEF Onward, Mine
  <2>. QED
    BY <2>1, <2>2
<1>3. turn' = [t \in Turn |-> turn'[t]]
  BY DEF SealAllFalse
<1>. QED
  BY <1>2, <1>3

\* The driver is done with its turn.
LEMMA TurnEndsStep ==
    ASSUME IInv, NEW p \in Proc, TurnEnds(p)
    PROVE  IInv'
<1>. DEFINE t == Max(Begun(p))
            ph == "idle"
            c == [ctl[p] EXCEPT !.phase = ph]
<1>1. t \in Turn /\ Owner[t] = p /\ turn[t].at # "new"
      /\ \A u \in Turn : Owner[u] = p /\ turn[u].at # "new" => u <= t
  <2>1. Begun(p) \in SUBSET Nat /\ Begun(p) # {} /\ IsFiniteSet(Begun(p))
    BY Names, NumberAssumption, FS_Subset DEF Begun, Mine, TurnEnds
  <2>. QED
    BY <2>1, MaxIs DEF Begun, Mine
<1>2. ctl' = [ctl EXCEPT ![p] = c]
      /\ UNCHANGED <<policy, issued, files, config, printing, op, pass, left, history>>
  BY DEF TurnEnds
<1>3. \E b \in TurnState : /\ turn' = [turn EXCEPT ![t] = b] /\ Onward(turn[t], b)
                           /\ b.at # "open"
  <2>0. turn[t] \in TurnState /\ turn = [turn EXCEPT ![t] = turn[t]]
    BY <1>1 DEF IInv, Published
  <2>1. CASE turn[t].at \in {"open", "sealed"}
    <3>1. PICK natural \in BOOLEAN :
             turn' = [turn EXCEPT ![t] = [Sealed(t, natural /\ ~ctl[p].suspended)
                                          EXCEPT !.natural = natural /\ turn[t].done # "no"]]
      BY <2>1 DEF TurnEnds
    <3>. DEFINE e == natural /\ ~ctl[p].suspended
                n == natural /\ turn[t].done # "no"
                f == Sealed(t, e)
                b == [f EXCEPT !.natural = n]
    <3>2. turn' = [turn EXCEPT ![t] = b]
      BY <3>1
    <3>3. e \in BOOLEAN /\ n \in BOOLEAN
      BY ProcessIs DEF CtlState
    <3>4. (e => natural) /\ (natural /\ turn[t].done # "no" => n)
      BY ProcessIs DEF CtlState
    <3>. HIDE DEF e, n
    <3>5. /\ f \in TurnState /\ f.at = IF turn[t].settled THEN "queued" ELSE "sealed"
          /\ f.done = IF turn[t].done # "no" /\ e THEN "yes" ELSE "no"
          /\ f.sess = turn[t].sess /\ f.origin = turn[t].origin /\ f.since = turn[t].since
          /\ f.settled = turn[t].settled
      BY <1>1, <3>3, SealedIs
    <3>. HIDE DEF f, t
    <3>6. b \in TurnState /\ b.natural = n /\ b.at = f.at /\ b.done = f.done /\ b.sess = f.sess
          /\ b.origin = f.origin /\ b.since = f.since /\ b.settled = f.settled
      BY <3>3, <3>5 DEF TurnState
    <3>. HIDE DEF b
    <3>7. Onward(turn[t], b) /\ b.at # "open"
      BY <2>0, <2>1, <3>4, <3>5, <3>6 DEF Onward, TurnState
    <3>. QED
      BY <3>2, <3>6, <3>7
  <2>2. CASE turn[t].at \notin {"open", "sealed"}
    BY <2>0, <2>2 DEF TurnEnds, Onward
  <2>. QED
    BY <2>1, <2>2
<1>4. PICK b \in TurnState : turn' = [turn EXCEPT ![t] = b] /\ Onward(turn[t], b) /\ b.at # "open"
  BY <1>3
<1>5. ph = "idle" /\ c = [ctl[p] EXCEPT !.phase = ph]
  OBVIOUS
<1>. HIDE DEF t, ph, c
<1>6. /\ c \in CtlState /\ c.phase = "idle" /\ c.sid = ctl[p].sid /\ c.live = ctl[p].live
      /\ c.cached = ctl[p].cached /\ c.suspended = ctl[p].suspended
      /\ c.stopped = ctl[p].stopped /\ c.again = ctl[p].again /\ c.owed = ctl[p].owed
  BY <1>5, ProcessIs DEF CtlState
<1>7. turn \in [Turn -> TurnState]
  BY DEF IInv, Published
<1>8. turn' \in [Turn -> TurnState] /\ \A u \in Turn : Onward(turn[u], turn'[u])
  BY <1>1, <1>4, <1>7 DEF Onward
<1>9. ASSUME NEW u \in Turn, turn'[u].at = "open" PROVE ctl'[Owner[u]].phase = "turn"
  <2>1. u # t /\ turn[u].at = "open"
    BY <1>1, <1>4, <1>7, <1>9
  <2>2. Owner[u] # p
    <3>1. SUFFICES ASSUME Owner[u] = p PROVE FALSE
      OBVIOUS
    <3>2. Before(u, t) /\ turn[t].at # "new"
      BY <1>1, <2>1, <3>1, Names DEF Before
    <3>. QED
      BY <1>1, <2>1, <3>2 DEF IInv, Published, Behind
  <2>. QED
    BY <1>2, <2>1, <2>2, ProcessIs, Names DEF IInv, Published
<1>10. Published' /\ Lasting /\ Standing
  BY <1>2, <1>8, <1>9, PublishedOnward DEF files
<1>11. Scalars'
  BY <1>2 DEF IInv, Scalars, files, history
<1>12. Goes(p, c, pass[p])
  <2>1. Tidy(c, pass[p], issued')
    BY <1>2, <1>6, ProcessIs DEF Tidy
  <2>2. ctl[p].phase = "turn"
    BY DEF TurnEnds
  <2>. QED
    BY <1>2, <1>6, <2>1, <2>2, ProcessIs DEF Goes
<1>. QED
  BY <1>2, <1>6, <1>10, <1>11, <1>12, ProcessIs, ControlStep DEF files, history

\* The end of a turn is on disk, or is not going to be.
LEMMA SettleStep ==
    ASSUME IInv, NEW t \in Turn, Settle(t)
    PROVE  IInv'
<1>1. /\ turn \in [Turn -> TurnState] /\ file \in [Turn -> FileState]
      /\ Sane(turn[t], file[t], issued) /\ issued \in Nat /\ left \in LeftState
  BY DEF IInv, Published, Scalars
<1>2. \E b \in TurnState :
         /\ turn' = [turn EXCEPT ![t] = b] /\ b.sess = turn[t].sess
         /\ b.origin = turn[t].origin /\ b.since = turn[t].since
         /\ b.done = turn[t].done /\ b.natural = turn[t].natural
         /\ \/ /\ b.settled /\ b.at = IF turn[t].done # "unknown" THEN "queued" ELSE turn[t].at
               /\ left' = left
            \/ /\ b.settled = turn[t].settled /\ b.at = "lost"
               /\ left' \in LeftState /\ left'.turns = left.turns
  <2>1. CASE /\ turn' = [turn EXCEPT ![t].settled = TRUE,
                                     ![t].at = IF turn[t].done # "unknown" THEN "queued" ELSE @]
             /\ UNCHANGED left
    <3>. DEFINE s == TRUE
                x == IF turn[t].done # "unknown" THEN "queued" ELSE turn[t].at
                b == [turn[t] EXCEPT !.settled = s, !.at = x]
    <3>1. turn' = [turn EXCEPT ![t] = b]
      BY <1>1, <2>1 DEF TurnState
    <3>2. s \in BOOLEAN /\ s = TRUE /\ x \in {"queued", turn[t].at}
      OBVIOUS
    <3>3. x = IF turn[t].done # "unknown" THEN "queued" ELSE turn[t].at
      OBVIOUS
    <3>. HIDE DEF s, x
    <3>4. /\ b \in TurnState /\ b.settled = s /\ b.at = x /\ b.sess = turn[t].sess
          /\ b.origin = turn[t].origin /\ b.since = turn[t].since
          /\ b.done = turn[t].done /\ b.natural = turn[t].natural
      BY <1>1, <3>2 DEF TurnState
    <3>. QED
      BY <2>1, <3>1, <3>2, <3>3, <3>4
  <2>2. CASE Event("lost") /\ turn' = [turn EXCEPT ![t].at = "lost"]
    <3>. DEFINE x == "lost"
                b == [turn[t] EXCEPT !.at = x]
    <3>1. turn' = [turn EXCEPT ![t] = b]
      BY <2>2
    <3>2. /\ b \in TurnState /\ b.settled = turn[t].settled /\ b.at = "lost"
          /\ b.sess = turn[t].sess /\ b.origin = turn[t].origin /\ b.since = turn[t].since
          /\ b.done = turn[t].done /\ b.natural = turn[t].natural
      BY <1>1 DEF TurnState
    <3>3. left' \in LeftState /\ left'.turns = left.turns
      BY <1>1, <2>2, EventIs
    <3>. QED
      BY <3>1, <3>2, <3>3
  <2>. QED
    BY <2>1, <2>2 DEF Settle
<1>3. PICK b \in TurnState :
         /\ turn' = [turn EXCEPT ![t] = b] /\ b.sess = turn[t].sess
         /\ b.origin = turn[t].origin /\ b.since = turn[t].since
         /\ b.done = turn[t].done /\ b.natural = turn[t].natural
         /\ \/ /\ b.settled /\ b.at = IF turn[t].done # "unknown" THEN "queued" ELSE turn[t].at
               /\ left' = left
            \/ /\ b.settled = turn[t].settled /\ b.at = "lost"
               /\ left' \in LeftState /\ left'.turns = left.turns
  BY <1>2
<1>4. /\ turn[t].at \in {"open", "sealed"} /\ ~turn[t].settled
      /\ \A u \in Mine(Owner[t]) : u < t => turn[u].settled \/ turn[u].at = "lost"
      /\ UNCHANGED <<policy, issued, files, config, printing, op, ctl, pass, history>>
  BY DEF Settle
<1>5. Published'
  <2>1. Sane(b, file[t], issued)
    BY <1>1, <1>3, <1>4 DEF Sane, Early
  <2>2. ASSUME NEW u \in Turn, Before(u, t)
        PROVE  Behind(b, file[t], turn[u], u \in left.turns)
    <3>1. Behind(turn[t], file[t], turn[u], u \in left.turns)
      BY <2>2 DEF IInv, Published
    <3>2. turn[u].settled \/ turn[u].at = "lost"
      BY <1>4, <2>2 DEF Before, Mine
    <3>. QED
      BY <1>4, <3>1, <3>2 DEF Behind
  <2>3. ASSUME NEW w \in Turn, Before(t, w)
        PROVE  Behind(turn[w], file[w], b, t \in left.turns)
    <3>1. Behind(turn[w], file[w], turn[t], t \in left.turns)
      BY <2>3 DEF IInv, Published
    <3>2. b.at = "open" => turn[t].at = "open"
      BY <1>3
    <3>. QED
      BY <1>3, <1>4, <3>1, <3>2 DEF Behind
  <2>4. file' = [file EXCEPT ![t] = file[t]] /\ left'.turns = left.turns /\ issued' = issued
    BY <1>1, <1>3, <1>4 DEF files
  <2>5. \A u \in Turn : turn[u].at = "open" => ctl'[Owner[u]].phase = "turn"
    BY <1>4 DEF IInv, Published
  <2>6. b.at = "open" => turn[t].at = "open"
    BY <1>3
  <2>. QED
    BY <1>1, <1>3, <2>1, <2>2, <2>3, <2>4, <2>5, <2>6, PublishedStep
<1>6. Lasting /\ Standing
  BY <1>1, <1>3, <1>4 DEF Lasting, Standing, Early, files
<1>7. Scalars'
  BY <1>1, <1>3, <1>4 DEF IInv, Scalars, files, history
<1>8. Driven'
  BY <1>4, <1>6, DrivenSame
<1>9. Locked'
  <2>1. op.kind \notin {"free", "dead"} => op.by \in Proc
    BY DEF IInv, Locked, Holding
  <2>2. op.kind \in {"send", "discard", "clear"} => ctl'[op.by].phase = "command"
    BY <1>4 DEF IInv, Locked, Holding
  <2>. QED
    BY <1>4, <1>5, <1>6, <2>1, <2>2, LockKept DEF files, history
<1>. QED
  BY <1>5, <1>7, <1>8, <1>9 DEF IInv

\* cancel().
LEMMA CancelStep ==
    ASSUME IInv, NEW p \in Proc, Cancel(p)
    PROVE  IInv'
<1>. DEFINE n == FALSE
            c == [ctl[p] EXCEPT !.live = n]
<1>1. /\ ctl' = [ctl EXCEPT ![p] = c] /\ turn' = SealAllFalse(p)
      /\ UNCHANGED <<policy, issued, files, config, printing, op, pass, history>>
  BY DEF Cancel
<1>2. n \in BOOLEAN /\ ~n
  OBVIOUS
<1>. HIDE DEF n
<1>3. /\ c \in CtlState /\ c.phase = ctl[p].phase /\ c.sid = ctl[p].sid /\ ~c.live
      /\ c.cached = ctl[p].cached /\ c.again = ctl[p].again /\ c.owed = ctl[p].owed
  BY <1>2, ProcessIs DEF CtlState
<1>. HIDE DEF c
<1>4. left' \in LeftState /\ left'.turns = left.turns
  BY EventIs DEF Cancel, IInv, Scalars
<1>5. \A t \in Turn : turn'[t].at = "open" => ctl'[Owner[t]].phase = "turn"
  BY <1>1, SealAllIs, ProcessIs, Names DEF IInv, Published
<1>6. Published' /\ Lasting /\ Standing
  BY <1>1, <1>4, <1>5, SealAllIs, PublishedOnward DEF files
<1>7. Scalars'
  BY <1>1, <1>4 DEF IInv, Scalars, files, history
<1>8. Goes(p, c, pass[p])
  <2>1. Tidy(c, pass[p], issued')
    BY <1>1, <1>3, ProcessIs DEF Tidy
  <2>. QED
    BY <1>1, <1>3, <2>1, ProcessIs DEF Goes
<1>. QED
  BY <1>1, <1>3, <1>6, <1>7, <1>8, ProcessIs, ControlStep DEF files, history

\* stopAutoForSuccessor() begins.
LEMMA LeaveStep ==
    ASSUME IInv, NEW p \in Proc, Leave(p)
    PROVE  IInv'
<1>. DEFINE n == FALSE
            y == TRUE
            x == "stopping"
            c == [ctl[p] EXCEPT !.suspended = y, !.live = n, !.phase = x]
<1>1. /\ ctl' = [ctl EXCEPT ![p] = c] /\ turn' = SealAllFalse(p)
      /\ UNCHANGED <<policy, issued, files, config, printing, op, pass, history>>
  BY ProcessIs DEF Leave
<1>2. n \in BOOLEAN /\ ~n /\ y \in BOOLEAN /\ x = "stopping"
  OBVIOUS
<1>. HIDE DEF n, y, x
<1>3. /\ c \in CtlState /\ c.phase = "stopping" /\ c.sid = ctl[p].sid /\ ~c.live
      /\ c.cached = ctl[p].cached /\ c.again = ctl[p].again /\ c.owed = ctl[p].owed
  BY <1>2, ProcessIs DEF CtlState
<1>. HIDE DEF c
<1>4. left' \in LeftState /\ left'.turns = left.turns
  BY EventIs DEF Leave, IInv, Scalars
<1>5. \A t \in Turn : turn'[t].at = "open" => ctl'[Owner[t]].phase = "turn"
  BY <1>1, SealAllIs, ProcessIs, Names DEF IInv, Published
<1>6. Published' /\ Lasting /\ Standing
  BY <1>1, <1>4, <1>5, SealAllIs, PublishedOnward DEF files
<1>7. Scalars'
  BY <1>1, <1>4 DEF IInv, Scalars, files, history
<1>8. Goes(p, c, pass[p])
  <2>1. Tidy(c, pass[p], issued')
    BY <1>1, <1>3, ProcessIs DEF Tidy
  <2>2. ctl[p].phase = "idle"
    BY DEF Leave
  <2>. QED
    BY <1>1, <1>3, <2>1, <2>2, ProcessIs DEF Goes
<1>. QED
  BY <1>1, <1>3, <1>6, <1>7, <1>8, ProcessIs, ControlStep DEF files, history

\* The successor starts, or not, and its predecessor is closed.
LEMMA ControllerIs ==
    ASSUME NEW s \in Nat, NEW e \in Nat
    PROVE  /\ Controller(s, e) \in CtlState
           /\ LET c == Controller(s, e) IN
                /\ c.phase = "idle" /\ c.sess = s /\ c.cached = e
                /\ c.sid = 1 /\ c.again = 0 /\ c.owed = 0
<1>. DEFINE y == TRUE
            n == FALSE
            z == 0
            i == 1
            x == "idle"
            c == [phase |-> x, sess |-> s, cached |-> e, sid |-> i, live |-> y,
                  suspended |-> n, stopped |-> n, again |-> z, owed |-> z]
<1>1. Controller(s, e) = c /\ z = 0 /\ i = 1 /\ x = "idle"
  BY DEF Controller
<1>2. y \in BOOLEAN /\ n \in BOOLEAN /\ z \in Nat /\ i \in Nat
  OBVIOUS
<1>3. c \in CtlState /\ c.phase = x /\ c.sess = s /\ c.cached = e /\ c.sid = i
      /\ c.again = z /\ c.owed = z
  <2>. HIDE DEF y, n, z, i
  <2>. QED
    BY <1>2 DEF CtlState
<1>. QED
  BY <1>1, <1>3

LEMMA SuccessorStep ==
    ASSUME IInv, NEW p \in Proc, Successor(p)
    PROVE  IInv'
<1>1. /\ ctl[p].phase = "leaving"
      /\ UNCHANGED <<policy, issued, files, config, printing, op, pass, left, history>>
  BY DEF Successor
<1>2. Scalars'
  BY <1>1 DEF IInv, Scalars, files, history
<1>3. \A t \in Turn : turn[t].at = "open" => Owner[t] # p
  BY <1>1 DEF IInv, Published
<1>4. CASE /\ ctl' = [ctl EXCEPT ![p] = Controller(@.sess + 1, policy)]
           /\ turn' = [t \in Turn |-> IF t \in Mine(p) /\ turn[t].at = "sealed"
                                      THEN [turn[t] EXCEPT !.at = "lost"] ELSE turn[t]]
  <2>1. PICK s \in Nat : s = ctl[p].sess + 1
    BY ProcessIs DEF CtlState
  <2>2. PICK c \in CtlState : c = Controller(s, policy)
    BY ControllerIs, ProcessIs
  <2>3. c.phase = "idle" /\ c.cached = policy /\ c.sid = 1 /\ c.again = 0 /\ c.owed = 0
    BY <2>2, ControllerIs, ProcessIs
  <2>4. turn' \in [Turn -> TurnState] /\ \A t \in Turn : Onward(turn[t], turn'[t])
    <3>1. turn \in [Turn -> TurnState] /\ \A t \in Turn : Sane(turn[t], file[t], issued)
      BY DEF IInv, Published
    <3>2. ASSUME NEW t \in Turn PROVE turn'[t] \in TurnState /\ Onward(turn[t], turn'[t])
      <4>1. CASE t \in Mine(p) /\ turn[t].at = "sealed"
        <5>. DEFINE x == "lost"
                    b == [turn[t] EXCEPT !.at = x]
        <5>1. turn'[t] = b
          BY <1>4, <4>1
        <5>2. b \in TurnState /\ b.at = "lost" /\ b.sess = turn[t].sess /\ b.done = turn[t].done
              /\ b.origin = turn[t].origin /\ b.since = turn[t].since
              /\ b.settled = turn[t].settled /\ b.natural = turn[t].natural
          BY <3>1 DEF TurnState
        <5>3. Onward(turn[t], b)
          BY <3>1, <4>1, <5>2 DEF Onward, Sane
        <5>. QED
          BY <5>1, <5>2, <5>3
      <4>2. CASE ~(t \in Mine(p) /\ turn[t].at = "sealed")
        BY <1>4, <3>1, <4>2 DEF Onward
      <4>. QED
        BY <4>1, <4>2
    <3>. QED
      BY <1>4, <3>2
  <2>5. \A t \in Turn : turn'[t].at = "open" => turn[t].at = "open"
    <3>1. turn \in [Turn -> TurnState]
      BY DEF IInv, Published
    <3>. QED
      BY <2>4, <3>1 DEF Onward
  <2>6. \A t \in Turn : turn'[t].at = "open" => ctl'[Owner[t]].phase = "turn"
    BY <1>3, <1>4, <2>5, ProcessIs, Names DEF IInv, Published
  <2>7. Published' /\ Lasting /\ Standing
    BY <1>1, <2>4, <2>6, PublishedOnward DEF files
  <2>8. Goes(p, c, pass[p])
    <3>1. Tidy(c, pass[p], issued')
      BY <1>1, <2>3, ProcessIs DEF Tidy
    <3>2. ctl' = [ctl EXCEPT ![p] = c]
      BY <1>4, <2>1, <2>2
    <3>. QED
      BY <1>1, <3>1, <3>2, ProcessIs DEF Goes
  <2>. QED
    BY <1>1, <1>2, <2>7, <2>8, ProcessIs, ControlStep DEF files, history
<1>5. CASE ctl' = [ctl EXCEPT ![p].phase = "idle"] /\ UNCHANGED turn
  <2>. DEFINE x == "idle"
              c == [ctl[p] EXCEPT !.phase = x]
  <2>1. ctl' = [ctl EXCEPT ![p] = c]
    BY <1>5
  <2>2. /\ c \in CtlState /\ c.phase = "idle" /\ c.sid = ctl[p].sid /\ c.live = ctl[p].live
        /\ c.cached = ctl[p].cached /\ c.suspended = ctl[p].suspended
        /\ c.stopped = ctl[p].stopped /\ c.again = ctl[p].again /\ c.owed = ctl[p].owed
    BY ProcessIs DEF CtlState
  <2>. HIDE DEF c, x
  <2>3. Tidy(c, pass[p], issued')
    BY <1>1, <2>2, ProcessIs DEF Tidy
  <2>4. Goes(p, c, pass[p])
    BY <1>1, <2>1, <2>3, ProcessIs DEF Goes
  <2>5. Aside
    BY <1>1, <1>5, ProcessIs DEF Aside, files, history
  <2>. QED
    BY <1>1, <1>2, <2>2, <2>4, <2>5, ProcessIs, ProcessStep
<1>. QED
  BY <1>4, <1>5 DEF Successor

\* /cloud-memory auto and manual: the signal dies.
LEMMA AskModeStep ==
    ASSUME IInv, NEW p \in Proc, NEW mode \in {"auto", "manual"}, AskMode(p, mode)
    PROVE  IInv'
<1>. DEFINE n == FALSE
            c == [ctl[p] EXCEPT !.live = n, !.phase = mode]
<1>1. /\ ctl' = [ctl EXCEPT ![p] = c] /\ ctl[p].phase = "idle"
      /\ UNCHANGED <<policy, issued, files, config, printing, op, turn, pass, history>>
  BY ProcessIs DEF AskMode
<1>2. n \in BOOLEAN /\ ~n
  OBVIOUS
<1>. HIDE DEF n
<1>3. /\ c \in CtlState /\ c.phase = mode /\ c.sid = ctl[p].sid /\ ~c.live
      /\ c.cached = ctl[p].cached /\ c.again = ctl[p].again /\ c.owed = ctl[p].owed
  BY <1>2, ProcessIs DEF CtlState
<1>. HIDE DEF c
<1>4. left' \in LeftState /\ left'.turns = left.turns
  BY EventIs DEF AskMode, IInv, Scalars
<1>5. Scalars' /\ Aside /\ issued' = issued
  BY <1>1, <1>4, ProcessIs DEF IInv, Scalars, Aside, files, history
<1>6. Tidy(c, pass[p], issued')
  BY <1>3, <1>5, ProcessIs DEF Tidy
<1>7. Goes(p, c, pass[p])
  BY <1>1, <1>6, ProcessIs DEF Goes
<1>. QED
  BY <1>1, <1>3, <1>5, <1>7, ProcessIs, ProcessStep

\* The consent is written, unless somebody holds the config lock.
LEMMA WriteModeStep ==
    ASSUME IInv, NEW p \in Proc, WriteMode(p)
    PROVE  IInv'
<1>. DEFINE epoch == IF ctl[p].phase = "auto" THEN issued + 1 ELSE 0
            x == "idle"
            y == TRUE
            n == FALSE
            i == ctl[p].sid + 1
            s == ctl[p].suspended \/ <<p, ctl[p].sess>> \in stops
            d == [ctl[p] EXCEPT !.phase = x]
            c == [ctl[p] EXCEPT !.phase = x, !.cached = epoch, !.sid = i, !.live = y,
                                !.stopped = n, !.suspended = s]
<1>1. /\ ctl[p].phase \in {"auto", "manual"}
      /\ UNCHANGED <<files, config, printing, op, turn, pass, left, history>>
      /\ \/ ctl' = [ctl EXCEPT ![p] = d] /\ UNCHANGED <<policy, issued>>
         \/ /\ config = "free" /\ policy' = epoch
            /\ issued' = IF ctl[p].phase = "auto" THEN epoch ELSE issued
            /\ ctl' = [ctl EXCEPT ![p] = c]
  BY Zenon DEF WriteMode
<1>2. /\ epoch \in Nat /\ s \in BOOLEAN /\ y \in BOOLEAN /\ n \in BOOLEAN /\ i \in Nat
      /\ i = ctl[p].sid + 1 /\ x = "idle"
      /\ epoch = IF ctl[p].phase = "auto" THEN issued + 1 ELSE 0
  BY ProcessIs DEF CtlState
<1>3. /\ d = [ctl[p] EXCEPT !.phase = x]
      /\ c = [ctl[p] EXCEPT !.phase = x, !.cached = epoch, !.sid = i, !.live = y,
                            !.stopped = n, !.suspended = s]
  OBVIOUS
<1>. HIDE DEF epoch, x, y, n, i, s, d, c
<1>4. /\ d \in CtlState /\ d.phase = "idle" /\ d.sid = ctl[p].sid /\ d.live = ctl[p].live
      /\ d.cached = ctl[p].cached /\ d.suspended = ctl[p].suspended
      /\ d.stopped = ctl[p].stopped /\ d.again = ctl[p].again /\ d.owed = ctl[p].owed
  BY <1>2, <1>3, ProcessIs DEF CtlState
<1>5. /\ c \in CtlState /\ c.phase = "idle" /\ c.sid = i /\ c.cached = epoch
      /\ c.again = ctl[p].again /\ c.owed = ctl[p].owed
  <2>1. x \in {"idle"} /\ ctl[p] \in CtlState
    BY <1>2, ProcessIs
  <2>2. c = [ctl[p] EXCEPT !.phase = x, !.cached = epoch, !.sid = i, !.live = y,
                           !.stopped = n, !.suspended = s]
    BY <1>3
  <2>3. epoch \in Nat /\ s \in BOOLEAN /\ y \in BOOLEAN /\ n \in BOOLEAN /\ i \in Nat
    BY <1>2
  <2>4. c \in CtlState
    BY <2>1, <2>2, <2>3 DEF CtlState
  <2>5. c.phase = x /\ c.sid = i /\ c.cached = epoch
        /\ c.again = ctl[p].again /\ c.owed = ctl[p].owed
    BY <2>1, <2>2 DEF CtlState
  <2>. QED
    BY <1>2, <2>4, <2>5
<1>6. CASE ctl' = [ctl EXCEPT ![p] = d] /\ UNCHANGED <<policy, issued>>
  <2>1. Scalars' /\ Aside /\ issued' = issued
    BY <1>1, <1>6, ProcessIs DEF IInv, Scalars, Aside, files, history
  <2>2. Tidy(d, pass[p], issued')
    BY <1>4, <2>1, ProcessIs DEF Tidy
  <2>3. Goes(p, d, pass[p])
    BY <1>1, <1>6, <2>2, ProcessIs DEF Goes
  <2>. QED
    BY <1>1, <1>4, <2>1, <2>3, ProcessIs, ProcessStep
<1>7. CASE /\ config = "free" /\ policy' = epoch
           /\ issued' = IF ctl[p].phase = "auto" THEN epoch ELSE issued
           /\ ctl' = [ctl EXCEPT ![p] = c]
  <2>1. issued' \in Nat /\ issued <= issued' /\ epoch <= issued'
    BY <1>2, <1>7, ProcessIs
  <2>2. Scalars'
    BY <1>1, <1>2, <1>7, <2>1 DEF IInv, Scalars, files, history
  <2>3. op.kind = "auto" /\ op.at = "fire" => config = "held"
    BY DEF IInv, Locked, Armed
  <2>4. Aside
    BY <1>1, <1>7, <2>1, <2>3 DEF Aside, files, history
  <2>5. Tidy(c, pass[p], issued')
    BY <1>2, <1>5, <2>1, ProcessIs DEF Tidy, CtlState, PassState
  <2>6. Goes(p, c, pass[p])
    BY <1>1, <1>7, <2>5, ProcessIs DEF Goes
  <2>. QED
    BY <1>1, <1>5, <2>2, <2>4, <2>6, ProcessIs, ProcessStep
<1>. QED
  BY <1>1, <1>6, <1>7

\* The session stop is written, unless somebody holds the config lock.
LEMMA WriteStopStep ==
    ASSUME IInv, NEW p \in Proc, WriteStop(p)
    PROVE  IInv'
<1>1. PICK x \in {"idle", "leaving"} :
         /\ ctl[p].phase = "stopping" /\ ctl' = [ctl EXCEPT ![p].phase = x]
         /\ \/ stops' = stops
            \/ config = "free" /\ stops' = stops \cup {<<p, ctl[p].sess>>}
         /\ UNCHANGED <<policy, issued, halt, used, file, config, printing, op, turn, pass,
                        left, history>>
  <2>1. CASE config # "free"
    BY <2>1, "idle" \in {"idle", "leaving"} DEF WriteStop, files
  <2>2. CASE config = "free"
    BY <2>2, "leaving" \in {"idle", "leaving"} DEF WriteStop, files
  <2>. QED
    BY <2>1, <2>2
<1>. DEFINE c == [ctl[p] EXCEPT !.phase = x]
<1>2. ctl' = [ctl EXCEPT ![p] = c]
  BY <1>1
<1>3. /\ c \in CtlState /\ c.phase = x /\ c.sid = ctl[p].sid /\ c.live = ctl[p].live
      /\ c.cached = ctl[p].cached /\ c.suspended = ctl[p].suspended
      /\ c.stopped = ctl[p].stopped /\ c.again = ctl[p].again /\ c.owed = ctl[p].owed
  BY ProcessIs DEF CtlState
<1>. HIDE DEF c
<1>4. op.kind = "auto" /\ op.at = "fire" => config = "held"
  BY DEF IInv, Locked, Armed
<1>5. <<p, ctl[p].sess>> \in Proc \X Nat
  BY ProcessIs DEF CtlState
<1>6. Scalars'
  BY <1>1, <1>5 DEF IInv, Scalars, history
<1>7. Aside /\ issued' = issued
  BY <1>1, <1>4, ProcessIs DEF Aside, history
<1>8. Tidy(c, pass[p], issued')
  BY <1>3, <1>7, ProcessIs DEF Tidy
<1>9. Goes(p, c, pass[p])
  BY <1>1, <1>2, <1>8, ProcessIs DEF Goes
<1>. QED
  BY <1>1, <1>3, <1>6, <1>7, <1>9, ProcessIs, ProcessStep

\* A process starts again.
LEMMA RestartStep ==
    ASSUME IInv, NEW p \in Proc, Restart(p)
    PROVE  IInv'
<1>1. PICK s \in Nat : s = ctl[p].sess
  BY ProcessIs DEF CtlState
<1>2. PICK c \in CtlState : c = Controller(s, policy)
  BY ControllerIs, ProcessIs
<1>3. c.phase = "idle" /\ c.cached = policy /\ c.sid = 1 /\ c.again = 0 /\ c.owed = 0
  BY <1>2, ControllerIs, ProcessIs
<1>4. ctl' = [ctl EXCEPT ![p] = c] /\ ctl[p].phase = "down"
  BY <1>1, <1>2 DEF Restart
<1>5. Scalars' /\ Aside /\ issued' = issued /\ pass' = pass
  BY ProcessIs DEF IInv, Scalars, Aside, Restart, files, history
<1>6. Tidy(c, pass[p], issued')
  BY <1>3, <1>5, ProcessIs DEF Tidy
<1>7. Goes(p, c, pass[p])
  BY <1>4, <1>5, <1>6, ProcessIs DEF Goes
<1>. QED
  BY <1>4, <1>5, <1>7, ProcessIs, ProcessStep

\* The user removes the locks of the dead.
LEMMA RecoverStep ==
    ASSUME IInv, Recover
    PROVE  IInv'
<1>1. Published' /\ Lasting /\ Standing
  <2>1. \A t \in Turn : turn[t].at = "open" => ctl'[Owner[t]].phase = "turn"
    BY DEF IInv, Published, Recover
  <2>. QED
    BY <2>1, PublishedSame DEF Recover, files, Standing, IInv, Scalars
<1>2. Driven'
  BY <1>1, DrivenSame DEF Recover
<1>3. Scalars'
  BY DEF IInv, Scalars, Recover, files, history
<1>4. Locked'
  <2>1. CASE op = Dead
    BY <1>1, <2>1, StandingCounts, LockFree DEF Recover, files, history
  <2>2. CASE op # Dead
    <3>1. op.kind = "auto" /\ op.at = "fire" => config = "held"
      BY DEF IInv, Locked, Armed
    <3>2. op.kind \in {"send", "discard", "clear"} => ctl'[op.by].phase = "command"
      BY DEF IInv, Locked, Holding, Recover
    <3>. QED
      BY <1>1, <2>2, <3>1, <3>2, LockKept DEF Recover, files, history
  <2>. QED
    BY <2>1, <2>2
<1>. QED
  BY <1>1, <1>2, <1>3, <1>4 DEF IInv

\* A crash.
LEMMA CrashStep ==
    ASSUME IInv, NEW p \in Proc, Crash(p)
    PROVE  IInv'
<1>1. PICK s \in Nat : s = ctl[p].sess
  BY ProcessIs DEF CtlState
<1>. DEFINE z == 0
            d == Controller(s, z)
            x == "down"
            n == FALSE
            c == [d EXCEPT !.phase = x, !.live = n]
<1>2. /\ ctl' = [ctl EXCEPT ![p] = c] /\ pass' = [pass EXCEPT ![p] = Off]
      /\ turn' = [t \in Turn |-> IF t \in Mine(p) /\ turn[t].at \notin {"new", "done"}
                                 THEN [turn[t] EXCEPT !.at = "lost"] ELSE turn[t]]
      /\ op' = IF op.by = p THEN Dead ELSE op
      /\ config' = IF Sending(p, "auto", "fire") THEN "dead" ELSE config
      /\ printing' = IF printing = p THEN "dead" ELSE printing
      /\ UNCHANGED <<policy, issued, files, history>>
  BY <1>1 DEF Crash
<1>3. d \in CtlState /\ d.cached = 0 /\ d.sid = 1 /\ d.again = 0 /\ d.owed = 0
  BY ControllerIs, z \in Nat
<1>4. n \in BOOLEAN /\ x = "down"
  OBVIOUS
<1>. HIDE DEF d, z, x, n
<1>5. c \in CtlState /\ c.phase = "down" /\ c.cached = 0 /\ c.sid = 1 /\ c.again = 0 /\ c.owed = 0
  BY <1>3, <1>4 DEF CtlState
<1>. HIDE DEF c
<1>6. left' \in LeftState /\ left'.turns = left.turns
  BY EventIs DEF Crash, IInv, Scalars
<1>7. Scalars'
  BY <1>2, <1>6 DEF IInv, Scalars, files, history
<1>8. /\ turn' \in [Turn -> TurnState]
      /\ \A t \in Turn : /\ Onward(turn[t], turn'[t])
                         /\ turn'[t].at = "open" => Owner[t] # p /\ turn[t].at = "open"
  <2>1. turn \in [Turn -> TurnState] /\ \A t \in Turn : Sane(turn[t], file[t], issued)
    BY DEF IInv, Published
  <2>2. ASSUME NEW t \in Turn
        PROVE  /\ turn'[t] \in TurnState /\ Onward(turn[t], turn'[t])
               /\ turn'[t].at = "open" => Owner[t] # p /\ turn[t].at = "open"
    <3>1. CASE t \in Mine(p) /\ turn[t].at \notin {"new", "done"}
      <4>. DEFINE y == "lost"
                  b == [turn[t] EXCEPT !.at = y]
      <4>1. turn'[t] = b
        BY <1>2, <3>1
      <4>2. b \in TurnState /\ b.at = "lost" /\ b.sess = turn[t].sess /\ b.done = turn[t].done
            /\ b.origin = turn[t].origin /\ b.since = turn[t].since
            /\ b.settled = turn[t].settled /\ b.natural = turn[t].natural
        BY <2>1 DEF TurnState
      <4>3. Onward(turn[t], b)
        BY <2>1, <3>1, <4>2 DEF Onward, Sane
      <4>. QED
        BY <4>1, <4>2, <4>3
    <3>2. CASE ~(t \in Mine(p) /\ turn[t].at \notin {"new", "done"})
      BY <1>2, <2>1, <3>2 DEF Onward, Mine
    <3>. QED
      BY <3>1, <3>2
  <2>. QED
    BY <1>2, <2>2
<1>9. \A q \in Proc \ {p} : ctl'[q] = ctl[q] /\ pass'[q] = pass[q]
  BY <1>2, ProcessIs
<1>10. Published' /\ Lasting /\ Standing
  <2>1. \A t \in Turn : turn'[t].at = "open" => ctl'[Owner[t]].phase = "turn"
    BY <1>8, <1>9, Names DEF IInv, Published
  <2>. QED
    BY <1>2, <1>6, <1>8, <2>1, PublishedOnward DEF files
<1>11. Driven'
  <2>1. Tidy(c, Off, issued')
    BY <1>2, <1>5, OffIs, ProcessIs, Names DEF Tidy
  <2>2. issued' \in Nat /\ issued <= issued'
    BY <1>2, ProcessIs
  <2>. QED
    BY <1>2, <1>5, <1>10, <2>1, <2>2, OffIs, DrivenStep
<1>12. Locked'
  <2>1. CASE op.by = p
    BY <1>2, <1>10, <2>1, StandingCounts, LockFree DEF files, history
  <2>2. CASE op.by # p
    <3>1. op' = op /\ config' = config
      BY <1>2, <2>2 DEF Sending
    <3>2. op.kind \notin {"free", "dead"} => op.by \in Proc \ {p}
      BY <2>2 DEF IInv, Locked, Holding
    <3>3. op.kind \in {"send", "discard", "clear"} => ctl'[op.by].phase = "command"
      BY <1>9, <3>2 DEF IInv, Locked, Holding
    <3>. QED
      BY <1>2, <1>9, <1>10, <3>1, <3>2, <3>3, LockKept DEF files, history
  <2>. QED
    BY <2>1, <2>2
<1>. QED
  BY <1>7, <1>10, <1>11, <1>12 DEF IInv

\* kickAuto().
LEMMA KickIs ==
    ASSUME IInv, NEW p \in Proc, NEW sid \in Nat, Kick(p, sid), issued' = issued
    PROVE  \E c \in CtlState, r \in PassState : Goes(p, c, r) /\ c.phase = ctl[p].phase
<1>1. CASE ~Live(p, sid) \/ ~MayPass(p)
  <2>1. Goes(p, ctl[p], pass[p])
    BY <1>1, ProcessIs DEF Kick, Goes
  <2>. QED
    BY <2>1, ProcessIs
<1>2. CASE Live(p, sid) /\ MayPass(p) /\ pass[p].at = "off"
  <2>. DEFINE x == "begin"
              r == [Off EXCEPT !.at = x, !.sid = sid]
              c == [ctl[p] EXCEPT !.owed = sid]
  <2>1. ctl' = [ctl EXCEPT ![p] = c] /\ pass' = [pass EXCEPT ![p] = r]
    BY <1>2 DEF Kick
  <2>2. x = "begin"
    OBVIOUS
  <2>. HIDE DEF x
  <2>3. r \in PassState /\ r.at = "begin" /\ r.sid = sid /\ r.epoch = 0 /\ r.todo = {}
        /\ r.cur = None /\ r.retry = 0
    BY <2>2, OffIs DEF PassState
  <2>4. /\ c \in CtlState /\ c.owed = sid /\ c.phase = ctl[p].phase /\ c.sid = ctl[p].sid
        /\ c.cached = ctl[p].cached /\ c.again = ctl[p].again
    BY ProcessIs DEF CtlState
  <2>. HIDE DEF c, r
  <2>5. Tidy(c, r, issued')
    BY <1>2, <2>3, <2>4, ProcessIs, Names DEF Tidy, Live
  <2>6. Goes(p, c, r)
    BY <1>2, <2>1, <2>3, <2>4, <2>5 DEF Goes
  <2>. QED
    BY <2>3, <2>4, <2>6
<1>3. CASE Live(p, sid) /\ MayPass(p) /\ pass[p].at # "off"
  <2>. DEFINE c == [ctl[p] EXCEPT !.owed = sid, !.again = sid]
  <2>1. ctl' = [ctl EXCEPT ![p] = c] /\ pass' = [pass EXCEPT ![p] = pass[p]]
    <3>1. ctl' = [ctl EXCEPT ![p].owed = sid, ![p].again = sid] /\ pass' = pass
      BY <1>3 DEF Kick
    <3>. QED
      BY <3>1, ProcessIs
  <2>2. /\ c \in CtlState /\ c.owed = sid /\ c.again = sid /\ c.phase = ctl[p].phase
        /\ c.sid = ctl[p].sid /\ c.cached = ctl[p].cached
    BY ProcessIs DEF CtlState
  <2>. HIDE DEF c
  <2>3. Tidy(c, pass[p], issued')
    BY <1>3, <2>2, ProcessIs DEF Tidy, Live
  <2>4. Goes(p, c, pass[p])
    BY <2>1, <2>2, <2>3, ProcessIs DEF Goes
  <2>. QED
    BY <2>2, <2>4, ProcessIs
<1>. QED
  BY <1>1, <1>2, <1>3

\* The body of a turn is published, or lost.
LEMMA PublishBodyStep ==
    ASSUME IInv, NEW t \in Turn, PublishBody(t)
    PROVE  IInv'
<1>. DEFINE p == Owner[t]
<1>1. /\ turn[t].at = "queued"
      /\ \A u \in Turn : Before(u, t) => turn[u].at \notin {"queued", "body"}
      /\ UNCHANGED <<policy, issued, stops, halt, used, config, op, left, history>>
  BY DEF PublishBody, Before, Mine
<1>2. /\ turn \in [Turn -> TurnState] /\ file \in [Turn -> FileState] /\ p \in Proc
      /\ Sane(turn[t], file[t], issued) /\ turn[t].sid \in Nat
  BY Names DEF IInv, Published, TurnState
<1>3. PICK x \in {"lost", "done", "body"}, c \in CtlState, r \in PassState :
         /\ turn' = [turn EXCEPT ![t].at = x]
         /\ \/ x = "lost" /\ file' = file
            \/ x # "lost" /\ file' = [file EXCEPT ![t].body = "present"]
         /\ printing' \in {printing, p}
         /\ Goes(p, c, r) /\ c.phase = ctl[p].phase
  <2>0. issued' = issued
    BY <1>1
  <2>1. CASE /\ turn' = [turn EXCEPT ![t].at = "lost"]
             /\ Kick(p, turn[t].sid) /\ UNCHANGED <<file, printing>>
    BY <1>2, <2>0, <2>1, KickIs
  <2>2. CASE /\ file' = [file EXCEPT ![t].body = "present"]
             /\ turn' = [turn EXCEPT ![t].at = "done"]
             /\ Kick(p, turn[t].sid) /\ UNCHANGED printing
    BY <1>2, <2>0, <2>2, KickIs
  <2>3. CASE /\ file' = [file EXCEPT ![t].body = "present"]
             /\ turn' = [turn EXCEPT ![t].at = "body"]
             /\ printing' = p /\ UNCHANGED <<ctl, pass>>
    <3>1. Goes(p, ctl[p], pass[p])
      BY <1>2, <2>0, <2>3, ProcessIs DEF Goes
    <3>. QED
      BY <1>2, <2>3, <3>1, ProcessIs
  <2>. QED
    BY <2>1, <2>2, <2>3 DEF PublishBody
<1>. DEFINE a == [turn[t] EXCEPT !.at = x]
            y == IF x = "lost" THEN file[t].body ELSE "present"
            f == [file[t] EXCEPT !.body = y]
<1>4. turn' = [turn EXCEPT ![t] = a] /\ file' = [file EXCEPT ![t] = f]
  BY <1>2, <1>3 DEF FileState
<1>5. /\ a \in TurnState /\ a.at = x /\ a.settled = turn[t].settled /\ a.done = turn[t].done
      /\ a.natural = turn[t].natural /\ a.origin = turn[t].origin /\ a.since = turn[t].since
  BY <1>2 DEF TurnState
<1>6. y = IF x = "lost" THEN "none" ELSE "present"
  BY <1>1, <1>2 DEF Sane, Early
<1>. HIDE DEF y, a
<1>7. /\ f \in FileState /\ f.body = y /\ f.proof = file[t].proof /\ f.tries = file[t].tries
      /\ f.ack = file[t].ack /\ f.receipt = file[t].receipt
  BY <1>2, <1>6 DEF FileState
<1>. HIDE DEF f
<1>8. /\ ctl'[p].phase = ctl[p].phase
      /\ \A q \in Proc \ {p} : ctl'[q] = ctl[q] /\ pass'[q] = pass[q]
  BY <1>2, <1>3, ProcessIs DEF Goes
<1>9. Published'
  <2>1. Sane(a, f, issued)
    BY <1>1, <1>2, <1>5, <1>6, <1>7 DEF Sane, Early
  <2>2. ASSUME NEW u \in Turn, Before(u, t)
        PROVE  Behind(a, f, turn[u], u \in left.turns)
    <3>1. Behind(turn[t], file[t], turn[u], u \in left.turns) /\ Sane(turn[u], file[u], issued)
          /\ turn[u] \in TurnState
      BY <2>2 DEF IInv, Published
    <3>2. turn[u].at \in {"done", "lost"}
      BY <1>1, <1>2, <2>2, <3>1 DEF Behind, Sane, TurnState
    <3>. QED
      BY <1>5, <1>1, <3>1, <3>2 DEF Behind
  <2>3. ASSUME NEW w \in Turn, Before(t, w)
        PROVE  Behind(turn[w], file[w], a, t \in left.turns)
    <3>1. Behind(turn[w], file[w], turn[t], t \in left.turns)
      BY <2>3 DEF IInv, Published
    <3>. QED
      BY <1>1, <1>2, <1>5, <3>1 DEF Behind, Sane
  <2>4. \A u \in Turn : turn[u].at = "open" => ctl'[Owner[u]].phase = "turn"
    BY <1>8, Names DEF IInv, Published
  <2>. QED
    BY <1>1, <1>4, <1>5, <1>7, <2>1, <2>2, <2>3, <2>4, PublishedStep
<1>10. Lasting /\ Standing
  BY <1>1, <1>2, <1>4 DEF Lasting, Standing, Early
<1>11. Scalars'
  BY <1>1, <1>2, <1>3 DEF IInv, Scalars, history
<1>12. issued <= issued'
  BY <1>1, ProcessIs, <1>2
<1>. QED
  BY <1>1, <1>2, <1>3, <1>9, <1>10, <1>11, <1>12, ControlStep DEF history

\* The proof of a turn is published.
LEMMA PublishProofStep ==
    ASSUME IInv, NEW t \in Turn, PublishProof(t)
    PROVE  IInv'
<1>. DEFINE p == Owner[t]
            y == IF turn[t].done = "yes" THEN turn[t].origin ELSE 0
            x == "done"
            a == [turn[t] EXCEPT !.at = x]
            f == [file[t] EXCEPT !.proof = y]
<1>1. /\ turn[t].at = "body"
      /\ UNCHANGED <<policy, issued, stops, halt, used, config, op, left, history>>
      /\ turn' = [turn EXCEPT ![t] = a] /\ file' = [file EXCEPT ![t] = f]
      /\ printing' = "free" /\ Kick(p, turn[t].sid)
  BY DEF PublishProof
<1>2. /\ turn \in [Turn -> TurnState] /\ file \in [Turn -> FileState] /\ p \in Proc
      /\ Sane(turn[t], file[t], issued) /\ turn[t].sid \in Nat
  BY Names DEF IInv, Published, TurnState
<1>3. PICK c \in CtlState, r \in PassState : Goes(p, c, r) /\ c.phase = ctl[p].phase
  BY <1>1, <1>2, KickIs
<1>4. y \in Nat /\ (y # 0 => turn[t].done = "yes" /\ y = turn[t].origin) /\ x = "done"
  BY <1>2 DEF TurnState
<1>. HIDE DEF y, x
<1>5. /\ a \in TurnState /\ a.at = "done" /\ a.settled = turn[t].settled /\ a.done = turn[t].done
      /\ a.natural = turn[t].natural /\ a.origin = turn[t].origin /\ a.since = turn[t].since
      /\ a.sess = turn[t].sess
  BY <1>2, <1>4 DEF TurnState
<1>6. /\ f \in FileState /\ f.body = file[t].body /\ f.proof = y /\ f.tries = file[t].tries
      /\ f.ack = file[t].ack /\ f.receipt = file[t].receipt
  BY <1>2, <1>4 DEF FileState
<1>. HIDE DEF f, a
<1>7. /\ ctl'[p].phase = ctl[p].phase
      /\ \A q \in Proc \ {p} : ctl'[q] = ctl[q] /\ pass'[q] = pass[q]
  BY <1>2, <1>3, ProcessIs DEF Goes
<1>8. Published'
  <2>1. Sane(a, f, issued)
    <3>1. f.proof \notin {None, 0} => a.natural /\ f.proof = a.origin
      BY <1>2, <1>4, <1>5, <1>6 DEF Sane
    <3>2. a.at \notin Early
      BY <1>5 DEF Early
    <3>. QED
      BY <1>1, <1>2, <1>5, <1>6, <3>1, <3>2 DEF Sane
  <2>2. ASSUME NEW u \in Turn, Before(u, t)
        PROVE  Behind(a, f, turn[u], u \in left.turns)
    <3>1. Behind(turn[t], file[t], turn[u], u \in left.turns)
      BY <2>2 DEF IInv, Published
    <3>. QED
      BY <1>1, <1>5, <1>6, <3>1 DEF Behind
  <2>3. ASSUME NEW w \in Turn, Before(t, w)
        PROVE  Behind(turn[w], file[w], a, t \in left.turns)
    <3>1. Behind(turn[w], file[w], turn[t], t \in left.turns)
      BY <2>3 DEF IInv, Published
    <3>. QED
      BY <1>1, <1>2, <1>5, <3>1 DEF Behind, Sane
  <2>4. \A u \in Turn : turn[u].at = "open" => ctl'[Owner[u]].phase = "turn"
    BY <1>7, Names DEF IInv, Published
  <2>. QED
    BY <1>1, <1>5, <1>6, <2>1, <2>2, <2>3, <2>4, PublishedStep
<1>9. Lasting /\ Standing
  BY <1>1, <1>2, <1>5, <1>6 DEF Lasting, Standing, Early
<1>10. Scalars'
  BY <1>1 DEF IInv, Scalars, history
<1>11. issued <= issued'
  BY <1>1, ProcessIs, <1>2
<1>. QED
  BY <1>1, <1>2, <1>3, <1>8, <1>9, <1>10, <1>11, ControlStep DEF history

-----------------------------------------------------------------------------
(* Taking the outbox lock *)

\* Process p takes the lock for some turns, first of all t.
LEMMA LockTaken ==
    ASSUME IInv, Lasting, Published', UNCHANGED <<turn, file, launches, requests, used>>,
           NEW p \in Proc, NEW t \in Turn, NEW S \in SUBSET Turn,
           NEW k \in {"auto", "send", "discard", "clear", "expire"},
           NEW x \in {"quota", "reserve", "clean"},
           op' = [by |-> p, kind |-> k, t |-> t, todo |-> S, at |-> x],
           x = IF k = "auto" THEN "quota" ELSE IF k = "send" THEN "reserve" ELSE "clean",
           \A u \in S \cup {t} : turn[u].at \notin Early /\ file[u].body # "none",
           k \in {"auto", "expire"} =>
               pass'[p].at = "busy" /\ pass'[p].cur = IF k = "auto" THEN t ELSE None,
           k \in {"send", "discard", "clear"} => ctl'[p].phase = "command",
           k \in {"auto", "send"} =>
               /\ file[t].receipt = "none" /\ file[t].body = "present" /\ file[t].ack = "none"
               /\ ~Spent(t) /\ EarlierPending(t) = {}
    PROVE  Locked'
<1>1. op' \in OpState /\ op'.by = p /\ op'.kind = k /\ op'.t = t /\ op'.todo = S /\ op'.at = x
  BY DEF OpState
<1>2. Holding'
  BY <1>1 DEF Holding
<1>3. Unsettled'
  BY <1>1 DEF Unsettled, Spent, EarlierPending, Session, Terminal
<1>4. Armed'
  BY <1>1 DEF Armed
<1>5. DueToday' = 0 /\ \A u \in Turn : Due(u)' = 0
  BY <1>1 DEF DueToday, Due
<1>6. Paid'
  <2>1. Standing
    BY DEF Standing
  <2>. QED
    BY <1>5, <2>1, StandingCounts, PaidSame
<1>. QED
  BY <1>1, <1>2, <1>3, <1>4, <1>6 DEF Locked

\* A process goes on, and its turns stay open; the lock is another matter.
LEMMA ProcessGoes ==
    ASSUME IInv, NEW p \in Proc, NEW c \in CtlState, NEW r \in PassState,
           ctl' = [ctl EXCEPT ![p] = c], pass' = [pass EXCEPT ![p] = r], Tidy(c, r, issued),
           \A t \in r.todo \cup {r.cur} : t # None => Candidate(t, r.epoch),
           ctl[p].phase = "turn" => c.phase = "turn",
           UNCHANGED <<turn, file, issued>>, left'.turns = left.turns
    PROVE  Driven' /\ Published' /\ Lasting /\ Standing
<1>1. \A t \in Turn : turn[t].at = "open" => ctl'[Owner[t]].phase = "turn"
  BY ProcessIs, Names DEF IInv, Published
<1>2. issued' \in Nat /\ issued <= issued' /\ issued' = issued
  BY ProcessIs
<1>3. Published' /\ Lasting
  BY <1>1, <1>2, PublishedSame
<1>4. Driven'
  BY <1>2, <1>3, DrivenStep
<1>5. Standing
  BY DEF Standing
<1>. QED
  BY <1>3, <1>4, <1>5

\* drainAuto() begins.
LEMMA PassBeginStep ==
    ASSUME IInv, NEW p \in Proc, PassBegin(p)
    PROVE  IInv'
<1>. DEFINE go == Live(p, pass[p].sid) /\ ~ctl[p].stopped /\ ~ctl[p].suspended
            old == IF policy = ctl[p].cached THEN {t \in Turn : file[t].ack = "auto"} ELSE {}
<1>1. pass[p].at = "begin"
      /\ UNCHANGED <<policy, issued, files, config, printing, turn, history>>
  BY DEF PassBegin
<1>2. CASE ~go /\ PassEnds(p) /\ UNCHANGED <<op, left>>
  <2>1. PICK c \in CtlState, r \in PassState :
             /\ ctl' = [ctl EXCEPT ![p] = c] /\ pass' = [pass EXCEPT ![p] = r]
             /\ Tidy(c, r, issued) /\ r.todo = {} /\ r.cur = None /\ c.phase = ctl[p].phase
    BY <1>2, PassEndsIs
  <2>2. Scalars' /\ Aside /\ issued' = issued
    BY <1>1, <1>2, ProcessIs DEF IInv, Scalars, Aside, files, history
  <2>3. Goes(p, c, r)
    BY <1>1, <2>1, <2>2 DEF Goes
  <2>. QED
    BY <2>1, <2>2, <2>3, ProcessStep
<1>3. ASSUME NEW x \in {"end", "list", "busy"}, pass' = [pass EXCEPT ![p].at = x],
             ctl' = [ctl EXCEPT ![p].again = 0, ![p].owed = 0]
      PROVE  \E c \in CtlState, r \in PassState :
               /\ ctl' = [ctl EXCEPT ![p] = c] /\ pass' = [pass EXCEPT ![p] = r]
               /\ Tidy(c, r, issued) /\ c.phase = ctl[p].phase /\ r.at = x /\ r.cur = None
               /\ r.todo = pass[p].todo /\ r.epoch = pass[p].epoch
  <2>. DEFINE z == 0
              c == [ctl[p] EXCEPT !.again = z, !.owed = z]
              r == [pass[p] EXCEPT !.at = x]
  <2>1. ctl' = [ctl EXCEPT ![p] = c] /\ pass' = [pass EXCEPT ![p] = r]
    BY <1>3, ProcessIs
  <2>2. z \in Nat /\ z = 0
    OBVIOUS
  <2>. HIDE DEF z
  <2>3. /\ c \in CtlState /\ c.again = 0 /\ c.owed = 0 /\ c.phase = ctl[p].phase
        /\ c.sid = ctl[p].sid /\ c.cached = ctl[p].cached
    BY <2>2, ProcessIs DEF CtlState
  <2>4. /\ r \in PassState /\ r.at = x /\ r.epoch = pass[p].epoch /\ r.todo = pass[p].todo
        /\ r.cur = pass[p].cur /\ r.retry = pass[p].retry
    BY ProcessIs DEF PassState
  <2>. HIDE DEF c, r
  <2>5. Tidy(c, r, issued) /\ r.cur = None
    BY <1>1, <2>3, <2>4, ProcessIs DEF Tidy, CtlState
  <2>. QED
    BY <2>1, <2>3, <2>4, <2>5
<1>4. ASSUME NEW x \in {"end", "list", "busy"}, NEW c \in CtlState, NEW r \in PassState,
             ctl' = [ctl EXCEPT ![p] = c], pass' = [pass EXCEPT ![p] = r],
             Tidy(c, r, issued), c.phase = ctl[p].phase, r.at = x, r.cur = None,
             r.todo = pass[p].todo, r.epoch = pass[p].epoch,
             left' \in LeftState, left'.turns = left.turns
      PROVE  Driven' /\ Published' /\ Lasting /\ Standing
  <2>1. \A t \in r.todo \cup {r.cur} : t # None => Candidate(t, r.epoch)
    BY <1>4, ProcessIs
  <2>. QED
    BY <1>1, <1>4, <2>1, ProcessGoes DEF files
<1>5. CASE /\ \E x \in {"end", "list"} : pass' = [pass EXCEPT ![p].at = x]
           /\ ctl' = [ctl EXCEPT ![p].again = 0, ![p].owed = 0]
           /\ UNCHANGED <<op, left>>
  <2>1. PICK x \in {"end", "list", "busy"} :
           pass' = [pass EXCEPT ![p].at = x] /\ x # "busy"
    BY <1>5
  <2>2. PICK c \in CtlState, r \in PassState :
               /\ ctl' = [ctl EXCEPT ![p] = c] /\ pass' = [pass EXCEPT ![p] = r]
               /\ Tidy(c, r, issued) /\ c.phase = ctl[p].phase /\ r.at = x /\ r.cur = None
               /\ r.todo = pass[p].todo /\ r.epoch = pass[p].epoch
    BY <1>3, <1>5, <2>1
  <2>3. Scalars' /\ Aside /\ issued' = issued
    BY <1>1, <1>5, ProcessIs DEF IInv, Scalars, Aside, files, history
  <2>4. Goes(p, c, r)
    BY <1>1, <2>2, <2>3, ProcessIs DEF Goes
  <2>. QED
    BY <2>2, <2>3, <2>4, ProcessStep
<1>6. CASE /\ old # {} /\ Event("aged")
           /\ op' = [by |-> p, kind |-> "expire", t |-> Min(old), todo |-> old \ {Min(old)},
                     at |-> "clean"]
           /\ pass' = [pass EXCEPT ![p].at = "busy"]
           /\ ctl' = [ctl EXCEPT ![p].again = 0, ![p].owed = 0]
  <2>1. PICK c \in CtlState, r \in PassState :
               /\ ctl' = [ctl EXCEPT ![p] = c] /\ pass' = [pass EXCEPT ![p] = r]
               /\ Tidy(c, r, issued) /\ c.phase = ctl[p].phase /\ r.at = "busy" /\ r.cur = None
               /\ r.todo = pass[p].todo /\ r.epoch = pass[p].epoch
    BY <1>3, <1>6
  <2>2. left' \in LeftState /\ left'.turns = left.turns
    BY <1>6, EventIs DEF IInv, Scalars
  <2>3. Driven' /\ Published' /\ Lasting /\ Standing
    BY <1>4, <2>1, <2>2
  <2>4. old \in SUBSET Nat
        /\ \A t \in old : t \in Turn /\ turn[t].at \notin Early /\ file[t].body # "none"
    BY Names DEF IInv, Published, Sane
  <2>5. PICK t \in Turn : t = Min(old) /\ t \in old
    BY <1>6, <2>4, MinIs
  <2>6. PICK S \in SUBSET Turn : S = old \ {t}
    OBVIOUS
  <2>7. op' = [by |-> p, kind |-> "expire", t |-> t, todo |-> S, at |-> "clean"]
    BY <1>6, <2>5, <2>6
  <2>8. \A u \in S \cup {t} : turn[u].at \notin Early /\ file[u].body # "none"
    BY <2>4, <2>5, <2>6
  <2>9. pass'[p].at = "busy" /\ pass'[p].cur = None
    BY <2>1, ProcessIs
  <2>10. Locked'
    BY <1>1, <2>3, <2>7, <2>8, <2>9, LockTaken DEF files, history
  <2>11. Scalars'
    BY <1>1, <2>2 DEF IInv, Scalars, files, history
  <2>. QED
    BY <2>3, <2>10, <2>11 DEF IInv
<1>7. "end" \in {"end", "list"} /\ "list" \in {"end", "list"}
  OBVIOUS
<1>. QED
  BY <1>2, <1>5, <1>6, <1>7 DEF PassBegin

\* The next candidate.
LEMMA PassNextStep ==
    ASSUME IInv, NEW p \in Proc, PassNext(p)
    PROVE  IInv'
<1>1. PICK t \in Turn : t = Min(pass[p].todo) /\ t \in pass[p].todo
  BY MinIs, ProcessIs, Names DEF PassNext, PassState
<1>2. pass[p].at = "next" /\ pass[p].todo # {}
      /\ UNCHANGED <<policy, issued, files, config, printing, op, turn, ctl, left, history>>
  BY DEF PassNext
<1>3. PICK s \in Proc \X Nat : s = Session(t)
  BY Names DEF Session, IInv, Published, TurnState
<1>. DEFINE rest == [pass[p] EXCEPT !.todo = @ \ {t}]
<1>4. /\ rest \in PassState /\ rest.todo = pass[p].todo \ {t} /\ rest.at = "next"
      /\ rest.cur = None /\ rest.epoch = pass[p].epoch /\ rest.retry = pass[p].retry
      /\ rest.sid = pass[p].sid
  BY <1>1, <1>2, ProcessIs DEF PassState, Tidy
<1>5. pass' = [pass EXCEPT ![p] =
         IF Terminal(t) \/ s \in rest.blocked THEN rest
         ELSE IF file[t].side # "held" THEN [rest EXCEPT !.at = "lock", !.cur = t, !.retry = 0]
         ELSE IF op = Free THEN [rest EXCEPT !.blocked = @ \cup {s}]
         ELSE [rest EXCEPT !.at = "end"]]
  BY <1>1, <1>3, Zenon DEF PassNext
<1>. HIDE DEF rest
<1>6. \E r \in PassState :
         /\ pass' = [pass EXCEPT ![p] = r] /\ r.todo = rest.todo /\ r.epoch = pass[p].epoch
         /\ (r.at \in {"next", "end"} /\ r.cur = None) \/ (r.at = "lock" /\ r.cur = t)
         /\ r.retry < MaxAttempts
  <2>0. pass[p].retry < MaxAttempts /\ MaxAttempts \in Nat /\ MaxAttempts >= 1
    BY ProcessIs, Names DEF Tidy
  <2>1. CASE Terminal(t) \/ s \in rest.blocked
    BY <1>4, <1>5, <2>0, <2>1
  <2>2. CASE ~(Terminal(t) \/ s \in rest.blocked) /\ file[t].side # "held"
    <3>. DEFINE x == "lock"
                z == 0
                r == [rest EXCEPT !.at = x, !.cur = t, !.retry = z]
    <3>1. pass' = [pass EXCEPT ![p] = r]
      BY <1>5, <2>2
    <3>2. x = "lock" /\ z \in Nat /\ z = 0
      OBVIOUS
    <3>. HIDE DEF x, z
    <3>3. /\ r \in PassState /\ r.todo = rest.todo /\ r.epoch = rest.epoch /\ r.at = "lock"
          /\ r.cur = t /\ r.retry = 0
      BY <1>4, <3>2 DEF PassState
    <3>4. r.retry < MaxAttempts /\ r.epoch = pass[p].epoch
      BY <1>4, <2>0, <3>3
    <3>. HIDE DEF r
    <3>. QED
      BY <3>1, <3>3, <3>4
  <2>3. CASE ~(Terminal(t) \/ s \in rest.blocked) /\ file[t].side = "held" /\ op = Free
    <3>. DEFINE b == rest.blocked \cup {s}
                r == [rest EXCEPT !.blocked = b]
    <3>1. pass' = [pass EXCEPT ![p] = r]
      BY <1>5, <2>3
    <3>2. b \in SUBSET (Proc \X Nat)
      BY <1>4 DEF PassState
    <3>. HIDE DEF b
    <3>3. /\ r \in PassState /\ r.todo = rest.todo /\ r.epoch = rest.epoch /\ r.at = rest.at
          /\ r.cur = rest.cur /\ r.retry = rest.retry
      BY <1>4, <3>2 DEF PassState
    <3>. QED
      BY <1>4, <2>0, <3>1, <3>3
  <2>4. CASE ~(Terminal(t) \/ s \in rest.blocked) /\ file[t].side = "held" /\ op # Free
    <3>. DEFINE x == "end"
                r == [rest EXCEPT !.at = x]
    <3>1. pass' = [pass EXCEPT ![p] = r]
      BY <1>5, <2>4
    <3>2. x = "end"
      OBVIOUS
    <3>. HIDE DEF x
    <3>3. /\ r \in PassState /\ r.todo = rest.todo /\ r.epoch = rest.epoch /\ r.at = "end"
          /\ r.cur = rest.cur /\ r.retry = rest.retry
      BY <1>4, <3>2 DEF PassState
    <3>. QED
      BY <1>4, <2>0, <3>1, <3>3
  <2>. QED
    BY <2>1, <2>2, <2>3, <2>4
<1>7. PICK r \in PassState :
         /\ pass' = [pass EXCEPT ![p] = r] /\ r.todo = rest.todo /\ r.epoch = pass[p].epoch
         /\ (r.at \in {"next", "end"} /\ r.cur = None) \/ (r.at = "lock" /\ r.cur = t)
         /\ r.retry < MaxAttempts
  BY <1>6
<1>8. Tidy(ctl[p], r, issued)
  BY <1>1, <1>2, <1>7, ProcessIs, Names DEF Tidy
<1>9. \A u \in r.todo \cup {r.cur} : u # None => Candidate(u, r.epoch)
  BY <1>1, <1>4, <1>7, ProcessIs
<1>10. Scalars' /\ Aside /\ issued' = issued
  BY <1>2, ProcessIs DEF IInv, Scalars, Aside, files, history
<1>11. Goes(p, ctl[p], r)
  BY <1>2, <1>7, <1>8, <1>9, <1>10, ProcessIs DEF Goes
<1>. QED
  BY <1>10, <1>11, ProcessStep, ProcessIs

\* The sidecar of a refused event is written, unless the signal died.
LEMMA PassNoteStep ==
    ASSUME IInv, NEW p \in Proc, PassNote(p)
    PROVE  IInv'
<1>1. pass[p].at = "note"
      /\ UNCHANGED <<policy, issued, stops, used, config, printing, op, turn, left, history>>
  BY DEF PassNote
<1>2. CASE PassEnds(p) /\ UNCHANGED <<file, halt>>
  <2>1. PICK c \in CtlState, r \in PassState :
             /\ ctl' = [ctl EXCEPT ![p] = c] /\ pass' = [pass EXCEPT ![p] = r]
             /\ Tidy(c, r, issued) /\ r.todo = {} /\ r.cur = None /\ c.phase = ctl[p].phase
    BY <1>1, <1>2, PassEndsIs
  <2>2. Scalars' /\ Aside /\ issued' = issued
    BY <1>1, <1>2, ProcessIs DEF IInv, Scalars, Aside, history
  <2>3. Goes(p, c, r)
    BY <1>1, <2>1, <2>2 DEF Goes
  <2>. QED
    BY <2>1, <2>2, <2>3, ProcessStep
<1>3. CASE Live(p, pass[p].sid)
  <2>1. PICK t \in Turn : t = pass[p].cur
    BY <1>1, ProcessIs DEF Tidy, PassState
  <2>2. PICK s \in Proc \X Nat : s = Session(t)
    BY Names DEF Session, IInv, Published, TurnState
  <2>3. PICK n1 \in {"none", "paused", "held"}, n2 \in {"next", "return", "halt"} :
             n1 = pass[p].note[1] /\ n2 = pass[p].note[2]
    BY ProcessIs DEF PassState, Notes
  <2>. DEFINE f == [file[t] EXCEPT !.side = n1]
              h == ctl[p].stopped \/ n2 = "halt"
              c == [ctl[p] EXCEPT !.stopped = h]
              x == IF n2 = "next" THEN "next" ELSE "end"
              b == pass[p].blocked \cup {s}
              m == NoNote
              r == [pass[p] EXCEPT !.at = x, !.blocked = b, !.cur = None, !.note = m]
  <2>4. /\ file' = [file EXCEPT ![t] = f]
        /\ halt' = IF n2 = "halt" THEN pass[p].epoch ELSE halt
        /\ ctl' = [ctl EXCEPT ![p] = c]
    BY <1>3, <2>1, <2>3, Zenon DEF PassNote
  <2>5. pass' = [pass EXCEPT ![p] = r]
    <3>1. pass' = [pass EXCEPT ![p].at = x, ![p].blocked = @ \cup {s}, ![p].cur = None,
                               ![p].note = m]
      BY <1>3, <2>1, <2>2, <2>3, Zenon DEF PassNote
    <3>. HIDE DEF x, m
    <3>. QED
      BY <3>1, ProcessIs DEF PassState
  <2>6. /\ h \in BOOLEAN /\ (ctl[p].stopped => h) /\ x \in {"next", "end"} /\ m \in Notes
        /\ b \in SUBSET (Proc \X Nat)
    BY ProcessIs DEF CtlState, PassState, Notes, NoNote
  <2>. HIDE DEF h, x, b, m
  <2>7. /\ turn \in [Turn -> TurnState] /\ file \in [Turn -> FileState]
    BY DEF IInv, Published
  <2>8. /\ f \in FileState /\ f.body = file[t].body /\ f.proof = file[t].proof
        /\ f.tries = file[t].tries /\ f.ack = file[t].ack /\ f.receipt = file[t].receipt
    BY <2>7 DEF FileState
  <2>9. /\ c \in CtlState /\ c.stopped = h /\ c.phase = ctl[p].phase /\ c.sid = ctl[p].sid
        /\ c.cached = ctl[p].cached /\ c.live = ctl[p].live /\ c.again = ctl[p].again
        /\ c.owed = ctl[p].owed /\ c.suspended = ctl[p].suspended
    BY <2>6, ProcessIs DEF CtlState
  <2>10. /\ r \in PassState /\ r.at = x /\ r.cur = None /\ r.epoch = pass[p].epoch
         /\ r.todo = pass[p].todo /\ r.retry = pass[p].retry
    BY <2>6, ProcessIs DEF PassState
  <2>. HIDE DEF f, c, r
  <2>11. /\ ctl'[p].phase = ctl[p].phase
         /\ \A q \in Proc \ {p} : ctl'[q] = ctl[q]
    BY <2>4, <2>9, ProcessIs
  <2>12. Published'
    <3>1. turn' = [turn EXCEPT ![t] = turn[t]] /\ left'.turns = left.turns /\ issued' = issued
      BY <1>1, <2>7
    <3>2. /\ Sane(turn[t], file[t], issued)
          /\ \A u \in Turn : Before(u, t) => Behind(turn[t], file[t], turn[u], u \in left.turns)
          /\ \A w \in Turn : Before(t, w) => Behind(turn[w], file[w], turn[t], t \in left.turns)
      BY DEF IInv, Published
    <3>3. /\ Sane(turn[t], f, issued)
          /\ \A u \in Turn : Before(u, t) => Behind(turn[t], f, turn[u], u \in left.turns)
      BY <2>8, <3>2 DEF Sane, Behind
    <3>4. \A u \in Turn : turn[u].at = "open" => ctl'[Owner[u]].phase = "turn"
      BY <2>11, Names DEF IInv, Published
    <3>. QED
      BY <2>4, <2>7, <2>8, <3>1, <3>2, <3>3, <3>4, PublishedStep
  <2>13. Lasting /\ Standing
    BY <1>1, <2>4, <2>7, <2>8 DEF Lasting, Standing
  <2>14. Scalars'
    <3>1. pass[p].epoch \in 0 .. issued /\ issued' = issued
      BY <1>1, ProcessIs DEF Tidy, PassState
    <3>. QED
      BY <1>1, <2>4, <3>1 DEF IInv, Scalars, history
  <2>15. Tidy(c, r, issued)
    BY <1>1, <2>6, <2>9, <2>10, ProcessIs DEF Tidy
  <2>16. Goes(p, c, r)
    <3>1. \A u \in r.todo \cup {r.cur} : u # None => Candidate(u, r.epoch)
      BY <2>10, ProcessIs
    <3>. QED
      BY <1>1, <2>4, <2>5, <2>9, <2>15, <3>1 DEF Goes
  <2>17. issued <= issued'
    BY <1>1, ProcessIs
  <2>. QED
    BY <1>1, <2>9, <2>10, <2>12, <2>13, <2>14, <2>16, <2>17, ControlStep DEF history
<1>. QED
  BY <1>2, <1>3 DEF PassNote

\* What checkAutoAuthority() answers: nothing, or a note for the sidecar.
LEMMA AuthorityIs ==
    ASSUME NEW p, NEW t, NEW inRequest \in BOOLEAN
    PROVE  /\ Authority(p, t, inRequest) = NoNote
               => /\ Live(p, pass[p].sid) /\ ~ctl[p].suspended /\ ~ctl[p].stopped
                  /\ ~Stopped(t) /\ policy = pass[p].epoch
           /\ Authority(p, t, inRequest) # NoNote => Authority(p, t, inRequest) \in Notes
BY DEF Authority, Notes, NoNote

\* A pass that is about to send, or is sending, is refused: it goes on to a note.
LEMMA NotedIs ==
    ASSUME IInv, NEW p \in Proc, NEW n \in Notes, pass[p].at \in {"lock", "busy"},
           pass[p].cur # None,
           pass' = [pass EXCEPT ![p].at = "note", ![p].note = n]
    PROVE  \E r \in PassState :
             /\ pass' = [pass EXCEPT ![p] = r] /\ Tidy(ctl[p], r, issued) /\ r.at = "note"
             /\ \A t \in r.todo \cup {r.cur} : t # None => Candidate(t, r.epoch)
<1>. DEFINE x == "note"
            r == [pass[p] EXCEPT !.at = x, !.note = n]
<1>1. pass' = [pass EXCEPT ![p] = r]
  BY ProcessIs
<1>2. x = "note"
  OBVIOUS
<1>. HIDE DEF x
<1>3. /\ r \in PassState /\ r.at = "note" /\ r.epoch = pass[p].epoch /\ r.todo = pass[p].todo
      /\ r.cur = pass[p].cur /\ r.retry = pass[p].retry
  BY <1>2, ProcessIs DEF PassState
<1>. HIDE DEF r
<1>4. Tidy(ctl[p], r, issued)
  BY <1>3, ProcessIs DEF Tidy
<1>5. \A t \in r.todo \cup {r.cur} : t # None => Candidate(t, r.epoch)
  BY <1>3, ProcessIs
<1>. QED
  BY <1>1, <1>3, <1>4, <1>5

\* The pass takes the lock, or not.
LEMMA PassLockStep ==
    ASSUME IInv, NEW p \in Proc, PassLock(p)
    PROVE  IInv'
<1>. DEFINE why == Authority(p, pass[p].cur, FALSE)
<1>1. pass[p].at = "lock" /\ pass[p].cur # None
      /\ UNCHANGED <<policy, issued, files, config, printing, turn, ctl, left, history>>
  BY ProcessIs DEF PassLock, Tidy
<1>2. PICK t \in Turn : t = pass[p].cur
  BY <1>1, ProcessIs DEF PassState
<1>3. Scalars' /\ issued' = issued /\ ctl' = [ctl EXCEPT ![p] = ctl[p]]
  BY <1>1, ProcessIs DEF IInv, Scalars, files, history
<1>4. CASE op' = op /\ \E n \in Notes : pass' = [pass EXCEPT ![p].at = "note", ![p].note = n]
  <2>1. PICK n \in Notes : pass' = [pass EXCEPT ![p].at = "note", ![p].note = n]
    BY <1>4
  <2>2. PICK r \in PassState :
             /\ pass' = [pass EXCEPT ![p] = r] /\ Tidy(ctl[p], r, issued) /\ r.at = "note"
             /\ \A u \in r.todo \cup {r.cur} : u # None => Candidate(u, r.epoch)
    BY <1>1, <2>1, NotedIs
  <2>3. Aside
    BY <1>1, <1>3, <1>4, ProcessIs DEF Aside, files, history
  <2>4. Goes(p, ctl[p], r)
    BY <1>1, <1>3, <2>2 DEF Goes
  <2>. QED
    BY <1>3, <2>3, <2>4, ProcessIs, ProcessStep
<1>5. CASE op' = op /\ pass' = [pass EXCEPT ![p].at = "next", ![p].cur = None]
  <2>. DEFINE x == "next"
              r == [pass[p] EXCEPT !.at = x, !.cur = None]
  <2>1. pass' = [pass EXCEPT ![p] = r]
    BY <1>5, ProcessIs
  <2>2. x = "next"
    OBVIOUS
  <2>. HIDE DEF x
  <2>3. /\ r \in PassState /\ r.at = "next" /\ r.epoch = pass[p].epoch /\ r.todo = pass[p].todo
        /\ r.cur = None /\ r.retry = pass[p].retry
    BY <2>2, ProcessIs DEF PassState
  <2>. HIDE DEF r
  <2>4. Tidy(ctl[p], r, issued)
    BY <1>1, <2>3, ProcessIs DEF Tidy
  <2>5. Aside
    BY <1>1, <1>3, <1>5, ProcessIs DEF Aside, files, history
  <2>6. \A u \in r.todo \cup {r.cur} : u # None => Candidate(u, r.epoch)
    BY <2>3, ProcessIs
  <2>7. Goes(p, ctl[p], r)
    BY <1>1, <1>3, <2>1, <2>3, <2>4, <2>6 DEF Goes
  <2>. QED
    BY <1>3, <2>3, <2>5, <2>7, ProcessIs, ProcessStep
<1>6. CASE /\ file[t].receipt = "none" /\ file[t].ack = "none"
           /\ EarlierPending(t) = {} /\ ~Spent(t)
           /\ op' = [by |-> p, kind |-> "auto", t |-> t, todo |-> {}, at |-> "quota"]
           /\ pass' = [pass EXCEPT ![p].at = "busy"]
  <2>. DEFINE x == "busy"
              r == [pass[p] EXCEPT !.at = x]
  <2>1. pass' = [pass EXCEPT ![p] = r]
    BY <1>6
  <2>2. x = "busy"
    OBVIOUS
  <2>. HIDE DEF x
  <2>3. /\ r \in PassState /\ r.at = "busy" /\ r.epoch = pass[p].epoch /\ r.todo = pass[p].todo
        /\ r.cur = t /\ r.retry = pass[p].retry
    BY <1>2, <2>2, ProcessIs DEF PassState
  <2>. HIDE DEF r
  <2>4. Tidy(ctl[p], r, issued)
    BY <1>1, <2>3, ProcessIs DEF Tidy
  <2>5. \A u \in r.todo \cup {r.cur} : u # None => Candidate(u, r.epoch)
    BY <1>2, <2>3, ProcessIs
  <2>6. Driven' /\ Published' /\ Lasting /\ Standing
    BY <1>1, <1>3, <2>1, <2>3, <2>4, <2>5, ProcessIs, ProcessGoes DEF files
  <2>7. Candidate(t, pass[p].epoch)
    BY <1>1, <1>2, ProcessIs
  <2>8. turn[t].at \notin Early /\ file[t].body = "present"
    <3>1. Sane(turn[t], file[t], issued) /\ file[t] \in FileState
      BY DEF IInv, Published
    <3>. QED
      BY <1>6, <2>7, <3>1 DEF Candidate, Early, Sane, FileState
  <2>9. PICK S \in SUBSET Turn : S = {}
    OBVIOUS
  <2>10. pass'[p].at = "busy" /\ pass'[p].cur = t
    BY <2>1, <2>3, ProcessIs
  <2>11. Locked'
    <3>1. op' = [by |-> p, kind |-> "auto", t |-> t, todo |-> S, at |-> "quota"]
      BY <1>6, <2>9
    <3>2. \A u \in S \cup {t} : turn[u].at \notin Early /\ file[u].body # "none"
      BY <2>8, <2>9
    <3>3. UNCHANGED <<turn, file, launches, requests, used>>
      BY <1>1 DEF files, history
    <3>4. /\ file[t].receipt = "none" /\ file[t].body = "present" /\ file[t].ack = "none"
          /\ ~Spent(t) /\ EarlierPending(t) = {}
      BY <1>6, <2>8
    <3>. QED
      BY <2>6, <2>10, <3>1, <3>2, <3>3, <3>4, LockTaken
  <2>. QED
    BY <1>3, <2>6, <2>11 DEF IInv
<1>7. /\ <<"paused", "next">> \in Notes /\ <<"held", "next">> \in Notes
      /\ why # NoNote => why \in Notes
  BY AuthorityIs DEF Notes
<1>8. why # NoNote => why = <<why[1], why[2]>>
  <2>1. \A n \in Notes : n = <<n[1], n[2]>>
    BY DEF Notes
  <2>. QED
    BY <1>7, <2>1
<1>. QED
  <2>1. \/ op' = op /\ \E n \in Notes : pass' = [pass EXCEPT ![p].at = "note", ![p].note = n]
        \/ op' = op /\ pass' = [pass EXCEPT ![p].at = "next", ![p].cur = None]
        \/ /\ file[t].receipt = "none" /\ file[t].ack = "none"
           /\ EarlierPending(t) = {} /\ ~Spent(t)
           /\ op' = [by |-> p, kind |-> "auto", t |-> t, todo |-> {}, at |-> "quota"]
           /\ pass' = [pass EXCEPT ![p].at = "busy"]
    BY <1>2, <1>7, <1>8, Zenon DEF PassLock
  <2>. QED
    BY <1>4, <1>5, <1>6, <2>1

-----------------------------------------------------------------------------
(* Holding the outbox lock *)

\* What the holder of the lock has in hand.
LEMMA HolderIs ==
    ASSUME IInv, op.kind \notin {"free", "dead"}
    PROVE  /\ op \in OpState /\ op.by \in Proc /\ op.t \in Turn
           /\ turn[op.t].at \notin Early /\ file[op.t].body # "none"
           /\ turn \in [Turn -> TurnState] /\ file \in [Turn -> FileState]
           /\ Sane(turn[op.t], file[op.t], issued)
           /\ Holding /\ Unsettled /\ Armed /\ Paid
           /\ used \in Nat /\ requests \in Nat
           /\ launches \in [Turn -> [auto : Nat, hand : Nat]]
BY DEF IInv, Locked, Holding, Published, Paid, Scalars

\* The holder of the lock goes on to step x.
LEMMA LockMoves ==
    ASSUME IInv, op.kind \notin {"free", "dead"},
           NEW x \in {"reserve", "arm", "fire", "wait", "ack", "receipt", "body", "rest"},
           op' = [op EXCEPT !.at = x], Lasting, ctl' = ctl, pass' = pass,
           op.kind = "auto" => x \in {"reserve", "arm", "fire", "wait", "ack", "receipt"},
           op.kind = "send" => x \in {"fire", "wait", "ack"},
           op.kind \in {"discard", "clear", "expire"} => x \in {"body", "rest"},
           \A t \in Turn : file[t].body # "none" => file'[t].body # "none"
    PROVE  /\ op' \in OpState /\ Holding' /\ op'.at = x /\ op'.by = op.by /\ op'.t = op.t
           /\ op'.kind = op.kind /\ op'.todo = op.todo
<1>1. op \in OpState /\ Holding
  BY DEF IInv, Locked
<1>2. /\ op' \in OpState /\ op'.at = x /\ op'.by = op.by /\ op'.t = op.t
      /\ op'.kind = op.kind /\ op'.todo = op.todo
  BY <1>1 DEF OpState
<1>3. op.todo \subseteq Turn
  BY <1>1 DEF OpState
<1>4. Holding'
  BY <1>1, <1>2, <1>3 DEF Holding, Lasting
<1>. QED
  BY <1>2, <1>4

\* The files of one published turn change.
LEMMA FileStep ==
    ASSUME IInv, NEW t \in Turn, NEW f \in FileState, turn[t].at \notin Early,
           turn' = turn, file' = [file EXCEPT ![t] = f], left'.turns = left.turns,
           issued' = issued, Sane(turn[t], f, issued),
           f.body # "none" => file[t].body # "none",
           \A u \in Turn : turn[u].at = "open" => ctl'[Owner[u]].phase = "turn"
    PROVE  Published' /\ Lasting
<1>1. /\ turn \in [Turn -> TurnState] /\ file \in [Turn -> FileState]
      /\ \A u \in Turn : Before(u, t) => Behind(turn[t], file[t], turn[u], u \in left.turns)
      /\ \A w \in Turn : Before(t, w) => Behind(turn[w], file[w], turn[t], t \in left.turns)
  BY DEF IInv, Published
<1>2. \A u \in Turn : Before(u, t) => Behind(turn[t], f, turn[u], u \in left.turns)
  BY <1>1 DEF Behind
<1>3. turn' = [turn EXCEPT ![t] = turn[t]]
  BY <1>1
<1>4. Published'
  BY <1>1, <1>2, <1>3, PublishedStep
<1>. QED
  BY <1>4 DEF Lasting

\* The lock is free again and its holder goes on.
LEMMA FreedStep ==
    ASSUME IInv, Scalars', Published', Lasting, Counted,
           NEW p \in Proc, NEW c \in CtlState, NEW r \in PassState,
           ctl' = [ctl EXCEPT ![p] = c], pass' = [pass EXCEPT ![p] = r], Tidy(c, r, issued),
           \A t \in r.todo \cup {r.cur} : t # None => Candidate(t, r.epoch),
           op' = Free, UNCHANGED <<launches, requests, used, issued>>
    PROVE  IInv'
<1>1. issued' \in Nat /\ issued <= issued' /\ issued' = issued
  BY ProcessIs
<1>2. Driven'
  BY <1>1, DrivenStep
<1>3. Locked'
  BY LockFree
<1>. QED
  BY <1>2, <1>3 DEF IInv

\* A send of a pass is refused.
LEMMA RefusedStep ==
    ASSUME IInv, Scalars', NEW p \in Proc, op.by = p, op.kind = "auto", NEW n \in Notes,
           op' = Free, pass' = [pass EXCEPT ![p].at = "note", ![p].note = n],
           UNCHANGED <<ctl, turn, file, launches, requests, used, issued>>,
           left'.turns = left.turns
    PROVE  IInv'
<1>1. pass[p].at = "busy" /\ pass[p].cur = op.t /\ op.t \in Turn
  BY DEF IInv, Locked, Holding
<1>2. PICK r \in PassState :
         /\ pass' = [pass EXCEPT ![p] = r] /\ Tidy(ctl[p], r, issued) /\ r.at = "note"
         /\ \A t \in r.todo \cup {r.cur} : t # None => Candidate(t, r.epoch)
  BY <1>1, NotedIs, Names
<1>3. ctl' = [ctl EXCEPT ![p] = ctl[p]]
  BY ProcessIs
<1>4. Published' /\ Lasting /\ Standing
  BY <1>2, <1>3, ProcessIs, ProcessGoes
<1>. QED
  BY <1>2, <1>3, <1>4, ProcessIs, StandingCounts, FreedStep

\* The controllers, the passes and the turns and their files are left alone.
LEMMA StaysStep ==
    ASSUME IInv, UNCHANGED <<turn, file, ctl, pass, issued>>, left'.turns = left.turns
    PROVE  Driven' /\ Published' /\ Lasting
<1>1. Published' /\ Lasting
  BY PublishedSame DEF IInv, Published, Scalars
<1>. QED
  BY <1>1, DrivenSame

\* The request of the day is reserved, or the send refused.
LEMMA QuotaStep ==
    ASSUME IInv, NEW p \in Proc, Quota(p)
    PROVE  IInv'
<1>. DEFINE why == Authority(p, op.t, TRUE)
<1>1. op.by = p /\ op.kind = "auto" /\ op.at = "quota"
      /\ UNCHANGED <<policy, issued, stops, halt, file, config, printing, turn, ctl, left,
                     history>>
  BY DEF Quota, Sending
<1>2. CASE \E n \in Notes : /\ op' = Free /\ used' = used
                            /\ pass' = [pass EXCEPT ![p].at = "note", ![p].note = n]
  <2>1. PICK n \in Notes : /\ op' = Free /\ used' = used
                           /\ pass' = [pass EXCEPT ![p].at = "note", ![p].note = n]
    BY <1>2
  <2>2. Scalars'
    BY <1>1, <2>1 DEF IInv, Scalars, history
  <2>. QED
    BY <1>1, <2>1, <2>2, RefusedStep DEF history
<1>3. CASE /\ used # DailyEvents /\ used' = used + 1
           /\ op' = [op EXCEPT !.at = "reserve"] /\ UNCHANGED pass
  <2>1. /\ used \in 0 .. DailyEvents /\ DailyEvents \in Nat
    BY Names DEF IInv, Scalars
  <2>2. Scalars'
    BY <1>1, <1>3, <2>1 DEF IInv, Scalars, history
  <2>3. Driven' /\ Published' /\ Lasting
    BY <1>1, <1>3, StaysStep
  <2>4. op.kind \notin {"free", "dead"}
    BY <1>1
  <2>5. /\ op' \in OpState /\ Holding' /\ op'.at = "reserve" /\ op'.by = op.by /\ op'.t = op.t
        /\ op'.kind = op.kind /\ op'.todo = op.todo
    BY <1>1, <1>3, <2>3, <2>4, LockMoves
  <2>6. Unsettled' /\ Armed'
    BY <1>1, <2>4, <2>5, HolderIs DEF Unsettled, Armed, Spent, EarlierPending, Session, Terminal
  <2>7. Paid'
    <3>1. DueToday' = 1 /\ DueToday = 0 /\ \A t \in Turn : Due(t)' = Due(t)
      BY <1>1, <2>5 DEF DueToday, Due
    <3>2. launches' = launches /\ requests' = requests /\ turn' = turn /\ file' = file
      BY <1>1 DEF history
    <3>. QED
      BY <1>3, <2>1, <2>4, <3>1, <3>2, HolderIs DEF Paid
  <2>. QED
    BY <2>2, <2>3, <2>5, <2>6, <2>7 DEF IInv, Locked
<1>4. why # NoNote => why \in Notes /\ why = <<why[1], why[2]>>
  <2>1. \A n \in Notes : n = <<n[1], n[2]>>
    BY DEF Notes
  <2>. QED
    BY <2>1, AuthorityIs
<1>5. <<"paused", "return">> \in Notes
  BY DEF Notes
<1>. QED
  BY <1>2, <1>3, <1>4, <1>5, Zenon DEF Quota, Refused

\* The attempt is on disk before the request leaves.
LEMMA ReserveStep ==
    ASSUME IInv, NEW p \in Proc, Reserve(p)
    PROVE  IInv'
<1>1. op.by = p /\ op.at = "reserve" /\ op.kind \in {"auto", "send"} /\ p # None
      /\ UNCHANGED <<policy, issued, stops, halt, used, config, printing, turn, ctl, left,
                     history>>
  BY Names DEF Reserve, IInv, Locked, Holding, OpState, Free, Dead
<1>2. op.kind \notin {"free", "dead"}
  BY <1>1
<1>3. Scalars'
  BY <1>1 DEF IInv, Scalars, history
<1>4. CASE op.kind = "auto" /\ Refused(p, "held", "next") /\ UNCHANGED file
  <2>1. PICK n \in Notes : n = <<"held", "next">>
    BY DEF Notes
  <2>. QED
    BY <1>1, <1>3, <1>4, <2>1, RefusedStep DEF Refused, history
<1>5. CASE /\ file' = [file EXCEPT ![op.t].tries = @ + 1]
           /\ op' = [op EXCEPT !.at = IF op.kind = "auto" THEN "arm" ELSE "fire"]
           /\ UNCHANGED pass
  <2>1. PICK t \in Turn : t = op.t
    BY <1>2, HolderIs
  <2>. DEFINE n == file[t].tries + 1
              f == [file[t] EXCEPT !.tries = n]
              y == IF op.kind = "auto" THEN "arm" ELSE "fire"
  <2>2. file' = [file EXCEPT ![t] = f] /\ op' = [op EXCEPT !.at = y]
    BY <1>5, <2>1
  <2>3. file[t].tries \in Nat /\ file[t].tries < MaxAttempts /\ MaxAttempts \in Nat
        /\ n \in Nat /\ n <= MaxAttempts /\ n = file[t].tries + 1
    BY <1>1, <1>2, <2>1, HolderIs, Names DEF FileState, Unsettled, Spent
  <2>4. y \in {"arm", "fire"} /\ (op.kind = "auto" => y = "arm")
        /\ (op.kind = "send" => y = "fire")
    BY <1>1
  <2>. HIDE DEF n, y
  <2>5. /\ f \in FileState /\ f.body = file[t].body /\ f.proof = file[t].proof /\ f.tries = n
        /\ f.ack = file[t].ack /\ f.receipt = file[t].receipt
    BY <1>2, <2>3, HolderIs DEF FileState
  <2>. HIDE DEF f
  <2>6. Sane(turn[t], f, issued)
    BY <1>2, <2>1, <2>3, <2>5, HolderIs DEF Sane
  <2>7. Published' /\ Lasting
    <3>1. \A u \in Turn : turn[u].at = "open" => ctl'[Owner[u]].phase = "turn"
      BY <1>1 DEF IInv, Published
    <3>. QED
      BY <1>1, <1>2, <2>1, <2>2, <2>5, <2>6, <3>1, HolderIs, FileStep
  <2>8. Driven'
    BY <1>1, <1>5, <2>7, DrivenSame
  <2>9. file'[t] = f /\ \A u \in Turn \ {t} : file'[u] = file[u]
    BY <1>2, <2>2, HolderIs
  <2>10. /\ op' \in OpState /\ Holding' /\ op'.at = y /\ op'.by = op.by /\ op'.t = op.t
         /\ op'.kind = op.kind /\ op'.todo = op.todo
    <3>1. \A u \in Turn : file[u].body # "none" => file'[u].body # "none"
      BY <2>5, <2>9
    <3>. QED
      BY <1>1, <1>2, <1>5, <2>2, <2>4, <2>7, <3>1, LockMoves
  <2>11. EarlierPending(t)' = {}
    BY <1>1, <1>2, <2>1, <2>7, <2>9, HolderIs, PendingKept DEF Unsettled
  <2>12. Unsettled'
    <3>1. file'[op'.t].receipt = "none" /\ file'[op'.t].body = "present"
          /\ file'[op'.t].ack = "none"
      BY <1>1, <1>2, <2>1, <2>5, <2>9, <2>10, HolderIs DEF Unsettled
    <3>2. EarlierPending(op.t)' = {} /\ op'.t = op.t
      BY <2>1, <2>10, <2>11
    <3>. QED
      BY <1>1, <2>4, <2>10, <3>1, <3>2 DEF Unsettled, EarlierPending
  <2>13. Armed'
    BY <2>4, <2>10 DEF Armed
  <2>14. Paid'
    <3>1. DueToday' = DueToday
      BY <1>1, <2>4, <2>10 DEF DueToday
    <3>2. /\ Due(t) = 0 /\ Due(t)' = 1
          /\ \A u \in Turn \ {t} : Due(u) = 0 /\ Due(u)' = 0
      BY <1>1, <2>1, <2>4, <2>10 DEF Due
    <3>3. UNCHANGED <<launches, requests, used, turn>>
      BY <1>1 DEF history
    <3>4. ASSUME NEW u \in Turn, file'[u].body # "gone"
          PROVE  launches[u].auto + launches[u].hand + Due(u)' <= file'[u].tries
      <4>1. launches[u].auto \in Nat /\ launches[u].hand \in Nat
        BY <1>2, HolderIs
      <4>2. file[u].body # "gone" =>
              launches[u].auto + launches[u].hand + Due(u) <= file[u].tries
        BY <1>2, HolderIs DEF Paid
      <4>3. CASE u = t
        BY <2>3, <2>5, <2>9, <3>2, <3>4, <4>1, <4>2, <4>3
      <4>4. CASE u # t
        BY <2>9, <3>2, <3>4, <4>2, <4>4
      <4>. QED
        BY <4>3, <4>4
    <3>. QED
      BY <1>2, <3>1, <3>3, <3>4, HolderIs DEF Paid
  <2>. QED
    BY <1>3, <2>7, <2>8, <2>10, <2>12, <2>13, <2>14 DEF IInv, Locked
<1>. QED
  BY <1>4, <1>5 DEF Reserve

\* The last look, under the lock of the writers of the consent.
LEMMA ArmStep ==
    ASSUME IInv, NEW p \in Proc, Arm(p)
    PROVE  IInv'
<1>. DEFINE why == Authority(p, op.t, TRUE)
<1>1. op.by = p /\ op.kind = "auto" /\ op.at = "arm"
      /\ UNCHANGED <<policy, issued, files, printing, turn, ctl, left, history>>
  BY DEF Arm, Sending
<1>2. op.kind \notin {"free", "dead"}
  BY <1>1
<1>3. CASE \E n \in Notes : /\ op' = Free /\ config' = config
                            /\ pass' = [pass EXCEPT ![p].at = "note", ![p].note = n]
  <2>1. PICK n \in Notes : /\ op' = Free /\ config' = config
                           /\ pass' = [pass EXCEPT ![p].at = "note", ![p].note = n]
    BY <1>3
  <2>2. Scalars'
    BY <1>1, <2>1 DEF IInv, Scalars, files, history
  <2>. QED
    BY <1>1, <2>1, <2>2, RefusedStep DEF files, history
<1>4. CASE /\ why = NoNote /\ config' = "held"
           /\ op' = [op EXCEPT !.at = "fire"] /\ UNCHANGED pass
  <2>1. Scalars'
    BY <1>1, <1>4 DEF IInv, Scalars, files, history
  <2>2. Driven' /\ Published' /\ Lasting
    BY <1>1, <1>4, StaysStep DEF files
  <2>3. /\ op' \in OpState /\ Holding' /\ op'.at = "fire" /\ op'.by = op.by /\ op'.t = op.t
        /\ op'.kind = op.kind /\ op'.todo = op.todo
    BY <1>1, <1>2, <1>4, <2>2, LockMoves DEF files
  <2>4. Unsettled'
    BY <1>1, <1>2, <2>3, HolderIs
       DEF Unsettled, Spent, EarlierPending, Session, Terminal, files
  <2>5. Armed'
    <3>1. ~Stopped(op.t) /\ policy = pass[p].epoch
      BY <1>4, AuthorityIs
    <3>2. config' = "held" /\ policy' = policy /\ pass' = pass /\ stops' = stops /\ turn' = turn
      BY <1>1, <1>4 DEF files
    <3>. QED
      BY <1>1, <2>3, <3>1, <3>2 DEF Armed, Stopped, Session
  <2>6. Paid'
    <3>1. DueToday' = DueToday /\ \A t \in Turn : Due(t)' = Due(t)
      BY <1>1, <2>3 DEF DueToday, Due
    <3>2. UNCHANGED <<launches, requests, used, turn, file>>
      BY <1>1 DEF files, history
    <3>. QED
      BY <1>2, <3>1, <3>2, HolderIs DEF Paid
  <2>. QED
    BY <2>1, <2>2, <2>3, <2>4, <2>5, <2>6 DEF IInv, Locked
<1>5. why # NoNote => why \in Notes /\ why = <<why[1], why[2]>>
  <2>1. \A n \in Notes : n = <<n[1], n[2]>>
    BY DEF Notes
  <2>. QED
    BY <2>1, AuthorityIs
<1>6. <<"paused", "next">> \in Notes
  BY DEF Notes
<1>. QED
  BY <1>3, <1>4, <1>5, <1>6, Zenon DEF Arm, Refused

\* The request leaves.
LEMMA FireStep ==
    ASSUME IInv, NEW p \in Proc, Fire(p)
    PROVE  IInv'
<1>1. op.by = p /\ op.at = "fire" /\ op.kind \in {"auto", "send"}
      /\ UNCHANGED <<policy, issued, files, printing, turn, ctl, left>>
  BY DEF Fire
<1>2. op.kind \notin {"free", "dead"}
  BY <1>1
<1>3. config' \in {"free", config}
  BY DEF Fire
<1>4. CASE op.kind = "auto" /\ Refused(p, "held", "next") /\ UNCHANGED history
  <2>1. PICK n \in Notes : n = <<"held", "next">>
    BY DEF Notes
  <2>2. Scalars'
    BY <1>1, <1>3, <1>4 DEF IInv, Scalars, files, history
  <2>. QED
    BY <1>1, <1>4, <2>1, <2>2, RefusedStep DEF Refused, files, history
<1>5. CASE /\ \/ /\ op.kind = "auto" /\ requests' = requests + 1
                 /\ launches' = [launches EXCEPT ![op.t].auto = @ + 1]
              \/ /\ op.kind = "send" /\ requests' = requests
                 /\ launches' = [launches EXCEPT ![op.t].hand = @ + 1]
           /\ op' = [op EXCEPT !.at = "wait"]
           /\ UNCHANGED pass
  <2>1. PICK t \in Turn : t = op.t
    BY <1>2, HolderIs
  <2>2. requests' \in Nat /\ requests' + 0 <= used
    BY <1>1, <1>2, <1>5, HolderIs DEF Paid, DueToday
  <2>3. Scalars'
    BY <1>1, <1>3, <2>2 DEF IInv, Scalars, files
  <2>4. Driven' /\ Published' /\ Lasting
    BY <1>1, <1>5, StaysStep DEF files
  <2>5. /\ op' \in OpState /\ Holding' /\ op'.at = "wait" /\ op'.by = op.by /\ op'.t = op.t
        /\ op'.kind = op.kind /\ op'.todo = op.todo
    BY <1>1, <1>2, <1>5, <2>4, LockMoves DEF files
  <2>6. Unsettled' /\ Armed'
    BY <1>1, <1>2, <2>5, HolderIs DEF Unsettled, Armed, files
  <2>7. /\ launches' \in [Turn -> [auto : Nat, hand : Nat]]
        /\ launches'[t].auto + launches'[t].hand = launches[t].auto + launches[t].hand + 1
        /\ \A u \in Turn \ {t} : launches'[u] = launches[u]
    <3>0. launches \in [Turn -> [auto : Nat, hand : Nat]]
      BY <1>2, HolderIs
    <3>1. PICK n \in Nat, m \in Nat : n = launches[t].auto /\ m = launches[t].hand
      BY <3>0
    <3>. DEFINE k == IF op.kind = "auto" THEN n + 1 ELSE n
                h == IF op.kind = "auto" THEN m ELSE m + 1
                l == [auto |-> k, hand |-> h]
    <3>2. launches' = [launches EXCEPT ![t] = l]
      <4>1. CASE op.kind = "auto" /\ launches' = [launches EXCEPT ![op.t].auto = @ + 1]
        <5>1. [launches[t] EXCEPT !.auto = n + 1] = [auto |-> n + 1, hand |-> m]
          BY <3>0, <3>1
        <5>. QED
          BY <2>1, <3>1, <4>1, <5>1
      <4>2. CASE op.kind = "send" /\ launches' = [launches EXCEPT ![op.t].hand = @ + 1]
        <5>1. [launches[t] EXCEPT !.hand = m + 1] = [auto |-> n, hand |-> m + 1]
          BY <3>0, <3>1
        <5>. QED
          BY <2>1, <3>1, <4>2, <5>1
      <4>. QED
        BY <1>5, <4>1, <4>2
    <3>3. k \in Nat /\ h \in Nat /\ k + h = n + m + 1
      OBVIOUS
    <3>. HIDE DEF k, h
    <3>4. l \in [auto : Nat, hand : Nat] /\ l.auto = k /\ l.hand = h
      BY <3>3
    <3>. QED
      BY <3>0, <3>1, <3>2, <3>3, <3>4
  <2>8. Paid'
    <3>1. DueToday' = 0 /\ Due(t) = 1 /\ \A u \in Turn : Due(u)' = 0
      BY <1>1, <2>1, <2>5 DEF DueToday, Due
    <3>2. used' = used /\ turn' = turn /\ file' = file
      BY <1>1 DEF files
    <3>3. ASSUME NEW u \in Turn
          PROVE  /\ turn[u].at \in Early => launches'[u].auto + launches'[u].hand = 0
                 /\ file[u].body # "gone" =>
                        launches'[u].auto + launches'[u].hand + 0 <= file[u].tries
      <4>1. /\ turn[u].at \in Early => launches[u].auto + launches[u].hand = 0
            /\ file[u].body # "gone" =>
                  launches[u].auto + launches[u].hand + Due(u) <= file[u].tries
        BY <1>2, HolderIs DEF Paid
      <4>2. launches[u].auto \in Nat /\ launches[u].hand \in Nat /\ file[u].tries \in Nat
        BY <1>2, HolderIs DEF FileState
      <4>3. CASE u = t
        <5>1. turn[u].at \notin Early
          BY <1>2, <2>1, <4>3, HolderIs
        <5>. QED
          BY <2>7, <3>1, <4>1, <4>2, <4>3, <5>1
      <4>4. CASE u # t
        BY <1>1, <2>1, <2>7, <4>1, <4>2, <4>4 DEF Due
      <4>. QED
        BY <4>3, <4>4
    <3>. QED
      BY <2>2, <2>7, <3>1, <3>2, <3>3 DEF Paid
  <2>. QED
    BY <2>3, <2>4, <2>5, <2>6, <2>8 DEF IInv, Locked
<1>. QED
  BY <1>1, <1>4, <1>5 DEF Fire

\* The user's command is over.
LEMMA ByHandEndsStep ==
    ASSUME IInv, Scalars', NEW p \in Proc, op.by = p, op.kind \in {"send", "discard", "clear"},
           ByHandEnds(p), pass' = pass, UNCHANGED <<launches, requests, used, issued>>,
           Counted, Lasting,
           ctl'[p].phase = "idle" /\ (\A q \in Proc \ {p} : ctl'[q] = ctl[q]) => Published'
    PROVE  IInv'
<1>. DEFINE x == "idle"
            c == [ctl[p] EXCEPT !.phase = x]
<1>1. ctl' = [ctl EXCEPT ![p] = c] /\ op' = Free /\ pass' = [pass EXCEPT ![p] = pass[p]]
  BY ProcessIs DEF ByHandEnds
<1>2. x = "idle"
  OBVIOUS
<1>. HIDE DEF x
<1>3. /\ c \in CtlState /\ c.phase = "idle" /\ c.sid = ctl[p].sid /\ c.live = ctl[p].live
      /\ c.cached = ctl[p].cached /\ c.suspended = ctl[p].suspended
      /\ c.stopped = ctl[p].stopped /\ c.again = ctl[p].again /\ c.owed = ctl[p].owed
  BY <1>2, ProcessIs DEF CtlState
<1>. HIDE DEF c
<1>4. Tidy(c, pass[p], issued)
  BY <1>3, ProcessIs DEF Tidy
<1>5. Published'
  BY <1>1, <1>3, ProcessIs
<1>. QED
  BY <1>1, <1>3, <1>4, <1>5, ProcessIs, FreedStep

\* The answer, or the error.
LEMMA RespondStep ==
    ASSUME IInv, NEW p \in Proc, Respond(p)
    PROVE  IInv'
<1>1. op.by = p /\ op.at = "wait"
      /\ UNCHANGED <<policy, issued, files, config, printing, turn, history>>
  BY DEF Respond
<1>2. op.kind \in {"auto", "send"}
  BY <1>1, Names DEF IInv, Locked, Holding, Free, Dead, OpState
<1>3. left' \in LeftState /\ left'.turns = left.turns
  BY EventIs DEF Respond, IInv, Scalars
<1>4. Scalars'
  BY <1>1, <1>3 DEF IInv, Scalars, files, history
<1>5. op.kind = "auto" => pass[p].at = "busy" /\ pass[p].cur = op.t /\ op.t \in Turn
  BY <1>1 DEF IInv, Locked, Holding
<1>6. CASE op.kind = "auto" /\ UNCHANGED ctl
           /\ (Refused(p, "held", "next") \/ Refused(p, "held", "halt"))
  <2>1. PICK n \in Notes :
           op' = Free /\ pass' = [pass EXCEPT ![p].at = "note", ![p].note = n]
    BY <1>6 DEF Notes, Refused
  <2>. QED
    BY <1>1, <1>3, <1>4, <1>6, <2>1, RefusedStep DEF files, history
<1>7. CASE op' = [op EXCEPT !.at = "ack"] /\ UNCHANGED <<ctl, pass>>
  <2>1. Driven' /\ Published' /\ Lasting
    BY <1>1, <1>3, <1>7, StaysStep DEF files
  <2>2. /\ op' \in OpState /\ Holding' /\ op'.at = "ack" /\ op'.by = op.by /\ op'.t = op.t
        /\ op'.kind = op.kind /\ op'.todo = op.todo
    BY <1>1, <1>2, <1>7, <2>1, LockMoves DEF files
  <2>3. Unsettled' /\ Armed'
    BY <1>1, <1>2, <2>2, HolderIs DEF Unsettled, Armed, files
  <2>4. Paid'
    <3>1. DueToday' = DueToday /\ \A t \in Turn : Due(t)' = Due(t)
      BY <1>1, <2>2 DEF DueToday, Due
    <3>2. UNCHANGED <<launches, requests, used, turn, file>>
      BY <1>1 DEF files, history
    <3>. QED
      BY <1>2, <3>1, <3>2, HolderIs DEF Paid
  <2>. QED
    BY <1>4, <2>1, <2>2, <2>3, <2>4 DEF IInv, Locked
<1>8. CASE /\ op.kind = "auto" /\ pass[p].retry + 1 < MaxAttempts /\ op' = Free /\ ctl' = ctl
           /\ pass' = [pass EXCEPT ![p].at = "lock", ![p].retry = @ + 1]
  <2>. DEFINE x == "lock"
              n == pass[p].retry + 1
              r == [pass[p] EXCEPT !.at = x, !.retry = n]
  <2>1. pass' = [pass EXCEPT ![p] = r] /\ ctl' = [ctl EXCEPT ![p] = ctl[p]]
    BY <1>8, ProcessIs DEF PassState
  <2>2. x = "lock" /\ n \in Nat /\ n < MaxAttempts
    BY <1>8, ProcessIs DEF PassState
  <2>. HIDE DEF x, n
  <2>3. /\ r \in PassState /\ r.at = "lock" /\ r.epoch = pass[p].epoch /\ r.todo = pass[p].todo
        /\ r.cur = pass[p].cur /\ r.retry = n
    BY <2>2, ProcessIs DEF PassState
  <2>. HIDE DEF r
  <2>4. Tidy(ctl[p], r, issued)
    BY <1>5, <1>8, <2>2, <2>3, ProcessIs, Names DEF Tidy
  <2>5. \A u \in r.todo \cup {r.cur} : u # None => Candidate(u, r.epoch)
    BY <2>3, ProcessIs
  <2>6. Published' /\ Lasting /\ Standing
    BY <1>1, <1>3, <2>1, <2>3, <2>4, <2>5, ProcessIs, ProcessGoes DEF files
  <2>. QED
    BY <1>1, <1>4, <1>8, <2>1, <2>3, <2>4, <2>5, <2>6, ProcessIs, StandingCounts, FreedStep
       DEF files, history
<1>9. CASE op.kind = "send" /\ ByHandEnds(p) /\ UNCHANGED pass
  <2>1. ctl[p].phase = "command"
    BY <1>1, <1>9 DEF IInv, Locked, Holding
  <2>2. ASSUME ctl'[p].phase = "idle", \A q \in Proc \ {p} : ctl'[q] = ctl[q]
        PROVE  Published'
    <3>1. \A t \in Turn : turn[t].at = "open" => ctl'[Owner[t]].phase = "turn"
      BY <2>1, <2>2, Names DEF IInv, Published
    <3>. QED
      BY <1>1, <1>3, <3>1, PublishedSame, ProcessIs DEF files
  <2>3. Lasting /\ Counted
    BY <1>1 DEF Lasting, Counted, files
  <2>. QED
    BY <1>1, <1>4, <1>9, <2>2, <2>3, ByHandEndsStep DEF files, history
<1>. QED
  BY <1>2, <1>6, <1>7, <1>8, <1>9 DEF Respond

\* A file of a turn in the hands of a holder that waits for it in a command
\* leaves the turns open.
LEMMA OpenTurns ==
    ASSUME IInv, NEW p \in Proc, ctl[p].phase # "turn",
           \A q \in Proc \ {p} : ctl'[q] = ctl[q]
    PROVE  \A t \in Turn : turn[t].at = "open" => ctl'[Owner[t]].phase = "turn"
BY Names DEF IInv, Published

\* accepted.json is written.
LEMMA AcknowledgeStep ==
    ASSUME IInv, NEW p \in Proc, Acknowledge(p)
    PROVE  IInv'
<1>1. op.by = p /\ op.at = "ack"
      /\ UNCHANGED <<policy, issued, stops, halt, used, config, printing, turn, pass, left,
                     history>>
  BY DEF Acknowledge
<1>2. op.kind \in {"auto", "send"}
  BY <1>1, Names DEF IInv, Locked, Holding, Free, Dead, OpState
<1>3. Scalars'
  BY <1>1 DEF IInv, Scalars, history
<1>4. PICK t \in Turn : t = op.t
  BY <1>2, HolderIs
<1>. DEFINE y == IF op.kind = "auto" THEN "auto" ELSE "hand"
            f == [file[t] EXCEPT !.ack = y]
<1>5. file' = [file EXCEPT ![t] = f]
  BY <1>4 DEF Acknowledge
<1>6. y \in {"auto", "hand"}
  OBVIOUS
<1>. HIDE DEF y
<1>7. /\ f \in FileState /\ f.body = file[t].body /\ f.proof = file[t].proof
      /\ f.tries = file[t].tries /\ f.ack = y /\ f.receipt = file[t].receipt
  BY <1>2, <1>6, HolderIs DEF FileState
<1>. HIDE DEF f
<1>8. Sane(turn[t], f, issued)
  BY <1>2, <1>4, <1>7, HolderIs DEF Sane
<1>9. file'[t] = f /\ \A u \in Turn \ {t} : file'[u] = file[u]
  BY <1>2, <1>5, HolderIs
<1>10. Counted /\ Lasting
  BY <1>1, <1>7, <1>9 DEF Counted, Lasting
<1>11. ASSUME \A u \in Turn : turn[u].at = "open" => ctl'[Owner[u]].phase = "turn"
       PROVE  Published'
  BY <1>1, <1>2, <1>4, <1>5, <1>7, <1>8, <1>11, HolderIs, FileStep
<1>12. CASE op.kind = "auto" /\ op' = [op EXCEPT !.at = "receipt"] /\ UNCHANGED ctl
  <2>1. \A u \in Turn : turn[u].at = "open" => ctl'[Owner[u]].phase = "turn"
    BY <1>12 DEF IInv, Published
  <2>2. Published'
    BY <1>11, <2>1
  <2>3. Driven'
    BY <1>1, <1>10, <1>12, DrivenSame
  <2>4. /\ op' \in OpState /\ Holding' /\ op'.at = "receipt" /\ op'.by = op.by /\ op'.t = op.t
        /\ op'.kind = op.kind /\ op'.todo = op.todo
    <3>1. \A u \in Turn : file[u].body # "none" => file'[u].body # "none"
      BY <1>7, <1>9
    <3>. QED
      BY <1>1, <1>2, <1>10, <1>12, <3>1, LockMoves
  <2>5. Unsettled' /\ Armed'
    BY <1>1, <1>2, <1>4, <1>7, <1>9, <2>4, HolderIs DEF Unsettled, Armed
  <2>6. Paid'
    <3>1. DueToday' = DueToday /\ \A u \in Turn : Due(u)' = Due(u)
      BY <1>1, <2>4 DEF DueToday, Due
    <3>. QED
      BY <1>1, <1>10, <2>2, <3>1, PaidSame DEF history
  <2>. QED
    BY <1>3, <2>2, <2>3, <2>4, <2>5, <2>6 DEF IInv, Locked
<1>13. CASE op.kind = "send" /\ ByHandEnds(p)
  <2>1. ctl[p].phase # "turn"
    BY <1>1, <1>13 DEF IInv, Locked, Holding
  <2>2. ASSUME \A q \in Proc \ {p} : ctl'[q] = ctl[q]
        PROVE  Published'
    BY <1>11, <2>1, <2>2, OpenTurns
  <2>. QED
    BY <1>1, <1>3, <1>10, <1>13, <2>2, ByHandEndsStep DEF history
<1>. QED
  BY <1>2, <1>12, <1>13 DEF Acknowledge

\* The receipt of what was sent automatically.
LEMMA SaveReceiptStep ==
    ASSUME IInv, NEW p \in Proc, SaveReceipt(p)
    PROVE  IInv'
<1>1. op.by = p /\ op.kind = "auto" /\ op.at = "receipt" /\ op' = Free
      /\ UNCHANGED <<policy, issued, stops, halt, used, config, printing, turn, ctl, left,
                     history>>
  BY DEF SaveReceipt, Sending
<1>2. op.kind \notin {"free", "dead"} /\ pass[p].at = "busy"
  BY <1>1 DEF IInv, Locked, Holding
<1>3. Scalars'
  BY <1>1 DEF IInv, Scalars, history
<1>4. PICK t \in Turn : t = op.t
  BY <1>2, HolderIs
<1>. DEFINE y == "accepted"
            f == [file[t] EXCEPT !.receipt = y]
            x == "next"
            r == [pass[p] EXCEPT !.at = x, !.cur = None]
<1>5. file' = [file EXCEPT ![t] = f] /\ pass' = [pass EXCEPT ![p] = r]
      /\ ctl' = [ctl EXCEPT ![p] = ctl[p]]
  BY <1>1, <1>4, ProcessIs DEF SaveReceipt
<1>6. y = "accepted" /\ x = "next"
  OBVIOUS
<1>. HIDE DEF y, x
<1>7. /\ f \in FileState /\ f.body = file[t].body /\ f.proof = file[t].proof
      /\ f.tries = file[t].tries /\ f.ack = file[t].ack /\ f.receipt = "accepted"
  <2>1. file[t] \in FileState /\ y \in {"accepted"}
    BY <1>2, <1>6, HolderIs
  <2>. HIDE DEF r
  <2>. QED
    BY <1>6, <2>1 DEF FileState
<1>8. /\ r \in PassState /\ r.at = "next" /\ r.epoch = pass[p].epoch /\ r.todo = pass[p].todo
      /\ r.cur = None /\ r.retry = pass[p].retry
  BY <1>6, ProcessIs DEF PassState
<1>. HIDE DEF f, r
<1>9. Sane(turn[t], f, issued)
  BY <1>2, <1>4, <1>7, HolderIs DEF Sane
<1>10. \A u \in Turn : turn[u].at = "open" => ctl'[Owner[u]].phase = "turn"
  BY <1>1 DEF IInv, Published
<1>11. Published' /\ Lasting
  BY <1>1, <1>2, <1>4, <1>5, <1>7, <1>9, <1>10, HolderIs, FileStep
<1>12. Counted
  BY <1>2, <1>5, <1>7, HolderIs DEF Counted
<1>13. Tidy(ctl[p], r, issued)
  BY <1>2, <1>8, ProcessIs DEF Tidy
<1>14. \A u \in r.todo \cup {r.cur} : u # None => Candidate(u, r.epoch)
  BY <1>8, ProcessIs
<1>. QED
  BY <1>1, <1>3, <1>5, <1>8, <1>11, <1>12, <1>13, <1>14, ProcessIs, FreedStep DEF history

\* A command of the user takes the lock.
LEMMA CommandStep ==
    ASSUME IInv, NEW p \in Proc, NEW k \in {"send", "discard", "clear"}, NEW t \in Turn,
           NEW S \in SUBSET Turn, NEW x \in {"reserve", "clean"}, Command(p, k, t, S, x),
           x = IF k = "send" THEN "reserve" ELSE "clean",
           \A u \in S \cup {t} : turn[u].at \notin Early /\ file[u].body # "none",
           k = "send" =>
               /\ file[t].receipt = "none" /\ file[t].body = "present" /\ file[t].ack = "none"
               /\ ~Spent(t) /\ EarlierPending(t) = {}
    PROVE  IInv'
<1>. DEFINE y == "command"
            c == [ctl[p] EXCEPT !.phase = y]
<1>1. /\ ctl[p].phase = "idle" /\ ctl' = [ctl EXCEPT ![p] = c]
      /\ op' = [by |-> p, kind |-> k, t |-> t, todo |-> S, at |-> x]
      /\ UNCHANGED <<policy, issued, files, config, printing, turn, pass, history>>
  BY DEF Command
<1>2. y = "command"
  OBVIOUS
<1>. HIDE DEF y
<1>3. /\ c \in CtlState /\ c.phase = "command" /\ c.sid = ctl[p].sid /\ c.live = ctl[p].live
      /\ c.cached = ctl[p].cached /\ c.suspended = ctl[p].suspended
      /\ c.stopped = ctl[p].stopped /\ c.again = ctl[p].again /\ c.owed = ctl[p].owed
  BY <1>2, ProcessIs DEF CtlState
<1>. HIDE DEF c
<1>4. left' \in LeftState /\ left'.turns = left.turns
  BY EventIs DEF Command, IInv, Scalars
<1>5. Scalars'
  BY <1>1, <1>4 DEF IInv, Scalars, files, history
<1>6. Tidy(c, pass[p], issued) /\ pass' = [pass EXCEPT ![p] = pass[p]]
  BY <1>1, <1>3, ProcessIs DEF Tidy
<1>7. Driven' /\ Published' /\ Lasting
  BY <1>1, <1>3, <1>4, <1>6, ProcessIs, ProcessGoes DEF files
<1>8. ctl'[p].phase = "command"
  BY <1>1, <1>3, ProcessIs
<1>9. Locked'
  <2>1. UNCHANGED <<turn, file, launches, requests, used>>
    BY <1>1 DEF files, history
  <2>. QED
    BY <1>1, <1>7, <1>8, <2>1, LockTaken
<1>. QED
  BY <1>5, <1>7, <1>9 DEF IInv

LEMMA SendStep ==
    ASSUME IInv, NEW p \in Proc, NEW t \in Turn, Send(p, t)
    PROVE  IInv'
<1>1. Sane(turn[t], file[t], issued) /\ file[t].body = "present"
      /\ file[t].receipt = "none" /\ file[t].ack = "none"
  BY DEF IInv, Published, Send, Terminal
<1>2. turn[t].at \notin Early
  BY <1>1 DEF Sane
<1>3. PICK S \in SUBSET Turn : S = {}
  OBVIOUS
<1>4. Command(p, "send", t, S, "reserve") /\ ~Spent(t) /\ EarlierPending(t) = {}
  BY <1>3 DEF Send
<1>. QED
  BY <1>1, <1>2, <1>3, <1>4, CommandStep

LEMMA DiscardStep ==
    ASSUME IInv, NEW p \in Proc, NEW t \in Turn, Discard(p, t)
    PROVE  IInv'
<1>1. Sane(turn[t], file[t], issued)
      /\ (file[t].body = "present" \/ file[t].receipt = "discarded")
  BY DEF IInv, Published, Discard
<1>2. turn[t].at \notin Early /\ file[t].body # "none"
  BY <1>1 DEF Sane
<1>3. PICK S \in SUBSET Turn : S = {}
  OBVIOUS
<1>4. Command(p, "discard", t, S, "clean")
  BY <1>3 DEF Discard
<1>. QED
  BY <1>2, <1>3, <1>4, CommandStep

LEMMA ClearAcceptedStep ==
    ASSUME IInv, NEW p \in Proc, ClearAccepted(p)
    PROVE  IInv'
<1>. DEFINE accepted ==
         {t \in Turn : file[t].ack # "none"
             \/ (file[t].receipt = "accepted"
                 /\ (file[t].body = "present" \/ file[t].side # "none"))}
<1>1. accepted \in SUBSET Nat /\ accepted # {}
      /\ Command(p, "clear", Min(accepted), accepted \ {Min(accepted)}, "clean")
  BY Names DEF ClearAccepted
<1>2. \A t \in accepted : t \in Turn /\ turn[t].at \notin Early /\ file[t].body # "none"
  BY DEF IInv, Published, Sane
<1>. HIDE DEF accepted
<1>3. PICK t \in Turn : t = Min(accepted) /\ t \in accepted
  BY <1>1, <1>2, MinIs
<1>4. PICK S \in SUBSET Turn : S = accepted \ {t}
  BY <1>2
<1>5. Command(p, "clear", t, S, "clean")
  BY <1>1, <1>3, <1>4
<1>6. \A u \in S \cup {t} : turn[u].at \notin Early /\ file[u].body # "none"
  BY <1>2, <1>3, <1>4
<1>. QED
  BY <1>5, <1>6, CommandStep

\* A clean-up of an event goes on: its files f say that it is over.
LEMMA CleaningStep ==
    ASSUME IInv, Scalars', NEW p \in Proc, op.by = p,
           op.kind \in {"discard", "clear", "expire"}, NEW x \in {"body", "rest"},
           op' = [op EXCEPT !.at = x], NEW f \in FileState,
           file' = [file EXCEPT ![op.t] = f], Sane(turn[op.t], f, issued),
           f.body # "none", f.receipt # "none", x = "rest" => f.body = "gone",
           f.body # "gone" => file[op.t].body # "gone" /\ f.tries = file[op.t].tries,
           UNCHANGED <<turn, ctl, pass, left, issued, launches, requests, used>>
    PROVE  IInv'
<1>1. op.kind \notin {"free", "dead"}
  OBVIOUS
<1>2. \A u \in Turn : turn[u].at = "open" => ctl'[Owner[u]].phase = "turn"
  BY DEF IInv, Published
<1>3. Published' /\ Lasting
  BY <1>1, <1>2, HolderIs, FileStep
<1>4. Driven'
  BY <1>3, DrivenSame
<1>5. file'[op.t] = f /\ \A u \in Turn \ {op.t} : file'[u] = file[u]
  BY <1>1, HolderIs
<1>6. Counted
  BY <1>5 DEF Counted
<1>7. /\ op' \in OpState /\ Holding' /\ op'.at = x /\ op'.by = op.by /\ op'.t = op.t
      /\ op'.kind = op.kind /\ op'.todo = op.todo
  <2>1. \A u \in Turn : file[u].body # "none" => file'[u].body # "none"
    BY <1>5
  <2>. QED
    BY <1>3, <2>1, LockMoves
<1>8. Unsettled' /\ Armed'
  BY <1>5, <1>7 DEF Unsettled, Armed
<1>9. Paid'
  <2>1. DueToday' = 0 /\ \A u \in Turn : Due(u)' = 0
    BY <1>7 DEF DueToday, Due
  <2>. QED
    BY <1>3, <1>6, <2>1, PaidSame
<1>. QED
  BY <1>3, <1>4, <1>7, <1>8, <1>9 DEF IInv, Locked

LEMMA CleanReceiptStep ==
    ASSUME IInv, NEW p \in Proc, CleanReceipt(p)
    PROVE  IInv'
<1>1. op.by = p /\ op.kind \in {"discard", "clear", "expire"} /\ op.at = "clean"
      /\ UNCHANGED <<policy, issued, stops, halt, used, config, printing, turn, ctl, pass, left,
                     history>>
  BY DEF CleanReceipt, Cleaning
<1>2. PICK t \in Turn : t = op.t /\ file[t] \in FileState /\ Sane(turn[t], file[t], issued)
                        /\ file[t].body # "none" /\ turn[t].at \notin Early
  BY <1>1, HolderIs
<1>3. Scalars'
  BY <1>1 DEF IInv, Scalars, history
<1>. DEFINE y == IF file[t].receipt # "none" THEN file[t].receipt
                 ELSE IF op.kind = "discard" THEN "discarded" ELSE "accepted"
            f == [file[t] EXCEPT !.receipt = y]
<1>4. file' = [file EXCEPT ![t] = f] /\ op' = [op EXCEPT !.at = "body"]
  BY <1>2 DEF CleanReceipt
<1>5. y \in {"accepted", "discarded"}
  BY <1>2 DEF FileState
<1>. HIDE DEF y
<1>6. /\ f \in FileState /\ f.body = file[t].body /\ f.proof = file[t].proof
      /\ f.tries = file[t].tries /\ f.ack = file[t].ack /\ f.receipt = y
  BY <1>2, <1>5 DEF FileState
<1>. HIDE DEF f
<1>7. Sane(turn[t], f, issued)
  BY <1>2, <1>5, <1>6 DEF Sane
<1>8. f.body # "none" /\ f.receipt # "none"
      /\ (f.body # "gone" => file[t].body # "gone" /\ f.tries = file[t].tries)
  BY <1>2, <1>5, <1>6
<1>. QED
  BY <1>1, <1>2, <1>3, <1>4, <1>6, <1>7, <1>8, CleaningStep DEF history

LEMMA CleanBodyStep ==
    ASSUME IInv, NEW p \in Proc, CleanBody(p)
    PROVE  IInv'
<1>1. op.by = p /\ op.kind \in {"discard", "clear", "expire"} /\ op.at = "body"
      /\ UNCHANGED <<policy, issued, stops, halt, used, config, printing, turn, ctl, pass, left,
                     history>>
  BY DEF CleanBody, Cleaning
<1>2. PICK t \in Turn : t = op.t /\ file[t] \in FileState /\ Sane(turn[t], file[t], issued)
                        /\ file[t].receipt # "none" /\ turn[t].at \notin Early
  BY <1>1, HolderIs DEF Unsettled
<1>3. Scalars'
  BY <1>1 DEF IInv, Scalars, history
<1>. DEFINE y == "gone"
            f == [file[t] EXCEPT !.body = y]
<1>4. file' = [file EXCEPT ![t] = f] /\ op' = [op EXCEPT !.at = "rest"]
  BY <1>2 DEF CleanBody
<1>5. y = "gone"
  OBVIOUS
<1>. HIDE DEF y
<1>6. /\ f \in FileState /\ f.body = "gone" /\ f.proof = file[t].proof
      /\ f.tries = file[t].tries /\ f.ack = file[t].ack /\ f.receipt = file[t].receipt
  BY <1>2, <1>5 DEF FileState
<1>. HIDE DEF f
<1>7. Sane(turn[t], f, issued)
  BY <1>2, <1>6 DEF Sane
<1>8. f.body # "none" /\ f.receipt # "none" /\ f.body = "gone"
  BY <1>2, <1>6
<1>. QED
  BY <1>1, <1>2, <1>3, <1>4, <1>6, <1>7, <1>8, CleaningStep DEF history

\* The pass of the holder goes on at step x, with nothing in hand.
LEMMA PassGoesOn ==
    ASSUME IInv, NEW p \in Proc, pass[p].at = "busy", pass[p].cur = None,
           NEW x \in {"list", "end"}, pass' = [pass EXCEPT ![p].at = x]
    PROVE  \E r \in PassState :
             /\ pass' = [pass EXCEPT ![p] = r] /\ Tidy(ctl[p], r, issued)
             /\ \A t \in r.todo \cup {r.cur} : t # None => Candidate(t, r.epoch)
<1>. DEFINE r == [pass[p] EXCEPT !.at = x]
<1>1. pass' = [pass EXCEPT ![p] = r]
  OBVIOUS
<1>2. /\ r \in PassState /\ r.at = x /\ r.epoch = pass[p].epoch /\ r.todo = pass[p].todo
      /\ r.cur = None /\ r.retry = pass[p].retry
  BY ProcessIs DEF PassState
<1>. HIDE DEF r
<1>3. Tidy(ctl[p], r, issued)
  BY <1>2, ProcessIs DEF Tidy
<1>4. \A t \in r.todo \cup {r.cur} : t # None => Candidate(t, r.epoch)
  BY <1>2, ProcessIs
<1>. QED
  BY <1>1, <1>2, <1>3, <1>4

\* A turn without files.
LEMMA NoFileIs == /\ NoFile \in FileState /\ NoFile.body = "none" /\ NoFile.proof = None
                  /\ NoFile.tries = 0 /\ NoFile.ack = "none" /\ NoFile.receipt = "none"
<1>. DEFINE n == "none"
            z == 0
            f == [body |-> n, proof |-> None, side |-> n, tries |-> z, ack |-> n, receipt |-> n]
<1>1. NoFile = f /\ n = "none" /\ z = 0 /\ z \in Nat
  BY DEF NoFile
<1>2. /\ f \in FileState /\ f.body = n /\ f.proof = None /\ f.tries = z /\ f.ack = n
      /\ f.receipt = n
  <2>. HIDE DEF z
  <2>. QED
    BY <1>1 DEF FileState
<1>. QED
  BY <1>1, <1>2

LEMMA CleanRestStep ==
    ASSUME IInv, NEW p \in Proc, CleanRest(p)
    PROVE  IInv'
<1>1. op.by = p /\ op.kind \in {"discard", "clear", "expire"} /\ op.at = "rest"
      /\ UNCHANGED <<policy, issued, stops, halt, used, config, printing, turn, left, history>>
  BY DEF CleanRest, Cleaning
<1>2. PICK t \in Turn : t = op.t /\ file[t] \in FileState /\ Sane(turn[t], file[t], issued)
                        /\ file[t].receipt # "none" /\ turn[t].at \notin Early
                        /\ turn[t] \in TurnState
  BY <1>1, HolderIs DEF Unsettled
<1>3. Scalars'
  BY <1>1 DEF IInv, Scalars, history
<1>. DEFINE g == "gone"
            y == file[t].receipt
            f == [NoFile EXCEPT !.body = g, !.receipt = y]
<1>4. file' = [file EXCEPT ![t] = f]
  BY <1>2 DEF CleanRest
<1>5. g = "gone" /\ y \in {"accepted", "discarded"}
  BY <1>2 DEF FileState
<1>. HIDE DEF g, y
<1>6. /\ f \in FileState /\ f.body = "gone" /\ f.proof = None
      /\ f.tries = 0 /\ f.ack = "none" /\ f.receipt # "none"
  BY <1>5, NoFileIs DEF FileState
<1>. HIDE DEF f
<1>7. Sane(turn[t], f, issued)
  BY <1>2, <1>6, Names DEF Sane
<1>8. file'[t] = f /\ \A u \in Turn \ {t} : file'[u] = file[u]
  BY <1>1, <1>4, HolderIs
<1>9. Counted /\ Lasting
  BY <1>1, <1>6, <1>8 DEF Counted, Lasting
<1>10. ASSUME \A u \in Turn : turn[u].at = "open" => ctl'[Owner[u]].phase = "turn"
       PROVE  Published'
  <2>1. f.body # "none" => file[t].body # "none"
    BY <1>1, <1>2, HolderIs
  <2>. QED
    BY <1>1, <1>2, <1>4, <1>6, <1>7, <1>10, <2>1, FileStep
<1>11. CASE /\ op.todo # {} /\ UNCHANGED <<ctl, pass>>
            /\ op' = [op EXCEPT !.t = Min(op.todo), !.todo = @ \ {Min(op.todo)}, !.at = "clean"]
  <2>1. Published'
    BY <1>10, <1>11 DEF IInv, Published
  <2>2. Driven'
    BY <1>1, <1>9, <1>11, DrivenSame
  <2>3. op \in OpState /\ Holding /\ op.todo \in SUBSET Turn
    BY <1>1, HolderIs DEF OpState
  <2>4. PICK u \in Turn : u = Min(op.todo) /\ u \in op.todo
    BY <1>11, <2>3, MinIs, Names
  <2>5. PICK S \in SUBSET Turn : S = op.todo \ {u}
    BY <2>3
  <2>. DEFINE x == "clean"
              o == [op EXCEPT !.t = u, !.todo = S, !.at = x]
  <2>6. op' = o
    BY <1>11, <2>4, <2>5
  <2>7. x = "clean"
    OBVIOUS
  <2>. HIDE DEF x
  <2>8. o \in OpState /\ o.t = u /\ o.todo = S /\ o.at = "clean" /\ o.by = op.by
        /\ o.kind = op.kind
    BY <2>3, <2>7 DEF OpState
  <2>. HIDE DEF o
  <2>9. Holding'
    <3>1. ASSUME NEW w \in S \cup {u}
          PROVE  turn'[w].at \notin Early /\ file'[w].body # "none"
      <4>1. w \in op.todo /\ w \in Turn
        BY <2>4, <2>5
      <4>2. turn[w].at \notin Early /\ file[w].body # "none"
        BY <1>1, <2>3, <4>1 DEF Holding
      <4>. QED
        BY <1>1, <1>6, <1>8, <4>1, <4>2
    <3>. QED
      BY <1>1, <1>11, <2>3, <2>6, <2>8, <3>1 DEF Holding
  <2>10. Unsettled' /\ Armed'
    BY <1>1, <2>6, <2>8 DEF Unsettled, Armed
  <2>11. DueToday' = 0 /\ \A w \in Turn : Due(w)' = 0
    BY <1>1, <2>6, <2>8 DEF DueToday, Due
  <2>12. Paid'
    BY <1>1, <1>9, <2>1, <2>11, PaidSame DEF history
  <2>. QED
    BY <1>3, <2>1, <2>2, <2>6, <2>8, <2>9, <2>10, <2>12 DEF IInv, Locked
<1>12. CASE op.kind = "expire" /\ op' = Free /\ pass' = [pass EXCEPT ![p].at = "list"]
            /\ UNCHANGED ctl
  <2>1. pass[p].at = "busy" /\ pass[p].cur = None
    BY <1>1, <1>12, HolderIs DEF Holding
  <2>2. PICK r \in PassState :
             /\ pass' = [pass EXCEPT ![p] = r] /\ Tidy(ctl[p], r, issued)
             /\ \A w \in r.todo \cup {r.cur} : w # None => Candidate(w, r.epoch)
    BY <1>12, <2>1, PassGoesOn
  <2>3. Published' /\ ctl' = [ctl EXCEPT ![p] = ctl[p]]
    BY <1>10, <1>12, ProcessIs DEF IInv, Published
  <2>. QED
    BY <1>1, <1>3, <1>9, <1>12, <2>2, <2>3, ProcessIs, FreedStep DEF history
<1>13. CASE op.kind # "expire" /\ ByHandEnds(p) /\ UNCHANGED pass
  <2>1. ctl[p].phase # "turn"
    BY <1>1, <1>13, HolderIs DEF Holding
  <2>2. ASSUME \A q \in Proc \ {p} : ctl'[q] = ctl[q]
        PROVE  Published'
    BY <1>10, <2>1, <2>2, OpenTurns
  <2>. QED
    BY <1>1, <1>3, <1>9, <1>13, <2>2, ByHandEndsStep DEF history
<1>. QED
  BY <1>11, <1>12, <1>13 DEF CleanRest

LEMMA CleanAbortedStep ==
    ASSUME IInv, NEW p \in Proc, CleanAborted(p)
    PROVE  IInv'
<1>1. op.by = p /\ op.kind = "expire" /\ op' = Free /\ pass' = [pass EXCEPT ![p].at = "end"]
      /\ UNCHANGED <<policy, issued, files, config, printing, turn, ctl, left, history>>
  BY DEF CleanAborted
<1>2. pass[p].at = "busy" /\ pass[p].cur = None
  BY <1>1, HolderIs DEF Holding
<1>3. PICK r \in PassState :
             /\ pass' = [pass EXCEPT ![p] = r] /\ Tidy(ctl[p], r, issued)
             /\ \A w \in r.todo \cup {r.cur} : w # None => Candidate(w, r.epoch)
  BY <1>1, <1>2, PassGoesOn
<1>4. Scalars'
  BY <1>1 DEF IInv, Scalars, files, history
<1>5. Published' /\ Lasting /\ Standing /\ ctl' = [ctl EXCEPT ![p] = ctl[p]]
  BY <1>1, <1>3, ProcessIs, ProcessGoes DEF files
<1>. QED
  BY <1>1, <1>3, <1>4, <1>5, ProcessIs, StandingCounts, FreedStep DEF history, files

-----------------------------------------------------------------------------
(* The theorems *)

\* Before anything happens.
LEMMA NewIs == /\ New \in TurnState /\ New.at = "new" /\ New.origin = 0 /\ New.since = 0
               /\ ~New.settled /\ New.done = "unknown" /\ ~New.natural
<1>. DEFINE n == FALSE
            z == 0
            u == "unknown"
            x == "new"
            a == [at |-> x, sess |-> z, origin |-> z, sid |-> z, done |-> u, settled |-> n,
                  since |-> z, natural |-> n]
<1>1. New = a /\ z = 0 /\ z \in Nat /\ n \in BOOLEAN /\ ~n /\ u = "unknown" /\ x = "new"
  BY DEF New
<1>2. /\ a \in TurnState /\ a.at = x /\ a.origin = z /\ a.since = z /\ a.settled = n
      /\ a.done = u /\ a.natural = n
  <2>. HIDE DEF n, z, u, x
  <2>. QED
    BY <1>1 DEF TurnState
<1>. QED
  BY <1>1, <1>2

LEMMA Initially ==
    ASSUME Init
    PROVE  IInv
<1>1. policy \in Nat /\ policy <= 1 /\ issued = policy
  BY DEF Init
<1>2. left \in LeftState
  BY BudgetAssumption DEF Init, LeftState
<1>3. Scalars
  BY <1>1, <1>2, Names DEF Init, Scalars
<1>4. PICK c \in CtlState : c = Controller(1, policy)
  BY <1>1, ControllerIs
<1>5. c.cached = policy /\ c.sid = 1 /\ c.again = 0 /\ c.owed = 0
  BY <1>1, <1>4, ControllerIs
<1>6. ctl = [p \in Proc |-> c] /\ pass = [p \in Proc |-> Off]
  BY <1>4 DEF Init
<1>7. Driven
  <2>1. Tidy(c, Off, issued)
    BY <1>1, <1>5, OffIs, Names DEF Tidy
  <2>. QED
    BY <1>6, <2>1, OffIs DEF Driven
<1>8. turn = [t \in Turn |-> New] /\ file = [t \in Turn |-> NoFile]
  BY DEF Init
<1>9. Published
  <2>1. Sane(New, NoFile, issued)
    BY <1>1, NewIs, NoFileIs, Names DEF Sane
  <2>2. Behind(New, NoFile, New, TRUE) /\ Behind(New, NoFile, New, FALSE)
    BY NewIs, NoFileIs DEF Behind
  <2>3. \A t, u \in Turn : Behind(turn[t], file[t], turn[u], u \in left.turns)
    BY <1>8, NewIs, NoFileIs DEF Behind
  <2>. QED
    BY <1>8, <2>1, <2>3, NewIs, NoFileIs DEF Published
<1>10. Locked
  <2>1. op = Free /\ launches = [t \in Turn |-> [auto |-> 0, hand |-> 0]] /\ requests = 0
        /\ used = 0
    BY DEF Init
  <2>2. op \in OpState /\ op.kind = "free" /\ op.at = "free"
    BY <2>1 DEF OpState, Free
  <2>3. Holding /\ Unsettled /\ Armed
    BY <2>1, <2>2 DEF Holding, Unsettled, Armed
  <2>4. DueToday = 0 /\ \A t \in Turn : Due(t) = 0
    BY <2>2 DEF DueToday, Due
  <2>5. ASSUME NEW t \in Turn
        PROVE  /\ launches[t] \in [auto : Nat, hand : Nat]
               /\ launches[t].auto = 0 /\ launches[t].hand = 0 /\ file[t].tries = 0
    BY <1>8, <2>1, NoFileIs
  <2>6. Paid
    BY <2>1, <2>4, <2>5 DEF Paid
  <2>. QED
    BY <2>2, <2>3, <2>6 DEF Locked
<1>. QED
  BY <1>3, <1>7, <1>9, <1>10 DEF IInv

\* Every step of a process keeps the invariant.
LEMMA TurnsKeep ==
    ASSUME IInv, NEW p \in Proc, Turns(p) \/ Passing(p)
    PROVE  IInv'
BY PrepareStep, BeginStep, TurnEndsStep, CancelStep, PassBeginStep, PassListStep, PassNextStep,
   PassOverStep, PassNoteStep, PassLockStep DEF Turns, Passing

LEMMA HolderKeeps ==
    ASSUME IInv, NEW p \in Proc, Requesting(p) \/ Clearing(p)
    PROVE  IInv'
BY QuotaStep, ReserveStep, ArmStep, FireStep, RespondStep, AcknowledgeStep, SaveReceiptStep,
   CleanReceiptStep, CleanBodyStep, CleanRestStep, CleanAbortedStep DEF Requesting, Clearing

LEMMA UserKeeps ==
    ASSUME IInv, NEW p \in Proc, User(p)
    PROVE  IInv'
BY SendStep, DiscardStep, ClearAcceptedStep, AskModeStep, WriteModeStep, LeaveStep, WriteStopStep,
   SuccessorStep, CrashStep, RestartStep DEF User

LEMMA Inductive ==
    ASSUME IInv, [Next]_vars
    PROVE  IInv'
<1>1. CASE Next
  BY <1>1, TurnsKeep, HolderKeeps, UserKeeps, SettleStep, PublishBodyStep, PublishProofStep,
     RecoverStep DEF Next
<1>2. CASE UNCHANGED vars
  <2>1. UNCHANGED <<policy, issued, stops, halt, used, file, config, printing, op, turn, ctl,
                    pass, left, launches, requests>>
    BY <1>2 DEF vars, files, history
  <2>2. Driven' /\ Published' /\ Lasting
    BY <2>1, StaysStep
  <2>3. Scalars'
    BY <2>1 DEF IInv, Scalars
  <2>4. Standing
    BY <2>1 DEF Standing
  <2>5. op.kind \in {"send", "discard", "clear"} => ctl'[op.by].phase = "command"
    BY <2>1 DEF IInv, Locked, Holding
  <2>6. Locked'
    BY <2>1, <2>2, <2>4, <2>5, LockKept
  <2>. QED
    BY <2>2, <2>3, <2>6 DEF IInv
<1>. QED
  BY <1>1, <1>2

\* The inductive invariant holds in every reachable state.
THEOREM Invariance == Spec => []IInv
BY Initially, Inductive, PTL DEF Spec

\* Every variable keeps its shape: no event is tried more often than the attempt
\* files allow, and no process believes in a consent that nobody gave.
THEOREM TypeCorrect == Spec => []TypeOK
<1>1. ASSUME IInv PROVE TypeOK
  <2>1. /\ policy \in Epochs /\ halt \in Epochs /\ used \in 0 .. DailyEvents
        /\ stops \subseteq Proc \X Nat
        /\ config \in {"free", "held", "dead"} /\ printing \in Proc \cup {"free", "dead"}
    BY <1>1 DEF IInv, Scalars, Epochs
  <2>2. op.by \in Proc \cup {None} /\ op.t \in Turn \cup {None} /\ op.todo \subseteq Turn
    BY <1>1 DEF IInv, Locked, OpState
  <2>3. ASSUME NEW t \in Turn
        PROVE  /\ turn[t].origin \in Epochs /\ turn[t].since \in Epochs
               /\ file[t].proof \in Epochs \cup {None} /\ file[t].tries \in 0 .. MaxAttempts
    <3>1. turn[t] \in TurnState /\ file[t] \in FileState /\ Sane(turn[t], file[t], issued)
          /\ issued \in Nat /\ MaxAttempts \in Nat
      BY <1>1, Names DEF IInv, Published, Scalars
    <3>2. turn[t].origin \in Nat /\ turn[t].since \in Nat
          /\ file[t].proof \in Nat \cup {None} /\ file[t].tries \in Nat
      BY <3>1 DEF TurnState, FileState
    <3>3. turn[t].origin <= turn[t].since /\ turn[t].since <= issued
          /\ file[t].tries <= MaxAttempts
          /\ (file[t].proof \notin {None, 0} => file[t].proof = turn[t].origin)
      BY <3>1 DEF Sane
    <3>. QED
      BY <3>1, <3>2, <3>3 DEF Epochs
  <2>4. file \in [Turn -> [body : {"none", "present", "gone"}, proof : Epochs \cup {None},
                           side : {"none", "paused", "held"}, tries : 0 .. MaxAttempts,
                           ack : {"none", "auto", "hand"},
                           receipt : {"none", "accepted", "discarded"}]]
    <3>1. file \in [Turn -> FileState]
      BY <1>1 DEF IInv, Published
    <3>. QED
      BY <2>3, <3>1 DEF FileState
  <2>5. ASSUME NEW p \in Proc
        PROVE  /\ ctl[p].cached \in Epochs
               /\ {ctl[p].again, ctl[p].owed} \subseteq 0 .. ctl[p].sid
               /\ pass[p].todo \subseteq Turn /\ pass[p].retry < MaxAttempts
    BY <1>1, ProcessIs DEF Tidy, CtlState, PassState, Epochs
  <2>. QED
    BY <2>1, <2>2, <2>3, <2>4, <2>5 DEF TypeOK
<1>. QED
  BY <1>1, Invariance, PTL

\* A request has been paid for on disk before it leaves, in attempts of its event
\* and in requests of the day, wherever a process crashes and whoever retries.
THEOREM PaidInAdvanceHolds == Spec => []PaidInAdvance
<1>1. ASSUME IInv PROVE PaidInAdvance
  <2>1. Paid /\ requests \in Nat /\ used \in Nat /\ file \in [Turn -> FileState]
    BY <1>1 DEF IInv, Locked, Scalars, Published
  <2>2. ASSUME NEW t \in Turn, file[t].body = "present"
        PROVE  launches[t].auto + launches[t].hand <= file[t].tries
    <3>1. launches[t].auto \in Nat /\ launches[t].hand \in Nat /\ file[t].tries \in Nat
      BY <2>1 DEF Paid, FileState
    <3>2. launches[t].auto + launches[t].hand + Due(t) <= file[t].tries /\ Due(t) \in {0, 1}
      BY <2>1, <2>2 DEF Paid, Due
    <3>. QED
      BY <3>1, <3>2
  <2>3. requests <= used
    BY <2>1 DEF Paid, DueToday
  <2>. QED
    BY <2>2, <2>3 DEF PaidInAdvance
<1>. QED
  BY <1>1, Invariance, PTL

\* Activity under a live consent earns a pass that is not forgotten.
THEOREM PassEarnedHolds == Spec => []PassEarned
<1>1. ASSUME IInv, NEW p \in Proc, ctl[p].owed # 0, Live(p, ctl[p].owed), MayPass(p)
      PROVE  pass[p].at # "off" /\ (pass[p].at = "begin" \/ ctl[p].again = ctl[p].owed)
  BY <1>1, ProcessIs DEF Tidy, Live, MayPass
<1>2. IInv => PassEarned
  BY <1>1 DEF PassEarned
<1>. QED
  BY <1>2, Invariance, PTL

-----------------------------------------------------------------------------
(* What a step may never do *)

\* Only the holder of the lock sends, and what it has in hand.
LEMMA SentIs ==
    ASSUME IInv, [Next]_vars, NEW t \in Turn, NEW k \in {"auto", "hand"}, SentBy(t, k)
    PROVE  /\ op.t = t /\ op.at = "fire" /\ op.kind \in {"auto", "send"}
           /\ k = "auto" => op.kind = "auto"
<1>1. launches' # launches
  BY DEF SentBy
<1>2. PICK p \in Proc : Fire(p)
  <2>1. ~UNCHANGED vars /\ Next
    BY <1>1 DEF vars, history
  <2>2. ASSUME NEW p \in Proc, Turns(p) \/ Passing(p) PROVE FALSE
    BY <1>1, <2>2 DEF Turns, Passing, Prepare, Begin, TurnEnds, Cancel, PassBegin, PassList,
       PassNext, PassOver, PassNote, PassLock, history
  <2>3. ASSUME NEW p \in Proc, Requesting(p) \/ Clearing(p) PROVE Fire(p)
    BY <1>1, <2>3 DEF Requesting, Clearing, Quota, Reserve, Arm, Respond, Acknowledge,
       SaveReceipt, CleanReceipt, CleanBody, CleanRest, CleanAborted, history
  <2>4. ASSUME NEW p \in Proc, User(p) PROVE FALSE
    BY <1>1, <2>4 DEF User, Send, Discard, ClearAccepted, Command, AskMode, WriteMode, Leave,
       WriteStop, Successor, Crash, Restart, history
  <2>5. ASSUME NEW u \in Turn, Settle(u) \/ PublishBody(u) \/ PublishProof(u) PROVE FALSE
    BY <1>1, <2>5 DEF Settle, PublishBody, PublishProof, history
  <2>6. ASSUME Recover PROVE FALSE
    BY <1>1, <2>6 DEF Recover, history
  <2>. QED
    BY <2>1, <2>2, <2>3, <2>4, <2>5, <2>6 DEF Next
<1>3. op.at = "fire" /\ op.kind \in {"auto", "send"}
  BY <1>2 DEF Fire
<1>4. launches \in [Turn -> [auto : Nat, hand : Nat]] /\ op.t \in Turn
  BY <1>3, HolderIs
<1>5. CASE op.kind = "auto" /\ launches' = [launches EXCEPT ![op.t].auto = @ + 1]
  BY <1>3, <1>4, <1>5 DEF SentBy
<1>6. CASE op.kind = "send" /\ launches' = [launches EXCEPT ![op.t].hand = @ + 1]
  <2>1. op.t = t
    BY <1>4, <1>6 DEF SentBy
  <2>2. launches'[t].auto = launches[t].auto
    BY <1>4, <1>6
  <2>3. k # "auto"
    BY <2>2 DEF SentBy
  <2>. QED
    BY <1>3, <2>1, <2>3
<1>. QED
  BY <1>1, <1>2, <1>5, <1>6 DEF Fire, history

\* A turn that was accepted or discarded stays so, with the receipt it has.
Remains(f, g) ==
    /\ f.receipt # "none" => g.receipt = f.receipt
    /\ f.ack # "none" => g.ack # "none" \/ g.receipt # "none"
Remembered == \A t \in Turn : Remains(file[t], file'[t])

\* One file changes, and remains.
LEMMA RemainsStep ==
    ASSUME IInv, NEW t \in Turn, NEW f, file' = [file EXCEPT ![t] = f], Remains(file[t], f)
    PROVE  Remembered
BY DEF IInv, Published, Remembered, Remains

LEMMA PublishingRemembers ==
    ASSUME IInv, NEW t \in Turn, PublishBody(t) \/ PublishProof(t)
    PROVE  Remembered
<1>1. file \in [Turn -> FileState]
  BY DEF IInv, Published
<1>2. CASE file' = file
  BY <1>2 DEF Remembered, Remains
<1>3. CASE file' = [file EXCEPT ![t].body = "present"]
  <2>1. PICK f : f = [file[t] EXCEPT !.body = "present"]
    OBVIOUS
  <2>2. f.receipt = file[t].receipt /\ f.ack = file[t].ack
    BY <1>1, <2>1 DEF FileState
  <2>. QED
    BY <1>3, <2>1, <2>2, RemainsStep DEF Remains
<1>4. CASE PublishProof(t)
  <2>1. PICK y : file' = [file EXCEPT ![t].proof = y]
    BY <1>4 DEF PublishProof
  <2>2. PICK f : f = [file[t] EXCEPT !.proof = y]
    OBVIOUS
  <2>3. f.receipt = file[t].receipt /\ f.ack = file[t].ack
    BY <1>1, <2>2 DEF FileState
  <2>. QED
    BY <2>1, <2>2, <2>3, RemainsStep DEF Remains
<1>. QED
  BY <1>2, <1>3, <1>4 DEF PublishBody

LEMMA NotingRemembers ==
    ASSUME IInv, NEW p \in Proc, PassNote(p)
    PROVE  Remembered
<1>1. file \in [Turn -> FileState]
  BY DEF IInv, Published
<1>2. CASE file' = file
  BY <1>2 DEF Remembered, Remains
<1>3. CASE file' # file
  <2>1. PICK t \in Turn : t = pass[p].cur
    BY ProcessIs DEF PassNote, Tidy, PassState
  <2>2. PICK y : file' = [file EXCEPT ![t].side = y]
    BY <1>3, <2>1 DEF PassNote
  <2>3. PICK f : f = [file[t] EXCEPT !.side = y]
    OBVIOUS
  <2>4. f.receipt = file[t].receipt /\ f.ack = file[t].ack
    BY <1>1, <2>3 DEF FileState
  <2>. QED
    BY <2>2, <2>3, <2>4, RemainsStep DEF Remains
<1>. QED
  BY <1>2, <1>3

\* The holder of the lock writes what it has in hand, and never over a receipt.
LEMMA HolderRemembers ==
    ASSUME IInv, NEW p \in Proc, Requesting(p) \/ Clearing(p)
    PROVE  Remembered
<1>1. CASE file' = file
  BY <1>1 DEF Remembered, Remains
<1>2. CASE file' # file
  <2>1. op.at \in {"reserve", "ack", "receipt", "clean", "body", "rest"}
    BY <1>2 DEF Requesting, Clearing, Quota, Reserve, Arm, Fire, Respond, Acknowledge,
       SaveReceipt, CleanReceipt, CleanBody, CleanRest, CleanAborted, Sending, Cleaning, files
  <2>2. op.kind \notin {"free", "dead"}
    BY <2>1 DEF IInv, Locked, Holding, Free, Dead
  <2>3. PICK t \in Turn : t = op.t /\ file[t] \in FileState
    BY <2>2, HolderIs
  <2>4. CASE Reserve(p)
    <3>1. PICK f : f = [file[t] EXCEPT !.tries = file[t].tries + 1]
      OBVIOUS
    <3>2. file' = [file EXCEPT ![t] = f]
      BY <1>2, <2>3, <2>4, <3>1 DEF Reserve
    <3>3. f.receipt = file[t].receipt /\ f.ack = file[t].ack
      BY <2>3, <3>1 DEF FileState
    <3>. QED
      BY <3>2, <3>3, RemainsStep DEF Remains
  <2>5. CASE Acknowledge(p)
    <3>1. PICK y \in {"auto", "hand"} : file' = [file EXCEPT ![t].ack = y]
      BY <2>3, <2>5 DEF Acknowledge
    <3>2. PICK f : f = [file[t] EXCEPT !.ack = y]
      OBVIOUS
    <3>3. f.receipt = file[t].receipt /\ f.ack # "none"
      BY <2>3, <3>2 DEF FileState
    <3>. QED
      BY <3>1, <3>2, <3>3, RemainsStep DEF Remains
  <2>6. CASE SaveReceipt(p)
    <3>1. file[t].receipt = "none"
      BY <2>2, <2>3, <2>6, HolderIs DEF SaveReceipt, Sending, Unsettled
    <3>2. PICK f : f = [file[t] EXCEPT !.receipt = "accepted"]
      OBVIOUS
    <3>3. file' = [file EXCEPT ![t] = f]
      BY <2>3, <2>6, <3>2 DEF SaveReceipt
    <3>4. f.ack = file[t].ack
      BY <2>3, <3>2 DEF FileState
    <3>. QED
      BY <3>1, <3>3, <3>4, RemainsStep DEF Remains
  <2>7. CASE CleanReceipt(p)
    <3>1. PICK y : /\ file' = [file EXCEPT ![t].receipt = y]
                   /\ file[t].receipt # "none" => y = file[t].receipt
      BY <2>3, <2>7 DEF CleanReceipt
    <3>2. PICK f : f = [file[t] EXCEPT !.receipt = y]
      OBVIOUS
    <3>3. f.receipt = y /\ f.ack = file[t].ack
      BY <2>3, <3>2 DEF FileState
    <3>. QED
      BY <3>1, <3>2, <3>3, RemainsStep DEF Remains
  <2>8. CASE CleanBody(p)
    <3>1. PICK f : f = [file[t] EXCEPT !.body = "gone"]
      OBVIOUS
    <3>2. file' = [file EXCEPT ![t] = f]
      BY <2>3, <2>8, <3>1 DEF CleanBody
    <3>3. f.receipt = file[t].receipt /\ f.ack = file[t].ack
      BY <2>3, <3>1 DEF FileState
    <3>. QED
      BY <3>2, <3>3, RemainsStep DEF Remains
  <2>9. CASE CleanRest(p)
    <3>1. file[t].receipt # "none"
      BY <2>2, <2>3, <2>9, HolderIs DEF CleanRest, Cleaning, Unsettled
    <3>2. PICK f : f = [NoFile EXCEPT !.body = "gone", !.receipt = file[t].receipt]
      OBVIOUS
    <3>3. file' = [file EXCEPT ![t] = f]
      BY <2>3, <2>9, <3>2 DEF CleanRest
    <3>4. f.receipt = file[t].receipt
      BY <3>2, NoFileIs DEF FileState
    <3>. QED
      BY <3>1, <3>3, <3>4, RemainsStep DEF Remains
  <2>10. ~(Quota(p) \/ Arm(p) \/ Fire(p) \/ Respond(p) \/ CleanAborted(p))
    BY <1>2 DEF Quota, Arm, Fire, Respond, CleanAborted, files
  <2>. QED
    BY <2>4, <2>5, <2>6, <2>7, <2>8, <2>9, <2>10 DEF Requesting, Clearing
<1>. QED
  BY <1>1, <1>2

LEMMA AllRemembered ==
    ASSUME IInv, [Next]_vars
    PROVE  Remembered
<1>1. CASE file' = file
  BY <1>1 DEF Remembered, Remains
<1>2. CASE file' # file
  <2>1. Next
    BY <1>2 DEF vars, files
  <2>2. ASSUME NEW p \in Proc, Turns(p) \/ Passing(p) PROVE Remembered
    <3>1. PassNote(p)
      BY <1>2, <2>2 DEF Turns, Passing, Prepare, Begin, TurnEnds, Cancel, PassBegin, PassList,
         PassNext, PassOver, PassLock, files
    <3>. QED
      BY <3>1, NotingRemembers
  <2>3. ASSUME NEW p \in Proc, User(p) PROVE FALSE
    BY <1>2, <2>3 DEF User, Send, Discard, ClearAccepted, Command, AskMode, WriteMode, Leave,
       WriteStop, Successor, Crash, Restart, files
  <2>4. ASSUME NEW t \in Turn, Settle(t) PROVE FALSE
    BY <1>2, <2>4 DEF Settle, files
  <2>5. ASSUME Recover PROVE FALSE
    BY <1>2, <2>5 DEF Recover, files
  <2>. QED
    BY <2>1, <2>2, <2>3, <2>4, <2>5, HolderRemembers, PublishingRemembers DEF Next
<1>. QED
  BY <1>1, <1>2

\* No turn is sent automatically unless, at that very moment, the consent on disk
\* is one the user gave before the turn began, its session was not left, and it
\* ended naturally.
LEMMA ConsentStep ==
    ASSUME IInv, [Next]_vars, NEW t \in Turn, SentBy(t, "auto")
    PROVE  policy # 0 /\ policy <= turn[t].since /\ ~Stopped(t) /\ turn[t].natural
<1>1. op.t = t /\ op.at = "fire" /\ op.kind = "auto"
  BY SentIs
<1>2. policy = pass[op.by].epoch /\ ~Stopped(t) /\ pass[op.by].cur = t /\ op.by \in Proc
  BY <1>1, HolderIs DEF Armed, Holding
<1>3. Candidate(t, policy)
  BY <1>2, Names, ProcessIs
<1>4. turn[t].origin <= turn[t].since
  BY DEF IInv, Published, Sane
<1>. QED
  BY <1>2, <1>3, <1>4 DEF Candidate

\* Nothing earlier of its session waits when a turn is sent.
LEMMA TurnsStep ==
    ASSUME IInv, [Next]_vars, NEW t \in Turn, SentBy(t, "auto") \/ SentBy(t, "hand"),
           NEW u \in Turn, u < t, Session(u) = Session(t), file[u].body = "present"
    PROVE  Terminal(u)
<1>1. op.t = t /\ op.at = "fire" /\ op.kind \in {"auto", "send"}
  BY SentIs
<1>2. EarlierPending(t) = {}
  BY <1>1, HolderIs DEF Unsettled
<1>. QED
  BY <1>2 DEF EarlierPending

\* What was settled is not sent, and stays settled.
LEMMA SettledStep ==
    ASSUME IInv, [Next]_vars, NEW t \in Turn
    PROVE  /\ Terminal(t) => Terminal(t)' /\ ~SentBy(t, "auto") /\ ~SentBy(t, "hand")
           /\ file'[t].body = "gone" => Terminal(t)'
           /\ file[t].receipt # "none" => file'[t].receipt = file[t].receipt
<1>1. Remains(file[t], file'[t])
  BY AllRemembered DEF Remembered
<1>2. ASSUME SentBy(t, "auto") \/ SentBy(t, "hand")
      PROVE  ~Terminal(t)
  <2>1. op.t = t /\ op.at = "fire" /\ op.kind \in {"auto", "send"}
    BY <1>2, SentIs
  <2>. QED
    BY <2>1, HolderIs DEF Unsettled, Terminal
<1>3. ASSUME file'[t].body = "gone"
      PROVE  file'[t].receipt # "none"
  <2>1. IInv'
    BY Inductive
  <2>. QED
    BY <1>3, <2>1 DEF IInv, Published, Sane
<1>. QED
  BY <1>1, <1>2, <1>3 DEF Remains, Terminal

\* What leaves the outbox leaves it with consent, in turn, and for the last time,
\* whatever the processes, their crashes and the user do.
THEOREM LawfulSendsHold == Spec => LawfulSends
<1>1. ASSUME IInv, [Next]_vars
      PROVE  /\ [\A t \in Turn : SentBy(t, "auto") =>
                    /\ policy # 0 /\ policy <= turn[t].since
                    /\ ~Stopped(t)
                    /\ turn[t].natural]_vars
             /\ [\A t \in Turn : SentBy(t, "auto") \/ SentBy(t, "hand") =>
                    \A u \in Turn :
                        u < t /\ Session(u) = Session(t) /\ file[u].body = "present"
                        => Terminal(u)]_vars
             /\ [\A t \in Turn :
                    /\ Terminal(t) => Terminal(t)' /\ ~SentBy(t, "auto") /\ ~SentBy(t, "hand")
                    /\ file'[t].body = "gone" => Terminal(t)'
                    /\ file[t].receipt # "none" => file'[t].receipt = file[t].receipt]_vars
  BY <1>1, ConsentStep, TurnsStep, SettledStep
<1>. QED
  BY <1>1, Invariance, PTL DEF Spec, LawfulSends, ConsentHolds, TurnsInOrder, SettledForGood
=============================================================================
