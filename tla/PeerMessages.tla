---------------------------- MODULE PeerMessages ----------------------------
(***************************************************************************)
(* Messages between the sessions of two projects over the local transport  *)
(* (collaboration/local.ts): a signed exchange that may be cut off at any  *)
(* point, the bounded inbox of the recipient, the policy that grants and   *)
(* revokes the pair, the turns a message triggers and the messages such a  *)
(* turn may send, and the resend of what expired unprocessed. Time is the  *)
(* age of a causal chain; a step is what a session does between two awaits.*)
(***************************************************************************)
EXTENDS Naturals, Sequences, FiniteSets, SequencesExt

CONSTANTS
    Session,            \* the sessions, each in a project of its own
    Planners,           \* the sessions in plan mode
    Id,                 \* the messages of the run, numbered
    Chain,              \* the causal chains of the run, numbered
    MaxHops, HumanSends, PeerSends, MaxQueue, MaxAdmissions, MaxResends,
                        \* the caps of protocol.ts and hub-wire.ts
    Budgets,            \* bounds: how often each kind of event may happen in a run,
                        \* and how many messages and chains it has
    None

ASSUME NumberAssumption ==
    /\ Id = 1 .. Cardinality(Id) /\ Chain = 1 .. Cardinality(Chain)
    /\ {MaxHops, HumanSends, PeerSends, MaxQueue, MaxAdmissions, MaxResends}
       \subseteq Nat
    /\ PeerSends <= HumanSends
    /\ IsFiniteSet(Id) /\ IsFiniteSet(Chain)
Budget == [prompt : [Session -> Nat], messages : 0 .. Cardinality(Id),
           chains : 0 .. Cardinality(Chain), policy : Nat, replace : Nat, wake : Nat,
           break : Nat, fail : Nat, cancel : Nat, loss : Nat]
ASSUME BudgetAssumption == Budgets \subseteq Budget
ASSUME SessionAssumption == Planners \subseteq Session
ASSUME NoneAssumption == None \notin Session \cup Id \cup Chain \cup (Nat \X Nat)

VARIABLES
    policy,     \* policy.json: the switch, its generation, the pair's grant and request
    mail,       \* the messages sent, by their number
    wire,       \* per message: how its exchange stands
    notice,     \* per message: the "expired unprocessed" notice to its sender
    age,        \* per chain: unborn, live, expired (no delivery, no send)
    ses,        \* per session: its LocalCollaboration and the turn it runs
    left,       \* what is left of the budget of the run
    admitted,   \* history: the messages that entered an inbox
    void,       \* history: admitted messages whose ground for running is gone
    runs        \* history: per message, how many turns started on it

vars == <<policy, mail, wire, notice, age, ses, left, admitted, void, runs>>

NoMail == [from |-> None]
Idle == [kind |-> "idle", at |-> "idle", item |-> None]
Born(k) == [endpoint |-> k, born |-> k, inbox |-> <<>>, seen |-> {}, sent |-> {}, turn |-> Idle,
            chain |-> None, hop |-> 0, ro |-> FALSE, outgoing |-> 0, peerTurn |-> FALSE,
            noSend |-> FALSE, last |-> None]

\* close(): the endpoint is retired, what is queued is dropped. A new one may
\* be published later.
Closed(r) == [r EXCEPT !.endpoint = 0, !.inbox = <<>>]
Opened(r) == [r EXCEPT !.endpoint = r.born + 1, !.born = r.born + 1, !.inbox = <<>>]

Init ==
    /\ \E g \in {0, 1} :
          policy = [on |-> TRUE, gen |-> 0, grant |-> g, asked |-> FALSE]
    /\ mail = [m \in Id |-> NoMail]
    /\ wire = [m \in Id |-> "none"]
    /\ notice = [m \in Id |-> "none"]
    /\ age = [c \in Chain |-> "unborn"]
    /\ ses = [s \in Session |-> Born(1)]
    /\ left \in Budgets
    /\ admitted = {} /\ void = {}
    /\ runs = [m \in Id |-> 0]

\* Something happens to the sessions, within the budget.
Event(kind) == left[kind] > 0 /\ left' = [left EXCEPT ![kind] = @ - 1]

\* authorization(): what the pair is allowed now, or None.
Token == IF policy.on /\ policy.grant # 0 THEN <<policy.gen, policy.grant>> ELSE None

Sent == {m \in Id : mail[m] # NoMail}
NextId == Cardinality(Sent) + 1
NextChain == Cardinality({c \in Chain : age[c] # "unborn"}) + 1
Item(m, failure) == [m |-> m, auth |-> Token, failure |-> failure]
Works(q) == {q[k].m : k \in {j \in DOMAIN q : ~q[j].failure}}

\* The queue less the items of D.
Without(q, D) ==
    LET kept[n \in 0 .. Len(q)] ==
            IF n = 0 THEN <<>>
            ELSE IF q[n] \in D THEN kept[n - 1] ELSE Append(kept[n - 1], q[n])
    IN kept[Len(q)]

\* The work whose turn has begun and not been put to the model yet.
Begun(s) == IF ses[s].turn.kind = "peer" /\ ses[s].turn.at = "begun" /\ ~ses[s].turn.item.failure
            THEN {ses[s].turn.item.m} ELSE {}

\* validateDelivery: a failure report is of a fresh chain, work is of its own;
\* both were addressed to an endpoint and admitted under an authorization.
Fresh(i) == i.failure \/ age[mail[i.m].chain] = "live"
Addressed(s, i) == ses[s].endpoint = IF i.failure THEN mail[i.m].born ELSE mail[i.m].target
Valid(s, i) == Fresh(i) /\ Addressed(s, i) /\ i.auth = Token

\* notifyExpired: at most once, by a live endpoint, to a sender that still has
\* the endpoint it sent from, under the authorization of the admission.
Notified(s, items) == [m \in Id |->
    IF \E i \in items : i.m = m /\ ~i.failure /\ ~Fresh(i) /\ notice[m] = "none" /\ ses[s].endpoint # 0
    THEN IF /\ \E i \in items : i.m = m /\ i.auth = Token
            /\ ses[mail[m].from].endpoint = mail[m].born
         THEN "sent" ELSE "over"
    ELSE notice[m]]

\* Leaves the inbox without a turn.
Dropped(s) == Works(ses[s].inbox)

---------------------------------------------------------------------------
(* The policy *)

Granted(p) == IF p.on /\ p.grant # 0 THEN <<p.gen, p.grant>> ELSE None
Waiting == UNION {Dropped(s) \cup Begun(s) : s \in Session}

Change(p) ==
    /\ Event("policy")
    /\ policy' = p
    /\ \/ Granted(p) = Token /\ void' = void
       \/ Granted(p) # Token /\ void' = void \cup Waiting

\* The user confirms a pending request; a new grant is a new authorization
\* (what is left of the budget numbers grants and generations uniquely).
Confirm ==
    /\ policy.asked
    /\ \/ /\ policy.grant = 0
          /\ Change([policy EXCEPT !.grant = left.policy + 1, !.asked = FALSE])
       \/ /\ policy.grant # 0
          /\ Change([policy EXCEPT !.asked = FALSE])
    /\ UNCHANGED <<mail, wire, notice, age, ses, admitted, runs>>

Revoke ==
    /\ policy.grant # 0
    /\ Change([policy EXCEPT !.grant = 0, !.asked = FALSE])
    /\ UNCHANGED <<mail, wire, notice, age, ses, admitted, runs>>

\* /collaborate off: the policy for everybody, and the endpoint of this session.
Off(s) ==
    /\ Change([policy EXCEPT !.on = FALSE, !.gen = left.policy])
    /\ ses' = [ses EXCEPT ![s] = Closed(@)]
    /\ UNCHANGED <<mail, wire, notice, age, admitted, runs>>

\* /collaborate on: a new generation, and a new endpoint for this session.
On(s) ==
    /\ Change([policy EXCEPT !.on = TRUE, !.gen = left.policy])
    /\ ses' = [ses EXCEPT ![s] = Opened(@)]
    /\ UNCHANGED <<mail, wire, notice, age, admitted, runs>>

\* The process dies, or /clear or a rewind retires its session: the successor
\* knows nothing and has an endpoint of its own.
Replace(s) ==
    /\ Event("replace")
    /\ \/ policy.on /\ ses' = [ses EXCEPT ![s] = Born(@.born + 1)]
       \/ ~policy.on /\ ses' = [ses EXCEPT ![s] = Closed(Born(@.born + 1))]
    /\ void' = void \cup Dropped(s) \cup Begun(s)
    /\ UNCHANGED <<policy, mail, wire, notice, age, admitted, runs>>

---------------------------------------------------------------------------
(* Turns *)

Running(kind) == [kind |-> kind, at |-> "running", item |-> None]

\* A prompt of the user starts a chain and a budget of its own.
Prompted(r, s) == [r EXCEPT !.chain = NextChain, !.hop = 0, !.ro = s \in Planners, !.outgoing = 0,
                            !.peerTurn = FALSE, !.noSend = FALSE]

HumanTurn(s) ==
    /\ ses[s].turn.kind = "idle" /\ NextChain <= left.chains
    /\ left.prompt[s] > 0 /\ left' = [left EXCEPT !.prompt[s] = @ - 1]
    /\ age' = [age EXCEPT ![NextChain] = "live"]
    /\ ses' = [ses EXCEPT ![s] = [Prompted(@, s) EXCEPT !.turn = Running("human")]]
    /\ UNCHANGED <<policy, mail, wire, notice, admitted, void, runs>>

\* A task wake goes on with the chain that is there.
WakeTurn(s) ==
    /\ Event("wake")
    /\ ses[s].turn.kind = "idle"
    /\ ses' = [ses EXCEPT ![s].turn = Running("wake")]
    /\ UNCHANGED <<policy, mail, wire, notice, age, admitted, void, runs>>

\* beginPeerTurn: the turn continues the chain of the message; the budget is
\* that of the message, however often its turn begins.
PeerBegun(r, i) ==
    [r EXCEPT !.turn = [kind |-> "peer", at |-> "begun", item |-> i],
              !.chain = IF i.failure THEN None ELSE mail[i.m].chain,
              !.hop = IF i.failure THEN 0 ELSE mail[i.m].hop,
              !.ro = i.failure \/ mail[i.m].ro,
              !.outgoing = IF r.last = i.m THEN @ ELSE 0,
              !.last = i.m, !.peerTurn = TRUE, !.noSend = i.failure]

\* The idle session takes the oldest message that may still be delivered and
\* begins its turn; what may not is dropped on the way.
Take(s) ==
    LET q == ses[s].inbox IN
    /\ ses[s].turn.kind = "idle" /\ q # <<>>
    /\ \/ /\ \A k \in DOMAIN q : ~Valid(s, q[k])
          /\ notice' = Notified(s, ToSet(q))
          /\ void' = void \cup Works(q)
          /\ ses' = [ses EXCEPT ![s].inbox = <<>>]
       \/ \E k \in DOMAIN q :
          /\ Valid(s, q[k]) /\ \A j \in 1 .. k - 1 : ~Valid(s, q[j])
          /\ notice' = Notified(s, ToSet(SubSeq(q, 1, k - 1)))
          /\ void' = void \cup Works(SubSeq(q, 1, k - 1))
          /\ ses' = [ses EXCEPT ![s] =
                        PeerBegun([@ EXCEPT !.inbox = SubSeq(q, k + 1, Len(q))], q[k])]
    /\ UNCHANGED <<policy, mail, wire, age, left, admitted, runs>>

\* The turn is over and failed: what is queued is dropped, the endpoint stays.
Failed(r) == [r EXCEPT !.turn = Idle, !.inbox = <<>>]

\* The model is asked: the turn runs. The continuation of a turn is no new
\* start, and a failure report is no work.
Asked(s) ==
    LET i == ses[s].turn.item IN
    /\ ses' = [ses EXCEPT ![s].turn.at = "running"]
    /\ \/ (i.failure \/ ses[s].turn.kind = "continued") /\ runs' = runs
       \/ ~i.failure /\ ses[s].turn.kind = "peer" /\ runs' = [runs EXCEPT ![i.m] = @ + 1]
    /\ UNCHANGED <<notice, void>>

\* Mutant: the last check before the model is asked is left out.
InvokeUnchecked(s) ==
    /\ ses[s].turn.at = "begun"
    /\ Asked(s)
    /\ UNCHANGED <<policy, mail, wire, age, left, admitted>>

\* Hooks and the recorder came between: the message is validated once more
\* before the model is asked.
Invoke(s) ==
    /\ ses[s].turn.at = "begun"
    /\ \/ Valid(s, ses[s].turn.item) /\ Asked(s)
       \/ /\ ~Valid(s, ses[s].turn.item)
          /\ ses' = [ses EXCEPT ![s] = Failed(@)]
          /\ notice' = Notified(s, {ses[s].turn.item})
          /\ void' = void \cup Dropped(s) \cup Begun(s)
          /\ UNCHANGED runs
    /\ UNCHANGED <<policy, mail, wire, age, left, admitted>>

\* The stream broke off: the turn is begun once more, with the same origin.
Continue(s) ==
    /\ Event("break")
    /\ ses[s].turn.at = "running"
    /\ \/ /\ ses[s].turn.kind = "human" /\ NextChain <= left.chains
          /\ age' = [age EXCEPT ![NextChain] = "live"]
          /\ ses' = [ses EXCEPT ![s] = [Prompted(@, s) EXCEPT !.turn = Running("continued")]]
          /\ UNCHANGED <<notice, void>>
       \/ /\ ses[s].turn.kind = "peer" /\ Valid(s, ses[s].turn.item)
          /\ ses' = [ses EXCEPT ![s] = [PeerBegun(@, @.turn.item) EXCEPT !.turn.kind = "continued"]]
          /\ UNCHANGED <<notice, void, age>>
       \/ /\ ses[s].turn.kind = "peer" /\ ~Valid(s, ses[s].turn.item)
          /\ ses' = [ses EXCEPT ![s] = Failed(@)]
          /\ notice' = Notified(s, {ses[s].turn.item})
          /\ void' = void \cup Dropped(s)
          /\ UNCHANGED age
    /\ UNCHANGED <<policy, mail, wire, admitted, runs>>

TurnEnds(s) ==
    /\ ses[s].turn.at = "running"
    /\ ses' = [ses EXCEPT ![s].turn = Idle]
    /\ UNCHANGED <<policy, mail, wire, notice, age, left, admitted, void, runs>>

TurnFails(s) ==
    /\ Event("fail")
    /\ ses[s].turn.at = "running"
    /\ ses' = [ses EXCEPT ![s] = Failed(@)]
    /\ void' = void \cup Dropped(s)
    /\ UNCHANGED <<policy, mail, wire, notice, age, admitted, runs>>

\* Ctrl+C: a peer-triggered turn costs the endpoint, any other only what is
\* queued. The turn goes on to its next safe point.
Cancel(s) ==
    /\ Event("cancel")
    /\ ses[s].turn.kind # "idle"
    /\ \/ /\ ses[s].peerTurn
          /\ ses' = [ses EXCEPT ![s] = Closed(@)]
          /\ void' = void \cup Dropped(s) \cup Begun(s)
       \/ /\ ~ses[s].peerTurn
          /\ ses' = [ses EXCEPT ![s].inbox = <<>>]
          /\ void' = void \cup Dropped(s)
    /\ UNCHANGED <<policy, mail, wire, notice, age, admitted, runs>>

---------------------------------------------------------------------------
(* Messages *)

Posted(m, r) == /\ m <= left.messages
                /\ mail' = [mail EXCEPT ![m] = r]
                /\ wire' = [wire EXCEPT ![m] = "posted"]

\* Mutant: the last hop may send on.
MaySendOnward(r) ==
    /\ r.chain # None /\ age[r.chain] = "live"
    /\ r.outgoing < IF r.peerTurn THEN PeerSends ELSE HumanSends

\* causalRefusal: the chain, its hops and the budget of the turn.
MaySend(r) ==
    /\ r.chain # None /\ age[r.chain] = "live"
    /\ r.peerTurn => r.hop < MaxHops
    /\ r.outgoing < IF r.peerTurn THEN PeerSends ELSE HumanSends

\* The chain of the turn goes along, a hop further in a turn a message
\* triggered, and its ceiling with it.
Letter(s, t) ==
    LET r == ses[s] IN
    [from |-> s, born |-> r.endpoint, to |-> t, target |-> ses[t].endpoint,
     chain |-> r.chain, ro |-> r.ro \/ s \in Planners,
     hop |-> IF r.peerTurn THEN r.hop + 1 ELSE r.hop,
     root |-> NextId, attempt |-> 0, parent |-> IF r.peerTurn THEN r.last ELSE None]

\* peer_send: every limit is checked and the budget taken before the first
\* await. A pair that is not allowed leaves a request for the user.
Send(s, t) ==
    LET r == ses[s] IN
    /\ r.turn.at = "running" /\ s # t
    /\ r.endpoint # 0 /\ ses[t].endpoint # 0 /\ ~r.noSend
    /\ MaySend(r)
    /\ ses' = [ses EXCEPT ![s].outgoing = @ + 1]
    /\ \/ /\ Token = None
          /\ policy' = [policy EXCEPT !.asked = @ \/ policy.on] /\ UNCHANGED <<mail, wire>>
       \/ /\ Token # None
          /\ Posted(NextId, Letter(s, t)) /\ UNCHANGED policy
    /\ UNCHANGED <<notice, age, left, admitted, void, runs>>

\* enqueue: the caps, then the inbox.
Room(t, m) == /\ Len(ses[t].inbox) < MaxQueue
              /\ Cardinality({n \in ses[t].seen : mail[n].chain = mail[m].chain}) < MaxAdmissions

\* Mutant: a frame that comes again is queued again.
AdmitAgain(t, m) == age[mail[m].chain] = "live" /\ Token # None /\ Room(t, m)

\* admit: fresh, allowed, new and within the caps.
Admit(t, m) == age[mail[m].chain] = "live" /\ Token # None /\ m \notin ses[t].seen /\ Room(t, m)

\* The recipient handles the frame: the sender's endpoint has just answered a
\* challenge, and this one is still the one addressed. A frame whose sender
\* gave up may still arrive, and one that was queued may arrive again.
Receive(m) ==
    /\ m \in Sent
    /\ LET t == mail[m].to IN
       /\ wire[m] \in {"posted", "lost"} \/ m \in ses[t].seen
       /\ ses[mail[m].from].endpoint = mail[m].born
       /\ ses[t].endpoint = mail[m].target
       /\ \/ /\ Admit(t, m)
             /\ ses' = [ses EXCEPT ![t].inbox = Append(@, Item(m, FALSE)), ![t].seen = @ \cup {m}]
             /\ admitted' = admitted \cup {m}
             /\ wire' = [wire EXCEPT ![m] = IF @ = "posted" THEN "queued" ELSE @]
             /\ UNCHANGED policy
          \/ /\ ~Admit(t, m)
             /\ policy' = [policy EXCEPT !.asked = @ \/ (policy.on /\ policy.grant = 0
                                                         /\ age[mail[m].chain] = "live")]
             /\ wire' = [wire EXCEPT ![m] = IF @ = "posted" THEN "refused" ELSE @]
             /\ UNCHANGED <<ses, admitted>>
    /\ UNCHANGED <<mail, notice, age, left, void, runs>>

\* The sender reads the answer and remembers a message that was queued.
Answered(m) ==
    /\ \/ /\ wire[m] = "queued" /\ ses[mail[m].from].born = mail[m].born
          /\ wire' = [wire EXCEPT ![m] = "acknowledged"]
          /\ ses' = [ses EXCEPT ![mail[m].from].sent = @ \cup {m}]
       \/ /\ wire[m] = "queued" /\ ses[mail[m].from].born # mail[m].born
          /\ wire' = [wire EXCEPT ![m] = "acknowledged"]
          /\ UNCHANGED ses
       \/ /\ wire[m] = "refused"
          /\ wire' = [wire EXCEPT ![m] = "declined"]
          /\ UNCHANGED ses
    /\ UNCHANGED <<policy, mail, notice, age, left, admitted, void, runs>>

\* The exchange breaks off, before the recipient saw the frame or after it.
Lose(m) ==
    /\ Event("loss")
    /\ wire[m] \in {"posted", "queued", "refused"}
    /\ wire' = [wire EXCEPT ![m] = IF @ = "posted" THEN "lost" ELSE "unheard"]
    /\ UNCHANGED <<policy, mail, notice, age, ses, admitted, void, runs>>

---------------------------------------------------------------------------
(* Expiry, notice and resend *)

\* A chain grows old: nothing of it is delivered or sent any more.
Expire(c) ==
    /\ age[c] = "live"
    /\ age' = [age EXCEPT ![c] = "expired"]
    /\ void' = void \cup {m \in Waiting : mail[m].chain = c}
    /\ UNCHANGED <<policy, mail, wire, notice, ses, left, admitted, runs>>

Stale(s) == {i \in ToSet(ses[s].inbox) : ~Fresh(i)}

\* Mutant: the sweep waits for an idle session.
SweepIdle(s) ==
    /\ Stale(s) # {} /\ ses[s].turn.kind = "idle"
    /\ ses' = [ses EXCEPT ![s].inbox = Without(@, Stale(s))]
    /\ notice' = Notified(s, Stale(s))
    /\ UNCHANGED <<policy, mail, wire, age, left, admitted, void, runs>>

\* The timer of an expired message drops everything expired, busy or not.
Sweep(s) ==
    /\ Stale(s) # {}
    /\ ses' = [ses EXCEPT ![s].inbox = Without(@, Stale(s))]
    /\ notice' = Notified(s, Stale(s))
    /\ UNCHANGED <<policy, mail, wire, age, left, admitted, void, runs>>

\* Mutant: the resend forgets the ceiling of the message.
AgainUnbounded(m, c) ==
    [mail[m] EXCEPT !.chain = c, !.attempt = @ + 1, !.ro = FALSE,
                    !.born = ses[mail[m].from].endpoint]

\* A resend has the text, hop and ceiling of the message and a fresh chain.
Again(m, c) ==
    [mail[m] EXCEPT !.chain = c, !.attempt = @ + 1,
                    !.born = ses[mail[m].from].endpoint]

\* Only what the sender knows to be queued there is a notice to it.
Matched(m) ==
    LET r == ses[mail[m].from] IN
    m \in r.sent /\ r.endpoint = mail[m].born /\ ses[mail[m].to].endpoint = mail[m].target

\* The sender takes the notice of a message it knows to be queued there: the
\* message is sent again, or after the last resend its model is told.
Notice(m) ==
    LET s == mail[m].from
        told == [ses[s] EXCEPT !.sent = @ \ {m}]
    IN
    /\ notice[m] = "sent"
    /\ notice' = [notice EXCEPT ![m] = "over"]
    /\ \/ ~Matched(m) /\ UNCHANGED <<mail, wire, age, ses>>
       \/ /\ Matched(m) /\ mail[m].attempt < MaxResends /\ Token # None
          /\ NextChain <= left.chains
          /\ age' = [age EXCEPT ![NextChain] = "live"]
          /\ Posted(NextId, Again(m, NextChain))
          /\ ses' = [ses EXCEPT ![s] = told]
       \/ /\ Matched(m) /\ mail[m].attempt < MaxResends /\ Token = None
          /\ ses' = [ses EXCEPT ![s] = told]
          /\ UNCHANGED <<mail, wire, age>>
       \/ /\ Matched(m) /\ mail[m].attempt >= MaxResends
          /\ Token # None /\ Len(told.inbox) < MaxQueue
          /\ ses' = [ses EXCEPT ![s] = [told EXCEPT !.inbox = Append(@, Item(m, TRUE))]]
          /\ UNCHANGED <<mail, wire, age>>
       \/ /\ Matched(m) /\ mail[m].attempt >= MaxResends
          /\ Token = None \/ Len(told.inbox) >= MaxQueue
          /\ ses' = [ses EXCEPT ![s] = told]
          /\ UNCHANGED <<mail, wire, age>>
    /\ UNCHANGED <<policy, left, admitted, void, runs>>

\* The notice never arrives, or the sender's record of the message, a minute
\* older than the chain, is void by then; nobody repeats it.
LoseNotice(m) ==
    /\ Event("loss")
    /\ notice[m] = "sent"
    /\ notice' = [notice EXCEPT ![m] = "over"]
    /\ UNCHANGED <<policy, mail, wire, age, ses, admitted, void, runs>>

Turn(s) == \/ HumanTurn(s) \/ WakeTurn(s) \/ Take(s) \/ Invoke(s) \/ Continue(s)
           \/ TurnEnds(s) \/ TurnFails(s) \/ Cancel(s)

Next == \/ Confirm \/ Revoke
        \/ \E s \in Session : Off(s) \/ On(s) \/ Replace(s) \/ Turn(s) \/ Sweep(s)
                              \/ \E t \in Session : Send(s, t)
        \/ \E m \in Id : Receive(m) \/ Answered(m) \/ Lose(m) \/ Notice(m) \/ LoseNotice(m)
        \/ \E c \in Chain : Expire(c)

Spec == Init /\ [][Next]_vars

\* Time passes and the timers of a session that lives fire; nobody owes a
\* session an end of its turn.
FairSpec == /\ Spec
            /\ \A c \in Chain : WF_vars(Expire(c))
            /\ \A s \in Session : WF_vars(Sweep(s))

---------------------------------------------------------------------------
(* Properties *)

Letters == [from : Session, born : Nat, to : Session, target : Nat, chain : Chain,
            ro : BOOLEAN, hop : 0 .. MaxHops, root : Id, attempt : 0 .. MaxResends,
            parent : Id \cup {None}]
PeerInput == [m : Id, auth : Nat \X Nat, failure : BOOLEAN]
TurnState == [kind : {"idle", "human", "wake", "peer", "continued"},
              at : {"idle", "begun", "running"}, item : PeerInput \cup {None}]
SessionState == [endpoint : Nat, born : Nat, inbox : Seq(PeerInput), seen : SUBSET Id,
                 sent : SUBSET Id, turn : TurnState, chain : Chain \cup {None},
                 hop : 0 .. MaxHops, ro : BOOLEAN, outgoing : 0 .. HumanSends,
                 peerTurn : BOOLEAN, noSend : BOOLEAN, last : Id \cup {None}]

TypeOK ==
    /\ policy \in [on : BOOLEAN, gen : Nat, grant : Nat, asked : BOOLEAN]
    /\ mail \in [Id -> Letters \cup {NoMail}]
    /\ wire \in [Id -> {"none", "posted", "queued", "refused", "acknowledged", "declined", "lost", "unheard"}]
    /\ notice \in [Id -> {"none", "sent", "over"}]
    /\ age \in [Chain -> {"unborn", "live", "expired"}]
    /\ ses \in [Session -> SessionState]
    /\ \A s \in Session :
         /\ ses[s].endpoint \in {0, ses[s].born}
         /\ Len(ses[s].inbox) <= MaxQueue
         /\ ses[s].seen \cup ses[s].sent \subseteq Sent
    /\ left \in Budget
    /\ void \subseteq admitted /\ admitted \subseteq Sent
    /\ runs \in [Id -> Nat]

\* A message whose ground is gone never starts a turn: its pair was revoked or
\* collaboration switched off after it was admitted, even if allowed again
\* since; its endpoint was retired; its queue was dropped after a failure or a
\* cancel; or its chain expired.
NothingVoidRuns == [][\A m \in Id : runs'[m] # runs[m] => m \notin void]_vars

\* The plan ceiling only narrows: what a message caused, over replies, resends
\* and other people's turns, is read-only if the message was.
CeilingNarrows ==
    \A m \in Sent : /\ mail[mail[m].root].ro => mail[m].ro
                    /\ mail[m].parent # None /\ mail[mail[m].parent].ro => mail[m].ro

\* The turns a message triggers, its continuation and the wakes that follow it
\* send no more than the budget of one peer turn.
Children(i) == {m \in Sent : mail[m].parent = i /\ mail[m].attempt = 0}
BudgetHolds == \A i \in Sent : Cardinality(Children(i)) <= PeerSends

Queued == UNION {Works(ses[s].inbox) : s \in Session}

\* A queued message does not wait forever, even behind a turn that never ends.
NeverForever == \A m \in Id : m \in Queued ~> m \notin Queued

\* "A matched notice proves the message was never processed": no work is
\* processed a second time by way of a resend.
ProcessedOnce ==
    \A r \in Id : Cardinality({m \in Sent : mail[m].root = r /\ runs[m] > 0}) <= 1

Told(m) == CASE wire[m] = "acknowledged" -> "queued" [] wire[m] = "declined" -> "refused" [] OTHER -> "none"
Now(m) == IF m \notin Sent THEN "unsent"
          ELSE IF m \notin admitted THEN "sent"
          ELSE IF m \in Waiting THEN "queued"
          ELSE IF runs[m] > 0 THEN "taken"
          ELSE "dropped"

\* Every message is queued at most once, then taken by one turn or dropped,
\* and its sender is told the truth about the queueing.
Delivery == INSTANCE PeerDelivery WITH
    stage <- [m \in Id |-> Now(m)], answer <- [m \in Id |-> Told(m)]
DeliverySpec == Delivery!Spec

\* What a peer message may cause is bounded by what the user set off.
CausalLimits == CeilingNarrows /\ BudgetHolds
=============================================================================
