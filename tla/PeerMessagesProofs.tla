------------------------- MODULE PeerMessagesProofs -------------------------
(***************************************************************************)
(* Safety of the messages between sessions, for any sessions, messages,    *)
(* chains, caps and budgets: nothing runs whose ground is gone, causes     *)
(* bound effects, and PeerDelivery is implemented.                         *)
(***************************************************************************)
EXTENDS PeerMessages, FiniteSetTheorems, NaturalsInduction, WellFoundedInduction, TLAPS

\* The fields of what a session is.
LEMMA SessionTypes ==
    ASSUME NEW r \in SessionState
    PROVE  /\ r.endpoint \in Nat /\ r.born \in Nat
           /\ r.inbox \in Seq(PeerInput)
           /\ r.seen \in SUBSET Id /\ r.sent \in SUBSET Id
           /\ r.turn \in TurnState
           /\ r.chain \in Chain \cup {None} /\ r.hop \in 0 .. MaxHops
           /\ r.ro \in BOOLEAN
           /\ r.outgoing \in 0 .. HumanSends /\ r.peerTurn \in BOOLEAN
           /\ r.noSend \in BOOLEAN /\ r.last \in Id \cup {None}
BY DEF SessionState

\* The fields of an item of an inbox.
LEMMA ItemTypes ==
    \A i \in PeerInput : i.m \in Id /\ i.auth \in Nat \X Nat /\ i.failure \in BOOLEAN
BY DEF PeerInput

\* The fields of a turn.
LEMMA TurnTypes ==
    \A t \in TurnState : /\ t.kind \in {"idle", "human", "wake", "peer", "continued"}
                         /\ t.at \in {"idle", "begun", "running"}
                         /\ t.item \in PeerInput \cup {None}
BY DEF TurnState

\* The caps, and the numbering of messages and chains.
Numbers == /\ MaxHops \in Nat /\ HumanSends \in Nat /\ PeerSends \in Nat /\ MaxQueue \in Nat
           /\ MaxAdmissions \in Nat /\ MaxResends \in Nat
           /\ PeerSends <= HumanSends
           /\ IsFiniteSet(Id) /\ IsFiniteSet(Chain)
           /\ Id = 1 .. Cardinality(Id) /\ Chain = 1 .. Cardinality(Chain)
           /\ Cardinality(Id) \in Nat /\ Cardinality(Chain) \in Nat

\* The caps are as the assumption on the constants says.
LEMMA NumbersHold == Numbers
BY NumberAssumption, FS_CardinalityType DEF Numbers

\* What no dropping and no closing changes.
Same(p, r) == /\ p.seen = r.seen /\ p.sent = r.sent /\ p.chain = r.chain /\ p.hop = r.hop
              /\ p.ro = r.ro /\ p.peerTurn = r.peerTurn /\ p.noSend = r.noSend
              /\ p.last = r.last

\* A new session (Born) with an endpoint.
LEMMA BornIs ==
    ASSUME NEW k \in Nat, NEW p, p = Born(k)
    PROVE  /\ p \in SessionState
           /\ p.endpoint = k /\ p.born = k /\ p.inbox = <<>> /\ p.seen = {}
           /\ p.sent = {}
           /\ p.turn = Idle /\ p.hop = 0 /\ p.peerTurn = FALSE
           /\ p.noSend = FALSE
           /\ p.turn.kind = "idle" /\ p.turn.at = "idle" /\ p.turn.item = None
BY NumbersHold DEF Born, SessionState, Idle, TurnState, Numbers

\* A session whose endpoint is retired: close() of local.ts.
LEMMA ClosedIs ==
    ASSUME NEW r \in SessionState, NEW p, p = Closed(r)
    PROVE  /\ p \in SessionState /\ Same(p, r)
           /\ p.endpoint = 0 /\ p.born = r.born /\ p.inbox = <<>>
           /\ p.turn = r.turn /\ p.outgoing = r.outgoing
<1>. DEFINE k == 0
            e == <<>>
<1>1. /\ k \in Nat /\ e \in Seq(PeerInput)
      /\ p = [r EXCEPT !.endpoint = k, !.inbox = e]
  BY DEF Closed
<1>. HIDE DEF k, e
<1>2. /\ p \in SessionState /\ Same(p, r)
      /\ p.endpoint = k /\ p.born = r.born /\ p.inbox = e
      /\ p.turn = r.turn /\ p.outgoing = r.outgoing
  BY <1>1 DEF SessionState, Same
<1>. QED
  BY <1>2 DEF k, e

\* A session with a new endpoint: start() of local.ts.
LEMMA OpenedIs ==
    ASSUME NEW r \in SessionState, NEW p, p = Opened(r)
    PROVE  /\ p \in SessionState /\ Same(p, r)
           /\ p.endpoint = r.born + 1 /\ p.born = r.born + 1 /\ p.inbox = <<>>
           /\ p.turn = r.turn /\ p.outgoing = r.outgoing
<1>. DEFINE k == r.born + 1
            e == <<>>
<1>1. k \in Nat /\ e \in Seq(PeerInput)
  BY SessionTypes
<1>2. p = [r EXCEPT !.endpoint = k, !.born = k, !.inbox = e]
  BY DEF Opened
<1>. HIDE DEF k, e
<1>3. /\ p \in SessionState /\ Same(p, r)
      /\ p.endpoint = k /\ p.born = k /\ p.inbox = e
      /\ p.turn = r.turn /\ p.outgoing = r.outgoing
  BY <1>1, <1>2 DEF SessionState, Same
<1>. QED
  BY <1>3 DEF k, e

\* A session with another inbox.
LEMMA InboxIs ==
    ASSUME NEW r \in SessionState, NEW q \in Seq(PeerInput), NEW p,
           p = [r EXCEPT !.inbox = q]
    PROVE  /\ p \in SessionState /\ Same(p, r)
           /\ p.endpoint = r.endpoint /\ p.born = r.born /\ p.inbox = q
           /\ p.turn = r.turn /\ p.outgoing = r.outgoing
BY DEF SessionState, Same

\* A session in another turn.
LEMMA TurnIs ==
    ASSUME NEW r \in SessionState, NEW t \in TurnState, NEW p,
           p = [r EXCEPT !.turn = t]
    PROVE  /\ p \in SessionState /\ Same(p, r)
           /\ p.endpoint = r.endpoint /\ p.born = r.born /\ p.inbox = r.inbox
           /\ p.turn = t /\ p.outgoing = r.outgoing
BY DEF SessionState, Same

\* A session whose turn failed: dropQueued() of local.ts.
LEMMA FailedIs ==
    ASSUME NEW r \in SessionState, NEW p, p = Failed(r)
    PROVE  /\ p \in SessionState /\ Same(p, r)
           /\ p.endpoint = r.endpoint /\ p.born = r.born /\ p.inbox = <<>>
           /\ p.turn = Idle /\ p.turn.kind = "idle" /\ p.turn.at = "idle"
           /\ p.outgoing = r.outgoing
<1>. DEFINE e == <<>>
            t == Idle
<1>1. /\ e \in Seq(PeerInput) /\ p = [r EXCEPT !.turn = t, !.inbox = e]
      /\ t \in TurnState /\ t.kind = "idle" /\ t.at = "idle"
  BY DEF Failed, Idle, TurnState
<1>. HIDE DEF e, t
<1>2. /\ p \in SessionState /\ Same(p, r)
      /\ p.endpoint = r.endpoint /\ p.born = r.born /\ p.inbox = e
      /\ p.turn = t /\ p.outgoing = r.outgoing
  BY <1>1 DEF SessionState, Same
<1>. QED
  BY <1>1, <1>2 DEF e, t

\* A turn that runs.
LEMMA RunningIs ==
    ASSUME NEW k \in {"human", "wake", "continued"}
    PROVE  /\ Running(k) \in TurnState /\ Running(k).kind = k
           /\ Running(k).at = "running"
           /\ Running(k).item = None
BY DEF Running, TurnState

\* A session after beginHumanTurn() of local.ts.
LEMMA PromptedIs ==
    ASSUME NEW r \in SessionState, NEW s, NEW p, NextChain \in Chain,
           p = Prompted(r, s)
    PROVE  /\ p \in SessionState /\ p.seen = r.seen /\ p.sent = r.sent
           /\ p.hop = 0
           /\ p.endpoint = r.endpoint /\ p.born = r.born /\ p.inbox = r.inbox
           /\ p.outgoing = 0 /\ ~p.peerTurn
<1>1. 0 \in 0 .. MaxHops /\ 0 \in 0 .. HumanSends
  BY NumbersHold DEF Numbers
<1>. DEFINE b == s \in Planners
            z == 0
            f == FALSE
            q == [r EXCEPT !.chain = NextChain, !.hop = z, !.ro = b]
<1>2. b \in BOOLEAN /\ f \in BOOLEAN /\ z \in 0 .. MaxHops /\ z \in 0 .. HumanSends
  BY <1>1
<1>3. p = [q EXCEPT !.outgoing = z, !.peerTurn = f, !.noSend = f]
  BY DEF Prompted, SessionState
<1>4. q = [r EXCEPT !.chain = NextChain, !.hop = z, !.ro = b]
  OBVIOUS
<1>. HIDE DEF b, z, f, q
<1>5. /\ q \in SessionState /\ q.seen = r.seen /\ q.sent = r.sent /\ q.hop = z
      /\ q.endpoint = r.endpoint /\ q.born = r.born /\ q.inbox = r.inbox
  BY <1>2, <1>4 DEF SessionState
<1>6. /\ p \in SessionState /\ p.seen = q.seen /\ p.sent = q.sent /\ p.hop = q.hop
      /\ p.endpoint = q.endpoint /\ p.born = q.born /\ p.inbox = q.inbox
      /\ p.outgoing = z /\ p.peerTurn = f
  BY <1>2, <1>3, <1>5 DEF SessionState
<1>. QED
  BY <1>5, <1>6 DEF z, f

\* A session after beginPeerTurn() of local.ts: the chain, ceiling and budget
\* are those of the message.
LEMMA BegunIs ==
    ASSUME NEW r \in SessionState, NEW i \in PeerInput, NEW p,
           mail[i.m] \in Letters, p = PeerBegun(r, i)
    PROVE  /\ p \in SessionState /\ p.seen = r.seen /\ p.sent = r.sent
           /\ p.endpoint = r.endpoint /\ p.born = r.born /\ p.inbox = r.inbox
           /\ p.turn.kind = "peer" /\ p.turn.at = "begun" /\ p.turn.item = i
           /\ p.peerTurn /\ p.noSend = i.failure /\ p.last = i.m
           /\ ~i.failure => p.ro = mail[i.m].ro
           /\ r.last = i.m => p.outgoing = r.outgoing
<1>. DEFINE c == IF i.failure THEN None ELSE mail[i.m].chain
            h == IF i.failure THEN 0 ELSE mail[i.m].hop
            o == IF r.last = i.m THEN r.outgoing ELSE 0
            w == i.failure \/ mail[i.m].ro
            t == [kind |-> "peer", at |-> "begun", item |-> i]
            f == i.failure
            l == i.m
<1>1. /\ c \in Chain \cup {None} /\ h \in 0 .. MaxHops /\ o \in 0 .. HumanSends
      /\ w \in BOOLEAN /\ t \in TurnState /\ f \in BOOLEAN /\ l \in Id
      /\ ~f => w = mail[i.m].ro
      /\ r.last = l => o = r.outgoing
  <2>1. /\ mail[i.m].chain \in Chain /\ mail[i.m].hop \in 0 .. MaxHops
        /\ mail[i.m].ro \in BOOLEAN
    BY DEF Letters
  <2>2. i.m \in Id /\ i.failure \in BOOLEAN
    BY ItemTypes
  <2>3. /\ r.outgoing \in 0 .. HumanSends /\ 0 \in 0 .. MaxHops
        /\ 0 \in 0 .. HumanSends
    BY SessionTypes, NumbersHold DEF Numbers
  <2>4. t \in TurnState
    BY DEF TurnState
  <2>5. c \in Chain \cup {None} /\ h \in 0 .. MaxHops /\ o \in 0 .. HumanSends
    BY <2>1, <2>3
  <2>6. w \in BOOLEAN /\ (~f => w = mail[i.m].ro)
    BY <2>1, <2>2
  <2>7. r.last = l => o = r.outgoing
    OBVIOUS
  <2>. QED
    BY <2>2, <2>4, <2>5, <2>6, <2>7
<1>2. p = [r EXCEPT !.turn = t, !.chain = c, !.hop = h, !.ro = w, !.outgoing = o,
                    !.last = l, !.peerTurn = TRUE, !.noSend = f]
  BY DEF PeerBegun
<1>4. t.kind = "peer" /\ t.at = "begun" /\ t.item = i
  OBVIOUS
<1>. HIDE DEF c, h, o, w, t, f, l
<1>3. /\ p \in SessionState /\ p.seen = r.seen /\ p.sent = r.sent
      /\ p.endpoint = r.endpoint /\ p.born = r.born /\ p.inbox = r.inbox
      /\ p.turn = t /\ p.peerTurn = TRUE /\ p.noSend = f /\ p.last = l
      /\ p.ro = w /\ p.outgoing = o
  <2>1. r \in [endpoint : Nat, born : Nat, inbox : Seq(PeerInput), seen : SUBSET Id,
                sent : SUBSET Id, turn : TurnState, chain : Chain \cup {None},
                hop : 0 .. MaxHops, ro : BOOLEAN, outgoing : 0 .. HumanSends,
                peerTurn : BOOLEAN, noSend : BOOLEAN, last : Id \cup {None}]
    BY DEF SessionState
  <2>2. p \in SessionState
    <3>. DEFINE r1 == [r EXCEPT !.turn = t, !.chain = c, !.hop = h, !.ro = w]
                y == TRUE
    <3>1. r1 \in SessionState
      BY <1>1 DEF SessionState
    <3>2. /\ y \in BOOLEAN
          /\ p = [r1 EXCEPT !.outgoing = o, !.last = l, !.peerTurn = y, !.noSend = f]
      BY <1>2, <2>1
    <3>. HIDE DEF r1, y
    <3>. QED
      BY <1>1, <3>1, <3>2 DEF SessionState
  <2>3. /\ p.seen = r.seen /\ p.sent = r.sent
        /\ p.endpoint = r.endpoint /\ p.born = r.born /\ p.inbox = r.inbox
    BY <1>2, <2>1
  <2>4. /\ p.turn = t /\ p.peerTurn = TRUE /\ p.noSend = f /\ p.last = l
        /\ p.ro = w /\ p.outgoing = o
    BY <1>2, <2>1
  <2>. QED
    BY <2>2, <2>3, <2>4
<1>. QED
  BY <1>1, <1>3, <1>4 DEF f, l

\* A session that spent one message of its budget.
LEMMA OutgoingIs ==
    ASSUME NEW r \in SessionState, r.outgoing < HumanSends,
           NEW p, p = [r EXCEPT !.outgoing = @ + 1]
    PROVE  /\ p \in SessionState /\ Same(p, r)
           /\ p.endpoint = r.endpoint /\ p.born = r.born /\ p.inbox = r.inbox
           /\ p.turn = r.turn /\ p.outgoing = r.outgoing + 1
<1>. DEFINE n == r.outgoing + 1
<1>1. n \in 0 .. HumanSends
  BY SessionTypes, NumbersHold DEF Numbers
<1>2. p = [r EXCEPT !.outgoing = n]
  OBVIOUS
<1>. HIDE DEF n
<1>3. /\ p \in SessionState /\ Same(p, r)
      /\ p.endpoint = r.endpoint /\ p.born = r.born /\ p.inbox = r.inbox
      /\ p.turn = r.turn /\ p.outgoing = n
  BY <1>1, <1>2 DEF SessionState, Same
<1>. QED
  BY <1>3 DEF n

\* All but the memory of its own messages.
Alike(p, r) == /\ p.seen = r.seen /\ p.chain = r.chain /\ p.hop = r.hop
               /\ p.ro = r.ro /\ p.peerTurn = r.peerTurn /\ p.noSend = r.noSend
               /\ p.last = r.last /\ p.endpoint = r.endpoint /\ p.born = r.born
               /\ p.inbox = r.inbox /\ p.turn = r.turn
               /\ p.outgoing = r.outgoing

-----------------------------------------------------------------------------
(* Queues *)

\* p is what is left of the first n items of q, in their order.
Within(p, q, n) ==
    /\ p \in Seq(PeerInput)
    /\ \E e \in [1 .. Len(p) -> 1 .. n] :
          /\ \A i, j \in 1 .. Len(p) : i < j => e[i] < e[j]
          /\ \A i \in 1 .. Len(p) : p[i] = q[e[i]] /\ i <= e[i]
\* p is what is left of q.
Drawn(p, q) == Within(p, q, Len(q))

\* The least number of a set.
LEMMA Least ==
    ASSUME NEW S \in SUBSET Nat, S # {}
    PROVE  \E x \in S : \A y \in S : x <= y
<1>. DEFINE Less == {ss \in Nat \X Nat : ss[1] < ss[2]}
<1>1. IsWellFoundedOn(Less, Nat)
  BY NatLessThanWellFounded, Zenon DEF OpToRel
<1>2. PICK x \in S : \A y \in S : ~ (<<y, x>> \in Less)
  <2>. HIDE DEF Less
  <2>. QED
    BY <1>1, WFMin
<1>3. ASSUME NEW y \in S PROVE x <= y
  <2>1. <<y, x>> \in Nat \X Nat /\ <<y, x>>[1] = y /\ <<y, x>>[2] = x
    OBVIOUS
  <2>2. ~ (y < x)
    BY <1>2, <2>1
  <2>. QED
    BY <2>2
<1>. QED
  BY <1>3

\* A queue that is left alone.
LEMMA DrawnSame == ASSUME NEW q \in Seq(PeerInput) PROVE Drawn(q, q)
<1>. DEFINE e == [i \in 1 .. Len(q) |-> i]
<1>1. /\ e \in [1 .. Len(q) -> 1 .. Len(q)]
      /\ \A i, j \in 1 .. Len(q) : i < j => e[i] < e[j]
      /\ \A i \in 1 .. Len(q) : q[i] = q[e[i]] /\ i <= e[i]
  OBVIOUS
<1>. HIDE DEF e
<1>. QED
  BY <1>1 DEF Drawn, Within

\* Nothing is left of any queue.
LEMMA WithinNone == ASSUME NEW q, NEW n \in Nat PROVE Within(<<>>, q, n)
<1>. DEFINE e == [i \in 1 .. 0 |-> i]
            p == <<>>
<1>1. /\ p \in Seq(PeerInput) /\ Len(p) = 0 /\ e \in [1 .. 0 -> 1 .. n]
      /\ \A i \in 1 .. 0 : FALSE
  OBVIOUS
<1>2. Within(p, q, n)
  <2>. HIDE DEF e, p
  <2>. QED
    BY <1>1 DEF Within
<1>. QED
  BY <1>2

\* What follows the item k of a queue.
LEMMA DrawnTail ==
    ASSUME NEW q \in Seq(PeerInput), NEW k \in 1 .. Len(q)
    PROVE  Drawn(SubSeq(q, k + 1, Len(q)), q)
<1>. DEFINE p == SubSeq(q, k + 1, Len(q))
            e == [i \in 1 .. Len(p) |-> i + k]
<1>1. /\ p \in Seq(PeerInput) /\ Len(p) = Len(q) - k
      /\ \A i \in 1 .. Len(p) : p[i] = q[i + k]
  OBVIOUS
<1>2. /\ e \in [1 .. Len(p) -> 1 .. Len(q)]
      /\ \A i, j \in 1 .. Len(p) : i < j => e[i] < e[j]
      /\ \A i \in 1 .. Len(p) : p[i] = q[e[i]] /\ i <= e[i]
  <2>. HIDE DEF p
  <2>. QED
    BY <1>1
<1>3. Drawn(p, q)
  <2>. HIDE DEF e, p
  <2>. QED
    BY <1>1, <1>2 DEF Drawn, Within
<1>. QED
  BY <1>3

\* One more item is looked at, and kept or not.
LEMMA WithinNext ==
    ASSUME NEW q \in Seq(PeerInput), NEW n \in 1 .. Len(q), NEW p,
           Within(p, q, n - 1)
    PROVE  Within(p, q, n) /\ Within(Append(p, q[n]), q, n)
<1>1. p \in Seq(PeerInput)
  BY DEF Within
<1>2. PICK e \in [1 .. Len(p) -> 1 .. n - 1] :
          /\ \A i, j \in 1 .. Len(p) : i < j => e[i] < e[j]
          /\ \A i \in 1 .. Len(p) : p[i] = q[e[i]] /\ i <= e[i]
  BY DEF Within
<1>3. Within(p, q, n)
  <2>1. e \in [1 .. Len(p) -> 1 .. n]
    BY <1>2
  <2>. QED
    BY <1>1, <1>2, <2>1 DEF Within
<1>4. Within(Append(p, q[n]), q, n)
  <2>. DEFINE r == Append(p, q[n])
              f == [i \in 1 .. Len(r) |-> IF i = Len(r) THEN n ELSE e[i]]
  <2>1. /\ r \in Seq(PeerInput) /\ Len(r) = Len(p) + 1 /\ r[Len(r)] = q[n]
        /\ \A i \in 1 .. Len(p) : r[i] = p[i]
    BY <1>1
  <2>2. Len(p) \in Nat /\ n \in Nat /\ Len(p) <= n - 1
    <3>1. Len(p) \in Nat /\ n \in Nat /\ n >= 1
      BY <1>1
    <3>2. CASE Len(p) = 0
      BY <3>1, <3>2
    <3>3. CASE Len(p) # 0
      <4>1. Len(p) \in 1 .. Len(p)
        BY <3>1, <3>3
      <4>. QED
        BY <1>2, <3>1, <4>1
    <3>. QED
      BY <3>2, <3>3
  <2>3. \A i \in 1 .. Len(r) : i = Len(r) \/ i \in 1 .. Len(p)
    <3>. HIDE DEF r
    <3>. QED
      BY <2>1, <2>2
  <2>4. f \in [1 .. Len(r) -> 1 .. n]
    <3>. HIDE DEF r
    <3>1. ASSUME NEW i \in 1 .. Len(r)
          PROVE  (IF i = Len(r) THEN n ELSE e[i]) \in 1 .. n
      <4>1. i # Len(r) => e[i] \in 1 .. n - 1
        BY <1>2, <2>3
      <4>. QED
        BY <2>2, <4>1
    <3>. QED
      BY <3>1
  <2>5. \A i, j \in 1 .. Len(r) : i < j => f[i] < f[j]
    <3>. HIDE DEF r
    <3>. SUFFICES ASSUME NEW i \in 1 .. Len(r), NEW j \in 1 .. Len(r), i < j
                  PROVE  f[i] < f[j]
      OBVIOUS
    <3>1. i # Len(r) /\ i \in 1 .. Len(p)
      <4>1. i # Len(r)
        BY <2>1
      <4>. QED
        BY <2>3, <4>1
    <3>2. f[i] = e[i] /\ e[i] \in 1 .. n - 1
      BY <1>2, <3>1
    <3>3. CASE j = Len(r)
      <4>1. f[j] = n
        BY <3>3
      <4>. QED
        BY <2>2, <3>2, <4>1
    <3>4. CASE j # Len(r)
      <4>1. j \in 1 .. Len(p) /\ f[j] = e[j]
        BY <2>3, <3>4
      <4>. QED
        BY <1>2, <3>1, <3>2, <4>1
    <3>. QED
      BY <3>3, <3>4
  <2>6. \A i \in 1 .. Len(r) : r[i] = q[f[i]] /\ i <= f[i]
    <3>. HIDE DEF r
    <3>. QED
      BY <1>2, <2>1, <2>2, <2>3
  <2>. HIDE DEF f, r
  <2>7. Within(r, q, n)
    BY <2>1, <2>4, <2>5, <2>6 DEF Within
  <2>. QED
    BY <2>7 DEF r
<1>. QED
  BY <1>3, <1>4

\* The equations of Without, and a function that meets them up to n.
Sieve(f, q, D, n) ==
    /\ f[0] = <<>>
    /\ \A k \in 1 .. n : f[k] = IF q[k] \in D THEN f[k - 1] ELSE Append(f[k - 1], q[k])

\* Without() is what its equations say: there is a function that meets them.
LEMMA SieveExists ==
    ASSUME NEW q \in Seq(PeerInput), NEW D
    PROVE  \A n \in 0 .. Len(q) : \E f : Sieve(f, q, D, n)
<1>. DEFINE Bad == {n \in 0 .. Len(q) : ~ \E f : Sieve(f, q, D, n)}
<1>1. SUFFICES ASSUME Bad # {} PROVE FALSE
  OBVIOUS
<1>2. PICK n \in Bad : \A k \in Bad : n <= k
  <2>1. Bad \subseteq Nat
    OBVIOUS
  <2>. HIDE DEF Bad
  <2>. QED
    BY <1>1, <2>1, Least
<1>3. n \in 0 .. Len(q) /\ Len(q) \in Nat /\ ~ \E f : Sieve(f, q, D, n)
  BY <1>2
<1>4. n # 0
  <2>. DEFINE f == [k \in {0} |-> <<>>]
  <2>1. f[0] = <<>> /\ \A k \in 1 .. 0 : FALSE
    OBVIOUS
  <2>2. Sieve(f, q, D, 0)
    BY <2>1 DEF Sieve
  <2>. QED
    BY <1>3, <2>2
<1>5. n - 1 \in 0 .. Len(q) /\ n - 1 < n
  BY <1>3, <1>4
<1>6. n - 1 \notin Bad
  <2>. HIDE DEF Bad
  <2>. QED
    BY <1>2, <1>3, <1>5
<1>7. PICK f : Sieve(f, q, D, n - 1)
  BY <1>5, <1>6
<1>. DEFINE g == [k \in 0 .. n |-> IF k # n THEN f[k] ELSE
                     IF q[n] \in D THEN f[n - 1] ELSE Append(f[n - 1], q[n])]
<1>8. g[0] = f[0]
  BY <1>3, <1>4
<1>9. ASSUME NEW k \in 1 .. n
      PROVE  g[k] = IF q[k] \in D THEN g[k - 1] ELSE Append(g[k - 1], q[k])
  <2>1. k - 1 \in 0 .. n /\ k - 1 # n /\ k \in 0 .. n
    BY <1>3
  <2>2. g[k - 1] = f[k - 1]
    BY <2>1
  <2>3. CASE k = n
    BY <2>1, <2>2, <2>3
  <2>4. CASE k # n
    <3>1. k \in 1 .. n - 1
      BY <1>3, <2>4
    <3>2. g[k] = f[k]
      BY <2>1, <2>4
    <3>. QED
      BY <1>7, <2>2, <3>1, <3>2 DEF Sieve
  <2>. QED
    BY <2>3, <2>4
<1>10. Sieve(g, q, D, n)
  <2>. HIDE DEF g
  <2>. QED
    BY <1>7, <1>8, <1>9 DEF Sieve
<1>. QED
  BY <1>3, <1>10

\* What the sweep leaves was drawn from the queue.
LEMMA DrawnWithout ==
    ASSUME NEW q \in Seq(PeerInput), NEW D
    PROVE  Drawn(Without(q, D), q)
<1>. DEFINE Kept == CHOOSE f : f = [n \in 0 .. Len(q) |->
                       IF n = 0 THEN <<>>
                       ELSE IF q[n] \in D THEN f[n - 1] ELSE Append(f[n - 1], q[n])]
<1>1. Without(q, D) = Kept[Len(q)]
  BY DEF Without
<1>2. Len(q) \in Nat
  OBVIOUS
<1>3. \E f : f = [n \in 0 .. Len(q) |->
                     IF n = 0 THEN <<>>
                     ELSE IF q[n] \in D THEN f[n - 1] ELSE Append(f[n - 1], q[n])]
  <2>1. Len(q) \in 0 .. Len(q)
    BY <1>2
  <2>2. PICK f : Sieve(f, q, D, Len(q))
    BY <2>1, SieveExists
  <2>. DEFINE g == [n \in 0 .. Len(q) |-> f[n]]
              h == [n \in 0 .. Len(q) |->
                     IF n = 0 THEN <<>>
                     ELSE IF q[n] \in D THEN g[n - 1] ELSE Append(g[n - 1], q[n])]
  <2>3. ASSUME NEW n \in 0 .. Len(q) PROVE g[n] = h[n]
    <3>1. CASE n = 0
      BY <2>2, <3>1 DEF Sieve
    <3>2. CASE n # 0
      <4>1. n \in 1 .. Len(q) /\ n - 1 \in 0 .. Len(q)
        BY <1>2, <3>2
      <4>2. g[n] = f[n] /\ g[n - 1] = f[n - 1]
        BY <4>1
      <4>3. f[n] = IF q[n] \in D THEN f[n - 1] ELSE Append(f[n - 1], q[n])
        BY <2>2, <4>1 DEF Sieve
      <4>4. h[n] = IF q[n] \in D THEN g[n - 1] ELSE Append(g[n - 1], q[n])
        <5>. HIDE DEF g
        <5>. QED
          BY <3>2
      <4>. QED
        BY <4>2, <4>3, <4>4
    <3>. QED
      BY <3>1, <3>2
  <2>4. g = h
    BY <2>3
  <2>. QED
    BY <2>4
<1>4. Kept = [n \in 0 .. Len(q) |->
                IF n = 0 THEN <<>>
                ELSE IF q[n] \in D THEN Kept[n - 1] ELSE Append(Kept[n - 1], q[n])]
  BY <1>3
<1>5. Sieve(Kept, q, D, Len(q))
  <2>. HIDE DEF Kept
  <2>1. Kept[0] = <<>>
    BY <1>2, <1>4
  <2>2. ASSUME NEW n \in 1 .. Len(q)
        PROVE  Kept[n] = IF q[n] \in D THEN Kept[n - 1] ELSE Append(Kept[n - 1], q[n])
    <3>1. n \in 0 .. Len(q) /\ n # 0
      BY <1>2
    <3>. QED
      BY <1>4, <3>1
  <2>. QED
    BY <2>1, <2>2 DEF Sieve
<1>. HIDE DEF Kept
<1>. DEFINE Bad == {n \in 0 .. Len(q) : ~ Within(Kept[n], q, n)}
<1>6. Bad = {}
  <2>1. SUFFICES ASSUME Bad # {} PROVE FALSE
    OBVIOUS
  <2>2. PICK n \in Bad : \A k \in Bad : n <= k
    <3>1. Bad \subseteq Nat
      OBVIOUS
    <3>. HIDE DEF Bad
    <3>. QED
      BY <2>1, <3>1, Least
  <2>3. n \in 0 .. Len(q) /\ ~ Within(Kept[n], q, n)
    BY <2>2
  <2>4. n # 0
    <3>1. Kept[0] = <<>>
      BY <1>5 DEF Sieve
    <3>2. Within(<<>>, q, 0)
      BY WithinNone
    <3>. QED
      BY <2>3, <3>1, <3>2
  <2>5. n - 1 \in 0 .. Len(q) /\ n - 1 < n /\ n \in 1 .. Len(q)
    BY <1>2, <2>3, <2>4
  <2>6. n - 1 \notin Bad
    <3>. HIDE DEF Bad
    <3>. QED
      BY <2>2, <2>3, <2>5
  <2>7. Within(Kept[n - 1], q, n - 1)
    BY <2>5, <2>6
  <2>8. Kept[n] = IF q[n] \in D THEN Kept[n - 1] ELSE Append(Kept[n - 1], q[n])
    BY <1>5, <2>5 DEF Sieve
  <2>9. Within(Kept[n - 1], q, n) /\ Within(Append(Kept[n - 1], q[n]), q, n)
    BY <2>5, <2>7, WithinNext
  <2>. QED
    BY <2>3, <2>8, <2>9
<1>7. Len(q) \in 0 .. Len(q)
  BY <1>2
<1>8. Within(Kept[Len(q)], q, Len(q))
  BY <1>6, <1>7
<1>. QED
  BY <1>1, <1>8 DEF Drawn

\* What is left of a queue is not longer, and has no other items.
LEMMA DrawnIs ==
    ASSUME NEW q \in Seq(PeerInput), NEW p, Drawn(p, q)
    PROVE  /\ p \in Seq(PeerInput) /\ Len(p) <= Len(q)
           /\ \A i \in DOMAIN p : \E k \in DOMAIN q : p[i] = q[k]
           /\ Works(p) \subseteq Works(q)
<1>1. p \in Seq(PeerInput) /\ DOMAIN p = 1 .. Len(p) /\ DOMAIN q = 1 .. Len(q)
  BY DEF Drawn, Within
<1>2. PICK e \in [1 .. Len(p) -> 1 .. Len(q)] :
          /\ \A i, j \in 1 .. Len(p) : i < j => e[i] < e[j]
          /\ \A i \in 1 .. Len(p) : p[i] = q[e[i]] /\ i <= e[i]
  BY DEF Drawn, Within
<1>3. \A i \in DOMAIN p : \E k \in DOMAIN q : p[i] = q[k]
  BY <1>1, <1>2
<1>4. Len(p) <= Len(q)
  <2>1. Len(p) \in Nat /\ Len(q) \in Nat
    BY <1>1
  <2>2. CASE Len(p) = 0
    BY <2>1, <2>2
  <2>3. CASE Len(p) # 0
    <3>1. Len(p) \in 1 .. Len(p)
      BY <2>1, <2>3
    <3>. QED
      BY <1>2, <2>1, <3>1
  <2>. QED
    BY <2>2, <2>3
<1>5. Works(p) \subseteq Works(q)
  BY <1>3 DEF Works
<1>. QED
  BY <1>1, <1>3, <1>4, <1>5

-----------------------------------------------------------------------------
(* The inductive invariant *)

\* The chains that were born.
Chains == {c \in Chain : age[c] # "unborn"}

\* Messages and chains are numbered without a gap; generations and grants that
\* were given out are numbered down by the budget that is left.
Numbered == /\ Sent = 1 .. Cardinality(Sent)
            /\ Chains = 1 .. Cardinality(Chains)
            /\ policy.gen = 0 \/ policy.gen > left.policy
            /\ policy.grant \in {0, 1} \/ policy.grant > left.policy + 1

\* An authorization that was given out by now.
Known(u) == /\ u[1] = 0 \/ u[1] > left.policy
            /\ u[2] = 1 \/ u[2] > left.policy + 1

\* What the envelopes say of each other.
Written == \A m \in Sent :
    /\ mail[m].from # mail[m].to
    /\ age[mail[m].chain] # "unborn"
    /\ mail[m].root \in Sent /\ mail[m].parent \in Sent \cup {None}
    /\ mail[mail[m].root].ro => mail[m].ro
    /\ mail[m].parent # None /\ mail[mail[m].parent].ro => mail[m].ro

\* Messages were sent between endpoints that existed; a recipient that is still
\* there knows what it admitted.
Arrived == \A m \in Sent :
    /\ mail[m].target \in 1 .. ses[mail[m].to].born
    /\ mail[m].born \in 1 .. ses[mail[m].from].born
    /\ m \in admitted => \/ m \in ses[mail[m].to].seen
                         \/ mail[m].target # ses[mail[m].to].endpoint

\* What was not admitted ran nowhere and caused nothing.
Earned == /\ \A m \in Id : m \notin admitted => runs[m] = 0 /\ Children(m) = {}
          /\ \A m \in Sent : Cardinality(Children(m)) <= PeerSends

\* The exchange knows whether the message was queued.
Heard == \A m \in Id :
    /\ m \notin Sent => wire[m] = "none" /\ notice[m] = "none"
    /\ wire[m] \in {"queued", "acknowledged"} => m \in admitted
    /\ wire[m] \in {"posted", "refused", "declined"} => m \notin admitted

\* It will not be delivered, for a reason that does not go away.
Doomed(s, i) == \/ age[mail[i.m].chain] # "live"
                \/ ses[s].endpoint # mail[i.m].target
                \/ i.auth # <<policy.gen, policy.grant>>

\* Work that waits for its turn has not run, and what is void is doomed.
Waits(s, i) == /\ i.m \in ses[s].seen /\ runs[i.m] = 0 /\ Known(i.auth)
               /\ i.m \in void => Doomed(s, i)

\* The inbox of a session: what is in it was admitted by the session, once, and
\* has not run.
Inbox(s) ==
    LET q == ses[s].inbox IN
    /\ \A k \in DOMAIN q :
          /\ q[k].m \in Sent
          /\ q[k].failure => mail[q[k].m].from = s
          /\ ~q[k].failure => Waits(s, q[k]) /\ Children(q[k].m) = {}
    /\ \A j, k \in DOMAIN q :
          ~q[j].failure /\ ~q[k].failure /\ q[j].m = q[k].m => j = k
    /\ \A m \in ses[s].seen : mail[m].to = s /\ m \in admitted

\* The turn of a session: a turn that a message began has the origin of that
\* message, and the work it starts has not run.
Turns(s) ==
    LET t == ses[s].turn IN
    /\ t.kind = "idle" <=> t.at = "idle"
    /\ t.at = "begun" => t.kind \in {"peer", "continued"}
    /\ t.kind = "peer" \/ t.at = "begun" =>
         /\ t.item \in PeerInput /\ t.item.m \in Sent
         /\ ses[s].peerTurn /\ ses[s].last = t.item.m
         /\ ses[s].noSend = t.item.failure
         /\ ~t.item.failure => t.item.m \in ses[s].seen
    /\ t.kind = "peer" /\ t.at = "begun" /\ ~t.item.failure => Waits(s, t.item)

\* What bounds the messages of a session: its budget counts the children of the
\* message that triggered its turn.
Causes(s) ==
    LET r == ses[s] IN
    /\ ~r.peerTurn => r.hop = 0
    /\ r.peerTurn /\ ~r.noSend =>
         /\ r.last \in r.seen /\ r.last \notin Works(r.inbox)
         /\ mail[r.last].ro => r.ro
         /\ Cardinality(Children(r.last)) <= r.outgoing

\* One session.
Sound(s) == Inbox(s) /\ Turns(s) /\ Causes(s)

\* The inductive invariant.
IInv == /\ TypeOK /\ Numbered /\ Written /\ Arrived /\ Earned /\ Heard
        /\ \A s \in Session : Sound(s)

-----------------------------------------------------------------------------
(* What a step leaves alone *)

\* No step takes back what is behind the state of a session.
Moves(s) == /\ ses'[s].born >= ses[s].born
            /\ \/ ses'[s].endpoint = ses[s].endpoint
               \/ ses'[s].endpoint \notin 1 .. ses[s].born
            /\ \/ ses[s].seen \subseteq ses'[s].seen
               \/ ses'[s].endpoint \notin 1 .. ses[s].born
\* No step takes back what is behind the whole.
Forward ==
    /\ \A m \in Sent : m \in Sent' /\ mail'[m] = mail[m]
    /\ \A c \in Chain : /\ age[c] # "unborn" => age'[c] # "unborn"
                        /\ age[c] \notin {"unborn", "live"} => age'[c] # "live"
    /\ \A u \in Nat \X Nat :
          Known(u) => /\ Known(u)'
                      /\ u # <<policy.gen, policy.grant>> =>
                            u # <<policy'.gen, policy'.grant>>
    /\ admitted \subseteq admitted'
    /\ \A s \in Session : Moves(s)

\* The messages of W, seen by s, did not run and caused nothing, and if one
\* lost its ground it is doomed.
Calm(s, W) ==
    \A m \in W :
        /\ runs'[m] = runs[m] /\ Children(m)' = Children(m)
        /\ \A i \in PeerInput :
              ~i.failure /\ i.m = m /\ Known(i.auth) /\ m \in void'
                => m \in void \/ Doomed(s, i)'

\* What the type invariant says of sessions and messages.
LEMMA Typed ==
    ASSUME TypeOK
    PROVE  /\ policy \in [on : BOOLEAN, gen : Nat, grant : Nat, asked : BOOLEAN]
           /\ policy.gen \in Nat /\ policy.grant \in Nat
           /\ \A s \in Session : ses[s] \in SessionState
           /\ \A m \in Sent : m \in Id /\ mail[m] \in Letters
           /\ \A s \in Session : ses[s].seen \subseteq Sent /\ ses[s].seen \subseteq Id
           /\ \A s \in Session : ses[s].inbox \in Seq(PeerInput)
           /\ admitted \subseteq Sent /\ void \subseteq admitted
           /\ left \in Budget
BY SessionTypes DEF TypeOK, Sent

\* The fields of a message.
LEMMA LetterTypes ==
    \A l \in Letters : /\ l.from \in Session /\ l.to \in Session
                       /\ l.born \in Nat /\ l.target \in Nat
                       /\ l.chain \in Chain
                       /\ l.ro \in BOOLEAN /\ l.hop \in 0 .. MaxHops
                       /\ l.root \in Id
                       /\ l.attempt \in 0 .. MaxResends
                       /\ l.parent \in Id \cup {None}
BY DEF Letters

\* What will not be delivered never will be: endpoints, chains and
\* authorizations do not come back.
LEMMA DoomedStays ==
    ASSUME TypeOK, Written, Arrived, Forward, NEW s \in Session,
           NEW i \in PeerInput,
           i.m \in Sent, mail[i.m].to = s, Known(i.auth), Doomed(s, i)
    PROVE  Doomed(s, i)'
<1>1. mail'[i.m] = mail[i.m] /\ mail[i.m].chain \in Chain
  BY Typed, LetterTypes DEF Forward
<1>2. CASE age[mail[i.m].chain] # "live"
  BY <1>1, <1>2 DEF Forward, Written, Doomed
<1>3. CASE ses[s].endpoint # mail[i.m].target
  <2>1. mail[i.m].target \in 1 .. ses[s].born
    BY DEF Arrived
  <2>2. ses'[s].endpoint # mail[i.m].target
    BY <1>3, <2>1 DEF Forward, Moves
  <2>. QED
    BY <1>1, <2>2 DEF Doomed
<1>4. CASE i.auth # <<policy.gen, policy.grant>>
  BY <1>4, ItemTypes DEF Forward, Doomed
<1>. QED
  BY <1>2, <1>3, <1>4 DEF Doomed

\* The work a session holds and did not touch still waits.
LEMMA WaitsStays ==
    ASSUME TypeOK, Written, Arrived, Forward, NEW s \in Session,
           NEW i \in PeerInput,
           i.m \in Sent, mail[i.m].to = s, ~i.failure, Waits(s, i),
           i.m \in ses'[s].seen, Calm(s, {i.m})
    PROVE  Waits(s, i)' /\ Children(i.m)' = Children(i.m)
<1>1. Known(i.auth)' /\ runs'[i.m] = 0 /\ Children(i.m)' = Children(i.m)
  BY ItemTypes DEF Forward, Waits, Calm
<1>2. i.m \in void' => i.m \in void \/ Doomed(s, i)'
  BY DEF Waits, Calm
<1>3. i.m \in void => Doomed(s, i)'
  BY DoomedStays DEF Waits
<1>. QED
  BY <1>1, <1>2, <1>3 DEF Waits

\* An inbox that lost items at most.
LEMMA InboxKept ==
    ASSUME TypeOK, Written, Arrived, Forward, NEW s \in Session, Inbox(s),
           Drawn(ses'[s].inbox, ses[s].inbox), ses'[s].seen = ses[s].seen,
           Calm(s, Works(ses'[s].inbox))
    PROVE  Inbox(s)'
<1>. DEFINE q == ses[s].inbox
<1>1. q \in Seq(PeerInput) /\ DOMAIN q = 1 .. Len(q)
  BY Typed
<1>2. PICK p : p = ses'[s].inbox
  OBVIOUS
<1>3. p \in Seq(PeerInput) /\ DOMAIN p = 1 .. Len(p)
  BY <1>1, <1>2, DrawnIs
<1>4. PICK e \in [1 .. Len(p) -> 1 .. Len(q)] :
          /\ \A i, j \in 1 .. Len(p) : i < j => e[i] < e[j]
          /\ \A i \in 1 .. Len(p) : p[i] = q[e[i]] /\ i <= e[i]
  BY <1>2 DEF Drawn, Within
<1>5. \A m \in ses[s].seen : m \in Sent /\ mail[m].to = s /\ m \in admitted
  BY Typed DEF Inbox
<1>6. ASSUME NEW k \in DOMAIN p
      PROVE  /\ p[k].m \in Sent'
             /\ p[k].failure => mail'[p[k].m].from = s
             /\ ~p[k].failure => Waits(s, p[k])' /\ Children(p[k].m)' = {}
  <2>1. e[k] \in DOMAIN q /\ p[k] = q[e[k]] /\ p[k] \in PeerInput
    BY <1>1, <1>3, <1>4
  <2>2. /\ p[k].m \in Sent
        /\ p[k].failure => mail[p[k].m].from = s
        /\ ~p[k].failure => Waits(s, p[k]) /\ Children(p[k].m) = {}
    BY <2>1 DEF Inbox
  <2>3. p[k].m \in Sent' /\ mail'[p[k].m] = mail[p[k].m]
    BY <2>2 DEF Forward
  <2>4. ASSUME ~p[k].failure PROVE Waits(s, p[k])' /\ Children(p[k].m)' = {}
    <3>1. p[k].m \in ses[s].seen /\ mail[p[k].m].to = s
      BY <1>5, <2>2, <2>4 DEF Waits
    <3>2. p[k].m \in Works(ses'[s].inbox)
      BY <1>2, <2>4 DEF Works
    <3>3. Calm(s, {p[k].m})
      BY <3>2 DEF Calm
    <3>. QED
      BY <2>1, <2>2, <2>4, <3>1, <3>3, WaitsStays
  <2>. QED
    BY <2>2, <2>3, <2>4
<1>7. ASSUME NEW j \in DOMAIN p, NEW k \in DOMAIN p,
             ~p[j].failure, ~p[k].failure, p[j].m = p[k].m
      PROVE  j = k
  <2>1. /\ e[j] \in DOMAIN q /\ p[j] = q[e[j]] /\ e[k] \in DOMAIN q
        /\ p[k] = q[e[k]]
        /\ e[j] \in Nat /\ e[k] \in Nat /\ j \in Nat /\ k \in Nat
    BY <1>1, <1>3, <1>4
  <2>2. e[j] = e[k]
    BY <1>7, <2>1 DEF Inbox
  <2>. QED
    BY <1>3, <1>4, <2>1, <2>2
<1>8. \A m \in ses'[s].seen : mail'[m].to = s /\ m \in admitted'
  BY <1>5 DEF Forward
<1>. QED
  BY <1>2, <1>6, <1>7, <1>8 DEF Inbox

\* A turn that goes on.
LEMMA TurnsKept ==
    ASSUME TypeOK, Written, Arrived, Forward, NEW s \in Session, Inbox(s),
           Turns(s),
           ses'[s].turn = ses[s].turn, ses'[s].peerTurn = ses[s].peerTurn,
           ses'[s].noSend = ses[s].noSend, ses'[s].last = ses[s].last,
           ses[s].seen \subseteq ses'[s].seen, Calm(s, Begun(s))
    PROVE  Turns(s)'
<1>. DEFINE t == ses[s].turn
<1>1. t \in TurnState
  BY Typed, SessionTypes
<1>2. PICK u : u = t
  OBVIOUS
<1>3. t.kind = "peer" \/ t.at = "begun" => t.item.m \in Sent'
  BY DEF Turns, Forward
<1>4. ASSUME u.kind = "peer", u.at = "begun", ~u.item.failure PROVE Waits(s, u.item)'
  <2>1. u.item \in PeerInput /\ u.item.m \in Sent /\ u.item.m \in ses[s].seen
    BY <1>1, <1>2, <1>4, TurnTypes DEF Turns
  <2>2. mail[u.item.m].to = s /\ Waits(s, u.item)
    BY <1>2, <1>4, <2>1 DEF Turns, Inbox
  <2>3. Calm(s, {u.item.m})
    BY <1>2, <1>4 DEF Begun
  <2>. QED
    BY <1>4, <2>1, <2>2, <2>3, WaitsStays
<1>. QED
  BY <1>2, <1>3, <1>4 DEF Turns

\* The bounds of a session that sends nothing.
LEMMA CausesKept ==
    ASSUME TypeOK, Forward, NEW s \in Session, Inbox(s), Causes(s),
           ses'[s].peerTurn = ses[s].peerTurn, ses'[s].noSend = ses[s].noSend,
           ses'[s].last = ses[s].last, ses'[s].hop = ses[s].hop,
           ses'[s].ro = ses[s].ro,
           ses'[s].outgoing = ses[s].outgoing,
           ses[s].seen \subseteq ses'[s].seen,
           Works(ses'[s].inbox) \ Works(ses[s].inbox) \subseteq Sent \ ses[s].seen,
           \A m \in ses[s].seen : Children(m)' = Children(m)
    PROVE  Causes(s)'
<1>1. CASE ses[s].peerTurn /\ ~ses[s].noSend
  <2>1. PICK l : l = ses[s].last
    OBVIOUS
  <2>2. /\ l \in ses[s].seen /\ l \in Sent /\ l \notin Works(ses[s].inbox)
        /\ mail[l].ro => ses[s].ro
        /\ Cardinality(Children(l)) <= ses[s].outgoing
    BY <1>1, <2>1, Typed DEF Causes
  <2>3. /\ mail'[l] = mail[l] /\ Children(l)' = Children(l)
        /\ l \notin Works(ses'[s].inbox)
    BY <2>2 DEF Forward
  <2>4. Cardinality(Children(l))' <= ses'[s].outgoing
    BY <2>2, <2>3
  <2>. QED
    BY <1>1, <2>1, <2>2, <2>3, <2>4 DEF Causes
<1>2. CASE ~(ses[s].peerTurn /\ ~ses[s].noSend)
  BY <1>2 DEF Causes
<1>. QED
  BY <1>1, <1>2

\* A session the step is not about.
LEMMA Undisturbed ==
    ASSUME TypeOK, Written, Arrived, Forward, NEW s \in Session, Sound(s),
           ses'[s] = ses[s], Calm(s, ses[s].seen)
    PROVE  Sound(s)'
<1>1. Works(ses[s].inbox) \subseteq ses[s].seen
  BY DEF Sound, Inbox, Works, Waits
<1>2. Begun(s) \subseteq ses[s].seen
  BY DEF Sound, Turns, Begun
<1>3. Calm(s, Works(ses'[s].inbox)) /\ Calm(s, Begun(s))
  BY <1>1, <1>2 DEF Calm
<1>4. Drawn(ses'[s].inbox, ses[s].inbox)
  BY Typed, DrawnSame
<1>5. \A m \in ses[s].seen : Children(m)' = Children(m)
  BY DEF Calm
<1>6. Inbox(s)'
  BY <1>3, <1>4, InboxKept DEF Sound
<1>7. Turns(s)'
  BY <1>3, TurnsKept DEF Sound
<1>8. Causes(s)'
  BY <1>5, CausesKept DEF Sound
<1>. QED
  BY <1>6, <1>7, <1>8 DEF Sound

\* The types of the next state of a session.
LEMMA NewBorn ==
    ASSUME TypeOK' PROVE \A s \in Session : ses'[s] \in SessionState /\ ses'[s].born \in Nat
<1>1. \A s \in Session : ses'[s] \in SessionState
  BY DEF TypeOK
<1>. QED
  BY <1>1, SessionTypes

\* A step that sends and admits nothing.
LEMMA PostsKept ==
    ASSUME TypeOK, TypeOK', Written, Arrived, Earned, Forward, mail' = mail,
           admitted' = admitted, \A m \in Id \ admitted : runs'[m] = runs[m]
    PROVE  Written' /\ Arrived' /\ Earned'
<1>1. Sent' = Sent /\ \A m : Children(m)' = Children(m)
  BY DEF Sent, Children
<1>2. Written'
  <2>1. \A m \in Sent : mail[m].chain \in Chain
    BY Typed, LetterTypes
  <2>. QED
    BY <1>1, <2>1 DEF Written, Forward
<1>3. Arrived'
  <2>1. SUFFICES ASSUME NEW m \in Sent
                 PROVE  /\ mail[m].target \in 1 .. ses'[mail[m].to].born
                        /\ mail[m].born \in 1 .. ses'[mail[m].from].born
                        /\ m \in admitted => \/ m \in ses'[mail[m].to].seen
                                             \/ mail[m].target # ses'[mail[m].to].endpoint
    BY <1>1 DEF Arrived
  <2>2. mail[m].to \in Session /\ mail[m].from \in Session
    BY Typed, LetterTypes
  <2>3. /\ mail[m].target \in 1 .. ses[mail[m].to].born
        /\ mail[m].born \in 1 .. ses[mail[m].from].born
        /\ m \in admitted => \/ m \in ses[mail[m].to].seen
                             \/ mail[m].target # ses[mail[m].to].endpoint
    BY DEF Arrived
  <2>4. Moves(mail[m].to) /\ Moves(mail[m].from)
    BY <2>2 DEF Forward
  <2>5. /\ ses[mail[m].to].born \in Nat
        /\ ses'[mail[m].to].born >= ses[mail[m].to].born
        /\ ses[mail[m].from].born \in Nat
        /\ ses'[mail[m].from].born >= ses[mail[m].from].born
        /\ ses'[mail[m].to].born \in Nat /\ ses'[mail[m].from].born \in Nat
    BY <2>2, <2>4, Typed, SessionTypes, NewBorn DEF Moves
  <2>6. m \in admitted => \/ m \in ses'[mail[m].to].seen
                          \/ mail[m].target # ses'[mail[m].to].endpoint
    BY <2>3, <2>4 DEF Moves
  <2>. QED
    BY <2>3, <2>5, <2>6
<1>4. Earned'
  BY <1>1 DEF Earned
<1>. QED
  BY <1>2, <1>3, <1>4

\* The messages a message caused can be counted.
LEMMA ChildrenFinite == \A i : IsFiniteSet(Children(i)) /\ Cardinality(Children(i)) \in Nat
<1>1. ASSUME NEW i
      PROVE  IsFiniteSet(Children(i)) /\ Cardinality(Children(i)) \in Nat
  <2>1. Children(i) \subseteq Id /\ IsFiniteSet(Id)
    BY NumbersHold DEF Children, Sent, Numbers
  <2>2. IsFiniteSet(Children(i))
    BY <2>1, FS_Subset
  <2>. QED
    BY <2>2, FS_CardinalityType
<1>. QED
  BY <1>1

-----------------------------------------------------------------------------
(* Steps of one session that write no message *)

\* The work a session holds: queued, or in a turn that is about to start.
Held(r) ==
    Works(r.inbox) \cup {m \in {r.turn.item.m} : /\ r.turn.kind = "peer" /\ r.turn.at = "begun"
                                                /\ ~r.turn.item.failure}

\* A session with less in its inbox and no new turn holds no more.
LEMMA HeldLess ==
    ASSUME NEW r, NEW p, Works(p.inbox) \subseteq Works(r.inbox),
           \/ p.turn = r.turn
           \/ ~(p.turn.kind = "peer" /\ p.turn.at = "begun")
           \/ p.turn.item.failure \/ p.turn.item.m \in Works(r.inbox)
    PROVE  Held(p) \subseteq Held(r)
BY DEF Held

\* What waits is what the sessions hold; a session has begun one turn at most.
LEMMA WaitingHeld == /\ Waiting = UNION {Held(ses[s]) : s \in Session}
                     /\ Waiting' = UNION {Held(ses'[s]) : s \in Session}
                     /\ \A s : Begun(s) \subseteq Held(ses[s])
                     /\ \A s : \A m, n \in Begun(s) : m = n
<1>1. \A s : Dropped(s) \cup Begun(s) = Held(ses[s])
  BY DEF Dropped, Begun, Held
<1>2. \A s : (Dropped(s) \cup Begun(s))' = Held(ses'[s])
  BY DEF Dropped, Begun, Held
<1>3. \A s : \A m, n \in Begun(s) : m = n
  BY DEF Begun
<1>. QED
  BY <1>1, <1>2, <1>3 DEF Waiting

\* Messages are neither sent nor admitted, and leave where they wait.
Lets == /\ Sent' = Sent /\ admitted' = admitted /\ Waiting' \subseteq Waiting
        /\ \A m \in Id : runs'[m] # runs[m] => m \in Waiting
        /\ \A m, n \in Id : runs'[m] # runs[m] /\ runs'[n] # runs[n] => m = n
\* A step that neither sends nor admits a message.
Settled == IInv' /\ Lets

\* The senders know what they knew.
Unspoken == \A m \in Id : Told(m)' = Told(m)
\* The message n is sent, or m enters an inbox, and nothing leaves one.
Sends(n) == /\ n \notin Sent /\ Sent' = Sent \cup {n} /\ admitted' = admitted
            /\ Waiting' = Waiting /\ runs' = runs /\ Unspoken
\* The message m enters an inbox, and nothing else happens.
Admits(m) == /\ m \in Sent \ admitted /\ Sent' = Sent /\ admitted' = admitted \cup {m}
             /\ Waiting' = Waiting \cup {m} /\ runs' = runs /\ Unspoken
             /\ Told(m) # "refused"
\* The sender of m is told w, and nothing else happens.
Tells(m, w) == /\ Told(m) = "none" /\ m \in Sent /\ (w = "queued" <=> m \in admitted)
               /\ Told(m)' = w /\ \A n \in Id \ {m} : Told(n)' = Told(n)
               /\ Sent' = Sent /\ admitted' = admitted /\ Waiting' = Waiting
               /\ runs' = runs

\* Session s becomes p, and nothing behind it is taken back.
Becomes(s, p) ==
    /\ ses' = [ses EXCEPT ![s] = p] /\ p \in SessionState
    /\ p.endpoint \in {0, p.born} /\ Len(p.inbox) <= MaxQueue
    /\ p.seen \cup p.sent \subseteq Sent /\ p.born >= ses[s].born
    /\ p.endpoint = ses[s].endpoint \/ p.endpoint \notin 1 .. ses[s].born
    /\ ses[s].seen \subseteq p.seen \/ p.endpoint \notin 1 .. ses[s].born
    /\ Held(p) \subseteq Held(ses[s])
\* No authorization is given out.
Untouched == /\ policy' \in [on : BOOLEAN, gen : Nat, grant : Nat, asked : BOOLEAN]
             /\ policy'.gen = policy.gen /\ policy'.grant = policy.grant
             /\ left' \in Budget /\ left'.policy = left.policy
\* Chains are born in order, and do not grow young.
Aging == /\ age' \in [Chain -> {"unborn", "live", "expired"}]
         /\ \A c \in Chain : /\ age[c] # "unborn" => age'[c] # "unborn"
                             /\ age[c] \notin {"unborn", "live"} => age'[c] # "live"
         /\ (Chains = 1 .. Cardinality(Chains))'
\* How an exchange may stand.
Exchange == {"none", "posted", "queued", "refused", "acknowledged", "declined",
             "lost", "unheard"}

\* The exchange goes on as it went.
Wired == /\ wire' \in [Id -> Exchange]
         /\ \A m \in Id : wire'[m] # wire[m] =>
              /\ m \in Sent
              /\ wire'[m] \in {"queued", "acknowledged"} => m \in admitted
              /\ wire'[m] \in {"posted", "refused", "declined"} => m \notin admitted
\* Notices are of messages that were sent.
Noticed == /\ notice' \in [Id -> {"none", "sent", "over"}]
           /\ \A m \in Id \ Sent : notice'[m] = notice[m]
\* What loses its ground or starts its turn is addressed to s.
Loses(s) == /\ void' \subseteq admitted /\ \A m \in void' \ void : mail[m].to = s
            /\ runs' \in [Id -> Nat]
            /\ \A m \in Id : runs'[m] # runs[m] => m \in Begun(s)
\* A step of session s that becomes p.
Local(s, p) == /\ Becomes(s, p) /\ Untouched /\ Aging /\ Wired /\ Noticed /\ Loses(s)
               /\ mail' = mail /\ admitted' = admitted

\* The fields of the budget of a run.
LEMMA BudgetTypes ==
    ASSUME NEW l \in Budget
    PROVE  /\ l.policy \in Nat /\ l.messages \in 0 .. Cardinality(Id)
           /\ l.chains \in 0 .. Cardinality(Chain)
           /\ l.prompt \in [Session -> Nat]
BY DEF Budget

\* An event spends its own part of the budget.
LEMMA EventIs ==
    ASSUME left \in Budget,
           NEW k \in {"policy", "replace", "wake", "break", "fail", "cancel", "loss"},
           Event(k)
    PROVE  /\ left' \in Budget /\ left'.messages = left.messages
           /\ left'.chains = left.chains
           /\ k # "policy" => left'.policy = left.policy
           /\ k = "policy" => left.policy > 0 /\ left'.policy = left.policy - 1
BY DEF Event, Budget

\* A step that leaves the policy alone gives out no authorization.
LEMMA UntouchedIs ==
    ASSUME TypeOK, policy' = policy,
           \/ left' = left
           \/ \E k \in {"replace", "wake", "break", "fail", "cancel", "loss"} : Event(k)
    PROVE  Untouched
<1>1. /\ left \in Budget
      /\ policy \in [on : BOOLEAN, gen : Nat, grant : Nat, asked : BOOLEAN]
  BY DEF TypeOK
<1>2. CASE left' = left
  BY <1>1, <1>2 DEF Untouched
<1>3. CASE \E k \in {"replace", "wake", "break", "fail", "cancel", "loss"} : Event(k)
  <2>1. left' \in Budget /\ left'.policy = left.policy
    BY <1>1, <1>3, EventIs
  <2>. QED
    BY <1>1, <2>1 DEF Untouched
<1>. QED
  BY <1>2, <1>3

\* The chains are as old as they were.
LEMMA SameAge == ASSUME TypeOK, Numbered, age' = age PROVE Aging
BY DEF TypeOK, Numbered, Aging, Chains

\* The next chain is the first one that was not born.
LEMMA NewChain ==
    ASSUME TypeOK, Numbered, NextChain <= left.chains,
           age' = [age EXCEPT ![NextChain] = "live"]
    PROVE  NextChain \in Chain /\ age[NextChain] = "unborn" /\ Aging
<1>. DEFINE n == Cardinality(Chains)
<1>1. IsFiniteSet(Chains) /\ n \in Nat /\ NextChain = n + 1
  <2>1. IsFiniteSet(Chain) /\ Chains \subseteq Chain
    BY NumbersHold DEF Numbers, Chains
  <2>2. IsFiniteSet(Chains)
    BY <2>1, FS_Subset
  <2>3. n \in Nat
    BY <2>2, FS_CardinalityType
  <2>. QED
    BY <2>2, <2>3 DEF NextChain, Chains
<1>2. Chains = 1 .. n
  BY DEF Numbered
<1>. HIDE DEF n
<1>3. NextChain \in Chain
  <2>1. left.chains \in 0 .. Cardinality(Chain)
    BY BudgetTypes DEF TypeOK
  <2>. QED
    BY <1>1, <2>1, NumbersHold DEF Numbers
<1>4. NextChain \notin Chains
  BY <1>1, <1>2
<1>5. age[NextChain] = "unborn"
  BY <1>3, <1>4 DEF Chains
<1>6. age \in [Chain -> {"unborn", "live", "expired"}]
  BY DEF TypeOK
<1>7. Chains' = Chains \cup {NextChain}
  BY <1>3, <1>6 DEF Chains
<1>8. (Chains = 1 .. Cardinality(Chains))'
  <2>1. Cardinality(Chains \cup {NextChain}) = n + 1
    BY <1>1, <1>4, FS_AddElement DEF n
  <2>2. Chains \cup {NextChain} = 1 .. n + 1
    BY <1>1, <1>2
  <2>. QED
    BY <1>7, <2>1, <2>2
<1>9. /\ age' \in [Chain -> {"unborn", "live", "expired"}]
      /\ \A c \in Chain : /\ age[c] # "unborn" => age'[c] # "unborn"
                          /\ age[c] \notin {"unborn", "live"} => age'[c] # "live"
  BY <1>3, <1>5, <1>6
<1>. QED
  BY <1>3, <1>5, <1>8, <1>9 DEF Aging

\* No notice is sent.
LEMMA SameNotice == ASSUME TypeOK, notice' = notice PROVE Noticed
BY DEF TypeOK, Noticed

\* A sweep or a take speaks of messages that were sent.
LEMMA NoticedIs ==
    ASSUME TypeOK, NEW s, NEW items, \A i \in items : i.m \in Sent,
           notice' = Notified(s, items)
    PROVE  Noticed
<1>1. notice \in [Id -> {"none", "sent", "over"}]
  BY DEF TypeOK
<1>2. ASSUME NEW m \in Id
      PROVE  /\ notice'[m] \in {"none", "sent", "over"}
             /\ m \notin Sent => notice'[m] = notice[m]
  BY <1>1, <1>2 DEF Notified
<1>. QED
  BY <1>2 DEF Noticed, Notified

\* The messages a session holds were addressed to it and admitted.
LEMMA HeldIs ==
    ASSUME TypeOK, NEW s \in Session, Sound(s)
    PROVE  /\ Works(ses[s].inbox) \subseteq ses[s].seen
           /\ Dropped(s) \subseteq ses[s].seen
           /\ Begun(s) \subseteq ses[s].seen
           /\ \A m \in ses[s].seen : m \in Sent /\ m \in admitted /\ mail[m].to = s
<1>1. Works(ses[s].inbox) \subseteq ses[s].seen
  BY DEF Sound, Inbox, Works, Waits
<1>2. Begun(s) \subseteq ses[s].seen
  BY DEF Sound, Turns, Begun
<1>3. \A m \in ses[s].seen : m \in Sent /\ m \in admitted /\ mail[m].to = s
  BY Typed DEF Sound, Inbox
<1>. QED
  BY <1>1, <1>2, <1>3 DEF Dropped

\* The session loses work it holds.
LEMMA LosesIs ==
    ASSUME TypeOK, NEW s \in Session, Sound(s), NEW W, W \subseteq ses[s].seen,
           void' = void \cup W, runs' = runs
    PROVE  Loses(s)
<1>1. \A m \in W : m \in admitted /\ mail[m].to = s
  BY HeldIs
<1>2. runs \in [Id -> Nat] /\ void \subseteq admitted
  BY DEF TypeOK
<1>. QED
  BY <1>1, <1>2 DEF Loses

\* The session loses no work.
LEMMA LosesNothing ==
    ASSUME TypeOK, NEW s, void' = void, runs' = runs PROVE Loses(s)
BY DEF TypeOK, Loses

\* No exchange goes on.
LEMMA SameWire == ASSUME TypeOK, wire' = wire PROVE Wired
BY DEF TypeOK, Wired, Exchange

\* The exchange still knows whether the message was queued.
LEMMA HeardStays ==
    ASSUME Heard, Wired, Noticed, Sent' = Sent,
           admitted' = admitted PROVE Heard'
<1>1. ASSUME NEW m \in Id
      PROVE  /\ m \notin Sent => wire'[m] = "none" /\ notice'[m] = "none"
             /\ wire'[m] \in {"queued", "acknowledged"} => m \in admitted
             /\ wire'[m] \in {"posted", "refused", "declined"} => m \notin admitted
  BY DEF Heard, Wired, Noticed
<1>. QED
  BY <1>1 DEF Heard

\* A step of one session keeps everything but the soundness of that session,
\* which its action has to show.
LEMMA LocalStep ==
    ASSUME IInv, NEW s \in Session, NEW p, Local(s, p)
    PROVE  TypeOK' /\ Forward /\ (Sound(s)' => Settled)
<1>1. ses \in [Session -> SessionState] /\ TypeOK
  BY DEF IInv, TypeOK
<1>2. ses'[s] = p /\ \A x \in Session \ {s} : ses'[x] = ses[x]
  BY <1>1 DEF Local, Becomes
<1>3. Sent' = Sent /\ \A m : Children(m)' = Children(m)
  BY DEF Local, Sent, Children
<1>4. TypeOK'
  <2>1. /\ ses' \in [Session -> SessionState]
        /\ \A x \in Session :
             /\ ses'[x].endpoint \in {0, ses'[x].born}
             /\ Len(ses'[x].inbox) <= MaxQueue
             /\ ses'[x].seen \cup ses'[x].sent \subseteq Sent
    <3>1. \A x \in Session :
             /\ ses[x].endpoint \in {0, ses[x].born}
             /\ Len(ses[x].inbox) <= MaxQueue
             /\ ses[x].seen \cup ses[x].sent \subseteq Sent
      BY <1>1 DEF TypeOK
    <3>. QED
      BY <1>1, <1>2, <3>1 DEF Local, Becomes
  <2>2. /\ mail' \in [Id -> Letters \cup {NoMail}]
        /\ wire' \in [Id -> Exchange]
        /\ admitted' \subseteq Sent'
    BY <1>1, <1>3 DEF Local, Wired, TypeOK
  <2>3. /\ policy' \in [on : BOOLEAN, gen : Nat, grant : Nat, asked : BOOLEAN]
        /\ notice' \in [Id -> {"none", "sent", "over"}]
        /\ age' \in [Chain -> {"unborn", "live", "expired"}]
        /\ left' \in Budget /\ void' \subseteq admitted'
        /\ runs' \in [Id -> Nat]
    BY DEF Local, Untouched, Noticed, Aging, Loses
  <2>. QED
    BY <1>3, <2>1, <2>2, <2>3 DEF TypeOK, Exchange
<1>5. Forward
  <2>1. \A x \in Session : Moves(x)
    <3>1. \A x \in Session : ses[x].born \in Nat /\ ses[x].born >= ses[x].born
      BY Typed, <1>1, SessionTypes
    <3>2. Moves(s)
      BY <1>2 DEF Local, Becomes, Moves
    <3>. QED
      BY <1>2, <3>1, <3>2 DEF Moves
  <2>2. \A u \in Nat \X Nat :
          Known(u) => /\ Known(u)'
                      /\ u # <<policy.gen, policy.grant>> =>
                            u # <<policy'.gen, policy'.grant>>
    BY DEF Local, Untouched, Known
  <2>. QED
    BY <1>3, <2>1, <2>2 DEF Local, Aging, Forward
<1>7. \A m \in Id : runs'[m] # runs[m] => m \in admitted /\ mail[m].to = s
  BY <1>1, HeldIs DEF Local, Loses, IInv
<1>8. Lets
  <2>1. Waiting' \subseteq Waiting
    <3>1. \A x \in Session : Held(ses'[x]) \subseteq Held(ses[x])
      BY <1>2 DEF Local, Becomes
    <3>. QED
      BY <3>1, WaitingHeld
  <2>2. Begun(s) \subseteq Waiting
    BY WaitingHeld
  <2>3. \A m, n \in Begun(s) : m = n
    BY WaitingHeld
  <2>. QED
    BY <1>3, <2>1, <2>2, <2>3 DEF Local, Loses, Lets
<1>6. ASSUME Sound(s)' PROVE IInv'
  <2>1. Numbered'
    BY <1>3 DEF Local, Untouched, Aging, Numbered, IInv
  <2>2. Written' /\ Arrived' /\ Earned'
    <3>1. \A m \in Id \ admitted : runs'[m] = runs[m]
      BY <1>7
    <3>2. mail' = mail /\ admitted' = admitted
      BY DEF Local
    <3>. QED
      BY <1>4, <1>5, <3>1, <3>2, PostsKept DEF IInv
  <2>3. Heard'
    <3>1. Heard /\ Wired /\ Noticed /\ admitted' = admitted
      BY DEF Local, IInv
    <3>. QED
      BY <1>3, <3>1, HeardStays
  <2>4. ASSUME NEW x \in Session PROVE Sound(x)'
    <3>1. CASE x = s
      BY <1>6, <3>1
    <3>2. CASE x # s
      <4>1. ASSUME NEW m \in ses[x].seen
            PROVE  runs'[m] = runs[m] /\ (m \in void' => m \in void)
        <5>1. m \in Sent /\ mail[m].to = x /\ m \in Id
          BY <1>1, HeldIs DEF IInv, Sent
        <5>. QED
          BY <1>7, <3>2, <5>1 DEF Local, Loses
      <4>2. Calm(x, ses[x].seen)
        BY <1>3, <4>1 DEF Calm
      <4>3. ses'[x] = ses[x]
        BY <1>2, <3>2
      <4>. QED
        BY <1>5, <4>2, <4>3, Undisturbed DEF IInv
    <3>. QED
      BY <3>1, <3>2
  <2>. QED
    BY <1>4, <2>1, <2>2, <2>3, <2>4 DEF IInv
<1>. QED
  BY <1>4, <1>5, <1>6, <1>8 DEF Settled

-----------------------------------------------------------------------------
(* Turns *)

\* What every state of a session is bound to.
LEMMA SessionIs ==
    ASSUME TypeOK, NEW s \in Session
    PROVE  /\ ses[s] \in SessionState /\ ses[s].endpoint \in {0, ses[s].born}
           /\ ses[s].born \in Nat /\ ses[s].inbox \in Seq(PeerInput)
           /\ Len(ses[s].inbox) <= MaxQueue
           /\ ses[s].seen \cup ses[s].sent \subseteq Sent
           /\ ses[s].turn \in TurnState
           /\ ses \in [Session -> SessionState]
BY SessionTypes DEF TypeOK

\* The empty inbox.
LEMMA NoneQueued ==
    /\ Works(<<>>) = {} /\ <<>> \in Seq(PeerInput) /\ Len(<<>>) <= MaxQueue
    /\ \A q : Drawn(<<>>, q)
  BY NumbersHold, WithinNone DEF Works, Numbers, Drawn

\* A session keeps its inbox, its endpoint and what it has seen.
LEMMA QuietBecomes ==
    ASSUME TypeOK, NEW s \in Session, NEW p \in SessionState,
           ses' = [ses EXCEPT ![s] = p], p.born = ses[s].born,
           p.endpoint = ses[s].endpoint \/ p.endpoint = 0,
           p.seen = ses[s].seen, p.sent \subseteq ses[s].sent,
           Drawn(p.inbox, ses[s].inbox),
           \/ p.turn = ses[s].turn
           \/ ~(p.turn.kind = "peer" /\ p.turn.at = "begun")
           \/ p.turn.item.failure \/ p.turn.item.m \in Works(ses[s].inbox)
    PROVE  Becomes(s, p) /\ ses'[s] = p
<1>1. /\ ses[s] \in SessionState /\ ses[s].endpoint \in {0, ses[s].born}
      /\ ses[s].born \in Nat /\ ses[s].inbox \in Seq(PeerInput)
      /\ Len(ses[s].inbox) <= MaxQueue
      /\ ses[s].seen \cup ses[s].sent \subseteq Sent
  BY SessionIs
<1>2. Len(p.inbox) <= Len(ses[s].inbox) /\ p.inbox \in Seq(PeerInput)
  BY <1>1, DrawnIs
<1>3. Len(p.inbox) <= MaxQueue
  BY <1>1, <1>2, NumbersHold DEF Numbers
<1>4. ses'[s] = p
  BY SessionIs
<1>5. Held(p) \subseteq Held(ses[s])
  <2>1. Works(p.inbox) \subseteq Works(ses[s].inbox)
    BY <1>1, DrawnIs
  <2>. QED
    BY <2>1, HeldLess
<1>. QED
  BY <1>1, <1>3, <1>4, <1>5 DEF Becomes

\* The inbox lost nothing but what the step drops, and nothing in it ran.
LEMMA CalmIs ==
    ASSUME mail' = mail, runs' = runs, NEW s, NEW W,
           \A m \in W : m \in void' => m \in void
    PROVE  Calm(s, W)
<1>1. \A m : Children(m)' = Children(m)
  BY DEF Children, Sent
<1>. QED
  BY <1>1 DEF Calm

\* A session that keeps what it knows, with less of its inbox.
LEMMA SameSound ==
    ASSUME IInv, NEW s \in Session, NEW p, Local(s, p), Same(p, ses[s]),
           p.outgoing = ses[s].outgoing, Drawn(p.inbox, ses[s].inbox),
           Calm(s, Works(p.inbox))
    PROVE  TypeOK' /\ Forward /\ ses'[s] = p /\ (Turns(s)' => Settled)
<1>1. TypeOK /\ Numbered /\ Written /\ Arrived /\ Sound(s)
  BY DEF IInv
<1>2. ses'[s] = p /\ mail' = mail
  BY <1>1, SessionIs DEF Local, Becomes
<1>3. TypeOK' /\ Forward /\ (Sound(s)' => Settled)
  BY LocalStep
<1>4. \A m : Children(m)' = Children(m)
  BY <1>2 DEF Children, Sent
<1>5. Inbox(s)'
  BY <1>1, <1>2, <1>3, InboxKept DEF Sound, Same
<1>6. Causes(s)'
  <2>1. Works(p.inbox) \subseteq Works(ses[s].inbox)
    BY <1>1, SessionIs, DrawnIs
  <2>. QED
    BY <1>1, <1>2, <1>3, <1>4, <2>1, CausesKept DEF Sound, Same
<1>. QED
  BY <1>2, <1>3, <1>5, <1>6 DEF Sound

\* A turn that is idle, or runs for nobody.
LEMMA TurnsFree ==
    ASSUME NEW s, ses'[s].turn.kind # "peer", ses'[s].turn.at # "begun",
           ses'[s].turn.kind = "idle" <=> ses'[s].turn.at = "idle"
    PROVE  Turns(s)'
BY DEF Turns

\* What a step that leaves messages, authorizations and ages alone has to show.
LEMMA PlainLocal ==
    ASSUME TypeOK, Numbered, NEW s, NEW p, Becomes(s, p), Noticed, Loses(s),
           mail' = mail, wire' = wire, admitted' = admitted, policy' = policy,
           age' = age,
           \/ left' = left
           \/ \E k \in {"replace", "wake", "break", "fail", "cancel", "loss"} : Event(k)
    PROVE  Local(s, p)
BY UntouchedIs, SameAge, SameWire DEF Local

\* A task wake begins a turn (WakeTurn).
LEMMA WakeTurnStep ==
    ASSUME IInv, NEW s \in Session, WakeTurn(s) PROVE Settled
<1>. DEFINE t == Running("wake")
            p == [ses[s] EXCEPT !.turn = t]
<1>1. TypeOK /\ Numbered
  BY DEF IInv
<1>2. t \in TurnState /\ t.kind = "wake" /\ t.at = "running"
  BY RunningIs
<1>3. ses' = [ses EXCEPT ![s] = p]
  BY DEF WakeTurn
<1>. HIDE DEF t, p
<1>4. /\ ses[s] \in SessionState /\ ses[s].inbox \in Seq(PeerInput)
      /\ p = [ses[s] EXCEPT !.turn = t]
  BY <1>1, SessionIs DEF p
<1>5. /\ p \in SessionState /\ Same(p, ses[s])
      /\ p.endpoint = ses[s].endpoint /\ p.born = ses[s].born
      /\ p.inbox = ses[s].inbox
      /\ p.turn = t /\ p.outgoing = ses[s].outgoing
  BY <1>2, <1>4, TurnIs
<1>6. Drawn(p.inbox, ses[s].inbox)
  BY <1>4, <1>5, DrawnSame
<1>7. /\ mail' = mail /\ wire' = wire /\ admitted' = admitted
      /\ policy' = policy
      /\ age' = age /\ notice' = notice /\ void' = void /\ runs' = runs
      /\ Event("wake")
  BY DEF WakeTurn
<1>8. Becomes(s, p)
  BY <1>1, <1>2, <1>3, <1>5, <1>6, QuietBecomes DEF Same
<1>9. Local(s, p)
  BY <1>1, <1>7, <1>8, SameNotice, LosesNothing, PlainLocal
<1>10. Calm(s, Works(p.inbox))
  BY <1>7, CalmIs
<1>11. ses'[s] = p /\ (Turns(s)' => Settled)
  BY <1>5, <1>6, <1>9, <1>10, SameSound
<1>. QED
  BY <1>2, <1>5, <1>11, TurnsFree

\* A turn ends (TurnEnds).
LEMMA TurnEndsStep ==
    ASSUME IInv, NEW s \in Session, TurnEnds(s) PROVE Settled
<1>. DEFINE t == Idle
            p == [ses[s] EXCEPT !.turn = t]
<1>1. TypeOK /\ Numbered
  BY DEF IInv
<1>2. t \in TurnState /\ t.kind = "idle" /\ t.at = "idle"
  BY DEF Idle, TurnState
<1>3. ses' = [ses EXCEPT ![s] = p]
  BY DEF TurnEnds
<1>. HIDE DEF t, p
<1>4. /\ ses[s] \in SessionState /\ ses[s].inbox \in Seq(PeerInput)
      /\ p = [ses[s] EXCEPT !.turn = t]
  BY <1>1, SessionIs DEF p
<1>5. /\ p \in SessionState /\ Same(p, ses[s])
      /\ p.endpoint = ses[s].endpoint /\ p.born = ses[s].born
      /\ p.inbox = ses[s].inbox
      /\ p.turn = t /\ p.outgoing = ses[s].outgoing
  BY <1>2, <1>4, TurnIs
<1>6. Drawn(p.inbox, ses[s].inbox)
  BY <1>4, <1>5, DrawnSame
<1>7. /\ mail' = mail /\ wire' = wire /\ admitted' = admitted
      /\ policy' = policy
      /\ age' = age /\ notice' = notice /\ void' = void /\ runs' = runs
      /\ left' = left
  BY DEF TurnEnds
<1>8. Becomes(s, p)
  BY <1>1, <1>2, <1>3, <1>5, <1>6, QuietBecomes DEF Same
<1>9. Local(s, p)
  BY <1>1, <1>7, <1>8, SameNotice, LosesNothing, PlainLocal
<1>10. Calm(s, Works(p.inbox))
  BY <1>7, CalmIs
<1>11. ses'[s] = p /\ (Turns(s)' => Settled)
  BY <1>5, <1>6, <1>9, <1>10, SameSound
<1>. QED
  BY <1>2, <1>5, <1>11, TurnsFree

\* The queue is dropped with the turn: everywhere a turn fails.
LEMMA FailedStep ==
    ASSUME IInv, NEW s \in Session, ses' = [ses EXCEPT ![s] = Failed(@)],
           NEW W, W \subseteq ses[s].seen, void' = void \cup W, runs' = runs,
           Noticed,
           mail' = mail, wire' = wire, admitted' = admitted, policy' = policy,
           age' = age,
           \/ left' = left
           \/ \E k \in {"replace", "wake", "break", "fail", "cancel", "loss"} : Event(k)
    PROVE  Settled
<1>. DEFINE p == Failed(ses[s])
<1>1. TypeOK /\ Numbered /\ Sound(s)
  BY DEF IInv
<1>2. ses' = [ses EXCEPT ![s] = p]
  OBVIOUS
<1>3. p = Failed(ses[s]) /\ ses[s] \in SessionState
  BY <1>1, SessionIs
<1>. HIDE DEF p
<1>4. /\ p \in SessionState /\ Same(p, ses[s])
      /\ p.endpoint = ses[s].endpoint /\ p.born = ses[s].born /\ p.inbox = <<>>
      /\ p.turn.kind = "idle" /\ p.turn.at = "idle"
      /\ p.outgoing = ses[s].outgoing
  BY <1>3, FailedIs
<1>5. Drawn(p.inbox, ses[s].inbox) /\ Works(p.inbox) = {}
  BY <1>4, NoneQueued
<1>6. Becomes(s, p)
  BY <1>1, <1>2, <1>4, <1>5, QuietBecomes DEF Same
<1>7. Local(s, p)
  BY <1>1, <1>6, LosesIs, PlainLocal
<1>8. Calm(s, Works(p.inbox))
  BY <1>5 DEF Calm
<1>9. ses'[s] = p /\ (Turns(s)' => Settled)
  BY <1>4, <1>5, <1>7, <1>8, SameSound
<1>. QED
  BY <1>4, <1>9, TurnsFree

\* A turn fails (TurnFails).
LEMMA TurnFailsStep ==
    ASSUME IInv, NEW s \in Session, TurnFails(s) PROVE Settled
<1>1. TypeOK /\ Sound(s)
  BY DEF IInv
<1>2. Dropped(s) \subseteq ses[s].seen
  BY <1>1, HeldIs
<1>3. /\ mail' = mail /\ wire' = wire /\ admitted' = admitted
      /\ policy' = policy
      /\ age' = age /\ notice' = notice /\ void' = void \cup Dropped(s)
      /\ runs' = runs
      /\ Event("fail") /\ ses' = [ses EXCEPT ![s] = Failed(@)]
  BY DEF TurnFails
<1>. QED
  BY <1>1, <1>2, <1>3, SameNotice, FailedStep

\* The inbox is emptied and the turn of the session is no message's.
LEMMA EmptiedStep ==
    ASSUME IInv, NEW s \in Session, ses' = [ses EXCEPT ![s].inbox = <<>>],
           Begun(s) = {},
           NEW W, W \subseteq ses[s].seen, void' = void \cup W, runs' = runs,
           Noticed,
           mail' = mail, wire' = wire, admitted' = admitted, policy' = policy,
           age' = age,
           \/ left' = left
           \/ \E k \in {"replace", "wake", "break", "fail", "cancel", "loss"} : Event(k)
    PROVE  Settled
<1>. DEFINE e == <<>>
            p == [ses[s] EXCEPT !.inbox = e]
<1>1. TypeOK /\ Numbered /\ Written /\ Arrived /\ Sound(s)
  BY DEF IInv
<1>2. ses[s] \in SessionState /\ ses[s].inbox \in Seq(PeerInput)
  BY <1>1, SessionIs
<1>3. p = [ses[s] EXCEPT !.inbox = e] /\ ses' = [ses EXCEPT ![s] = p]
  OBVIOUS
<1>4. Drawn(e, ses[s].inbox) /\ Works(e) = {} /\ e \in Seq(PeerInput)
  BY NoneQueued
<1>. HIDE DEF e, p
<1>5. /\ p \in SessionState /\ Same(p, ses[s])
      /\ p.endpoint = ses[s].endpoint /\ p.born = ses[s].born /\ p.inbox = e
      /\ p.turn = ses[s].turn /\ p.outgoing = ses[s].outgoing
  BY <1>2, <1>3, <1>4, InboxIs
<1>6. Drawn(p.inbox, ses[s].inbox) /\ Works(p.inbox) = {}
  BY <1>4, <1>5
<1>7. Becomes(s, p)
  BY <1>1, <1>3, <1>5, <1>6, QuietBecomes DEF Same
<1>8. Local(s, p)
  BY <1>1, <1>7, LosesIs, PlainLocal
<1>9. Calm(s, Works(p.inbox)) /\ Calm(s, Begun(s))
  BY <1>6 DEF Calm
<1>10. Forward /\ ses'[s] = p /\ (Turns(s)' => Settled)
  BY <1>5, <1>6, <1>8, <1>9, SameSound
<1>11. Turns(s)'
  BY <1>1, <1>5, <1>9, <1>10, TurnsKept DEF Sound, Same
<1>. QED
  BY <1>10, <1>11

\* The user cancels a turn (Cancel).
LEMMA CancelStep ==
    ASSUME IInv, NEW s \in Session, Cancel(s) PROVE Settled
<1>1. TypeOK /\ Numbered /\ Written /\ Arrived /\ Sound(s)
  BY DEF IInv
<1>2. /\ mail' = mail /\ wire' = wire /\ admitted' = admitted
      /\ policy' = policy
      /\ age' = age /\ notice' = notice /\ runs' = runs /\ Event("cancel")
  BY DEF Cancel
<1>3. ses[s] \in SessionState
  BY <1>1, SessionIs
<1>4. \A m : Children(m)' = Children(m)
  BY <1>2 DEF Children, Sent
<1>5. CASE /\ ses' = [ses EXCEPT ![s] = Closed(@)]
           /\ void' = void \cup Dropped(s) \cup Begun(s)
  <2>. DEFINE p == Closed(ses[s])
              W == Dropped(s) \cup Begun(s)
  <2>1. /\ p = Closed(ses[s]) /\ ses' = [ses EXCEPT ![s] = p]
        /\ void' = void \cup W
    BY <1>5
  <2>2. W \subseteq ses[s].seen
    BY <1>1, HeldIs
  <2>. HIDE DEF p, W
  <2>3. /\ p \in SessionState /\ Same(p, ses[s])
        /\ p.endpoint = 0 /\ p.born = ses[s].born /\ p.inbox = <<>>
        /\ p.turn = ses[s].turn /\ p.outgoing = ses[s].outgoing
    BY <1>3, <2>1, ClosedIs
  <2>4. Drawn(p.inbox, ses[s].inbox) /\ Works(p.inbox) = {}
    BY <2>3, NoneQueued
  <2>5. Becomes(s, p)
    BY <1>1, <2>1, <2>3, <2>4, QuietBecomes DEF Same
  <2>6. Local(s, p)
    BY <1>1, <1>2, <2>1, <2>2, <2>5, SameNotice, LosesIs, PlainLocal
  <2>7. Calm(s, Works(p.inbox))
    BY <2>4 DEF Calm
  <2>8. Forward /\ ses'[s] = p /\ (Turns(s)' => Settled)
    BY <2>3, <2>4, <2>6, <2>7, SameSound
  <2>9. Calm(s, Begun(s))
    <3>1. SUFFICES ASSUME NEW i \in PeerInput, i.m \in Begun(s) PROVE Doomed(s, i)'
      BY <1>2, <1>4 DEF Calm
    <3>2. i.m \in Sent /\ mail[i.m].to = s
      BY <1>1, <3>1, HeldIs
    <3>3. mail[i.m].target \in 1 .. ses[s].born
      BY <1>1, <3>2 DEF Arrived
    <3>4. ses'[s].endpoint # mail'[i.m].target
      BY <1>2, <2>3, <2>8, <3>3
    <3>. QED
      BY <3>4 DEF Doomed
  <2>10. Turns(s)'
    BY <1>1, <2>3, <2>8, <2>9, TurnsKept DEF Sound, Same
  <2>. QED
    BY <2>8, <2>10
<1>6. CASE /\ ~ses[s].peerTurn /\ ses' = [ses EXCEPT ![s].inbox = <<>>]
           /\ void' = void \cup Dropped(s)
  <2>1. Dropped(s) \subseteq ses[s].seen
    BY <1>1, HeldIs
  <2>2. Begun(s) = {}
    BY <1>1, <1>6 DEF Begun, Sound, Turns
  <2>. QED
    BY <1>1, <1>2, <1>6, <2>1, <2>2, SameNotice, EmptiedStep
<1>. QED
  BY <1>5, <1>6 DEF Cancel

\* The timer drops what expired (Sweep).
LEMMA SweepStep ==
    ASSUME IInv, NEW s \in Session, Sweep(s) PROVE Settled
<1>. DEFINE q == Without(ses[s].inbox, Stale(s))
            p == [ses[s] EXCEPT !.inbox = q]
<1>1. TypeOK /\ Numbered /\ Written /\ Arrived /\ Sound(s)
  BY DEF IInv
<1>2. /\ mail' = mail /\ wire' = wire /\ admitted' = admitted
      /\ policy' = policy
      /\ age' = age /\ runs' = runs /\ void' = void /\ left' = left
      /\ notice' = Notified(s, Stale(s))
  BY DEF Sweep
<1>3. ses[s] \in SessionState /\ ses[s].inbox \in Seq(PeerInput)
  BY <1>1, SessionIs
<1>4. Drawn(q, ses[s].inbox)
  BY <1>3, DrawnWithout
<1>5. p = [ses[s] EXCEPT !.inbox = q] /\ ses' = [ses EXCEPT ![s] = p]
  BY DEF Sweep
<1>6. q \in Seq(PeerInput)
  BY <1>3, <1>4, DrawnIs
<1>. HIDE DEF p, q
<1>7. /\ p \in SessionState /\ Same(p, ses[s])
      /\ p.endpoint = ses[s].endpoint /\ p.born = ses[s].born /\ p.inbox = q
      /\ p.turn = ses[s].turn /\ p.outgoing = ses[s].outgoing
  BY <1>3, <1>5, <1>6, InboxIs
<1>8. Becomes(s, p)
  BY <1>1, <1>4, <1>5, <1>7, QuietBecomes DEF Same
<1>9. Noticed
  <2>1. \A i \in Stale(s) : i.m \in Sent
    BY <1>1, <1>3 DEF Stale, ToSet, Sound, Inbox
  <2>. QED
    BY <1>1, <1>2, <2>1, NoticedIs
<1>10. Local(s, p)
  BY <1>1, <1>2, <1>8, <1>9, LosesNothing, PlainLocal
<1>11. Calm(s, Works(p.inbox)) /\ Calm(s, Begun(s))
  BY <1>2, CalmIs
<1>12. Forward /\ ses'[s] = p /\ (Turns(s)' => Settled)
  BY <1>4, <1>7, <1>10, <1>11, SameSound
<1>13. Turns(s)'
  BY <1>1, <1>7, <1>11, <1>12, TurnsKept DEF Sound, Same
<1>. QED
  BY <1>12, <1>13

\* A prompt of the user, or the continuation of one: a new chain.
LEMMA PromptedStep ==
    ASSUME IInv, NEW s \in Session, NEW k \in {"human", "continued"},
           NextChain <= left.chains, age' = [age EXCEPT ![NextChain] = "live"],
           ses' = [ses EXCEPT ![s] = [Prompted(@, s) EXCEPT !.turn = Running(k)]],
           Untouched, mail' = mail, wire' = wire, notice' = notice,
           void' = void,
           runs' = runs, admitted' = admitted
    PROVE  Settled
<1>. DEFINE t == Running(k)
            b == Prompted(ses[s], s)
            p == [b EXCEPT !.turn = t]
<1>1. TypeOK /\ Numbered /\ Written /\ Arrived /\ Sound(s)
  BY DEF IInv
<1>2. t \in TurnState /\ t.kind = k /\ t.at = "running"
  BY RunningIs
<1>3. /\ p = [b EXCEPT !.turn = t] /\ ses' = [ses EXCEPT ![s] = p]
      /\ b = Prompted(ses[s], s)
  OBVIOUS
<1>. HIDE DEF t, b, p
<1>4. ses[s] \in SessionState /\ ses[s].inbox \in Seq(PeerInput)
  BY <1>1, SessionIs
<1>5. NextChain \in Chain /\ Aging
  BY <1>1, NewChain
<1>6. /\ p \in SessionState /\ p.seen = ses[s].seen /\ p.sent = ses[s].sent
      /\ p.hop = 0
      /\ p.endpoint = ses[s].endpoint /\ p.born = ses[s].born
      /\ p.inbox = ses[s].inbox
      /\ p.turn = t /\ p.outgoing = 0 /\ ~p.peerTurn
  <2>1. /\ b \in SessionState /\ b.seen = ses[s].seen /\ b.sent = ses[s].sent
        /\ b.hop = 0
        /\ b.endpoint = ses[s].endpoint /\ b.born = ses[s].born
        /\ b.inbox = ses[s].inbox
        /\ b.outgoing = 0 /\ ~b.peerTurn
    BY <1>3, <1>4, <1>5, PromptedIs
  <2>2. /\ p \in SessionState /\ Same(p, b)
        /\ p.endpoint = b.endpoint /\ p.born = b.born /\ p.inbox = b.inbox
        /\ p.turn = t /\ p.outgoing = b.outgoing
    BY <1>2, <1>3, <2>1, TurnIs
  <2>. QED
    BY <2>1, <2>2 DEF Same
<1>7. Drawn(p.inbox, ses[s].inbox)
  BY <1>4, <1>6, DrawnSame
<1>8. Becomes(s, p) /\ ses'[s] = p
  BY <1>1, <1>2, <1>3, <1>6, <1>7, QuietBecomes
<1>9. Local(s, p)
  BY <1>1, <1>5, <1>8, SameWire, SameNotice, LosesNothing DEF Local
<1>10. Forward /\ (Sound(s)' => Settled)
  BY <1>9, LocalStep
<1>11. Calm(s, Works(ses'[s].inbox))
  BY CalmIs
<1>12. Inbox(s)'
  BY <1>1, <1>6, <1>7, <1>8, <1>10, <1>11, InboxKept DEF Sound
<1>13. Turns(s)'
  BY <1>2, <1>6, <1>8, TurnsFree
<1>14. Causes(s)'
  BY <1>6, <1>8 DEF Causes
<1>. QED
  BY <1>10, <1>12, <1>13, <1>14 DEF Sound

\* A prompt of the user begins a turn (HumanTurn).
LEMMA HumanTurnStep ==
    ASSUME IInv, NEW s \in Session, HumanTurn(s) PROVE Settled
<1>. DEFINE f == [left.prompt EXCEPT ![s] = @ - 1]
<1>1. TypeOK /\ left \in Budget
  BY DEF IInv, TypeOK
<1>2. left.prompt \in [Session -> Nat] /\ left.prompt[s] > 0
  BY <1>1, BudgetTypes DEF HumanTurn
<1>3. f \in [Session -> Nat]
  BY <1>2
<1>4. left' = [left EXCEPT !.prompt = f]
  BY DEF HumanTurn
<1>. HIDE DEF f
<1>5. left' \in Budget /\ left'.policy = left.policy
  BY <1>1, <1>3, <1>4 DEF Budget
<1>6. /\ NextChain <= left.chains /\ age' = [age EXCEPT ![NextChain] = "live"]
      /\ ses' = [ses EXCEPT ![s] = [Prompted(@, s) EXCEPT !.turn = Running("human")]]
      /\ policy' = policy /\ mail' = mail /\ wire' = wire /\ notice' = notice
      /\ admitted' = admitted /\ void' = void /\ runs' = runs
  BY DEF HumanTurn
<1>7. Untouched
  BY <1>1, <1>5, <1>6, Typed DEF Untouched
<1>. QED
  BY <1>6, <1>7, PromptedStep

\* What is known of the message of a turn.
LEMMA TurnHas ==
    ASSUME TypeOK, NEW s \in Session, Sound(s),
           ses[s].turn.kind = "peer" \/ ses[s].turn.at = "begun"
    PROVE  /\ ses[s].turn.item \in PeerInput /\ ses[s].turn.item.m \in Sent
           /\ mail[ses[s].turn.item.m] \in Letters
           /\ ses[s].peerTurn /\ ses[s].last = ses[s].turn.item.m
           /\ ses[s].noSend = ses[s].turn.item.failure
           /\ ~ses[s].turn.item.failure =>
                 /\ ses[s].turn.item.m \in ses[s].seen
                 /\ ses[s].turn.item.m \notin Works(ses[s].inbox)
                 /\ ses[s].turn.item.m \in admitted
                 /\ mail[ses[s].turn.item.m].to = s
                 /\ Cardinality(Children(ses[s].turn.item.m)) <= ses[s].outgoing
<1>2. /\ ses[s].turn.item \in PeerInput /\ ses[s].turn.item.m \in Sent
      /\ ses[s].peerTurn /\ ses[s].last = ses[s].turn.item.m
      /\ ses[s].noSend = ses[s].turn.item.failure
      /\ ~ses[s].turn.item.failure => ses[s].turn.item.m \in ses[s].seen
  BY DEF Sound, Turns
<1>3. ~ses[s].turn.item.failure =>
         /\ ses[s].turn.item.m \notin Works(ses[s].inbox)
         /\ Cardinality(Children(ses[s].turn.item.m)) <= ses[s].outgoing
  BY <1>2 DEF Sound, Causes
<1>4. ~ses[s].turn.item.failure =>
         ses[s].turn.item.m \in admitted /\ mail[ses[s].turn.item.m].to = s
  BY <1>2, HeldIs
<1>5. mail[ses[s].turn.item.m] \in Letters
  BY <1>2, Typed
<1>. QED
  BY <1>2, <1>3, <1>4, <1>5

\* The continuation of a turn a message triggered, with the budget it has left.
LEMMA ContinuedStep ==
    ASSUME IInv, NEW s \in Session, ses[s].turn.kind = "peer",
           ses' = [ses EXCEPT ![s] = [PeerBegun(@, @.turn.item)
                                      EXCEPT !.turn.kind = "continued"]],
           Untouched, mail' = mail, wire' = wire, notice' = notice,
           void' = void, age' = age,
           runs' = runs, admitted' = admitted
    PROVE  Settled
<1>. DEFINE r == ses[s]
            i == r.turn.item
            b == PeerBegun(r, i)
            t == [b.turn EXCEPT !.kind = "continued"]
            p == [b EXCEPT !.turn = t]
<1>1. TypeOK /\ Numbered /\ Written /\ Arrived /\ Sound(s)
  BY DEF IInv
<1>2. r \in SessionState /\ r.inbox \in Seq(PeerInput)
  BY <1>1, SessionIs
<1>3. /\ i \in PeerInput /\ i.m \in Sent /\ mail[i.m] \in Letters
      /\ r.peerTurn /\ r.last = i.m /\ r.noSend = i.failure
      /\ ~i.failure => i.m \in r.seen
  BY <1>1, TurnHas
<1>5. b = PeerBegun(r, i)
  OBVIOUS
<1>6. /\ b \in SessionState /\ b.seen = r.seen /\ b.sent = r.sent
      /\ b.endpoint = r.endpoint /\ b.born = r.born /\ b.inbox = r.inbox
      /\ b.turn.kind = "peer" /\ b.turn.at = "begun" /\ b.turn.item = i
      /\ b.peerTurn /\ b.noSend = i.failure /\ b.last = i.m
      /\ ~i.failure => b.ro = mail[i.m].ro
      /\ b.outgoing = r.outgoing
  <2>. HIDE DEF b, i, r
  <2>. QED
    BY <1>2, <1>3, <1>5, BegunIs
<1>4. t \in TurnState /\ t.kind = "continued" /\ t.at = "begun" /\ t.item = i
  <2>1. b.turn \in TurnState
    BY <1>6, SessionTypes
  <2>. HIDE DEF b
  <2>. QED
    BY <1>6, <2>1 DEF TurnState
<1>7. p = [b EXCEPT !.turn = t] /\ ses' = [ses EXCEPT ![s] = p]
  OBVIOUS
<1>. HIDE DEF b, t, p
<1>8. /\ p \in SessionState /\ Same(p, b)
      /\ p.endpoint = b.endpoint /\ p.born = b.born /\ p.inbox = b.inbox
      /\ p.turn = t /\ p.outgoing = b.outgoing
  BY <1>4, <1>6, <1>7, TurnIs
<1>9. /\ p.seen = r.seen /\ p.sent = r.sent
      /\ p.endpoint = r.endpoint /\ p.born = r.born /\ p.inbox = r.inbox
      /\ p.peerTurn /\ p.noSend = i.failure /\ p.last = i.m
      /\ ~i.failure => p.ro = mail[i.m].ro
      /\ p.outgoing = r.outgoing
  BY <1>6, <1>8 DEF Same
<1>10. Drawn(p.inbox, r.inbox)
  BY <1>2, <1>9, DrawnSame
<1>11. Becomes(s, p) /\ ses'[s] = p
  BY <1>1, <1>4, <1>7, <1>8, <1>9, <1>10, QuietBecomes
<1>12. Local(s, p)
  BY <1>1, <1>11, SameAge, SameWire, SameNotice, LosesNothing DEF Local
<1>13. Forward /\ (Sound(s)' => Settled)
  BY <1>12, LocalStep
<1>14. Calm(s, Works(ses'[s].inbox))
  BY CalmIs
<1>15. Inbox(s)'
  BY <1>1, <1>9, <1>10, <1>11, <1>13, <1>14, InboxKept DEF Sound
<1>16. i.m \in Sent' /\ \A m : Children(m)' = Children(m)
  BY <1>3 DEF Children, Sent
<1>17. Turns(s)'
  <2>. HIDE DEF i
  <2>. QED
    BY <1>3, <1>4, <1>8, <1>9, <1>11, <1>16 DEF Turns
<1>18. Causes(s)'
  <2>1. ~i.failure => /\ i.m \notin Works(r.inbox)
                      /\ Cardinality(Children(i.m)) <= r.outgoing
    BY <1>1, TurnHas
  <2>2. PICK m : m = i.m
    OBVIOUS
  <2>3. Children(m)' = Children(m) /\ mail' = mail
    BY <1>16
  <2>4. p.noSend = i.failure /\ i.failure \in BOOLEAN
    BY <1>3, <1>9, ItemTypes
  <2>. HIDE DEF i, r
  <2>. QED
    BY <1>3, <1>9, <1>11, <2>1, <2>2, <2>3, <2>4 DEF Causes
<1>. QED
  BY <1>13, <1>15, <1>17, <1>18 DEF Sound

\* An interrupted turn goes on (Continue).
LEMMA ContinueStep ==
    ASSUME IInv, NEW s \in Session, Continue(s) PROVE Settled
<1>1. TypeOK /\ Sound(s)
  BY DEF IInv
<1>2. /\ mail' = mail /\ wire' = wire /\ admitted' = admitted
      /\ policy' = policy
      /\ runs' = runs /\ Event("break")
  BY DEF Continue
<1>3. Untouched
  BY <1>1, <1>2, UntouchedIs
<1>4. CASE /\ ses[s].turn.kind = "human" /\ NextChain <= left.chains
           /\ age' = [age EXCEPT ![NextChain] = "live"]
           /\ ses' = [ses EXCEPT ![s] = [Prompted(@, s) EXCEPT !.turn = Running("continued")]]
           /\ UNCHANGED <<notice, void>>
  BY <1>2, <1>3, <1>4, PromptedStep
<1>5. CASE /\ ses[s].turn.kind = "peer" /\ Valid(s, ses[s].turn.item)
           /\ ses' = [ses EXCEPT ![s] = [PeerBegun(@, @.turn.item)
                                      EXCEPT !.turn.kind = "continued"]]
           /\ UNCHANGED <<notice, void, age>>
  BY <1>2, <1>3, <1>5, ContinuedStep
<1>6. CASE /\ ses[s].turn.kind = "peer" /\ ~Valid(s, ses[s].turn.item)
           /\ ses' = [ses EXCEPT ![s] = Failed(@)]
           /\ notice' = Notified(s, {ses[s].turn.item})
           /\ void' = void \cup Dropped(s)
           /\ UNCHANGED age
  <2>1. Dropped(s) \subseteq ses[s].seen
    BY <1>1, HeldIs
  <2>2. \A i \in {ses[s].turn.item} : i.m \in Sent
    BY <1>1, <1>6, TurnHas
  <2>3. Noticed
    BY <1>1, <1>6, <2>2, NoticedIs
  <2>. QED
    BY <1>2, <1>6, <2>1, <2>3, FailedStep
<1>. QED
  BY <1>4, <1>5, <1>6 DEF Continue

\* The turn of a message starts.
LEMMA AskedStep ==
    ASSUME IInv, NEW s \in Session, ses[s].turn.at = "begun", Asked(s),
           policy' = policy,
           mail' = mail, wire' = wire, age' = age, left' = left,
           admitted' = admitted
    PROVE  Settled
<1>. DEFINE r == ses[s]
            i == r.turn.item
            t == [r.turn EXCEPT !.at = "running"]
            p == [r EXCEPT !.turn = t]
<1>1. TypeOK /\ Numbered /\ Written /\ Arrived /\ Sound(s)
  BY DEF IInv
<1>2. r \in SessionState /\ r.inbox \in Seq(PeerInput) /\ r.turn \in TurnState
  BY <1>1, SessionIs
<1>3. /\ i \in PeerInput /\ i.m \in Sent /\ i.m \in Id
      /\ r.peerTurn /\ r.last = i.m /\ r.noSend = i.failure
      /\ ~i.failure => /\ i.m \in r.seen /\ i.m \notin Works(r.inbox)
                       /\ i.m \in admitted /\ mail[i.m].to = s
  BY <1>1, TurnHas, ItemTypes
<1>4. t \in TurnState /\ t.kind = r.turn.kind /\ t.at = "running" /\ t.item = i
  <2>. HIDE DEF r
  <2>. QED
    BY <1>2 DEF TurnState
<1>5. p = [r EXCEPT !.turn = t] /\ ses' = [ses EXCEPT ![s] = p]
  BY DEF Asked
<1>. HIDE DEF t, p
<1>6. /\ p \in SessionState /\ Same(p, r)
      /\ p.endpoint = r.endpoint /\ p.born = r.born /\ p.inbox = r.inbox
      /\ p.turn = t /\ p.outgoing = r.outgoing
  BY <1>2, <1>4, <1>5, TurnIs
<1>7. /\ notice' = notice /\ void' = void
      /\ \/ runs' = runs
         \/ ~i.failure /\ r.turn.kind = "peer" /\ runs' = [runs EXCEPT ![i.m] = @ + 1]
  BY DEF Asked
<1>8. /\ runs' \in [Id -> Nat]
      /\ \A m \in Id : runs'[m] # runs[m] =>
            m = i.m /\ ~i.failure /\ r.turn.kind = "peer"
  <2>1. runs \in [Id -> Nat]
    BY <1>1 DEF TypeOK
  <2>. HIDE DEF i
  <2>. QED
    BY <1>3, <1>7, <2>1
<1>9. Drawn(p.inbox, r.inbox)
  BY <1>2, <1>6, DrawnSame
<1>10. Becomes(s, p) /\ ses'[s] = p
  BY <1>1, <1>4, <1>5, <1>6, <1>9, QuietBecomes DEF Same
<1>11. Loses(s)
  <2>1. void \subseteq admitted
    BY <1>1 DEF TypeOK
  <2>. QED
    BY <1>3, <1>7, <1>8, <2>1 DEF Loses, Begun
<1>12. Local(s, p)
  BY <1>1, <1>7, <1>10, <1>11, SameNotice, PlainLocal
<1>13. \A m : Children(m)' = Children(m)
  BY DEF Children, Sent
<1>14. Calm(s, Works(p.inbox))
  <2>1. \A m \in Works(r.inbox) : m \in Id
    BY <1>1, HeldIs DEF Sent
  <2>. QED
    BY <1>3, <1>6, <1>7, <1>8, <1>13, <2>1 DEF Calm
<1>15. Forward /\ (Turns(s)' => Settled)
  BY <1>6, <1>9, <1>12, <1>14, SameSound
<1>16. Turns(s)'
  <2>1. i.m \in Sent' /\ r.turn.kind \in {"peer", "continued"}
    BY <1>1, <1>3 DEF Sent, Sound, Turns
  <2>. HIDE DEF i, r
  <2>. QED
    BY <1>3, <1>4, <1>6, <1>10, <2>1 DEF Turns, Same
<1>. QED
  BY <1>15, <1>16

\* The message of a turn is validated once more before the model is asked
\* (Invoke).
LEMMA InvokeStep ==
    ASSUME IInv, NEW s \in Session, Invoke(s) PROVE Settled
<1>1. TypeOK /\ Sound(s)
  BY DEF IInv
<1>2. /\ mail' = mail /\ wire' = wire /\ admitted' = admitted
      /\ policy' = policy
      /\ age' = age /\ left' = left /\ ses[s].turn.at = "begun"
  BY DEF Invoke
<1>3. CASE Asked(s)
  BY <1>2, <1>3, AskedStep
<1>4. CASE /\ ~Valid(s, ses[s].turn.item)
           /\ ses' = [ses EXCEPT ![s] = Failed(@)]
           /\ notice' = Notified(s, {ses[s].turn.item})
           /\ void' = void \cup Dropped(s) \cup Begun(s)
           /\ UNCHANGED runs
  <2>. DEFINE W == Dropped(s) \cup Begun(s)
  <2>1. W \subseteq ses[s].seen /\ void' = void \cup W
    BY <1>1, <1>4, HeldIs
  <2>2. \A i \in {ses[s].turn.item} : i.m \in Sent
    BY <1>1, <1>2, TurnHas
  <2>3. Noticed
    BY <1>1, <1>4, <2>2, NoticedIs
  <2>. HIDE DEF W
  <2>. QED
    BY <1>2, <1>4, <2>1, <2>3, FailedStep
<1>. QED
  BY <1>3, <1>4 DEF Invoke

\* Nothing in the inbox may be delivered: it is emptied.
LEMMA TakeNothingStep ==
    ASSUME IInv, NEW s \in Session, ses[s].turn.kind = "idle",
           notice' = Notified(s, ToSet(ses[s].inbox)),
           void' = void \cup Works(ses[s].inbox),
           ses' = [ses EXCEPT ![s].inbox = <<>>],
           policy' = policy, mail' = mail, wire' = wire, age' = age,
           left' = left,
           admitted' = admitted, runs' = runs
    PROVE  Settled
<1>. DEFINE W == Works(ses[s].inbox)
<1>1. TypeOK /\ Sound(s)
  BY DEF IInv
<1>2. W \subseteq ses[s].seen /\ void' = void \cup W
  BY <1>1, HeldIs
<1>3. Noticed
  <2>1. \A i \in ToSet(ses[s].inbox) : i.m \in Sent
    BY <1>1, SessionIs DEF ToSet, Sound, Inbox
  <2>. QED
    BY <1>1, <2>1, NoticedIs
<1>4. Begun(s) = {}
  BY DEF Begun
<1>. HIDE DEF W
<1>. QED
  BY <1>2, <1>3, <1>4, EmptiedStep

\* The oldest message that may be delivered begins its turn.
LEMMA TakeOneStep ==
    ASSUME IInv, NEW s \in Session, NEW k \in DOMAIN ses[s].inbox,
           notice' = Notified(s, ToSet(SubSeq(ses[s].inbox, 1, k - 1))),
           void' = void \cup Works(SubSeq(ses[s].inbox, 1, k - 1)),
           ses' = [ses EXCEPT ![s] =
                     PeerBegun([@ EXCEPT !.inbox =
                                  SubSeq(ses[s].inbox, k + 1, Len(ses[s].inbox))],
                               ses[s].inbox[k])],
           policy' = policy, mail' = mail, wire' = wire, age' = age,
           left' = left,
           admitted' = admitted, runs' = runs
    PROVE  Settled
<1>. DEFINE r == ses[s]
            q == r.inbox
            i == q[k]
            pre == SubSeq(q, 1, k - 1)
            post == SubSeq(q, k + 1, Len(q))
            b == [r EXCEPT !.inbox = post]
            p == PeerBegun(b, i)
            W == Works(pre)
<1>1. TypeOK /\ Numbered /\ Written /\ Arrived /\ Sound(s)
  BY DEF IInv
<1>2. /\ r \in SessionState /\ q \in Seq(PeerInput) /\ DOMAIN q = 1 .. Len(q)
      /\ k \in 1 .. Len(q) /\ Len(q) \in Nat
  BY <1>1, SessionIs
<1>3. /\ i \in PeerInput /\ i.m \in Sent /\ mail[i.m] \in Letters
      /\ i.failure \in BOOLEAN /\ i.m \in Id
  <2>1. i \in PeerInput /\ i.m \in Sent
    BY <1>1, <1>2 DEF Sound, Inbox
  <2>. HIDE DEF i
  <2>. QED
    BY <1>1, <2>1, Typed, ItemTypes
<1>4. /\ pre \in Seq(PeerInput) /\ DOMAIN pre = 1 .. k - 1
      /\ \A j \in 1 .. k - 1 : j \in DOMAIN q /\ pre[j] = q[j]
  BY <1>2
<1>5. /\ post \in Seq(PeerInput) /\ DOMAIN post = 1 .. Len(q) - k
      /\ \A j \in 1 .. Len(q) - k : j + k \in DOMAIN q /\ post[j] = q[j + k]
  <2>. HIDE DEF q
  <2>1. post \in Seq(PeerInput) /\ Len(post) = Len(q) - k
    BY <1>2
  <2>2. DOMAIN post = 1 .. Len(q) - k
    BY <2>1
  <2>3. ASSUME NEW j \in 1 .. Len(q) - k
        PROVE  j + k \in DOMAIN q /\ post[j] = q[j + k]
    BY <1>2
  <2>. QED
    BY <2>1, <2>2, <2>3
<1>6. Drawn(post, q)
  BY <1>2, DrawnTail
<1>7. /\ b = [r EXCEPT !.inbox = post] /\ p = PeerBegun(b, i) /\ W = Works(pre)
      /\ ses' = [ses EXCEPT ![s] = p] /\ void' = void \cup W
      /\ notice' = Notified(s, ToSet(pre))
  OBVIOUS
<1>8. W \subseteq Works(q) /\ W \subseteq r.seen
  <2>1. W \subseteq Works(q)
    <3>. HIDE DEF q, pre
    <3>. QED
      BY <1>4 DEF Works
  <2>. QED
    BY <1>1, <2>1, HeldIs
<1>9. ASSUME ~i.failure
      PROVE  /\ i.m \notin W /\ i.m \notin Works(post) /\ Waits(s, i)
             /\ Children(i.m) = {}
  <2>1. \A j \in DOMAIN q : ~q[j].failure /\ q[j].m = i.m => j = k
    BY <1>1, <1>2, <1>9 DEF Sound, Inbox
  <2>2. Waits(s, i) /\ Children(i.m) = {}
    BY <1>1, <1>2, <1>9 DEF Sound, Inbox
  <2>. HIDE DEF q, i, pre, post
  <2>3. i.m \notin Works(pre)
    BY <1>2, <1>4, <2>1 DEF Works
  <2>4. i.m \notin Works(post)
    <3>1. SUFFICES ASSUME NEW j \in DOMAIN post, ~post[j].failure, post[j].m = i.m PROVE FALSE
      BY DEF Works
    <3>2. j + k \in DOMAIN q /\ post[j] = q[j + k] /\ j \in Nat /\ j >= 1
      BY <1>2, <1>5
    <3>3. j + k = k
      BY <2>1, <3>1, <3>2
    <3>. QED
      BY <1>2, <3>2, <3>3
  <2>. QED
    BY <2>2, <2>3, <2>4
<1>10. ASSUME NEW m \in Works(post) PROVE m \notin W
  <2>1. PICK j \in 1 .. Len(q) - k : ~post[j].failure /\ m = post[j].m
    <3>. HIDE DEF post
    <3>. QED
      BY <1>5, <1>10 DEF Works
  <2>2. SUFFICES ASSUME m \in W PROVE FALSE
    OBVIOUS
  <2>3. PICK l \in 1 .. k - 1 : ~pre[l].failure /\ m = pre[l].m
    <3>. HIDE DEF pre
    <3>. QED
      BY <1>4, <2>2 DEF Works
  <2>4. /\ j + k \in DOMAIN q /\ l \in DOMAIN q
        /\ ~q[j + k].failure /\ ~q[l].failure /\ q[j + k].m = q[l].m
    <3>. HIDE DEF q, pre, post
    <3>. QED
      BY <1>4, <1>5, <2>1, <2>3
  <2>5. j + k = l
    BY <1>1, <2>4 DEF Sound, Inbox
  <2>. QED
    BY <1>2, <2>1, <2>3, <2>5
<1>11. /\ p \in SessionState /\ p.seen = r.seen /\ p.sent = r.sent
       /\ p.endpoint = r.endpoint /\ p.born = r.born /\ p.inbox = post
       /\ p.turn.kind = "peer" /\ p.turn.at = "begun" /\ p.turn.item = i
       /\ p.peerTurn /\ p.noSend = i.failure /\ p.last = i.m
       /\ ~i.failure => p.ro = mail[i.m].ro
  <2>. HIDE DEF r, q, i, post, b, p
  <2>1. /\ b \in SessionState /\ Same(b, r)
        /\ b.endpoint = r.endpoint /\ b.born = r.born /\ b.inbox = post
    BY <1>2, <1>5, <1>7, InboxIs
  <2>2. /\ p \in SessionState /\ p.seen = b.seen /\ p.sent = b.sent
        /\ p.endpoint = b.endpoint /\ p.born = b.born /\ p.inbox = b.inbox
        /\ p.turn.kind = "peer" /\ p.turn.at = "begun" /\ p.turn.item = i
        /\ p.peerTurn /\ p.noSend = i.failure /\ p.last = i.m
        /\ ~i.failure => p.ro = mail[i.m].ro
    <3>1. /\ b \in SessionState /\ i \in PeerInput /\ mail[i.m] \in Letters
          /\ p = PeerBegun(b, i)
      BY <1>3, <1>7, <2>1
    <3>. QED
      BY <3>1, BegunIs
  <2>. QED
    BY <2>1, <2>2 DEF Same
<1>12. Noticed
  <2>1. \A j \in ToSet(pre) : j.m \in Sent
    <3>1. \A j \in DOMAIN q : q[j].m \in Sent
      BY <1>1 DEF Sound, Inbox
    <3>. HIDE DEF q, pre
    <3>. QED
      BY <1>4, <3>1 DEF ToSet
  <2>. QED
    BY <1>1, <1>7, <2>1, NoticedIs
<1>. HIDE DEF pre, post, b, p, W
<1>13. Becomes(s, p) /\ ses'[s] = p
  <2>1. Drawn(p.inbox, ses[s].inbox)
    BY <1>6, <1>11
  <2>2. ses' = [ses EXCEPT ![s] = p]
    BY <1>7
  <2>3. i.failure \/ i.m \in Works(q)
    <3>1. \A j \in DOMAIN q : ~q[j].failure => q[j].m \in Works(q)
      BY DEF Works
    <3>. QED
      BY <3>1
  <2>. QED
    BY <1>1, <1>11, <2>1, <2>2, <2>3, QuietBecomes
<1>14. Local(s, p)
  BY <1>1, <1>7, <1>8, <1>12, <1>13, LosesIs, PlainLocal
<1>15. Forward /\ (Sound(s)' => Settled)
  BY <1>14, LocalStep
<1>16. mail' = mail /\ Sent' = Sent /\ \A m : Children(m)' = Children(m)
  BY DEF Children, Sent
<1>17. Inbox(s)'
  <2>1. \A m \in Works(post) : m \in void' => m \in void
    BY <1>7, <1>10
  <2>2. Calm(s, Works(p.inbox))
    BY <1>11, <2>1, CalmIs
  <2>. QED
    BY <1>1, <1>6, <1>11, <1>13, <1>15, <2>2, InboxKept DEF Sound
<1>18. PICK x : x = i
  OBVIOUS
<1>19. ~x.failure => Waits(s, x)' /\ x.m \in r.seen
  <2>1. SUFFICES ASSUME ~x.failure PROVE Waits(s, x)' /\ x.m \in r.seen
    OBVIOUS
  <2>2. Waits(s, x) /\ x \in PeerInput /\ x.m \in Sent /\ x.m \notin W
    BY <1>3, <1>9, <1>18, <2>1
  <2>3. x.m \in r.seen /\ mail[x.m].to = s
    BY <1>1, <2>2, HeldIs DEF Waits
  <2>4. Calm(s, {x.m})
    BY <1>7, <2>2, CalmIs
  <2>5. x.m \in ses'[s].seen
    BY <1>11, <1>13, <2>3
  <2>. QED
    BY <1>1, <1>15, <2>1, <2>2, <2>3, <2>4, <2>5, WaitsStays
<1>20. Turns(s)'
  <2>1. x \in PeerInput /\ x.m \in Sent'
    BY <1>3, <1>16, <1>18
  <2>. HIDE DEF i, r
  <2>. QED
    BY <1>11, <1>13, <1>18, <1>19, <2>1 DEF Turns
<1>21. Causes(s)'
  <2>1. SUFFICES ASSUME ~x.failure
                 PROVE  /\ x.m \in r.seen /\ x.m \notin Works(post)
                        /\ mail[x.m].ro => p.ro
                        /\ Cardinality(Children(x.m)) <= p.outgoing
    <3>. HIDE DEF i, r
    <3>1. Cardinality(Children(x.m))' = Cardinality(Children(x.m))
      BY <1>16
    <3>. QED
      BY <1>11, <1>13, <1>16, <1>18, <3>1 DEF Causes
  <2>2. /\ x.m \in r.seen /\ x.m \notin Works(post) /\ Children(x.m) = {}
        /\ mail[x.m].ro => p.ro
    BY <1>9, <1>11, <1>18, <1>19, <2>1
  <2>3. Cardinality(Children(x.m)) = 0
    BY <2>2, FS_EmptySet
  <2>4. p.outgoing \in Nat
    BY <1>11, SessionTypes, NumbersHold DEF Numbers
  <2>. QED
    BY <2>2, <2>3, <2>4
<1>. QED
  BY <1>15, <1>17, <1>20, <1>21 DEF Sound

\* The idle session takes a message (Take).
LEMMA TakeStep ==
    ASSUME IInv, NEW s \in Session, Take(s) PROVE Settled
BY TakeNothingStep, TakeOneStep DEF Take

\* The successor of a session knows nothing.
LEMMA ReplaceStep ==
    ASSUME IInv, NEW s \in Session, Replace(s) PROVE Settled
<1>. DEFINE r == ses[s]
            n == r.born + 1
            b == Born(n)
            W == Dropped(s) \cup Begun(s)
<1>1. TypeOK /\ Numbered /\ Sound(s)
  BY DEF IInv
<1>2. r \in SessionState /\ r.born \in Nat /\ n \in Nat
  BY <1>1, SessionIs
<1>3. /\ b \in SessionState
      /\ b.endpoint = n /\ b.born = n /\ b.inbox = <<>> /\ b.seen = {}
      /\ b.sent = {}
      /\ b.hop = 0 /\ ~b.peerTurn /\ b.turn.kind = "idle" /\ b.turn.at = "idle"
  <2>1. b = Born(n)
    OBVIOUS
  <2>. HIDE DEF b, n
  <2>. QED
    BY <1>2, <2>1, BornIs
<1>4. PICK p : /\ p = b \/ p = Closed(b)
               /\ ses' = [ses EXCEPT ![s] = p]
  BY DEF Replace
<1>5. /\ mail' = mail /\ wire' = wire /\ admitted' = admitted
      /\ policy' = policy
      /\ age' = age /\ notice' = notice /\ runs' = runs /\ Event("replace")
      /\ void' = void \cup W
  BY DEF Replace
<1>6. W \subseteq r.seen
  BY <1>1, HeldIs
<1>. HIDE DEF b, W
<1>7. /\ p \in SessionState
      /\ p.endpoint \in {0, n} /\ p.born = n /\ p.inbox = <<>> /\ p.seen = {}
      /\ p.sent = {}
      /\ p.hop = 0 /\ ~p.peerTurn /\ p.turn.kind = "idle" /\ p.turn.at = "idle"
  BY <1>3, <1>4, ClosedIs DEF Same
<1>8. Len(p.inbox) <= MaxQueue /\ Works(p.inbox) = {}
  BY <1>7, NoneQueued
<1>9. Becomes(s, p)
  <2>1. Held(p) \subseteq Held(r)
    BY <1>7, <1>8, HeldLess
  <2>. QED
    BY <1>2, <1>4, <1>7, <1>8, <2>1 DEF Becomes
<1>10. Local(s, p)
  BY <1>1, <1>5, <1>6, <1>9, SameNotice, LosesIs, PlainLocal
<1>11. Sound(s)' => Settled
  BY <1>10, LocalStep
<1>12. ses'[s] = p
  BY <1>1, <1>4, SessionIs
<1>13. Inbox(s)'
  BY <1>7, <1>12 DEF Inbox
<1>14. Turns(s)'
  BY <1>7, <1>12, TurnsFree
<1>15. Causes(s)'
  BY <1>7, <1>12 DEF Causes
<1>. QED
  BY <1>11, <1>13, <1>14, <1>15 DEF Sound

-----------------------------------------------------------------------------
(* Messages that are on their way *)

\* The limits of a turn, as a number.
LEMMA MaySendIs ==
    ASSUME TypeOK, NEW s \in Session, MaySend(ses[s])
    PROVE  /\ ses[s].outgoing < HumanSends
           /\ ses[s].peerTurn => ses[s].outgoing < PeerSends /\ ses[s].hop < MaxHops
           /\ ses[s].chain \in Chain /\ age[ses[s].chain] = "live"
<1>1. /\ ses[s].outgoing \in Nat /\ ses[s].chain \in Chain \cup {None}
      /\ ses[s].peerTurn \in BOOLEAN
  BY SessionIs, SessionTypes, NumbersHold DEF Numbers
<1>2. /\ ses[s].chain # None /\ age[ses[s].chain] = "live"
      /\ ses[s].peerTurn => ses[s].hop < MaxHops
      /\ ses[s].outgoing < IF ses[s].peerTurn THEN PeerSends ELSE HumanSends
  BY DEF MaySend
<1>3. ses[s].outgoing < HumanSends
  BY <1>1, <1>2, NumbersHold DEF Numbers
<1>4. ses[s].peerTurn => ses[s].outgoing < PeerSends
  BY <1>2
<1>. QED
  BY <1>1, <1>2, <1>3, <1>4

\* A send without authorization costs budget and leaves a request.
LEMMA RefusedSendStep ==
    ASSUME IInv, NEW s \in Session, ses[s].turn.at = "running",
           MaySend(ses[s]),
           ses' = [ses EXCEPT ![s].outgoing = @ + 1],
           policy' = [policy EXCEPT !.asked = @ \/ policy.on],
           mail' = mail, wire' = wire, notice' = notice, age' = age,
           left' = left,
           admitted' = admitted, void' = void, runs' = runs
    PROVE  Settled
<1>. DEFINE r == ses[s]
            p == [r EXCEPT !.outgoing = @ + 1]
<1>1. TypeOK /\ Numbered /\ Written /\ Arrived /\ Sound(s)
  BY DEF IInv
<1>2. /\ r \in SessionState /\ r.inbox \in Seq(PeerInput)
      /\ r.outgoing < HumanSends
  BY <1>1, SessionIs, MaySendIs
<1>3. p = [r EXCEPT !.outgoing = @ + 1] /\ ses' = [ses EXCEPT ![s] = p]
  OBVIOUS
<1>. HIDE DEF p
<1>4. /\ p \in SessionState /\ Same(p, r)
      /\ p.endpoint = r.endpoint /\ p.born = r.born /\ p.inbox = r.inbox
      /\ p.turn = r.turn /\ p.outgoing = r.outgoing + 1
  BY <1>2, <1>3, OutgoingIs
<1>5. Drawn(p.inbox, r.inbox)
  BY <1>2, <1>4, DrawnSame
<1>6. Becomes(s, p) /\ ses'[s] = p
  BY <1>1, <1>3, <1>4, <1>5, QuietBecomes DEF Same
<1>7. Untouched
  <2>1. /\ policy \in [on : BOOLEAN, gen : Nat, grant : Nat, asked : BOOLEAN]
        /\ left \in Budget
    BY <1>1, Typed
  <2>. QED
    BY <2>1 DEF Untouched
<1>8. Local(s, p)
  BY <1>1, <1>6, <1>7, SameAge, SameWire, SameNotice, LosesNothing DEF Local
<1>9. Forward /\ (Sound(s)' => Settled)
  BY <1>8, LocalStep
<1>10. Calm(s, Works(p.inbox)) /\ Calm(s, Begun(s))
  BY CalmIs
<1>11. Inbox(s)'
  BY <1>1, <1>4, <1>5, <1>6, <1>9, <1>10, InboxKept DEF Sound, Same
<1>12. Turns(s)'
  BY <1>1, <1>4, <1>6, <1>9, <1>10, TurnsKept DEF Sound, Same
<1>13. Causes(s)'
  <2>1. PICK l : l = r.last
    OBVIOUS
  <2>2. Cardinality(Children(l))' = Cardinality(Children(l))
    BY DEF Children, Sent
  <2>3. r.outgoing \in Nat
    BY <1>2, SessionTypes, NumbersHold DEF Numbers
  <2>4. r.peerTurn /\ ~r.noSend => /\ l \in r.seen /\ IsFiniteSet(Children(l))
    BY <1>1, <2>1, ChildrenFinite DEF Sound, Causes
  <2>5. r.peerTurn /\ ~r.noSend => Cardinality(Children(l)) \in Nat
    BY <2>4, FS_CardinalityType
  <2>. HIDE DEF r
  <2>6. /\ ~r.peerTurn => r.hop = 0
        /\ r.peerTurn /\ ~r.noSend =>
             /\ l \in r.seen /\ l \notin Works(r.inbox)
             /\ mail[l].ro => r.ro
             /\ Cardinality(Children(l)) <= r.outgoing
    BY <1>1, <2>1 DEF Sound, Causes, r
  <2>7. r.peerTurn /\ ~r.noSend => Cardinality(Children(l)) <= p.outgoing
    BY <1>4, <2>3, <2>5, <2>6
  <2>. QED
    BY <1>4, <1>6, <2>1, <2>2, <2>6, <2>7 DEF Causes, Same
<1>. QED
  BY <1>9, <1>11, <1>12, <1>13 DEF Sound

\* A step that only speaks of messages.
LEMMA QuietStep ==
    ASSUME IInv, NEW s \in Session, ses' = ses, Untouched, Wired, Noticed,
           mail' = mail, age' = age, admitted' = admitted, void' = void,
           runs' = runs
    PROVE  Settled
<1>. DEFINE p == ses[s]
<1>1. TypeOK /\ Numbered /\ Written /\ Arrived /\ Sound(s)
  BY DEF IInv
<1>2. /\ p \in SessionState /\ p.inbox \in Seq(PeerInput)
      /\ ses' = [ses EXCEPT ![s] = p]
      /\ p = ses[s]
  BY <1>1, SessionIs
<1>. HIDE DEF p
<1>3. Drawn(p.inbox, ses[s].inbox)
  BY <1>2, DrawnSame
<1>4. Becomes(s, p) /\ ses'[s] = p
  BY <1>1, <1>2, <1>3, QuietBecomes
<1>5. Local(s, p)
  BY <1>1, <1>4, SameAge, LosesNothing DEF Local
<1>6. Forward /\ (Sound(s)' => Settled)
  BY <1>5, LocalStep
<1>7. Calm(s, ses[s].seen)
  BY CalmIs
<1>. QED
  BY <1>1, <1>2, <1>4, <1>6, <1>7, Undisturbed

\* The sender of a message changes what it remembers of its own messages.
LEMMA MemoStep ==
    ASSUME IInv, NEW s \in Session, NEW S, S \subseteq Sent,
           ses' = [ses EXCEPT ![s].sent = S], Wired, Noticed, policy' = policy,
           mail' = mail, age' = age, left' = left, admitted' = admitted,
           void' = void, runs' = runs
    PROVE  Settled /\ Waiting' = Waiting
<1>. DEFINE r == ses[s]
            p == [r EXCEPT !.sent = S]
<1>1. TypeOK /\ Numbered /\ Written /\ Arrived /\ Sound(s)
  BY DEF IInv
<1>2. /\ r \in SessionState /\ r.inbox \in Seq(PeerInput) /\ S \in SUBSET Id
      /\ r.endpoint \in {0, r.born} /\ r.born \in Nat
      /\ Len(r.inbox) <= MaxQueue
      /\ r.seen \subseteq Sent
  BY <1>1, SessionIs DEF Sent
<1>3. p = [r EXCEPT !.sent = S] /\ ses' = [ses EXCEPT ![s] = p]
  OBVIOUS
<1>. HIDE DEF p
<1>4. /\ p \in SessionState /\ p.seen = r.seen /\ p.sent = S
      /\ p.chain = r.chain
      /\ p.hop = r.hop /\ p.ro = r.ro /\ p.peerTurn = r.peerTurn
      /\ p.noSend = r.noSend /\ p.last = r.last
      /\ p.endpoint = r.endpoint /\ p.born = r.born /\ p.inbox = r.inbox
      /\ p.turn = r.turn /\ p.outgoing = r.outgoing
  <2>1. PICK r0, p0 : r0 = r /\ p0 = p
    OBVIOUS
  <2>2. p0 = [r0 EXCEPT !.sent = S] /\ r0 \in SessionState
    BY <1>2, <1>3, <2>1
  <2>3. p0 \in SessionState
    BY <1>2, <2>2 DEF SessionState
  <2>4. p0.sent = S
    BY <1>2, <2>2 DEF SessionState
  <2>5. Alike(p0, r0)
    BY <1>2, <2>2 DEF SessionState, Alike
  <2>. QED
    BY <2>1, <2>3, <2>4, <2>5 DEF Alike
<1>5. Becomes(s, p)
  <2>1. Held(p) \subseteq Held(r)
    BY <1>4, HeldLess
  <2>. QED
    BY <1>2, <1>3, <1>4, <2>1 DEF Becomes
<1>6. ses'[s] = p
  BY <1>1, <1>3, SessionIs
<1>7. Local(s, p)
  BY <1>1, <1>5, UntouchedIs, SameAge, LosesNothing DEF Local
<1>8. Forward /\ (Sound(s)' => Settled)
  BY <1>7, LocalStep
<1>9. Calm(s, Works(ses'[s].inbox)) /\ Calm(s, Begun(s))
  BY CalmIs
<1>14. \A m : Children(m)' = Children(m)
  BY DEF Children, Sent
<1>10. Drawn(ses'[s].inbox, r.inbox)
  BY <1>2, <1>4, <1>6, DrawnSame
<1>11. Inbox(s)'
  BY <1>1, <1>4, <1>6, <1>8, <1>9, <1>10, InboxKept DEF Sound
<1>12. Turns(s)'
  BY <1>1, <1>4, <1>6, <1>8, <1>9, TurnsKept DEF Sound
<1>13. Causes(s)'
  BY <1>1, <1>4, <1>6, <1>8, <1>14, CausesKept DEF Sound
<1>15. Waiting' = Waiting
  <2>1. Held(p) = Held(r)
    BY <1>4 DEF Held
  <2>2. Held(ses'[s]) = Held(ses[s])
    BY <1>6, <2>1
  <2>3. \A x \in Session \ {s} : ses'[x] = ses[x]
    BY <1>1, <1>3, SessionIs
  <2>. QED
    BY <2>2, <2>3, WaitingHeld
<1>. QED
  BY <1>8, <1>11, <1>12, <1>13, <1>15 DEF Sound

\* The sender reads the answer (Answered): it is told the truth.
LEMMA AnsweredStep ==
    ASSUME IInv, NEW m \in Id, Answered(m)
    PROVE  IInv' /\ \E w \in {"queued", "refused"} : Tells(m, w)
<1>1. TypeOK /\ Heard
  BY DEF IInv
<1>2. m \in Sent
  BY <1>1 DEF Heard, Answered
<1>. DEFINE s == mail[m].from
<1>3. s \in Session
  BY <1>1, <1>2, Typed, LetterTypes
<1>4. /\ policy' = policy /\ mail' = mail /\ notice' = notice /\ age' = age
      /\ left' = left
      /\ admitted' = admitted /\ void' = void /\ runs' = runs
  BY DEF Answered
<1>5. Wired
  <2>1. wire \in [Id -> Exchange]
    BY <1>1 DEF TypeOK, Exchange
  <2>2. \/ /\ wire[m] = "queued" /\ wire' = [wire EXCEPT ![m] = "acknowledged"]
           /\ m \in admitted
        \/ /\ wire[m] = "refused" /\ wire' = [wire EXCEPT ![m] = "declined"]
           /\ m \notin admitted
    BY <1>1 DEF Answered, Heard
  <2>. QED
    BY <1>2, <2>1, <2>2 DEF Wired, Exchange
<1>6. Untouched /\ Noticed
  BY <1>1, <1>4, UntouchedIs, SameNotice
<1>7. ASSUME ses' = ses PROVE Settled /\ Waiting' = Waiting
  <2>1. Waiting' = Waiting
    BY <1>7 DEF Waiting, Dropped, Begun
  <2>. QED
    BY <1>3, <1>4, <1>5, <1>6, <1>7, <2>1, QuietStep
<1>8. ASSUME ses' = [ses EXCEPT ![mail[m].from].sent = @ \cup {m}]
      PROVE  Settled /\ Waiting' = Waiting
  <2>1. PICK x \in Session : x = mail[m].from
    BY <1>3
  <2>. DEFINE S == ses[x].sent \cup {m}
  <2>2. S \subseteq Sent
    BY <1>1, <1>2, SessionIs
  <2>3. ses' = [ses EXCEPT ![x].sent = S]
    BY <1>8, <2>1
  <2>. HIDE DEF S
  <2>. QED
    BY <1>4, <1>5, <1>6, <2>2, <2>3, MemoStep
<1>9. Settled /\ Waiting' = Waiting
  BY <1>7, <1>8 DEF Answered
<1>10. /\ \A n \in Id \ {m} : wire'[n] = wire[n]
       /\ \/ wire[m] = "queued" /\ wire'[m] = "acknowledged" /\ m \in admitted
          \/ wire[m] = "refused" /\ wire'[m] = "declined" /\ m \notin admitted
  BY <1>1 DEF Answered, TypeOK, Heard
<1>11. /\ Told(m) = "none" /\ \A n \in Id \ {m} : Told(n)' = Told(n)
       /\ \/ Told(m)' = "queued" /\ m \in admitted
          \/ Told(m)' = "refused" /\ m \notin admitted
  BY <1>10 DEF Told
<1>12. Tells(m, Told(m)')
  BY <1>2, <1>4, <1>9, <1>11 DEF Tells, Settled, Lets
<1>. QED
  BY <1>9, <1>11, <1>12 DEF Settled

\* An exchange breaks off (Lose).
LEMMA LoseStep ==
    ASSUME IInv, NEW m \in Id, Lose(m) PROVE Settled
<1>1. TypeOK /\ Heard
  BY DEF IInv
<1>2. m \in Sent
  BY <1>1 DEF Heard, Lose
<1>3. mail[m].from \in Session
  BY <1>1, <1>2, Typed, LetterTypes
<1>4. /\ policy' = policy /\ mail' = mail /\ notice' = notice /\ age' = age
      /\ Event("loss")
      /\ admitted' = admitted /\ void' = void /\ runs' = runs /\ ses' = ses
  BY DEF Lose
<1>5. Wired
  BY <1>1, <1>2 DEF Wired, Lose, Heard, TypeOK, Exchange
<1>. QED
  BY <1>1, <1>3, <1>4, <1>5, UntouchedIs, SameNotice, QuietStep

\* A notice is lost (LoseNotice).
LEMMA LoseNoticeStep ==
    ASSUME IInv, NEW m \in Id, LoseNotice(m) PROVE Settled
<1>1. TypeOK /\ Heard
  BY DEF IInv
<1>2. m \in Sent
  BY <1>1 DEF Heard, LoseNotice
<1>3. mail[m].from \in Session
  BY <1>1, <1>2, Typed, LetterTypes
<1>4. /\ policy' = policy /\ mail' = mail /\ wire' = wire /\ age' = age
      /\ Event("loss")
      /\ admitted' = admitted /\ void' = void /\ runs' = runs /\ ses' = ses
  BY DEF LoseNotice
<1>5. Noticed
  BY <1>1, <1>2 DEF Noticed, LoseNotice, TypeOK
<1>. QED
  BY <1>1, <1>3, <1>4, <1>5, UntouchedIs, SameWire, QuietStep

-----------------------------------------------------------------------------
(* Steps that concern every session *)

\* A session keeps what it knows, with less of its inbox and maybe another
\* endpoint.
Keeps(x) == /\ ses'[x] \in SessionState /\ Same(ses'[x], ses[x])
            /\ ses'[x].turn = ses[x].turn /\ ses'[x].outgoing = ses[x].outgoing
            /\ Drawn(ses'[x].inbox, ses[x].inbox)
            /\ ses'[x].endpoint \in {0, ses'[x].born}
            /\ ses'[x].born >= ses[x].born
            /\ \/ ses'[x].endpoint = ses[x].endpoint
               \/ ses'[x].endpoint \notin 1 .. ses[x].born

\* A session the step is not about.
LEMMA KeepsItself ==
    ASSUME TypeOK, NEW x \in Session, ses'[x] = ses[x] PROVE Keeps(x)
BY SessionIs, DrawnSame DEF Keeps, Same

\* A step that changes endpoints, the policy or the age of a chain.
LEMMA StillStep ==
    ASSUME IInv, mail' = mail, wire' = wire, notice' = notice,
           admitted' = admitted,
           runs' = runs, void' \subseteq admitted, Aging,
           policy' \in [on : BOOLEAN, gen : Nat, grant : Nat, asked : BOOLEAN],
           left' \in Budget,
           policy'.gen = 0 \/ policy'.gen > left'.policy,
           policy'.grant \in {0, 1} \/ policy'.grant > left'.policy + 1,
           \A u \in Nat \X Nat :
              Known(u) => /\ Known(u)'
                          /\ u # <<policy.gen, policy.grant>> =>
                                u # <<policy'.gen, policy'.grant>>,
           ses' \in [Session -> SessionState],
           \A x \in Session : Keeps(x) /\ Calm(x, ses[x].seen)
    PROVE  Settled
<1>1. TypeOK /\ Numbered /\ Written /\ Arrived /\ Earned /\ Heard
  BY DEF IInv
<1>2. Sent' = Sent /\ \A m : Children(m)' = Children(m)
  BY DEF Sent, Children
<1>3. \A x \in Session : Moves(x)
  BY DEF Keeps, Moves, Same
<1>4. Forward
  BY <1>2, <1>3 DEF Aging, Forward
<1>5. TypeOK'
  <2>1. \A x \in Session :
          /\ ses'[x].endpoint \in {0, ses'[x].born}
          /\ Len(ses'[x].inbox) <= MaxQueue
          /\ ses'[x].seen \cup ses'[x].sent \subseteq Sent
    <3>1. SUFFICES ASSUME NEW x \in Session
                   PROVE  /\ ses'[x].endpoint \in {0, ses'[x].born}
                          /\ Len(ses'[x].inbox) <= MaxQueue
                          /\ ses'[x].seen \cup ses'[x].sent \subseteq Sent
      OBVIOUS
    <3>2. PICK q, p : q = ses[x].inbox /\ p = ses'[x].inbox
      OBVIOUS
    <3>3. q \in Seq(PeerInput) /\ Drawn(p, q) /\ Len(q) <= MaxQueue
      BY <1>1, <3>2, SessionIs DEF Keeps
    <3>4. p \in Seq(PeerInput) /\ Len(p) <= Len(q)
      BY <3>3, DrawnIs
    <3>5. Len(p) <= MaxQueue
      BY <3>3, <3>4, NumbersHold DEF Numbers
    <3>6. ses'[x].seen = ses[x].seen /\ ses'[x].sent = ses[x].sent
      BY DEF Keeps, Same
    <3>. QED
      BY <1>1, <3>2, <3>5, <3>6, SessionIs DEF Keeps
  <2>2. /\ mail' \in [Id -> Letters \cup {NoMail}]
        /\ wire' \in [Id -> Exchange]
        /\ notice' \in [Id -> {"none", "sent", "over"}]
        /\ admitted' \subseteq Sent /\ runs' \in [Id -> Nat]
    BY <1>1 DEF TypeOK, Exchange
  <2>. QED
    BY <1>2, <2>1, <2>2 DEF TypeOK, Aging, Exchange
<1>6. Numbered'
  BY <1>1, <1>2 DEF Numbered, Aging
<1>7. Written' /\ Arrived' /\ Earned'
  BY <1>1, <1>4, <1>5, PostsKept
<1>8. Heard'
  BY <1>1, <1>2 DEF Heard
<1>9. ASSUME NEW x \in Session PROVE Sound(x)'
  <2>1. Sound(x) /\ Keeps(x)
    BY DEF IInv
  <2>2. PICK q, p : q = ses[x].inbox /\ p = ses'[x].inbox
    OBVIOUS
  <2>3. Works(p) \subseteq Works(q)
    BY <1>1, <2>1, <2>2, SessionIs, DrawnIs DEF Keeps
  <2>4. Works(q) \subseteq ses[x].seen /\ Begun(x) \subseteq ses[x].seen
    BY <1>1, <2>1, <2>2, HeldIs
  <2>5. Calm(x, Works(ses'[x].inbox)) /\ Calm(x, Begun(x))
    BY <2>2, <2>3, <2>4 DEF Calm
  <2>6. Inbox(x)'
    BY <1>1, <1>4, <2>1, <2>5, InboxKept DEF Keeps, Same, Sound
  <2>7. Turns(x)'
    BY <1>1, <1>4, <2>1, <2>5, TurnsKept DEF Keeps, Same, Sound
  <2>8. Causes(x)'
    <3>1. Works(ses'[x].inbox) \ Works(ses[x].inbox) \subseteq Sent \ ses[x].seen
      BY <2>2, <2>3
    <3>. QED
      BY <1>1, <1>2, <1>4, <2>1, <3>1, CausesKept DEF Keeps, Same, Sound
  <2>. QED
    BY <2>6, <2>7, <2>8 DEF Sound
<1>10. Lets
  <2>1. ASSUME NEW x \in Session PROVE Held(ses'[x]) \subseteq Held(ses[x])
    <3>1. PICK r, p : r = ses[x] /\ p = ses'[x]
      OBVIOUS
    <3>2. /\ r.inbox \in Seq(PeerInput) /\ Drawn(p.inbox, r.inbox)
          /\ p.turn = r.turn
      BY <1>1, <3>1, SessionIs DEF Keeps
    <3>3. Works(p.inbox) \subseteq Works(r.inbox)
      BY <3>2, DrawnIs
    <3>. QED
      BY <3>1, <3>2, <3>3, HeldLess
  <2>2. Waiting' \subseteq Waiting
    BY <2>1, WaitingHeld
  <2>. QED
    BY <1>2, <2>2 DEF Lets
<1>. QED
  BY <1>1, <1>5, <1>6, <1>7, <1>8, <1>9, <1>10 DEF IInv, Settled

\* What waits anywhere was admitted.
LEMMA WaitingIs ==
    ASSUME TypeOK, \A s \in Session : Sound(s)
    PROVE  /\ Waiting \subseteq admitted
           /\ \A m \in Waiting : \E s \in Session :
                 m \in ses[s].seen /\ mail[m].to = s /\ m \in Sent
BY HeldIs DEF Waiting

\* A chain expires (Expire): what waits under it is doomed.
LEMMA ExpireStep ==
    ASSUME IInv, NEW c \in Chain, Expire(c) PROVE Settled
<1>1. TypeOK /\ Numbered /\ \A s \in Session : Sound(s)
  BY DEF IInv
<1>2. /\ mail' = mail /\ wire' = wire /\ notice' = notice
      /\ admitted' = admitted
      /\ runs' = runs /\ policy' = policy /\ left' = left /\ ses' = ses
      /\ age' = [age EXCEPT ![c] = "expired"] /\ age[c] = "live"
      /\ void' = void \cup {m \in Waiting : mail[m].chain = c}
  BY DEF Expire
<1>3. /\ age \in [Chain -> {"unborn", "live", "expired"}]
      /\ void \subseteq admitted
  BY <1>1 DEF TypeOK
<1>4. Aging
  <2>1. Chains' = Chains
    BY <1>2, <1>3 DEF Chains
  <2>. QED
    BY <1>1, <1>2, <1>3, <2>1 DEF Aging, Numbered
<1>5. void' \subseteq admitted
  BY <1>1, <1>2, <1>3, WaitingIs
<1>6. ASSUME NEW x \in Session PROVE Keeps(x) /\ Calm(x, ses[x].seen)
  <2>1. Keeps(x)
    BY <1>1, <1>2, KeepsItself
  <2>2. \A m : Children(m)' = Children(m)
    BY <1>2 DEF Children, Sent
  <2>3. ASSUME NEW i \in PeerInput, i.m \in void', i.m \notin void
        PROVE  Doomed(x, i)'
    <3>1. mail'[i.m].chain = c /\ age'[c] = "expired"
      BY <1>2, <1>3, <2>3
    <3>. QED
      BY <3>1 DEF Doomed
  <2>4. Calm(x, ses[x].seen)
    BY <1>2, <2>2, <2>3 DEF Calm
  <2>. QED
    BY <2>1, <2>4
<1>7. /\ policy' \in [on : BOOLEAN, gen : Nat, grant : Nat, asked : BOOLEAN]
      /\ left' \in Budget /\ ses' \in [Session -> SessionState]
  BY <1>1, <1>2 DEF TypeOK
<1>8. /\ policy'.gen = 0 \/ policy'.gen > left'.policy
      /\ policy'.grant \in {0, 1} \/ policy'.grant > left'.policy + 1
  BY <1>1, <1>2 DEF Numbered
<1>9. \A u \in Nat \X Nat :
         Known(u) => /\ Known(u)'
                     /\ u # <<policy.gen, policy.grant>> =>
                           u # <<policy'.gen, policy'.grant>>
  BY <1>2 DEF Known
<1>. QED
  BY <1>2, <1>4, <1>5, <1>6, <1>7, <1>8, <1>9, StillStep

\* The policy changes, and with it the pair, or nothing that matters.
LEMMA ChangeStep ==
    ASSUME IInv, NEW g, Change(g),
           g \in [on : BOOLEAN, gen : Nat, grant : Nat, asked : BOOLEAN],
           \/ g.gen = policy.gen /\ g.grant = policy.grant /\ g.on = policy.on
           \/ g.gen = left.policy /\ g.grant = policy.grant
           \/ g.gen = policy.gen /\ g.grant = 0
           \/ g.gen = policy.gen /\ g.grant = left.policy + 1,
           mail' = mail, wire' = wire, notice' = notice, admitted' = admitted,
           runs' = runs, age' = age,
           ses' \in [Session -> SessionState], \A x \in Session : Keeps(x)
    PROVE  Settled
<1>1. TypeOK /\ Numbered /\ \A s \in Session : Sound(s)
  BY DEF IInv
<1>2. /\ policy \in [on : BOOLEAN, gen : Nat, grant : Nat, asked : BOOLEAN]
      /\ policy.gen \in Nat /\ policy.grant \in Nat /\ left \in Budget
  BY <1>1, Typed
<1>3. policy' = g /\ Event("policy")
  BY DEF Change
<1>4. PICK n : n = left.policy
  OBVIOUS
<1>5. n \in Nat /\ n > 0 /\ left'.policy = n - 1 /\ left' \in Budget
  BY <1>2, <1>3, <1>4, EventIs, BudgetTypes
<1>6. /\ policy.gen = 0 \/ policy.gen > n
      /\ policy.grant \in {0, 1} \/ policy.grant > n + 1
  BY <1>1, <1>4 DEF Numbered
<1>7. /\ g.gen = 0 \/ g.gen > n - 1
      /\ g.grant \in {0, 1} \/ g.grant > n
      /\ g.gen \in Nat /\ g.grant \in Nat
  BY <1>2, <1>4, <1>5, <1>6
<1>8. \/ g.gen = policy.gen /\ g.grant = policy.grant /\ g.on = policy.on
      \/ \A u \in Nat \X Nat : Known(u) => u # <<g.gen, g.grant>>
  <2>1. CASE g.gen = left.policy \/ g.grant = 0 \/ g.grant = left.policy + 1
    <3>1. ASSUME NEW u \in Nat \X Nat, Known(u), u = <<g.gen, g.grant>>
          PROVE  FALSE
      <4>1. u[1] = g.gen /\ u[2] = g.grant
        BY <3>1
      <4>2. u[1] = 0 \/ u[1] > n
        BY <1>4, <3>1 DEF Known
      <4>3. u[2] = 1 \/ u[2] > n + 1
        BY <1>4, <3>1 DEF Known
      <4>. QED
        BY <1>4, <1>5, <1>7, <2>1, <4>1, <4>2, <4>3
    <3>. QED
      BY <3>1
  <2>. QED
    BY <2>1
<1>9. ASSUME NEW u \in Nat \X Nat, Known(u)
      PROVE  /\ Known(u)'
             /\ u # <<policy.gen, policy.grant>> => u # <<policy'.gen, policy'.grant>>
  <2>1. u[1] \in Nat /\ u[2] \in Nat
    OBVIOUS
  <2>2. Known(u)'
    BY <1>4, <1>5, <1>9, <2>1 DEF Known
  <2>. QED
    BY <1>3, <1>8, <1>9, <2>2
<1>10. \/ void' = void
       \/ /\ void' = void \cup Waiting
          /\ \A u \in Nat \X Nat : Known(u) => u # <<policy'.gen, policy'.grant>>
  <2>1. CASE Granted(g) = Token
    BY <2>1 DEF Change
  <2>2. CASE Granted(g) # Token
    <3>1. ~(g.gen = policy.gen /\ g.grant = policy.grant /\ g.on = policy.on)
      BY <2>2 DEF Granted, Token
    <3>. QED
      BY <1>3, <1>8, <2>2, <3>1 DEF Change
  <2>. QED
    BY <2>1, <2>2
<1>11. void' \subseteq admitted
  <2>1. void \subseteq admitted /\ Waiting \subseteq admitted
    BY <1>1, Typed, WaitingIs
  <2>. QED
    BY <1>10, <2>1
<1>12. ASSUME NEW x \in Session PROVE Keeps(x) /\ Calm(x, ses[x].seen)
  <2>1. \A m : Children(m)' = Children(m)
    BY DEF Children, Sent
  <2>2. ASSUME NEW i \in PeerInput,
               Known(i.auth), i.m \in void', i.m \notin void
        PROVE  Doomed(x, i)'
    <3>1. i.auth \in Nat \X Nat
      BY ItemTypes
    <3>2. i.auth # <<policy'.gen, policy'.grant>>
      BY <1>10, <2>2, <3>1
    <3>. QED
      BY <3>2 DEF Doomed
  <2>. QED
    BY <2>1, <2>2 DEF Calm
<1>13. Aging
  BY <1>1, SameAge
<1>14. /\ policy'.gen = 0 \/ policy'.gen > left'.policy
       /\ policy'.grant \in {0, 1} \/ policy'.grant > left'.policy + 1
  BY <1>3, <1>5, <1>7
<1>. QED
  BY <1>3, <1>5, <1>9, <1>11, <1>12, <1>13, <1>14, StillStep

\* The policy as a record.
LEMMA PolicyIs ==
    ASSUME TypeOK, NEW n \in Nat, NEW b \in BOOLEAN, NEW g,
           \/ g = [policy EXCEPT !.grant = n, !.asked = FALSE]
           \/ g = [policy EXCEPT !.asked = FALSE]
           \/ g = [policy EXCEPT !.on = b, !.gen = n]
    PROVE  /\ g \in [on : BOOLEAN, gen : Nat, grant : Nat, asked : BOOLEAN]
           /\ g = [policy EXCEPT !.grant = n, !.asked = FALSE] =>
                 g.gen = policy.gen /\ g.grant = n
           /\ g = [policy EXCEPT !.asked = FALSE] =>
                 g.gen = policy.gen /\ g.grant = policy.grant /\ g.on = policy.on
           /\ g = [policy EXCEPT !.on = b, !.gen = n] =>
                 g.gen = n /\ g.grant = policy.grant
BY DEF TypeOK

\* The user answers a request or revokes the pair.
LEMMA AnswerStep ==
    ASSUME IInv, NEW g, Change(g), NEW n \in Nat,
           \/ g = [policy EXCEPT !.asked = FALSE]
           \/ /\ g = [policy EXCEPT !.grant = n, !.asked = FALSE]
              /\ n = 0 \/ n = left.policy + 1,
           UNCHANGED <<mail, wire, notice, age, ses, admitted, runs>>
    PROVE  Settled
<1>1. TypeOK
  BY DEF IInv
<1>2. /\ g \in [on : BOOLEAN, gen : Nat, grant : Nat, asked : BOOLEAN]
      /\ \/ g.gen = policy.gen /\ g.grant = policy.grant /\ g.on = policy.on
         \/ g.gen = policy.gen /\ g.grant = 0
         \/ g.gen = policy.gen /\ g.grant = left.policy + 1
  BY <1>1, PolicyIs
<1>3. \A x \in Session : Keeps(x)
  BY <1>1, KeepsItself
<1>4. ses' \in [Session -> SessionState]
  BY <1>1 DEF TypeOK
<1>. QED
  BY <1>2, <1>3, <1>4, ChangeStep

\* The user confirms (Confirm): the new grant is one that was never given out.
LEMMA ConfirmStep == ASSUME IInv, Confirm PROVE Settled
<1>1. TypeOK /\ left.policy \in Nat
  BY BudgetTypes DEF IInv, TypeOK
<1>2. CASE /\ policy.grant = 0
           /\ Change([policy EXCEPT !.grant = left.policy + 1, !.asked = FALSE])
  <2>1. PICK n : n = left.policy + 1
    OBVIOUS
  <2>2. PICK g : g = [policy EXCEPT !.grant = n, !.asked = FALSE]
    OBVIOUS
  <2>3. Change(g) /\ n \in Nat
    BY <1>1, <1>2, <2>1, <2>2 DEF Change, Granted
  <2>. QED
    BY <2>1, <2>2, <2>3, AnswerStep DEF Confirm
<1>3. CASE Change([policy EXCEPT !.asked = FALSE])
  <2>1. PICK g : g = [policy EXCEPT !.asked = FALSE]
    OBVIOUS
  <2>2. Change(g) /\ 0 \in Nat
    BY <1>3, <2>1 DEF Change, Granted
  <2>. QED
    BY <2>1, <2>2, AnswerStep DEF Confirm
<1>. QED
  BY <1>2, <1>3 DEF Confirm

\* The user revokes the pair (Revoke).
LEMMA RevokeStep == ASSUME IInv, Revoke PROVE Settled
<1>1. PICK n : n = 0
  OBVIOUS
<1>2. PICK g : g = [policy EXCEPT !.grant = n, !.asked = FALSE]
  OBVIOUS
<1>3. Change(g) /\ n \in Nat
  BY <1>1, <1>2 DEF Change, Granted, Revoke
<1>. QED
  BY <1>1, <1>2, <1>3, AnswerStep DEF Revoke

\* Collaboration is switched off or on: the session closes its endpoint, or
\* opens another one.
LEMMA SwitchStep ==
    ASSUME IInv, NEW s \in Session, NEW b \in BOOLEAN, NEW g, Change(g),
           g = [policy EXCEPT !.on = b, !.gen = left.policy],
           NEW p, p = Closed(ses[s]) \/ p = Opened(ses[s]),
           ses' = [ses EXCEPT ![s] = p],
           UNCHANGED <<mail, wire, notice, age, admitted, runs>>
    PROVE  Settled
<1>1. /\ TypeOK /\ left.policy \in Nat /\ ses[s] \in SessionState
      /\ ses[s].born \in Nat
  BY BudgetTypes, SessionIs DEF IInv, TypeOK
<1>2. /\ g \in [on : BOOLEAN, gen : Nat, grant : Nat, asked : BOOLEAN]
      /\ g.gen = left.policy /\ g.grant = policy.grant
  <2>1. PICK n : n = left.policy
    OBVIOUS
  <2>2. g = [policy EXCEPT !.on = b, !.gen = n] /\ n \in Nat
    BY <1>1, <2>1
  <2>. QED
    BY <1>1, <2>1, <2>2 DEF TypeOK
<1>3. /\ p \in SessionState /\ Same(p, ses[s]) /\ p.inbox = <<>>
      /\ p.turn = ses[s].turn /\ p.outgoing = ses[s].outgoing
      /\ p.born >= ses[s].born /\ p.endpoint \in {0, p.born}
      /\ p.endpoint \notin 1 .. ses[s].born
  <2>1. CASE p = Closed(ses[s])
    BY <1>1, <2>1, ClosedIs
  <2>2. CASE p = Opened(ses[s])
    BY <1>1, <2>2, OpenedIs
  <2>. QED
    BY <2>1, <2>2
<1>4. Drawn(p.inbox, ses[s].inbox)
  BY <1>3, NoneQueued
<1>5. /\ ses' \in [Session -> SessionState] /\ ses'[s] = p
      /\ \A x \in Session \ {s} : ses'[x] = ses[x]
  BY <1>1, <1>3, SessionIs
<1>6. \A x \in Session : Keeps(x)
  BY <1>1, <1>3, <1>4, <1>5, KeepsItself DEF Keeps
<1>. QED
  BY <1>2, <1>5, <1>6, ChangeStep

\* Collaboration is switched off (Off).
LEMMA OffStep == ASSUME IInv, NEW s \in Session, Off(s) PROVE Settled
<1>1. PICK g : g = [policy EXCEPT !.on = FALSE, !.gen = left.policy]
  OBVIOUS
<1>2. PICK p : p = Closed(ses[s])
  OBVIOUS
<1>3. Change(g)
  BY <1>1 DEF Off, Change, Granted
<1>4. ses' = [ses EXCEPT ![s] = p]
  BY <1>2 DEF Off
<1>5. FALSE \in BOOLEAN
  OBVIOUS
<1>. QED
  BY <1>1, <1>2, <1>3, <1>4, <1>5, SwitchStep DEF Off

\* Collaboration is switched on (On).
LEMMA OnStep == ASSUME IInv, NEW s \in Session, On(s) PROVE Settled
<1>1. PICK g : g = [policy EXCEPT !.on = TRUE, !.gen = left.policy]
  OBVIOUS
<1>2. PICK p : p = Opened(ses[s])
  OBVIOUS
<1>3. Change(g)
  BY <1>1 DEF On, Change, Granted
<1>4. ses' = [ses EXCEPT ![s] = p]
  BY <1>2 DEF On
<1>5. TRUE \in BOOLEAN
  OBVIOUS
<1>. QED
  BY <1>1, <1>2, <1>3, <1>4, <1>5, SwitchStep DEF On

-----------------------------------------------------------------------------
(* Inboxes that grow *)

\* A session with the same endpoint and no shorter memory takes nothing back.
LEMMA StandsStill ==
    ASSUME NEW s, ses[s].born \in Nat, ses'[s].born = ses[s].born,
           ses'[s].endpoint = ses[s].endpoint,
           ses[s].seen \subseteq ses'[s].seen
    PROVE  Moves(s)
BY DEF Moves

\* An inbox with a new item at its end.
LEMMA InboxGrows ==
    ASSUME TypeOK, Written, Arrived, Forward, NEW s \in Session, Inbox(s),
           NEW i \in PeerInput, i.m \in Sent,
           ses'[s].inbox = Append(ses[s].inbox, i),
           ses[s].seen \subseteq ses'[s].seen,
           Calm(s, Works(ses[s].inbox)),
           i.failure => mail[i.m].from = s,
           ~i.failure => /\ i.m \notin ses[s].seen /\ Waits(s, i)'
                         /\ Children(i.m)' = {},
           \A m \in ses'[s].seen : mail'[m].to = s /\ m \in admitted'
    PROVE  Inbox(s)'
<1>. DEFINE q == ses[s].inbox
<1>1. q \in Seq(PeerInput) /\ DOMAIN q = 1 .. Len(q) /\ Len(q) \in Nat
  BY Typed
<1>2. PICK p : p = ses'[s].inbox
  OBVIOUS
<1>3. /\ p \in Seq(PeerInput) /\ DOMAIN p = 1 .. Len(q) + 1
      /\ p[Len(q) + 1] = i
      /\ \A k \in 1 .. Len(q) : p[k] = q[k]
  BY <1>1, <1>2
<1>4. \A m \in ses[s].seen : m \in Sent /\ mail[m].to = s /\ m \in admitted
  BY Typed DEF Inbox
<1>. HIDE DEF q
<1>5. ASSUME NEW k \in DOMAIN p
      PROVE  /\ p[k].m \in Sent'
             /\ p[k].failure => mail'[p[k].m].from = s
             /\ ~p[k].failure => Waits(s, p[k])' /\ Children(p[k].m)' = {}
  <2>1. CASE k = Len(q) + 1
    <3>1. p[k] = i /\ i.m \in Sent' /\ mail'[i.m] = mail[i.m]
      BY <1>3, <2>1 DEF Forward
    <3>. QED
      BY <3>1
  <2>2. CASE k # Len(q) + 1
    <3>1. k \in DOMAIN q /\ p[k] = q[k] /\ p[k] \in PeerInput
      BY <1>1, <1>3, <2>2
    <3>2. /\ p[k].m \in Sent
          /\ p[k].failure => mail[p[k].m].from = s
          /\ ~p[k].failure => Waits(s, p[k]) /\ Children(p[k].m) = {}
      BY <3>1 DEF Inbox, q
    <3>3. p[k].m \in Sent' /\ mail'[p[k].m] = mail[p[k].m]
      BY <3>2 DEF Forward
    <3>4. ASSUME ~p[k].failure PROVE Waits(s, p[k])' /\ Children(p[k].m)' = {}
      <4>1. p[k].m \in ses[s].seen /\ mail[p[k].m].to = s
        BY <1>4, <3>2, <3>4 DEF Waits
      <4>2. p[k].m \in Works(ses[s].inbox)
        BY <3>1, <3>4 DEF Works, q
      <4>3. Calm(s, {p[k].m}) /\ p[k].m \in ses'[s].seen
        BY <4>1, <4>2 DEF Calm
      <4>. QED
        BY <3>1, <3>2, <3>4, <4>1, <4>3, WaitsStays
    <3>. QED
      BY <3>2, <3>3, <3>4
  <2>. QED
    BY <2>1, <2>2
<1>6. ASSUME NEW j \in DOMAIN p, NEW k \in DOMAIN p,
             ~p[j].failure, ~p[k].failure, p[j].m = p[k].m
      PROVE  j = k
  <2>1. \A l \in DOMAIN q : ~q[l].failure => q[l].m \in ses[s].seen
    BY DEF Inbox, Waits, q
  <2>2. ASSUME NEW l \in DOMAIN p,
               NEW o \in DOMAIN p, ~p[l].failure, ~p[o].failure,
               l = Len(q) + 1, o # Len(q) + 1
        PROVE  p[l].m # p[o].m
    <3>1. o \in DOMAIN q /\ p[o] = q[o] /\ p[l] = i
      BY <1>1, <1>3, <2>2
    <3>. QED
      BY <2>1, <2>2, <3>1
  <2>3. CASE j = Len(q) + 1 \/ k = Len(q) + 1
    BY <1>6, <2>2, <2>3
  <2>4. CASE j # Len(q) + 1 /\ k # Len(q) + 1
    <3>1. j \in DOMAIN q /\ p[j] = q[j] /\ k \in DOMAIN q /\ p[k] = q[k]
      BY <1>1, <1>3, <2>4
    <3>. QED
      BY <1>6, <3>1 DEF Inbox, q
  <2>. QED
    BY <2>3, <2>4
<1>. QED
  BY <1>2, <1>5, <1>6 DEF Inbox

\* The items of an inbox that grew.
LEMMA GrownIs ==
    ASSUME NEW q \in Seq(PeerInput), NEW i \in PeerInput, NEW p,
           p = Append(q, i)
    PROVE  /\ p \in Seq(PeerInput) /\ Len(p) = Len(q) + 1
           /\ Works(p) \subseteq Works(q) \cup {i.m}
           /\ i.failure => Works(p) \subseteq Works(q)
           /\ ~i.failure => Works(p) = Works(q) \cup {i.m}
<1>1. /\ p \in Seq(PeerInput) /\ Len(p) = Len(q) + 1
      /\ DOMAIN p = 1 .. Len(q) + 1
      /\ p[Len(q) + 1] = i /\ DOMAIN q = 1 .. Len(q) /\ Len(q) \in Nat
      /\ \A k \in 1 .. Len(q) : p[k] = q[k]
  OBVIOUS
<1>2. ASSUME NEW k \in DOMAIN p, ~p[k].failure
      PROVE  p[k].m \in Works(q) \/ (p[k].m = i.m /\ ~i.failure)
  <2>1. CASE k = Len(q) + 1
    BY <1>1, <1>2, <2>1
  <2>2. CASE k # Len(q) + 1
    <3>1. k \in DOMAIN q /\ p[k] = q[k]
      BY <1>1, <2>2
    <3>2. \A j \in DOMAIN q : ~q[j].failure => q[j].m \in Works(q)
      BY DEF Works
    <3>3. ~q[k].failure /\ p[k].m = q[k].m
      BY <1>2, <3>1
    <3>4. q[k].m \in Works(q)
      BY <3>1, <3>2, <3>3
    <3>. QED
      BY <3>3, <3>4
  <2>. QED
    BY <2>1, <2>2
<1>3. \A m \in Works(p) : m \in Works(q) \/ (m = i.m /\ ~i.failure)
  BY <1>2 DEF Works
<1>4. ASSUME ~i.failure PROVE Works(q) \cup {i.m} \subseteq Works(p)
  <2>1. \A k \in DOMAIN p : ~p[k].failure => p[k].m \in Works(p)
    BY DEF Works
  <2>2. i.m \in Works(p)
    BY <1>1, <1>4, <2>1
  <2>3. ASSUME NEW m \in Works(q) PROVE m \in Works(p)
    <3>1. PICK k \in DOMAIN q : ~q[k].failure /\ m = q[k].m
      BY DEF Works
    <3>2. k \in DOMAIN p /\ p[k] = q[k]
      BY <1>1
    <3>. QED
      BY <2>1, <3>1, <3>2
  <2>. QED
    BY <2>2, <2>3
<1>. QED
  BY <1>1, <1>3, <1>4

\* A new item has the authorization of this moment.
LEMMA ItemIs ==
    ASSUME NEW m \in Id, NEW f \in BOOLEAN, TypeOK, Token # None, NEW i,
           i = Item(m, f)
    PROVE  /\ i \in PeerInput /\ i.m = m /\ i.failure = f
           /\ i.auth = <<policy.gen, policy.grant>> /\ policy.grant # 0
<1>1. /\ policy.gen \in Nat /\ policy.grant \in Nat
      /\ Token = <<policy.gen, policy.grant>> /\ policy.grant # 0
  BY Typed DEF Token
<1>. QED
  BY <1>1 DEF Item, PeerInput

\* A message enters the inbox.
LEMMA AdmitStep ==
    ASSUME IInv, NEW m \in Sent, NEW s \in Session, s = mail[m].to,
           Admit(s, m),
           wire[m] \in {"posted", "lost"} \/ m \in ses[s].seen,
           ses[s].endpoint = mail[m].target,
           ses' = [ses EXCEPT ![s].inbox = Append(@, Item(m, FALSE)), ![s].seen = @ \cup {m}],
           admitted' = admitted \cup {m},
           wire' = [wire EXCEPT ![m] = IF @ = "posted" THEN "queued" ELSE @],
           policy' = policy, mail' = mail, notice' = notice, age' = age,
           left' = left,
           void' = void, runs' = runs
    PROVE  IInv' /\ Admits(m)
<1>. DEFINE r == ses[s]
            q == Append(r.inbox, Item(m, FALSE))
            S == r.seen \cup {m}
            p == [r EXCEPT !.inbox = q, !.seen = S]
<1>1. /\ TypeOK /\ Numbered /\ Written /\ Arrived /\ Earned /\ Heard
      /\ Sound(s)
      /\ m \in Id /\ m \notin r.seen
  BY DEF IInv, Sent, Admit
<1>2. /\ r \in SessionState /\ r.endpoint \in {0, r.born} /\ r.born \in Nat
      /\ r.inbox \in Seq(PeerInput) /\ Len(r.inbox) <= MaxQueue
      /\ r.seen \cup r.sent \subseteq Sent
      /\ ses \in [Session -> SessionState]
  BY <1>1, SessionIs
<1>3. PICK i : i = Item(m, FALSE)
  OBVIOUS
<1>4. /\ i \in PeerInput /\ i.m = m /\ i.failure = FALSE
      /\ i.auth = <<policy.gen, policy.grant>> /\ policy.grant # 0
  <2>1. Token # None /\ FALSE \in BOOLEAN
    BY DEF Admit
  <2>. QED
    BY <1>1, <1>3, <2>1, ItemIs
<1>5. m \notin admitted /\ runs[m] = 0 /\ Children(m) = {} /\ m \notin void
  BY <1>1 DEF Arrived, Earned, TypeOK
<1>6. /\ q = Append(r.inbox, i) /\ q \in Seq(PeerInput) /\ Len(q) <= MaxQueue
      /\ Works(q) = Works(r.inbox) \cup {m}
  <2>1. q = Append(r.inbox, i)
    BY <1>3
  <2>2. Len(r.inbox) < MaxQueue
    BY DEF Admit, Room
  <2>. HIDE DEF q
  <2>3. /\ q \in Seq(PeerInput) /\ Len(q) = Len(r.inbox) + 1
        /\ Works(q) = Works(r.inbox) \cup {m}
    <3>1. PICK a, b : a = r.inbox /\ b = q
      OBVIOUS
    <3>2. a \in Seq(PeerInput) /\ b = Append(a, i)
      BY <1>2, <2>1, <3>1
    <3>3. /\ b \in Seq(PeerInput) /\ Len(b) = Len(a) + 1
          /\ Works(b) = Works(a) \cup {m}
      BY <1>4, <3>2, GrownIs
    <3>. QED
      BY <3>1, <3>3
  <2>4. Len(q) <= MaxQueue
    <3>1. PICK k \in Nat : k = Len(r.inbox)
      BY <1>2
    <3>2. k < MaxQueue /\ Len(q) = k + 1
      BY <2>2, <2>3, <3>1
    <3>. QED
      BY <3>2, NumbersHold DEF Numbers
  <2>. QED
    BY <2>1, <2>3, <2>4
<1>7. S \in SUBSET Id /\ S \subseteq Sent /\ r.seen \subseteq S
  BY <1>2 DEF Sent
<1>8. ses' = [ses EXCEPT ![s] = p] /\ p = [r EXCEPT !.inbox = q, !.seen = S]
  OBVIOUS
<1>. HIDE DEF q, p
<1>9. /\ p \in SessionState /\ p.inbox = q /\ p.seen = S
      /\ p.endpoint = r.endpoint /\ p.born = r.born /\ p.sent = r.sent
  <2>. HIDE DEF r, S
  <2>. QED
    BY <1>2, <1>6, <1>7, <1>8 DEF SessionState
<1>10. /\ p.turn = r.turn /\ p.chain = r.chain /\ p.hop = r.hop /\ p.ro = r.ro
       /\ p.outgoing = r.outgoing /\ p.peerTurn = r.peerTurn
       /\ p.noSend = r.noSend
       /\ p.last = r.last
  <2>. HIDE DEF r, S
  <2>. QED
    BY <1>2, <1>6, <1>7, <1>8 DEF SessionState
<1>11. ses'[s] = p /\ \A x \in Session \ {s} : ses'[x] = ses[x]
  BY <1>2, <1>8
<1>12. Sent' = Sent /\ \A n : Children(n)' = Children(n)
  BY DEF Sent, Children
<1>13. TypeOK'
  <2>1. ses' \in [Session -> SessionState]
    BY <1>2, <1>8, <1>9
  <2>2. \A x \in Session : /\ ses'[x].endpoint \in {0, ses'[x].born}
                           /\ Len(ses'[x].inbox) <= MaxQueue
                           /\ ses'[x].seen \cup ses'[x].sent \subseteq Sent
    BY <1>1, <1>2, <1>6, <1>7, <1>9, <1>11 DEF TypeOK
  <2>3. /\ admitted' \subseteq Sent /\ void' \subseteq admitted'
        /\ wire' \in [Id -> Exchange]
    BY <1>1 DEF TypeOK, Exchange
  <2>. QED
    BY <1>1, <1>12, <2>1, <2>2, <2>3 DEF TypeOK
<1>14. Forward
  <2>1. \A x \in Session : Moves(x)
    <3>1. \A x \in Session : ses[x].born \in Nat
      BY <1>1, SessionIs
    <3>2. Moves(s)
      <4>1. /\ ses'[s].born = r.born /\ ses'[s].endpoint = r.endpoint
            /\ r.seen \subseteq ses'[s].seen
        BY <1>7, <1>9, <1>11
      <4>. QED
        BY <3>1, <4>1, StandsStill
    <3>3. ASSUME NEW x \in Session \ {s} PROVE Moves(x)
      BY <1>11, <3>1, StandsStill
    <3>. QED
      BY <3>2, <3>3
  <2>. QED
    BY <1>12, <2>1 DEF Forward, Known
<1>15. Numbered' /\ Written'
  BY <1>1, <1>12 DEF Numbered, Written, Chains
<1>16. Arrived'
  <2>1. SUFFICES ASSUME NEW n \in Sent
                 PROVE  /\ mail[n].target \in 1 .. ses'[mail[n].to].born
                        /\ mail[n].born \in 1 .. ses'[mail[n].from].born
                        /\ n \in admitted' => \/ n \in ses'[mail[n].to].seen
                                              \/ mail[n].target # ses'[mail[n].to].endpoint
    BY <1>12 DEF Arrived
  <2>2. mail[n].to \in Session /\ mail[n].from \in Session
    BY <1>1, Typed, LetterTypes
  <2>3. \A x \in Session : /\ ses'[x].born = ses[x].born /\ ses'[x].endpoint = ses[x].endpoint
                           /\ ses[x].seen \subseteq ses'[x].seen
    BY <1>7, <1>9, <1>11
  <2>4. n = m => n \in ses'[mail[n].to].seen
    BY <1>9, <1>11
  <2>. QED
    BY <1>1, <2>2, <2>3, <2>4 DEF Arrived
<1>17. Earned'
  BY <1>1, <1>12 DEF Earned
<1>18. Heard'
  <2>1. wire \in [Id -> Exchange]
    BY <1>1 DEF TypeOK, Exchange
  <2>2. wire'[m] \in {"queued", "lost"} /\ \A n \in Id \ {m} : wire'[n] = wire[n]
    BY <1>1, <2>1
  <2>. QED
    BY <1>1, <1>12, <2>2 DEF Heard
<1>19. ASSUME NEW x \in Session PROVE Calm(x, ses[x].seen)
  BY CalmIs
<1>20. Calm(s, Works(r.inbox)) /\ Calm(s, Begun(s))
  BY CalmIs
<1>21. Inbox(s)'
  <2>1. Waits(s, i)'
    <3>1. Known(i.auth)
      BY <1>1, <1>4, Typed DEF Known, Numbered
    <3>. QED
      BY <1>4, <1>5, <1>9, <1>11, <3>1 DEF Waits, Known
  <2>2. ses'[s].inbox = Append(ses[s].inbox, i)
    BY <1>6, <1>9, <1>11
  <2>3. \A n \in ses'[s].seen : mail'[n].to = s /\ n \in admitted'
    <3>1. \A n \in r.seen : mail[n].to = s /\ n \in admitted
      BY <1>1, HeldIs
    <3>2. ses'[s].seen = r.seen \cup {m}
      BY <1>9, <1>11
    <3>. QED
      BY <3>1, <3>2
  <2>4. ses[s].seen \subseteq ses'[s].seen /\ Children(i.m)' = {}
    BY <1>4, <1>5, <1>7, <1>9, <1>11, <1>12
  <2>. QED
    BY <1>1, <1>4, <1>14, <1>20, <2>1, <2>2, <2>3, <2>4, InboxGrows DEF Sound
<1>22. Turns(s)'
  BY <1>1, <1>7, <1>9, <1>10, <1>11, <1>14, <1>20, TurnsKept DEF Sound
<1>23. Causes(s)'
  <2>1. Works(ses'[s].inbox) \ Works(ses[s].inbox) \subseteq Sent \ ses[s].seen
    <3>1. Works(ses'[s].inbox) = Works(ses[s].inbox) \cup {m}
      BY <1>6, <1>9, <1>11
    <3>2. m \in Sent \ ses[s].seen
      BY <1>1
    <3>. QED
      BY <3>1, <3>2
  <2>. QED
    BY <1>1, <1>7, <1>9, <1>10, <1>11, <1>12, <1>14, <2>1, CausesKept DEF Sound
<1>24. ASSUME NEW x \in Session PROVE Sound(x)'
  <2>1. CASE x = s
    BY <1>21, <1>22, <1>23, <2>1 DEF Sound
  <2>2. CASE x # s
    BY <1>1, <1>11, <1>14, <1>19, <2>2, Undisturbed DEF IInv
  <2>. QED
    BY <2>1, <2>2
<1>25. Admits(m)
  <2>1. Held(p) = Held(r) \cup {m}
    BY <1>6, <1>9, <1>10 DEF Held
  <2>2. Waiting' = Waiting \cup {m}
    <3>1. Held(ses'[s]) = Held(ses[s]) \cup {m}
      BY <1>11, <2>1
    <3>2. \A x \in Session \ {s} : Held(ses'[x]) = Held(ses[x])
      BY <1>11
    <3>3. ASSUME NEW k \in Waiting' PROVE k \in Waiting \cup {m}
      <4>1. PICK x \in Session : k \in Held(ses'[x])
        BY WaitingHeld
      <4>2. k \in Held(ses[x]) \cup {m}
        BY <3>1, <3>2, <4>1
      <4>. QED
        BY <4>2, WaitingHeld
    <3>4. ASSUME NEW k \in Waiting \cup {m} PROVE k \in Waiting'
      <4>1. PICK x \in Session : k \in Held(ses[x]) \/ (k = m /\ x = s)
        BY WaitingHeld
      <4>2. k \in Held(ses'[x])
        BY <3>1, <3>2, <4>1
      <4>. QED
        BY <4>2, WaitingHeld
    <3>. QED
      BY <3>3, <3>4
  <2>3. Told(m) # "refused" /\ \A n \in Id : Told(n)' = Told(n)
    <3>1. wire[m] # "declined"
      BY <1>1, <1>5, HeldIs
    <3>2. wire \in [Id -> Exchange]
      BY <1>1 DEF TypeOK, Exchange
    <3>3. \A n \in Id \ {m} : wire'[n] = wire[n]
      BY <1>1, <3>2
    <3>4. wire[m] \in {"posted", "lost"} /\ wire'[m] \in {"queued", "lost"}
      BY <1>1, <3>2
    <3>. QED
      BY <3>3, <3>4 DEF Told
  <2>. QED
    BY <1>5, <1>12, <2>2, <2>3 DEF Admits, Unspoken
<1>. QED
  BY <1>13, <1>15, <1>16, <1>17, <1>18, <1>24, <1>25 DEF IInv

\* A frame arrives (Receive): it is admitted, or refused.
LEMMA ReceiveStep ==
    ASSUME IInv, NEW m \in Id, Receive(m)
    PROVE  IInv' /\ (Admits(m) \/ (Lets /\ Unspoken))
<1>1. TypeOK /\ Arrived /\ Heard /\ m \in Sent
  BY DEF IInv, Receive
<1>2. PICK s \in Session : s = mail[m].to
  BY <1>1, Typed, LetterTypes
<1>3. /\ mail' = mail /\ notice' = notice /\ age' = age /\ left' = left
      /\ void' = void
      /\ runs' = runs
      /\ wire[m] \in {"posted", "lost"} \/ m \in ses[s].seen
      /\ ses[s].endpoint = mail[m].target
  BY <1>2 DEF Receive
<1>4. CASE /\ Admit(s, m)
           /\ ses' = [ses EXCEPT ![s].inbox = Append(@, Item(m, FALSE)), ![s].seen = @ \cup {m}]
           /\ admitted' = admitted \cup {m}
           /\ wire' = [wire EXCEPT ![m] = IF @ = "posted" THEN "queued" ELSE @]
           /\ UNCHANGED policy
  BY <1>1, <1>2, <1>3, <1>4, AdmitStep
<1>5. CASE /\ ~Admit(s, m)
           /\ policy' = [policy EXCEPT !.asked = @ \/ (policy.on /\ policy.grant = 0
                                                       /\ age[mail[m].chain] = "live")]
           /\ wire' = [wire EXCEPT ![m] = IF @ = "posted" THEN "refused" ELSE @]
           /\ UNCHANGED <<ses, admitted>>
  <2>1. Wired
    <3>1. wire \in [Id -> Exchange]
      BY <1>1 DEF TypeOK, Exchange
    <3>2. wire[m] = "posted" => m \notin admitted
      BY <1>1 DEF Heard
    <3>. QED
      BY <1>1, <1>5, <3>1, <3>2 DEF Wired, Exchange
  <2>2. Untouched
    <3>1. /\ policy \in [on : BOOLEAN, gen : Nat, grant : Nat, asked : BOOLEAN]
          /\ left \in Budget
      BY <1>1, Typed
    <3>. DEFINE b == policy.asked \/ (policy.on /\ policy.grant = 0
                                        /\ age[mail[m].chain] = "live")
    <3>2. b \in BOOLEAN /\ policy' = [policy EXCEPT !.asked = b]
      BY <1>5
    <3>. HIDE DEF b
    <3>. QED
      BY <1>3, <3>1, <3>2 DEF Untouched
  <2>. QED
    <3>1. Settled
      BY <1>1, <1>3, <1>5, <2>1, <2>2, SameNotice, QuietStep
    <3>2. wire \in [Id -> Exchange]
      BY <1>1 DEF TypeOK, Exchange
    <3>3. /\ \A n \in Id \ {m} : wire'[n] = wire[n]
          /\ wire'[m] = wire[m] \/ (wire[m] = "posted" /\ wire'[m] = "refused")
      BY <1>5, <3>2
    <3>4. Unspoken
      BY <3>3 DEF Unspoken, Told
    <3>. QED
      BY <3>1, <3>4 DEF Settled
<1>. QED
  BY <1>2, <1>4, <1>5 DEF Receive

-----------------------------------------------------------------------------
(* Messages that are sent *)

\* The sessions after a step of s.
LEMMA BecomesIs ==
    ASSUME TypeOK, NEW s \in Session, NEW p, Becomes(s, p)
    PROVE  /\ ses' \in [Session -> SessionState] /\ ses'[s] = p
           /\ \A x \in Session \ {s} : ses'[x] = ses[x]
           /\ \A x \in Session : /\ ses'[x].endpoint \in {0, ses'[x].born}
                                 /\ Len(ses'[x].inbox) <= MaxQueue
                                 /\ ses'[x].seen \cup ses'[x].sent \subseteq Sent
           /\ \A x \in Session : Moves(x)
<1>1. ses \in [Session -> SessionState]
  BY DEF TypeOK
<1>2. ses'[s] = p /\ \A x \in Session \ {s} : ses'[x] = ses[x]
  BY <1>1 DEF Becomes
<1>3. ses' \in [Session -> SessionState]
  BY <1>1 DEF Becomes
<1>4. \A x \in Session : /\ ses'[x].endpoint \in {0, ses'[x].born}
                         /\ Len(ses'[x].inbox) <= MaxQueue
                         /\ ses'[x].seen \cup ses'[x].sent \subseteq Sent
  BY <1>2, SessionIs DEF Becomes
<1>5. Moves(s)
  BY <1>2 DEF Becomes, Moves
<1>6. ASSUME NEW x \in Session \ {s} PROVE Moves(x)
  BY <1>2, SessionIs, StandsStill
<1>. QED
  BY <1>2, <1>3, <1>4, <1>5, <1>6

\* The next message is the first one that was not sent.
LEMMA NewMessage ==
    ASSUME IInv, NEW n, n = NextId, NEW l \in Letters, Posted(n, l)
    PROVE  /\ n \in Id /\ n \notin Sent /\ n \notin admitted
           /\ Sent' = Sent \cup {n} /\ (Sent = 1 .. Cardinality(Sent))'
           /\ mail' \in [Id -> Letters \cup {NoMail}] /\ mail'[n] = l
           /\ \A m \in Sent : mail'[m] = mail[m]
           /\ wire' \in [Id -> Exchange]
           /\ wire'[n] = "posted" /\ \A m \in Id \ {n} : wire'[m] = wire[m]
<1>. DEFINE c == Cardinality(Sent)
<1>1. TypeOK /\ Sent = 1 .. c
  BY DEF IInv, Numbered
<1>2. IsFiniteSet(Sent) /\ c \in Nat /\ n = c + 1
  <2>1. IsFiniteSet(Id) /\ Sent \subseteq Id
    BY NumbersHold DEF Numbers, Sent
  <2>2. IsFiniteSet(Sent)
    BY <2>1, FS_Subset
  <2>3. c \in Nat
    BY <2>2, FS_CardinalityType
  <2>. QED
    BY <2>2, <2>3 DEF NextId
<1>. HIDE DEF c
<1>3. n \in Id
  <2>1. n <= left.messages /\ left.messages \in 0 .. Cardinality(Id)
    BY <1>1, BudgetTypes DEF Posted, TypeOK
  <2>. QED
    BY <1>2, <2>1, NumbersHold DEF Numbers
<1>4. n \notin Sent
  BY <1>1, <1>2
<1>5. n \notin admitted
  BY <1>1, <1>4 DEF TypeOK
<1>6. l # NoMail
  <2>1. l.from \in Session /\ NoMail.from = None
    BY LetterTypes DEF NoMail
  <2>. QED
    BY <2>1, NoneAssumption
<1>7. /\ mail \in [Id -> Letters \cup {NoMail}]
      /\ mail' = [mail EXCEPT ![n] = l]
      /\ wire' = [wire EXCEPT ![n] = "posted"]
      /\ wire \in [Id -> Exchange]
  BY <1>1 DEF TypeOK, Posted, Exchange
<1>8. /\ mail' \in [Id -> Letters \cup {NoMail}] /\ mail'[n] = l
      /\ \A m \in Id \ {n} : mail'[m] = mail[m]
  BY <1>3, <1>7
<1>9. Sent' = Sent \cup {n}
  BY <1>3, <1>6, <1>8 DEF Sent
<1>10. (Sent = 1 .. Cardinality(Sent))'
  <2>1. Cardinality(Sent \cup {n}) = c + 1
    BY <1>2, <1>4, FS_AddElement DEF c
  <2>2. Sent \cup {n} = 1 .. c + 1
    BY <1>1, <1>2
  <2>. QED
    BY <1>9, <2>1, <2>2
<1>11. \A m \in Sent : mail'[m] = mail[m]
  BY <1>4, <1>8 DEF Sent
<1>12. /\ wire' \in [Id -> Exchange]
       /\ wire'[n] = "posted" /\ \A m \in Id \ {n} : wire'[m] = wire[m]
  BY <1>3, <1>7 DEF Exchange
<1>. QED
  BY <1>3, <1>4, <1>5, <1>8, <1>9, <1>10, <1>11, <1>12

\* The new message is a child of its parent, unless it is sent again.
LEMMA NewChild ==
    ASSUME IInv, NEW n, n = NextId, NEW l \in Letters, Posted(n, l)
    PROVE  /\ \A i : ~(l.parent = i /\ l.attempt = 0) => Children(i)' = Children(i)
           /\ l.attempt = 0 =>
                /\ Cardinality(Children(l.parent))' = Cardinality(Children(l.parent)) + 1
                /\ \A m \in Children(l.parent)' : m = n \/ m \in Children(l.parent)
<1>1. /\ n \notin Sent /\ Sent' = Sent \cup {n} /\ mail'[n] = l
      /\ \A m \in Sent : mail'[m] = mail[m]
  BY NewMessage
<1>2. \A i : Children(i)' = {m \in Sent \cup {n} : mail'[m].parent = i /\ mail'[m].attempt = 0}
  BY <1>1 DEF Children
<1>3. ASSUME NEW i, ~(l.parent = i /\ l.attempt = 0)
      PROVE  Children(i)' = Children(i)
  <2>1. \A m : m \in Children(i)' <=> m \in Children(i)
    BY <1>1, <1>2, <1>3 DEF Children
  <2>. QED
    BY <2>1
<1>4. ASSUME l.attempt = 0
      PROVE  /\ Cardinality(Children(l.parent))' = Cardinality(Children(l.parent)) + 1
             /\ \A m \in Children(l.parent)' : m = n \/ m \in Children(l.parent)
  <2>1. PICK i : i = l.parent
    OBVIOUS
  <2>2. \A m : m \in Children(i)' <=> m \in Children(i) \cup {n}
    BY <1>1, <1>2, <1>4, <2>1 DEF Children
  <2>3. Children(i)' = Children(i) \cup {n}
    BY <2>2
  <2>4. n \notin Children(i)
    BY <1>1 DEF Children
  <2>5. IsFiniteSet(Children(i))
    BY ChildrenFinite
  <2>6. Cardinality(Children(i) \cup {n}) = Cardinality(Children(i)) + 1
    BY <2>4, <2>5, FS_AddElement
  <2>. QED
    BY <2>1, <2>3, <2>6
<1>. QED
  BY <1>3, <1>4

\* What the code has to see to of a message it writes.
Proper(s, l) ==
    /\ l.from # l.to /\ age'[l.chain] # "unborn"
    /\ l.target \in 1 .. ses[l.to].born /\ l.born \in 1 .. ses[l.from].born
    /\ \/ l.root = NextId
       \/ l.root \in Sent /\ (mail[l.root].ro => l.ro)
    /\ \/ l.parent = None
       \/ l.parent \in Sent /\ (mail[l.parent].ro => l.ro)
    /\ l.attempt = 0 /\ l.parent # None =>
         /\ l.parent \in admitted /\ mail[l.parent].to = s
         /\ Cardinality(Children(l.parent)) < PeerSends

\* A message is written: what the code sees to (Proper) keeps everything but
\* the soundness of its sender.
LEMMA PostStep ==
    ASSUME IInv, NEW n, n = NextId, NEW l \in Letters, Posted(n, l),
           NEW s \in Session, NEW p, Becomes(s, p), Proper(s, l), Aging,
           Noticed,
           Held(ses[s]) \subseteq Held(p), policy' = policy, left' = left,
           admitted' = admitted, void' = void, runs' = runs
    PROVE  TypeOK' /\ Forward /\ (Sound(s)' => IInv') /\ Sends(n)
<1>1. TypeOK /\ Numbered /\ Written /\ Arrived /\ Earned /\ Heard
  BY DEF IInv
<1>2. /\ n \in Id /\ n \notin Sent /\ n \notin admitted
      /\ Sent' = Sent \cup {n} /\ (Sent = 1 .. Cardinality(Sent))'
      /\ mail' \in [Id -> Letters \cup {NoMail}] /\ mail'[n] = l
      /\ \A m \in Sent : mail'[m] = mail[m]
      /\ wire' \in [Id -> Exchange]
      /\ wire'[n] = "posted" /\ \A m \in Id \ {n} : wire'[m] = wire[m]
  BY NewMessage
<1>3. /\ ses' \in [Session -> SessionState] /\ ses'[s] = p
      /\ \A x \in Session \ {s} : ses'[x] = ses[x]
      /\ \A x \in Session : /\ ses'[x].endpoint \in {0, ses'[x].born}
                            /\ Len(ses'[x].inbox) <= MaxQueue
                            /\ ses'[x].seen \cup ses'[x].sent \subseteq Sent
      /\ \A x \in Session : Moves(x)
  BY <1>1, BecomesIs
<1>4. TypeOK'
  <2>1. admitted' \subseteq Sent' /\ void' \subseteq admitted'
    BY <1>1, <1>2 DEF TypeOK
  <2>2. \A x \in Session : ses'[x].seen \cup ses'[x].sent \subseteq Sent'
    BY <1>2, <1>3
  <2>. QED
    BY <1>1, <1>2, <1>3, <2>1, <2>2 DEF TypeOK, Aging, Noticed, Exchange
<1>5. Forward
  BY <1>2, <1>3 DEF Forward, Known, Aging
<1>6. Numbered'
  BY <1>1, <1>2 DEF Numbered, Aging
<1>7. Written'
  <2>1. ASSUME NEW m \in Sent
        PROVE  /\ mail'[m].from # mail'[m].to
               /\ age'[mail'[m].chain] # "unborn"
               /\ mail'[m].root \in Sent'
               /\ mail'[m].parent \in Sent' \cup {None}
               /\ mail'[mail'[m].root].ro => mail'[m].ro
               /\ mail'[m].parent # None /\ mail'[mail'[m].parent].ro => mail'[m].ro
    <3>1. mail[m].chain \in Chain
      BY <1>1, Typed, LetterTypes
    <3>. QED
      BY <1>1, <1>2, <1>5, <3>1 DEF Written, Forward
  <2>2. /\ l.from # l.to /\ age'[l.chain] # "unborn"
        /\ l.root \in Sent' /\ l.parent \in Sent' \cup {None}
        /\ mail'[l.root].ro => l.ro
        /\ l.parent # None /\ mail'[l.parent].ro => l.ro
    BY <1>2 DEF Proper
  <2>. QED
    BY <1>2, <2>1, <2>2 DEF Written
<1>8. Arrived'
  <2>1. ASSUME NEW m \in Sent'
        PROVE  /\ mail'[m].to \in Session /\ mail'[m].from \in Session
               /\ mail'[m].target \in 1 .. ses[mail'[m].to].born
               /\ mail'[m].born \in 1 .. ses[mail'[m].from].born
               /\ m \in admitted => \/ m \in ses[mail'[m].to].seen
                                    \/ mail'[m].target # ses[mail'[m].to].endpoint
    <3>1. CASE m \in Sent
      BY <1>1, <1>2, <3>1, Typed, LetterTypes DEF Arrived
    <3>2. CASE m = n
      BY <1>2, <3>2, LetterTypes DEF Proper
    <3>. QED
      BY <1>2, <3>1, <3>2
  <2>2. SUFFICES ASSUME NEW m \in Sent'
                 PROVE  /\ mail'[m].target \in 1 .. ses'[mail'[m].to].born
                        /\ mail'[m].born \in 1 .. ses'[mail'[m].from].born
                        /\ m \in admitted' => \/ m \in ses'[mail'[m].to].seen
                                              \/ mail'[m].target # ses'[mail'[m].to].endpoint
    BY DEF Arrived
  <2>3. PICK t \in Session, f \in Session : t = mail'[m].to /\ f = mail'[m].from
    BY <2>1
  <2>4. /\ mail'[m].target \in 1 .. ses[t].born
        /\ mail'[m].born \in 1 .. ses[f].born
        /\ m \in admitted => m \in ses[t].seen \/ mail'[m].target # ses[t].endpoint
    BY <2>1, <2>3
  <2>5. /\ ses[t].born \in Nat /\ ses[f].born \in Nat
        /\ ses'[t].born \in Nat /\ ses'[f].born \in Nat
    BY <1>1, <1>4, SessionIs, NewBorn
  <2>6. Moves(t) /\ Moves(f)
    BY <1>3
  <2>7. ses'[t].born >= ses[t].born /\ ses'[f].born >= ses[f].born
    BY <2>6 DEF Moves
  <2>8. m \in admitted => m \in ses'[t].seen \/ mail'[m].target # ses'[t].endpoint
    BY <2>4, <2>6 DEF Moves
  <2>. QED
    BY <2>3, <2>4, <2>5, <2>7, <2>8
<1>9. /\ \A i : ~(l.parent = i /\ l.attempt = 0) => Children(i)' = Children(i)
      /\ l.attempt = 0 =>
           /\ Cardinality(Children(l.parent))' = Cardinality(Children(l.parent)) + 1
           /\ \A m \in Children(l.parent)' : m = n \/ m \in Children(l.parent)
  BY NewChild
<1>10. Children(n)' = {}
  <2>1. l.parent # n
    <3>1. None \notin Id
      BY NoneAssumption
    <3>. QED
      BY <1>2, <3>1 DEF Proper
  <2>2. Children(n) = {}
    BY <1>1, <1>2 DEF Earned
  <2>. QED
    BY <1>9, <2>1, <2>2
<1>11. Earned'
  <2>1. ASSUME NEW m \in Id, m \notin admitted
        PROVE  runs[m] = 0 /\ Children(m)' = {}
    <3>1. runs[m] = 0 /\ Children(m) = {}
      BY <1>1, <2>1 DEF Earned
    <3>2. ~(l.parent = m /\ l.attempt = 0)
      <4>1. None \notin Id
        BY NoneAssumption
      <4>. QED
        BY <2>1, <4>1 DEF Proper
    <3>. QED
      BY <1>9, <3>1, <3>2
  <2>2. ASSUME NEW m \in Sent' PROVE Cardinality(Children(m))' <= PeerSends
    <3>1. CASE m = n
      <4>1. Cardinality({}) = 0 /\ PeerSends \in Nat
        BY FS_EmptySet, NumbersHold DEF Numbers
      <4>2. Cardinality(Children(n))' = Cardinality({})
        BY <1>10
      <4>. QED
        BY <3>1, <4>1, <4>2
    <3>2. CASE m \in Sent /\ ~(l.parent = m /\ l.attempt = 0)
      BY <1>1, <1>9, <3>2 DEF Earned
    <3>3. CASE l.parent = m /\ l.attempt = 0 /\ m \in Sent
      <4>1. l.parent # None
        <5>1. None \notin Id
          BY NoneAssumption
        <5>. QED
          BY <3>3, <5>1 DEF Sent
      <4>2. /\ Cardinality(Children(m)) < PeerSends
            /\ Cardinality(Children(m)) \in Nat
        BY <3>3, <4>1, ChildrenFinite DEF Proper
      <4>3. Cardinality(Children(m))' = Cardinality(Children(m)) + 1
        BY <1>9, <3>3
      <4>. QED
        BY <4>2, <4>3, NumbersHold DEF Numbers
    <3>. QED
      BY <1>2, <3>1, <3>2, <3>3
  <2>. QED
    BY <2>1, <2>2 DEF Earned
<1>12. Heard'
  BY <1>1, <1>2 DEF Heard, Noticed
<1>13. ASSUME NEW x \in Session, x # s PROVE Sound(x)'
  <2>1. Sound(x)
    BY DEF IInv
  <2>2. \A m \in ses[x].seen : Children(m)' = Children(m)
    <3>1. \A m \in ses[x].seen : m \in Sent /\ mail[m].to = x
      BY <1>1, <2>1, HeldIs
    <3>2. None \notin Id
      BY NoneAssumption
    <3>. QED
      BY <1>9, <1>13, <3>1, <3>2 DEF Proper, Sent
  <2>3. Calm(x, ses[x].seen)
    BY <2>2 DEF Calm
  <2>. QED
    BY <1>1, <1>3, <1>5, <1>13, <2>1, <2>3, Undisturbed
<1>14. Sends(n)
  <2>1. \A x \in Session : Held(ses'[x]) = Held(ses[x])
    <3>1. Held(p) = Held(ses[s])
      BY DEF Becomes
    <3>. QED
      BY <1>3, <3>1
  <2>2. Waiting' = Waiting
    BY <2>1, WaitingHeld
  <2>3. Unspoken
    <3>1. wire[n] = "none"
      BY <1>1, <1>2 DEF Heard
    <3>. QED
      BY <1>2, <3>1 DEF Unspoken, Told
  <2>. QED
    BY <1>2, <2>2, <2>3 DEF Sends
<1>. QED
  BY <1>4, <1>5, <1>6, <1>7, <1>8, <1>11, <1>12, <1>13, <1>14 DEF IInv

\* The budget of messages is that of the numbers.
LEMMA NextIdIs ==
    ASSUME TypeOK, Numbered, NEW n, n = NextId,
           n <= left.messages PROVE n \in Id
<1>1. IsFiniteSet(Id) /\ Sent \subseteq Id
  BY NumbersHold DEF Numbers, Sent
<1>2. Cardinality(Sent) \in Nat
  BY <1>1, FS_Subset, FS_CardinalityType
<1>3. left.messages \in 0 .. Cardinality(Id)
  BY BudgetTypes DEF TypeOK
<1>. QED
  BY <1>2, <1>3, NumbersHold DEF Numbers, NextId

\* A session that changed at most its memory of its own messages.
LEMMA AlikeSound ==
    ASSUME TypeOK, Written, Arrived, Forward, NEW s \in Session, Sound(s),
           Alike(ses'[s], ses[s]), Calm(s, ses[s].seen)
    PROVE  Sound(s)'
<1>1. /\ Works(ses[s].inbox) \subseteq ses[s].seen
      /\ Begun(s) \subseteq ses[s].seen
  BY HeldIs
<1>2. Calm(s, Works(ses'[s].inbox)) /\ Calm(s, Begun(s))
  BY <1>1 DEF Calm, Alike
<1>3. Drawn(ses'[s].inbox, ses[s].inbox)
  BY Typed, DrawnSame DEF Alike
<1>4. \A m \in ses[s].seen : Children(m)' = Children(m)
  BY DEF Calm
<1>5. Inbox(s)'
  BY <1>2, <1>3, InboxKept DEF Sound, Alike
<1>6. Turns(s)'
  BY <1>2, TurnsKept DEF Sound, Alike
<1>7. Causes(s)'
  BY <1>4, CausesKept DEF Sound, Alike
<1>. QED
  BY <1>5, <1>6, <1>7 DEF Sound

\* The session s writes to t, and the budget of its turn pays.
LEMMA PostedSendStep ==
    ASSUME IInv, NEW s \in Session, NEW t \in Session, s # t,
           ses[s].turn.at = "running", ses[s].endpoint # 0,
           ses[t].endpoint # 0,
           ~ses[s].noSend, MaySend(ses[s]),
           ses' = [ses EXCEPT ![s].outgoing = @ + 1],
           Posted(NextId, Letter(s, t)),
           policy' = policy, notice' = notice, age' = age, left' = left,
           admitted' = admitted, void' = void, runs' = runs
    PROVE  IInv' /\ \E n \in Id : Sends(n)
<1>. DEFINE r == ses[s]
            p == [r EXCEPT !.outgoing = @ + 1]
<1>1. TypeOK /\ Numbered /\ Written /\ Arrived /\ Earned /\ Sound(s)
  BY DEF IInv
<1>2. /\ r \in SessionState /\ r.inbox \in Seq(PeerInput)
      /\ r.outgoing < HumanSends
      /\ r.endpoint = r.born /\ r.born \in Nat /\ r.born # 0
      /\ ses[t].endpoint = ses[t].born /\ ses[t].born \in Nat
      /\ ses[t].born # 0
  BY <1>1, SessionIs, MaySendIs
<1>3. /\ r.chain \in Chain /\ age[r.chain] = "live"
      /\ r.peerTurn => r.outgoing < PeerSends /\ r.hop < MaxHops
  BY <1>1, MaySendIs
<1>4. /\ r.hop \in 0 .. MaxHops /\ r.ro \in BOOLEAN /\ r.outgoing \in Nat
      /\ r.last \in Id \cup {None} /\ r.peerTurn \in BOOLEAN
      /\ r.outgoing \in 0 .. HumanSends
  <2>1. /\ r.hop \in 0 .. MaxHops /\ r.ro \in BOOLEAN
        /\ r.last \in Id \cup {None} /\ r.peerTurn \in BOOLEAN
        /\ r.outgoing \in 0 .. HumanSends
    BY <1>2, SessionTypes
  <2>. QED
    BY <2>1, NumbersHold DEF Numbers
<1>5. r.peerTurn => /\ r.last \in r.seen /\ r.last \notin Works(r.inbox)
                    /\ mail[r.last].ro => r.ro
                    /\ Cardinality(Children(r.last)) <= r.outgoing
  BY <1>1 DEF Sound, Causes
<1>6. r.peerTurn => /\ r.last \in Sent /\ r.last \in Id /\ r.last \in admitted
                    /\ mail[r.last].to = s
  BY <1>1, <1>5, HeldIs DEF Sent
<1>7. PICK n : n = NextId
  OBVIOUS
<1>8. PICK l : l = Letter(s, t)
  OBVIOUS
<1>9. Posted(n, l)
  BY <1>7, <1>8
<1>10. n \in Id
  BY <1>1, <1>7, <1>9, NextIdIs DEF Posted
<1>. DEFINE w == r.ro \/ s \in Planners
            h == IF r.peerTurn THEN r.hop + 1 ELSE r.hop
            o == IF r.peerTurn THEN r.last ELSE None
<1>11. /\ w \in BOOLEAN /\ h \in 0 .. MaxHops /\ o \in Id \cup {None}
       /\ (r.ro => w)
  <2>1. h \in 0 .. MaxHops
    BY <1>3, <1>4, NumbersHold DEF Numbers
  <2>. QED
    BY <1>4, <1>6, <2>1
<1>12. l = [from |-> s, born |-> r.endpoint, to |-> t, target |-> ses[t].endpoint,
            chain |-> r.chain, ro |-> w, hop |-> h, root |-> n, attempt |-> 0,
           parent |-> o]
  BY <1>7, <1>8 DEF Letter
<1>13. p = [r EXCEPT !.outgoing = @ + 1] /\ ses' = [ses EXCEPT ![s] = p]
  OBVIOUS
<1>14. o = None \/ (r.peerTurn /\ o = r.last)
  OBVIOUS
<1>15. r.peerTurn => o = r.last
  OBVIOUS
<1>. HIDE DEF p, w, h, o
<1>16. 0 \in 0 .. MaxResends
  BY NumbersHold DEF Numbers
<1>17. /\ l \in Letters
       /\ l.from = s /\ l.to = t /\ l.born = r.born /\ l.target = ses[t].born
       /\ l.chain = r.chain /\ l.ro = w /\ l.root = n /\ l.attempt = 0
       /\ l.parent = o
  BY <1>2, <1>3, <1>10, <1>11, <1>12, <1>16 DEF Letters
<1>18. Proper(s, l)
  <2>1. l.target \in 1 .. ses[l.to].born /\ l.born \in 1 .. ses[l.from].born
    BY <1>2, <1>17
  <2>2. \/ l.parent = None
        \/ l.parent \in Sent /\ (mail[l.parent].ro => l.ro)
    BY <1>5, <1>6, <1>11, <1>14, <1>17
  <2>3. l.parent # None =>
           /\ l.parent \in admitted /\ mail[l.parent].to = s
           /\ Cardinality(Children(l.parent)) < PeerSends
    <3>1. Cardinality(Children(r.last)) \in Nat
      BY ChildrenFinite
    <3>. QED
      BY <1>3, <1>4, <1>5, <1>6, <1>14, <1>17, <3>1, NumbersHold DEF Numbers
  <2>4. l.from # l.to /\ age'[l.chain] # "unborn" /\ l.root = NextId
    BY <1>3, <1>7, <1>17
  <2>. QED
    BY <2>1, <2>2, <2>3, <2>4 DEF Proper
<1>19. /\ p \in SessionState /\ Same(p, r)
       /\ p.endpoint = r.endpoint /\ p.born = r.born /\ p.inbox = r.inbox
       /\ p.turn = r.turn /\ p.outgoing = r.outgoing + 1
  BY <1>2, <1>13, OutgoingIs
<1>20. Drawn(p.inbox, r.inbox)
  BY <1>2, <1>19, DrawnSame
<1>21. Becomes(s, p) /\ ses'[s] = p
  BY <1>1, <1>13, <1>19, <1>20, QuietBecomes DEF Same
<1>22. Aging /\ Noticed
  BY <1>1, SameAge, SameNotice
<1>30. Held(r) \subseteq Held(p)
  BY <1>19, HeldLess
<1>23. Forward /\ (Sound(s)' => IInv') /\ Sends(n)
  BY <1>7, <1>9, <1>17, <1>18, <1>21, <1>22, <1>30, PostStep
<1>24. /\ \A i : ~(l.parent = i /\ l.attempt = 0) => Children(i)' = Children(i)
       /\ Cardinality(Children(l.parent))' = Cardinality(Children(l.parent)) + 1
  BY <1>7, <1>9, <1>17, NewChild
<1>25. Calm(s, Works(p.inbox))
  <2>1. ASSUME NEW m \in Works(r.inbox) PROVE Children(m)' = Children(m)
    <3>1. m \in Id
      BY <1>1, HeldIs DEF Sent
    <3>2. m # o
      BY <1>5, <1>14, <3>1, NoneAssumption
    <3>. QED
      BY <1>17, <1>24, <3>2
  <2>. QED
    BY <1>19, <2>1 DEF Calm
<1>26. Calm(s, Begun(s))
  BY DEF Calm, Begun
<1>27. Inbox(s)'
  BY <1>1, <1>19, <1>20, <1>21, <1>23, <1>25, InboxKept DEF Sound, Same
<1>28. Turns(s)'
  BY <1>1, <1>19, <1>21, <1>23, <1>26, TurnsKept DEF Sound, Same
<1>29. Causes(s)'
  <2>1. CASE ~r.peerTurn
    BY <1>1, <1>19, <1>21, <2>1 DEF Causes, Same, Sound
  <2>2. CASE r.peerTurn
    <3>1. PICK k : k = r.last
      OBVIOUS
    <3>2. k = l.parent
      BY <1>15, <1>17, <2>2, <3>1
    <3>3. /\ Cardinality(Children(k))' = Cardinality(Children(k)) + 1
          /\ Cardinality(Children(k)) \in Nat
      BY <1>24, <3>2, ChildrenFinite
    <3>4. Cardinality(Children(k))' <= p.outgoing
      BY <1>4, <1>5, <1>19, <2>2, <3>1, <3>3
    <3>5. mail'[k] = mail[k]
      BY <1>6, <1>23, <2>2, <3>1 DEF Forward
    <3>. QED
      BY <1>5, <1>19, <1>21, <2>2, <3>1, <3>4, <3>5 DEF Causes, Same
  <2>. QED
    BY <2>1, <2>2
<1>. QED
  BY <1>10, <1>23, <1>27, <1>28, <1>29 DEF Sound

\* The model sends a message (Send).
LEMMA SendStep ==
    ASSUME IInv, NEW s \in Session, NEW t \in Session, Send(s, t)
    PROVE  IInv' /\ ((Lets /\ Unspoken) \/ \E n \in Id : Sends(n))
<1>1. CASE /\ Token = None
           /\ policy' = [policy EXCEPT !.asked = @ \/ policy.on]
           /\ UNCHANGED <<mail, wire>>
  BY <1>1, RefusedSendStep DEF Send, Settled, Unspoken, Told
<1>2. CASE Posted(NextId, Letter(s, t)) /\ UNCHANGED policy
  BY <1>2, PostedSendStep DEF Send
<1>. QED
  BY <1>1, <1>2 DEF Send

\* The expired message m of s is sent again in a chain of its own.
LEMMA ResendStep ==
    ASSUME IInv, NEW m \in Sent, NEW s \in Session, s = mail[m].from,
           Matched(m),
           mail[m].attempt < MaxResends, NextChain <= left.chains,
           age' = [age EXCEPT ![NextChain] = "live"],
           Posted(NextId, Again(m, NextChain)),
           ses' = [ses EXCEPT ![s] = [ses[s] EXCEPT !.sent = @ \ {m}]],
           Noticed,
           policy' = policy, left' = left, admitted' = admitted, void' = void,
           runs' = runs
    PROVE  IInv' /\ \E n \in Id : Sends(n)
<1>. DEFINE r == ses[s]
            S == r.sent \ {m}
            p == [r EXCEPT !.sent = S]
<1>1. TypeOK /\ Numbered /\ Written /\ Arrived /\ Sound(s)
  BY DEF IInv
<1>2. /\ r \in SessionState /\ r.inbox \in Seq(PeerInput) /\ S \in SUBSET Id
      /\ r.endpoint \in {0, r.born} /\ r.born \in Nat
      /\ Len(r.inbox) <= MaxQueue
      /\ r.seen \subseteq Sent /\ S \subseteq Sent
  BY <1>1, SessionIs DEF Sent
<1>3. PICK n, c : n = NextId /\ c = NextChain
  OBVIOUS
<1>4. c \in Chain /\ age'[c] = "live" /\ Aging
  <2>1. age \in [Chain -> {"unborn", "live", "expired"}]
    BY <1>1 DEF TypeOK
  <2>. QED
    BY <1>1, <1>3, <2>1, NewChain
<1>5. PICK l : l = Again(m, c)
  OBVIOUS
<1>6. Posted(n, l)
  BY <1>3, <1>5
<1>7. /\ mail[m] \in Letters /\ mail[m].attempt \in 0 .. MaxResends
      /\ mail[m].to \in Session
      /\ r.endpoint = mail[m].born
  BY <1>1, Typed, LetterTypes DEF Matched
<1>8. l = [mail[m] EXCEPT !.chain = c, !.attempt = @ + 1, !.born = r.endpoint]
  BY <1>5 DEF Again
<1>9. /\ l \in Letters /\ l.from = s /\ l.to = mail[m].to /\ l.chain = c
      /\ l.born = mail[m].born /\ l.target = mail[m].target
      /\ l.ro = mail[m].ro
      /\ l.root = mail[m].root /\ l.parent = mail[m].parent /\ l.attempt # 0
  <2>1. PICK a, e, x : a = mail[m].attempt + 1 /\ e = r.endpoint /\ x = mail[m]
    OBVIOUS
  <2>2. a \in 0 .. MaxResends /\ a # 0 /\ e \in Nat /\ x \in Letters
    <3>1. e \in Nat /\ x \in Letters
      BY <1>2, <1>7, <2>1
    <3>2. PICK b \in 0 .. MaxResends : b = mail[m].attempt
      BY <1>7
    <3>3. a = b + 1 /\ b < MaxResends
      BY <2>1, <3>2
    <3>. QED
      BY <3>1, <3>3, NumbersHold DEF Numbers
  <2>3. l = [x EXCEPT !.chain = c, !.attempt = a, !.born = e]
    BY <1>8, <2>1
  <2>4. /\ l \in Letters /\ l.from = x.from /\ l.to = x.to /\ l.chain = c
        /\ l.born = e /\ l.target = x.target /\ l.ro = x.ro
        /\ l.root = x.root /\ l.parent = x.parent /\ l.attempt = a
    BY <1>4, <2>2, <2>3 DEF Letters
  <2>. QED
    BY <1>7, <2>1, <2>2, <2>4
<1>10. Proper(s, l)
  BY <1>1, <1>4, <1>9 DEF Proper, Written, Arrived
<1>11. p = [r EXCEPT !.sent = S] /\ ses' = [ses EXCEPT ![s] = p]
  OBVIOUS
<1>. HIDE DEF p
<1>12. p \in SessionState /\ p.sent = S /\ Alike(p, r)
  <2>1. PICK r0, p0, S0 : r0 = r /\ p0 = p /\ S0 = S
    OBVIOUS
  <2>2. p0 = [r0 EXCEPT !.sent = S0] /\ r0 \in SessionState /\ S0 \in SUBSET Id
    BY <1>2, <1>11, <2>1
  <2>3. p0 \in SessionState
    BY <2>2 DEF SessionState
  <2>4. p0.sent = S0
    BY <2>2 DEF SessionState
  <2>5. Alike(p0, r0)
    BY <2>2 DEF SessionState, Alike
  <2>. QED
    BY <2>1, <2>3, <2>4, <2>5
<1>13. Becomes(s, p)
  <2>1. Held(p) \subseteq Held(r)
    BY <1>12, HeldLess DEF Alike
  <2>2. /\ p.endpoint = r.endpoint /\ p.born = r.born /\ p.inbox = r.inbox
        /\ p.seen = r.seen
    BY <1>12 DEF Alike
  <2>3. /\ p.endpoint \in {0, p.born} /\ Len(p.inbox) <= MaxQueue
        /\ p.born >= r.born
    BY <1>2, <2>2
  <2>. QED
    BY <1>2, <1>11, <1>12, <2>1, <2>2, <2>3 DEF Becomes
<1>19. Held(r) \subseteq Held(p)
  BY <1>12, HeldLess DEF Alike
<1>14. Forward /\ (Sound(s)' => IInv') /\ Sends(n)
  BY <1>3, <1>4, <1>6, <1>9, <1>10, <1>13, <1>19, PostStep
<1>15. \A i : Children(i)' = Children(i)
  BY <1>3, <1>6, <1>9, NewChild
<1>16. Calm(s, r.seen)
  BY <1>15 DEF Calm
<1>17. Alike(ses'[s], ses[s])
  BY <1>1, <1>11, <1>12, SessionIs
<1>18. Sound(s)'
  BY <1>1, <1>14, <1>16, <1>17, AlikeSound
<1>20. n \in Id
  BY <1>1, <1>3, <1>6, NextIdIs DEF Posted
<1>. QED
  BY <1>14, <1>18, <1>20

\* The model of s is told that its message m was not processed.
LEMMA ToldStep ==
    ASSUME IInv, NEW m \in Sent, NEW s \in Session, s = mail[m].from,
           Token # None,
           Len(ses[s].inbox) < MaxQueue,
           ses' = [ses EXCEPT ![s] = [[ses[s] EXCEPT !.sent = @ \ {m}]
                                         EXCEPT !.inbox = Append(@, Item(m, TRUE))]],
           Noticed, policy' = policy, mail' = mail, wire' = wire, age' = age,
           left' = left,
           admitted' = admitted, void' = void, runs' = runs
    PROVE  Settled
<1>. DEFINE r == ses[s]
            S == r.sent \ {m}
            q == Append(r.inbox, Item(m, TRUE))
            p == [r EXCEPT !.sent = S, !.inbox = q]
<1>1. TypeOK /\ Numbered /\ Written /\ Arrived /\ Sound(s) /\ m \in Id
  BY DEF IInv, Sent
<1>2. /\ r \in SessionState /\ r.inbox \in Seq(PeerInput) /\ S \in SUBSET Id
      /\ r.endpoint \in {0, r.born} /\ r.born \in Nat
      /\ Len(r.inbox) <= MaxQueue
      /\ r.seen \subseteq Sent /\ S \subseteq Sent
  BY <1>1, SessionIs DEF Sent
<1>3. PICK i : i = Item(m, TRUE)
  OBVIOUS
<1>4. i \in PeerInput /\ i.m = m /\ i.failure
  <2>1. TRUE \in BOOLEAN
    OBVIOUS
  <2>. QED
    BY <1>1, <1>3, <2>1, ItemIs
<1>5. /\ q = Append(r.inbox, i) /\ q \in Seq(PeerInput) /\ Len(q) <= MaxQueue
      /\ Works(q) \subseteq Works(r.inbox)
  <2>1. PICK a, b : a = r.inbox /\ b = q
    OBVIOUS
  <2>2. a \in Seq(PeerInput) /\ b = Append(a, i)
    BY <1>2, <1>3, <2>1
  <2>3. /\ b \in Seq(PeerInput) /\ Len(b) = Len(a) + 1
        /\ Works(b) \subseteq Works(a)
    BY <1>4, <2>2, GrownIs
  <2>4. Len(a) < MaxQueue /\ Len(a) \in Nat
    <3>1. Len(a) < MaxQueue
      BY <2>1
    <3>. QED
      BY <2>2, <3>1
  <2>5. Len(b) <= MaxQueue
    BY <2>3, <2>4, NumbersHold DEF Numbers
  <2>. QED
    BY <2>1, <2>2, <2>3, <2>5
<1>6. p = [r EXCEPT !.sent = S, !.inbox = q] /\ ses' = [ses EXCEPT ![s] = p]
  BY <1>2 DEF SessionState
<1>. HIDE DEF q, p
<1>7. /\ p \in SessionState /\ p.inbox = q /\ p.seen = r.seen
      /\ p.endpoint = r.endpoint /\ p.born = r.born /\ p.sent = S
  <2>. HIDE DEF r, S
  <2>. QED
    BY <1>2, <1>5, <1>6 DEF SessionState
<1>8. /\ p.turn = r.turn /\ p.chain = r.chain /\ p.hop = r.hop /\ p.ro = r.ro
      /\ p.outgoing = r.outgoing /\ p.peerTurn = r.peerTurn
      /\ p.noSend = r.noSend
      /\ p.last = r.last
  <2>. HIDE DEF r, S
  <2>. QED
    BY <1>2, <1>5, <1>6 DEF SessionState
<1>9. Becomes(s, p)
  <2>1. /\ p.endpoint \in {0, p.born} /\ Len(p.inbox) <= MaxQueue
        /\ p.born >= r.born
    <3>1. p.endpoint \in {0, p.born}
      BY <1>2, <1>7
    <3>2. Len(p.inbox) <= MaxQueue
      BY <1>5, <1>7
    <3>3. p.born >= r.born
      BY <1>2, <1>7
    <3>. QED
      BY <3>1, <3>2, <3>3
  <2>2. p.seen \cup p.sent \subseteq Sent /\ r.seen \subseteq p.seen
    BY <1>2, <1>7
  <2>3. Held(p) \subseteq Held(r)
    BY <1>5, <1>7, <1>8, HeldLess
  <2>. QED
    BY <1>6, <1>7, <2>1, <2>2, <2>3 DEF Becomes
<1>10. ses'[s] = p
  BY <1>1, <1>6, SessionIs
<1>11. Local(s, p)
  BY <1>1, <1>9, SameWire, UntouchedIs, SameAge, LosesNothing DEF Local
<1>12. Forward /\ (Sound(s)' => Settled)
  BY <1>11, LocalStep
<1>13. Calm(s, Works(r.inbox)) /\ Calm(s, Begun(s))
  BY CalmIs
<1>14. \A k : Children(k)' = Children(k)
  BY DEF Children, Sent
<1>15. Inbox(s)'
  <2>1. /\ ses'[s].inbox = Append(ses[s].inbox, i)
        /\ ses[s].seen \subseteq ses'[s].seen
    BY <1>5, <1>7, <1>10
  <2>2. \A k \in ses'[s].seen : mail'[k].to = s /\ k \in admitted'
    BY <1>1, <1>7, <1>10, HeldIs
  <2>. QED
    BY <1>1, <1>4, <1>12, <1>13, <2>1, <2>2, InboxGrows DEF Sound
<1>16. Turns(s)'
  BY <1>1, <1>7, <1>8, <1>10, <1>12, <1>13, TurnsKept DEF Sound
<1>17. Causes(s)'
  <2>1. Works(ses'[s].inbox) \ Works(ses[s].inbox) \subseteq Sent \ ses[s].seen
    BY <1>5, <1>7, <1>10
  <2>. QED
    BY <1>1, <1>7, <1>8, <1>10, <1>12, <1>14, <2>1, CausesKept DEF Sound
<1>. QED
  BY <1>12, <1>15, <1>16, <1>17 DEF Sound

\* The sender takes a notice (Notice): it sends again, or has its model told.
LEMMA NoticeStep ==
    ASSUME IInv, NEW m \in Id, Notice(m)
    PROVE  IInv' /\ ((Lets /\ Unspoken) \/ \E n \in Id : Sends(n))
<1>1. TypeOK /\ Heard /\ m \in Sent
  BY DEF IInv, Heard, Notice
<1>2. PICK s \in Session : s = mail[m].from
  BY <1>1, Typed, LetterTypes
<1>3. Noticed
  BY <1>1 DEF Noticed, Notice, TypeOK
<1>4. /\ policy' = policy /\ left' = left /\ admitted' = admitted
      /\ void' = void /\ runs' = runs
  BY DEF Notice
<1>5. CASE UNCHANGED <<mail, wire, age, ses>>
  BY <1>1, <1>2, <1>3, <1>4, <1>5, SameWire, UntouchedIs, QuietStep
     DEF Settled, Unspoken, Told
<1>6. CASE /\ Matched(m) /\ mail[m].attempt < MaxResends /\ NextChain <= left.chains
           /\ age' = [age EXCEPT ![NextChain] = "live"]
           /\ Posted(NextId, Again(m, NextChain))
           /\ ses' = [ses EXCEPT ![s] = [ses[s] EXCEPT !.sent = @ \ {m}]]
  BY <1>1, <1>2, <1>3, <1>4, <1>6, ResendStep
<1>7. CASE /\ ses' = [ses EXCEPT ![s] = [ses[s] EXCEPT !.sent = @ \ {m}]]
           /\ UNCHANGED <<mail, wire, age>>
  <2>. DEFINE S == ses[s].sent \ {m}
  <2>1. S \subseteq Sent
    BY <1>1, SessionIs
  <2>2. ses' = [ses EXCEPT ![s].sent = S]
    BY <1>7
  <2>. HIDE DEF S
  <2>. QED
    <3>1. Settled
      BY <1>1, <1>3, <1>4, <1>7, <2>1, <2>2, SameWire, MemoStep
    <3>. QED
      BY <1>7, <3>1 DEF Settled, Unspoken, Told
<1>8. CASE /\ Token # None /\ Len([ses[s] EXCEPT !.sent = @ \ {m}].inbox) < MaxQueue
           /\ ses' = [ses EXCEPT ![s] = [[ses[s] EXCEPT !.sent = @ \ {m}]
                                         EXCEPT !.inbox = Append(@, Item(m, TRUE))]]
           /\ UNCHANGED <<mail, wire, age>>
  <2>1. [ses[s] EXCEPT !.sent = @ \ {m}].inbox = ses[s].inbox
    BY <1>1, SessionIs DEF SessionState
  <2>2. Len(ses[s].inbox) < MaxQueue
    BY <1>8, <2>1
  <2>. QED
    <3>1. Settled
      BY <1>1, <1>2, <1>3, <1>4, <1>8, <2>2, ToldStep
    <3>. QED
      BY <1>8, <3>1 DEF Settled, Unspoken, Told
<1>. QED
  BY <1>2, <1>5, <1>6, <1>7, <1>8 DEF Notice

-----------------------------------------------------------------------------
(* The theorems *)

\* What a step does to the messages.
Carries == \/ Lets /\ Unspoken
           \/ \E n \in Id : Sends(n) \/ Admits(n)
           \/ \E m \in Id : \E w \in {"queued", "refused"} : Tells(m, w)

\* Every step of a turn keeps the invariant.
LEMMA TurnStep ==
    ASSUME IInv, NEW s \in Session, Turn(s) PROVE IInv' /\ Carries
<1>1. wire' = wire
  BY DEF Turn, HumanTurn, WakeTurn, Take, Invoke, Continue, TurnEnds,
         TurnFails, Cancel
<1>2. Unspoken
  BY <1>1 DEF Unspoken, Told
<1>3. Settled
  BY HumanTurnStep, WakeTurnStep, TakeStep, InvokeStep, ContinueStep,
     TurnEndsStep,
     TurnFailsStep, CancelStep DEF Turn
<1>. QED
  BY <1>2, <1>3 DEF Settled, Carries

\* Every step keeps the invariant, and does to the messages what it may.
LEMMA NextStep ==
    ASSUME IInv, Next PROVE IInv' /\ Carries
<1>1. CASE Confirm \/ Revoke
  <2>1. wire' = wire
    BY <1>1 DEF Confirm, Revoke
  <2>2. Unspoken
    BY <2>1 DEF Unspoken, Told
  <2>. QED
    BY <1>1, <2>2, ConfirmStep, RevokeStep DEF Settled, Carries
<1>2. ASSUME NEW s \in Session, Off(s) \/ On(s) \/ Replace(s) \/ Sweep(s)
      PROVE  IInv' /\ Carries
  <2>1. wire' = wire
    BY <1>2 DEF Off, On, Replace, Sweep
  <2>2. Unspoken
    BY <2>1 DEF Unspoken, Told
  <2>. QED
    BY <1>2, <2>2, OffStep, OnStep, ReplaceStep, SweepStep DEF Settled, Carries
<1>3. ASSUME NEW s \in Session, Turn(s) PROVE IInv' /\ Carries
  BY <1>3, TurnStep
<1>4. ASSUME NEW s \in Session, NEW t \in Session, Send(s, t)
      PROVE  IInv' /\ Carries
  BY <1>4, SendStep DEF Carries
<1>5. ASSUME NEW m \in Id, Receive(m) PROVE IInv' /\ Carries
  BY <1>5, ReceiveStep DEF Carries
<1>6. ASSUME NEW m \in Id, Answered(m) PROVE IInv' /\ Carries
  BY <1>6, AnsweredStep DEF Carries
<1>7. ASSUME NEW m \in Id, Lose(m) PROVE IInv' /\ Carries
  <2>1. Unspoken
    <3>1. wire \in [Id -> Exchange]
      BY DEF IInv, TypeOK, Exchange
    <3>2. /\ \A n \in Id \ {m} : wire'[n] = wire[n]
          /\ wire[m] \in {"posted", "queued", "refused"}
          /\ wire'[m] \in {"lost", "unheard"}
      BY <1>7, <3>1 DEF Lose
    <3>. QED
      BY <3>2 DEF Unspoken, Told
  <2>. QED
    BY <1>7, <2>1, LoseStep DEF Settled, Carries
<1>8. ASSUME NEW m \in Id, LoseNotice(m) PROVE IInv' /\ Carries
  <2>1. Unspoken
    BY <1>8 DEF LoseNotice, Unspoken, Told
  <2>. QED
    BY <1>8, <2>1, LoseNoticeStep DEF Settled, Carries
<1>9. ASSUME NEW m \in Id, Notice(m) PROVE IInv' /\ Carries
  BY <1>9, NoticeStep DEF Carries
<1>10. ASSUME NEW c \in Chain, Expire(c) PROVE IInv' /\ Carries
  <2>1. Unspoken
    BY <1>10 DEF Expire, Unspoken, Told
  <2>. QED
    BY <1>10, <2>1, ExpireStep DEF Settled, Carries
<1>. QED
  BY <1>1, <1>2, <1>3, <1>4, <1>5, <1>6, <1>7, <1>8, <1>9, <1>10 DEF Next

\* The invariant does not depend on more than the variables.
LEMMA Idles == ASSUME IInv, UNCHANGED vars PROVE IInv' /\ Lets /\ Unspoken
<1>1. /\ policy' = policy /\ mail' = mail /\ wire' = wire /\ notice' = notice
      /\ age' = age
      /\ ses' = ses /\ left' = left /\ admitted' = admitted /\ void' = void
      /\ runs' = runs
  BY DEF vars
<1>2. Sent' = Sent /\ Chains' = Chains /\ \A i : Children(i)' = Children(i)
  BY <1>1 DEF Sent, Chains, Children
<1>3. TypeOK' /\ Numbered' /\ Written' /\ Arrived' /\ Earned' /\ Heard'
  BY <1>1, <1>2 DEF IInv, TypeOK, Numbered, Written, Arrived, Earned, Heard
<1>4. ASSUME NEW s \in Session PROVE Sound(s)'
  <2>1. \A i : Waits(s, i)' <=> Waits(s, i)
    BY <1>1 DEF Waits, Doomed, Known
  <2>2. Inbox(s)'
    BY <1>1, <1>2, <2>1 DEF IInv, Sound, Inbox
  <2>3. Turns(s)'
    BY <1>1, <1>2, <2>1 DEF IInv, Sound, Turns
  <2>4. Causes(s)'
    BY <1>1, <1>2 DEF IInv, Sound, Causes
  <2>. QED
    BY <2>2, <2>3, <2>4 DEF Sound
<1>5. Waiting' = Waiting
  BY <1>1 DEF Waiting, Dropped, Begun
<1>. QED
  BY <1>1, <1>2, <1>3, <1>4, <1>5 DEF IInv, Lets, Unspoken, Told

\* The invariant holds in every initial state.
LEMMA Initial == ASSUME Init PROVE IInv
<1>1. /\ policy \in [on : BOOLEAN, gen : Nat, grant : Nat, asked : BOOLEAN]
      /\ policy.gen = 0 /\ policy.grant \in {0, 1}
      /\ left \in Budget
  BY BudgetAssumption DEF Init
<1>2. /\ mail \in [Id -> Letters \cup {NoMail}]
      /\ wire \in [Id -> Exchange]
      /\ notice \in [Id -> {"none", "sent", "over"}]
      /\ age \in [Chain -> {"unborn", "live", "expired"}]
      /\ admitted = {} /\ void = {} /\ runs \in [Id -> Nat]
      /\ \A m \in Id : wire[m] = "none" /\ notice[m] = "none" /\ runs[m] = 0
  BY DEF Init, Exchange
<1>3. Sent = {} /\ Chains = {} /\ \A i : Children(i) = {}
  BY DEF Init, Sent, Chains, Children
<1>4. PICK b : b = Born(1)
  OBVIOUS
<1>5. /\ b \in SessionState
      /\ b.endpoint = 1 /\ b.born = 1 /\ b.inbox = <<>> /\ b.seen = {}
      /\ b.sent = {}
      /\ b.hop = 0 /\ b.peerTurn = FALSE /\ b.noSend = FALSE
      /\ b.turn.kind = "idle" /\ b.turn.at = "idle"
  <2>1. 1 \in Nat
    OBVIOUS
  <2>. QED
    BY <1>4, <2>1, BornIs
<1>6. ses \in [Session -> SessionState] /\ \A s \in Session : ses[s] = b
  BY <1>4, <1>5 DEF Init
<1>7. TypeOK
  BY <1>1, <1>2, <1>3, <1>5, <1>6, NoneQueued DEF TypeOK
<1>8. Numbered
  <2>1. Cardinality({}) = 0 /\ {} = 1 .. 0
    BY FS_EmptySet
  <2>. QED
    BY <1>1, <1>3, <2>1 DEF Numbered
<1>9. Written /\ Arrived /\ Earned /\ Heard
  BY <1>2, <1>3 DEF Written, Arrived, Earned, Heard
<1>10. ASSUME NEW s \in Session PROVE Sound(s)
  <2>1. PICK r : r = ses[s]
    OBVIOUS
  <2>2. r = b
    BY <1>6, <2>1
  <2>3. DOMAIN r.inbox = {}
    BY <1>5, <2>2
  <2>4. Inbox(s)
    BY <1>5, <2>1, <2>2, <2>3 DEF Inbox
  <2>5. Turns(s)
    BY <1>5, <2>1, <2>2 DEF Turns
  <2>6. Causes(s)
    BY <1>5, <2>1, <2>2 DEF Causes
  <2>. QED
    BY <2>4, <2>5, <2>6 DEF Sound
<1>. QED
  BY <1>7, <1>8, <1>9, <1>10 DEF IInv

\* The inductive invariant holds in every reachable state.
THEOREM Invariance == Spec => []IInv
<1>1. Init => IInv
  BY Initial
<1>2. IInv /\ [Next]_vars => IInv'
  BY NextStep, Idles
<1>. QED
  BY <1>1, <1>2, PTL DEF Spec

\* Type correctness, for any sessions, messages, chains, caps and budgets.
THEOREM TypeCorrect == Spec => []TypeOK
<1>1. IInv => TypeOK
  BY DEF IInv
<1>. QED
  BY <1>1, Invariance, PTL

\* What a peer message may cause is bounded by what the user set off
\* (CausalLimits): whatever a read-only message caused is read-only, over
\* replies and resends, and the turns of one message, continued or woken, send
\* no more than PeerSends messages (beginPeerTurn and causalRefusal of
\* local.ts).
THEOREM CausalLimitsHold == Spec => []CausalLimits
<1>1. IInv => CausalLimits
  BY DEF IInv, CausalLimits, CeilingNarrows, BudgetHolds, Written, Earned
<1>. QED
  BY <1>1, Invariance, PTL

\* Only the model that is asked on the work of a turn makes it run.
LEMMA OnlyAskedRuns ==
    ASSUME Next, NEW m \in Id, runs'[m] # runs[m], runs \in [Id -> Nat]
    PROVE  \E s \in Session : /\ Valid(s, ses[s].turn.item) /\ ses[s].turn.at = "begun"
                              /\ ses[s].turn.kind = "peer"
                              /\ ~ses[s].turn.item.failure
                              /\ m = ses[s].turn.item.m
<1>1. ASSUME NEW s \in Session, Invoke(s)
      PROVE  /\ Valid(s, ses[s].turn.item) /\ ses[s].turn.at = "begun"
             /\ ses[s].turn.kind = "peer" /\ ~ses[s].turn.item.failure
             /\ m = ses[s].turn.item.m
  <2>1. Valid(s, ses[s].turn.item) /\ Asked(s) /\ ses[s].turn.at = "begun"
    BY <1>1 DEF Invoke
  <2>. DEFINE i == ses[s].turn.item
  <2>2. /\ ~i.failure /\ ses[s].turn.kind = "peer"
        /\ runs' = [runs EXCEPT ![i.m] = @ + 1]
    BY <2>1 DEF Asked
  <2>. QED
    BY <2>1, <2>2
<1>2. ASSUME NEW s \in Session PROVE ~ (Turn(s) /\ ~Invoke(s))
  BY DEF Turn, HumanTurn, WakeTurn, Take, Continue, TurnEnds, TurnFails, Cancel
<1>3. ASSUME NEW s \in Session
      PROVE  ~ (Off(s) \/ On(s) \/ Replace(s) \/ Sweep(s) \/ \E t \in Session : Send(s, t))
  BY DEF Off, On, Replace, Sweep, Send
<1>4. ASSUME NEW n \in Id
      PROVE  ~ (Receive(n) \/ Answered(n) \/ Lose(n) \/ Notice(n) \/ LoseNotice(n))
  BY DEF Receive, Answered, Lose, Notice, LoseNotice
<1>5. ~ (Confirm \/ Revoke \/ \E c \in Chain : Expire(c))
  BY DEF Confirm, Revoke, Expire
<1>. QED
  BY <1>1, <1>2, <1>3, <1>4, <1>5 DEF Next

\* A message whose ground is gone never starts a turn (NothingVoidRuns): the
\* last validation before the model is asked (runtime.ts) sees every
\* revocation, retirement and expiry since the admission, also one that was
\* followed by a new grant or endpoint.
THEOREM NothingVoidRunsHolds == Spec => NothingVoidRuns
<1>1. ASSUME IInv, Next, NEW m \in Id, runs'[m] # runs[m] PROVE m \notin void
  <2>1. runs \in [Id -> Nat] /\ \A s \in Session : Turns(s)
    BY <1>1 DEF IInv, TypeOK, Sound
  <2>2. PICK s \in Session :
               /\ Valid(s, ses[s].turn.item) /\ ses[s].turn.at = "begun"
               /\ ses[s].turn.kind = "peer" /\ ~ses[s].turn.item.failure
               /\ m = ses[s].turn.item.m
    BY <1>1, <2>1, OnlyAskedRuns
  <2>3. PICK i : i = ses[s].turn.item
    OBVIOUS
  <2>4. Waits(s, i) /\ i \in PeerInput
    BY <2>1, <2>2, <2>3 DEF Turns
  <2>5. ~Doomed(s, i)
    <3>1. Valid(s, i) /\ ~i.failure
      BY <2>2, <2>3
    <3>2. /\ age[mail[i.m].chain] = "live"
          /\ ses[s].endpoint = mail[i.m].target /\ i.auth = Token
      BY <3>1 DEF Valid, Fresh, Addressed
    <3>3. Token # None
      BY <2>4, <3>2, ItemTypes, NoneAssumption
    <3>4. i.auth = <<policy.gen, policy.grant>>
      BY <3>2, <3>3 DEF Token
    <3>. QED
      BY <3>2, <3>4 DEF Doomed
  <2>. QED
    BY <2>2, <2>3, <2>4, <2>5 DEF Waits
<1>2. ASSUME IInv, UNCHANGED vars PROVE \A m \in Id : runs'[m] = runs[m]
  BY <1>2 DEF vars
<1>3. IInv /\ [Next]_vars => [\A m \in Id : runs'[m] # runs[m] => m \notin void]_vars
  BY <1>1
<1>. QED
  BY <1>3, Invariance, PTL DEF Spec, NothingVoidRuns

\* The work that waits has not run.
LEMMA WaitingIdle ==
    ASSUME IInv,
           NEW m \in Waiting PROVE runs[m] = 0 /\ m \in admitted /\ m \in Sent
<1>1. TypeOK /\ \A s \in Session : Sound(s)
  BY DEF IInv
<1>2. PICK s \in Session : m \in Works(ses[s].inbox) \/ m \in Begun(s)
  BY DEF Waiting, Dropped
<1>3. Inbox(s) /\ Turns(s)
  BY <1>1 DEF Sound
<1>4. runs[m] = 0
  BY <1>2, <1>3 DEF Inbox, Turns, Works, Begun, Waits
<1>. QED
  BY <1>1, <1>4, WaitingIs

-----------------------------------------------------------------------------
(* The promise to each message *)

\* The variables of PeerDelivery.
stage == [m \in Id |-> Now(m)]
answer == [m \in Id |-> Told(m)]

\* Where the messages are before a step, and after it.
LEMMA NowIs ==
    ASSUME IInv, NEW m \in Id
    PROVE  /\ stage[m] = Now(m) /\ answer[m] = Told(m)
           /\ m \in Waiting => m \in admitted /\ runs[m] = 0 /\ Now(m) = "queued"
           /\ m \notin Sent => m \notin admitted /\ Now(m) = "unsent"
           /\ m \in Sent \ admitted => Now(m) = "sent"
           /\ m \in admitted \ Waiting =>
                 Now(m) = IF runs[m] > 0 THEN "taken" ELSE "dropped"
<1>1. admitted \subseteq Sent
  BY DEF IInv, TypeOK
<1>. QED
  BY <1>1, WaitingIdle DEF stage, answer, Now

\* A message that is sent is a Send of the abstract specification.
LEMMA SendsIs ==
    ASSUME IInv, IInv', NEW n \in Id, Sends(n) PROVE Delivery!Send(n)
<1>1. Now(n) = "unsent" /\ Now(n)' = "sent"
  <2>1. n \notin admitted' /\ n \in Sent'
    BY NowIs DEF Sends
  <2>. QED
    BY <2>1, NowIs DEF Sends, Now
<1>2. ASSUME NEW m \in Id \ {n} PROVE Now(m)' = Now(m)
  BY DEF Sends, Now
<1>3. stage' = [stage EXCEPT ![n] = "sent"] /\ stage[n] = "unsent"
  BY <1>1, <1>2 DEF stage
<1>4. answer' = answer
  BY DEF Sends, Unspoken, answer
<1>. QED
  BY <1>3, <1>4 DEF Delivery!Send, Delivery!Move, stage, answer

\* An admission is a Queue: the sender was not told of a refusal.
LEMMA AdmitsIs ==
    ASSUME IInv, NEW m \in Id, Admits(m) PROVE Delivery!Queue(m)
<1>1. Now(m) = "sent" /\ Now(m)' = "queued"
  BY NowIs DEF Admits, Now
<1>2. ASSUME NEW n \in Id \ {m} PROVE Now(n)' = Now(n)
  BY DEF Admits, Now
<1>3. stage' = [stage EXCEPT ![m] = "queued"] /\ stage[m] = "sent"
  BY <1>1, <1>2 DEF stage
<1>4. answer' = answer /\ answer[m] # "refused"
  BY DEF Admits, Unspoken, answer
<1>. QED
  BY <1>3, <1>4 DEF Delivery!Queue, Delivery!Move, stage, answer

\* An answer read is a Tell, and true.
LEMMA TellsIs ==
    ASSUME IInv, NEW m \in Id, NEW w \in {"queued", "refused"}, Tells(m, w)
    PROVE  Delivery!Tell(m, w)
<1>1. ASSUME NEW n \in Id PROVE Now(n)' = Now(n)
  BY DEF Tells, Now
<1>2. stage' = stage
  BY <1>1 DEF stage
<1>3. answer' = [answer EXCEPT ![m] = w] /\ answer[m] = "none"
  BY DEF Tells, answer
<1>4. stage[m] # "unsent" /\ (w = "queued" <=> stage[m] # "sent")
  BY NowIs DEF Tells, Now
<1>. QED
  BY <1>2, <1>3, <1>4 DEF Delivery!Tell, stage, answer

\* Any other step is a Leave: what waited is dropped, but for one message that
\* may be taken by a turn.
LEMMA LetsIs ==
    ASSUME IInv, IInv', Lets, Unspoken PROVE Delivery!Leave
<1>1. /\ Sent' = Sent /\ admitted' = admitted /\ Waiting' \subseteq Waiting
      /\ runs \in [Id -> Nat] /\ runs' \in [Id -> Nat]
  BY DEF Lets, IInv, TypeOK
<1>2. ASSUME NEW m \in Id
      PROVE  /\ stage[m] = Now(m) /\ stage'[m] = Now(m)'
             /\ stage'[m] \in Delivery!Stage
  BY DEF stage, Now, Delivery!Stage
<1>3. ASSUME NEW m \in Id, Now(m)' # Now(m)
      PROVE  /\ Now(m) = "queued" /\ Now(m)' \in {"dropped", "taken"}
             /\ Now(m)' = "taken" => runs'[m] # runs[m]
  <2>1. CASE m \in Waiting
    <3>1. m \in admitted /\ m \in Sent /\ runs[m] = 0 /\ Now(m) = "queued"
      BY <2>1, WaitingIdle, NowIs
    <3>. QED
      BY <1>1, <1>3, <3>1 DEF Now
  <2>2. CASE m \notin Waiting
    <3>1. runs'[m] = runs[m] /\ m \notin Waiting'
      BY <1>1, <2>2 DEF Lets
    <3>. QED
      BY <1>1, <1>3, <2>2, <3>1 DEF Now
  <2>. QED
    BY <2>1, <2>2
<1>4. stage' \in [Id -> Delivery!Stage]
  BY <1>2 DEF stage
<1>5. answer' = answer
  BY DEF Unspoken, answer
<1>6. \A m, n \in Id : runs'[m] # runs[m] /\ runs'[n] # runs[n] => m = n
  BY DEF Lets
<1>7. ASSUME NEW m \in Id, stage'[m] # stage[m]
      PROVE  /\ stage[m] = "queued" /\ stage'[m] \in {"dropped", "taken"}
             /\ stage'[m] = "taken" => runs'[m] # runs[m]
  BY <1>2, <1>3, <1>7
<1>8. \A m, n \in {k \in Id : stage'[k] # stage[k]} :
         stage'[m] = "taken" /\ stage'[n] = "taken" => m = n
  BY <1>6, <1>7
<1>. QED
  BY <1>4, <1>5, <1>7, <1>8 DEF Delivery!Leave, stage, answer

\* The collaboration of the sessions implements PeerDelivery (DeliverySpec):
\* every message is queued at most once, then dropped or taken by one turn, and
\* its sender is told the truth about the queueing.
THEOREM Delivers == Spec => DeliverySpec
<1>1. Init => Delivery!Init
  BY DEF Init, Sent, Now, Told, Delivery!Init
<1>2. ASSUME IInv, IInv', Next PROVE Delivery!Next
  BY <1>2, NextStep, SendsIs, AdmitsIs, TellsIs, LetsIs
  DEF Carries, Delivery!Next
<1>3. ASSUME IInv, UNCHANGED vars PROVE UNCHANGED Delivery!vars
  <2>1. \A m \in Id : Now(m)' = Now(m) /\ Told(m)' = Told(m)
    BY <1>3 DEF vars, Now, Told, Sent, Waiting, Dropped, Begun
  <2>. QED
    BY <2>1 DEF Delivery!vars
<1>4. IInv /\ IInv' /\ [Next]_vars => [Delivery!Next]_(Delivery!vars)
  BY <1>2, <1>3
<1>. QED
  BY <1>1, <1>4, Invariance, PTL DEF Spec, DeliverySpec, Delivery!Spec
=============================================================================
