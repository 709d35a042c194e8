-------------------------- MODULE ToolCallsProofs --------------------------
(***************************************************************************)
(* Proofs about ToolCalls, for every set of calls, every batch, every hook *)
(* and every bound on the restarts: the prohibitions hold, every call is   *)
(* judged by one mode on one record, the user's word counts for what he    *)
(* saw, and the edits of one file take turns. The inductive invariant IInv *)
(* says what has been established about a call at each place it can be, is *)
(* at one with the queue of questions, and keeps a history of the edits:   *)
(* positions in which no edit overtakes another.                           *)
(***************************************************************************)
EXTENDS ToolCalls, TLAPS

\* The places between the first await of a pass and its settlement.
Asked == {"classifying", "asking", "answered"}

\* No prohibition forbids the call.
Cleared(r) ==
    /\ ~Protected(r.input) /\ r.input # "banned" /\ ~Strays(r)
    /\ origin = "ceiling" => Kind(r.input) = "read"
\* A question about the call makes sense under the mode in force.
Askable(r) == mode # "yolo" /\ (mode = "plan" => Kind(r.input) = "read")
\* The mode in force lets the classifier answer for the call.
Judgeable(r) == mode = "auto" /\ ~Sensitive(r.input)

\* What is known of a call at each place: it has its record when it runs and
\* not before; from the first await on it has passed the prohibitions, and
\* while it waits it is under a mode that neither forbids it nor lets
\* everything through. SetMode keeps that true by withdrawing all who wait.
Held(r, n) ==
    /\ r.at \in {"new", "hook", "withdrawn"} \cup Asked => n = 0
    /\ r.at \in {"queued", "executing"} => n = 1
    /\ n \in {0, 1}
    /\ r.at \in Asked \cup {"queued", "executing"} => Cleared(r)
    /\ r.at \in Asked => Askable(r)
    /\ r.at = "classifying" => Judgeable(r)
    /\ r.at = "answered" /\ r.reply = "always" => r.input \in Grantable

\* Every call is where its history allows.
Judged == \A c \in Call : Held(call[c], records[c])

\* The queue holds the calls that are at their question, and no others.
Queued == \A c \in Call : c \in ToSet(queue) <=> call[c].at = "asking"

\* An edit that has its place on the chain of its agent.
Live(d) == Ran(d) /\ Edits(call[d])
\* Two live edits of one agent.
Mates(c, d) == Live(c) /\ Live(d) /\ call[c].agent = call[d].agent
\* Nothing is left before the edit on its chain.
Free(d) == call[d].prev = None \/ call[call[d].prev].at = "done"

\* The order of the edits: pos gives the live edits of an agent different
\* positions, an edit with another one before it waits for the nearest, only an
\* edit that is free executes, and the entry of the chain is the last of them.
\* The chain itself does not tell who comes before whom: without the positions
\* nothing says that the edit which clears the entry is the only one left.
InOrder(pos) ==
    /\ \A c, d \in Call : Mates(c, d) /\ c # d => pos[c] # pos[d]
    /\ \A c, d \in Call : Mates(c, d) /\ pos[c] < pos[d] =>
          ~Free(d) /\ pos[c] <= pos[call[d].prev]
    /\ \A d \in Call : Live(d) /\ ~Free(d) =>
          Mates(call[d].prev, d) /\ pos[call[d].prev] < pos[d]
    /\ \A d \in Call : Live(d) /\ call[d].at = "executing" => Free(d)
    /\ \A a \in Agent : chain[a] # None => Live(chain[a]) /\ call[chain[a]].agent = a
    /\ \A d \in Call : Live(d) =>
          chain[call[d].agent] # None /\ pos[d] <= pos[chain[call[d].agent]]

\* Some history of the edits explains the chains.
Chained == \E pos \in [Call -> Nat] : InOrder(pos)

\* The inductive invariant.
IInv == TypeOK /\ Judged /\ Queued /\ Chained

\* JudgedByOneMode, of one step.
LetThrough == \A c \in Call : ~Ran(c) /\ Ran(c)' =>
                  Permitted(mode', call'[c].word, call'[c].input)
\* AnsweredAsSeen, of one step.
Seen == \A c \in Call : call[c].at = "asking" /\ call'[c].at = "answered"
                         /\ call'[c].reply # "no" => screen = Request(c)

\* The components of the state of a call.
LEMMA StateTypes ==
    \A r \in CallState : /\ r.at \in Place /\ r.agent \in Agent /\ r.input \in Input
                         /\ r.attempt \in 1 .. MaxRestarts /\ r.reply \in Reply
                         /\ r.word \in Approvals \cup {"none"} /\ r.prev \in Call \cup {None}
BY DEF CallState

\* A call stays typed under every change the actions make to it.
LEMMA Moves ==
    ASSUME NEW r \in CallState
    PROVE  /\ \A p \in Place : [r EXCEPT !.at = p] \in CallState
           /\ \A y \in Reply : [r EXCEPT !.reply = y] \in CallState
           /\ \A p \in Place, y \in Reply : [r EXCEPT !.at = p, !.reply = y] \in CallState
           /\ \A i \in Input : [r EXCEPT !.input = i] \in CallState
           /\ \A p \in Place, a \in Agent, i \in Input :
                 [r EXCEPT !.at = p, !.agent = a, !.input = i] \in CallState
           /\ r.attempt < MaxRestarts => [r EXCEPT !.attempt = @ + 1] \in CallState
           /\ \A p \in Place, w \in Approvals, v \in Call \cup {None} :
                 [r EXCEPT !.at = p, !.word = w, !.prev = v] \in CallState
<1>1. r.attempt \in 1 .. MaxRestarts
  BY StateTypes
<1>2. r.attempt < MaxRestarts => [r EXCEPT !.attempt = @ + 1] \in CallState
  <2>. SUFFICES ASSUME r.attempt < MaxRestarts
                PROVE  [r EXCEPT !.attempt = @ + 1] \in CallState
    OBVIOUS
  <2>1. r.attempt + 1 \in 1 .. MaxRestarts
    BY <1>1, BoundAssumption
  <2>. DEFINE n == r.attempt + 1
  <2>. HIDE DEF n
  <2>2. [r EXCEPT !.attempt = n] \in CallState
    BY <2>1 DEF CallState, n
  <2>. QED
    BY <2>2 DEF n
<1>3. \A p \in Place : [r EXCEPT !.at = p] \in CallState
  BY DEF CallState
<1>4. \A y \in Reply : [r EXCEPT !.reply = y] \in CallState
  BY DEF CallState
<1>5. \A p \in Place, y \in Reply : [r EXCEPT !.at = p, !.reply = y] \in CallState
  BY DEF CallState
<1>6. \A i \in Input : [r EXCEPT !.input = i] \in CallState
  BY DEF CallState
<1>7. \A p \in Place, a \in Agent, i \in Input :
         [r EXCEPT !.at = p, !.agent = a, !.input = i] \in CallState
  BY DEF CallState
<1>8. \A p \in Place, w \in Approvals, v \in Call \cup {None} :
         [r EXCEPT !.at = p, !.word = w, !.prev = v] \in CallState
  BY DEF CallState
<1>. QED
  BY <1>2, <1>3, <1>4, <1>5, <1>6, <1>7, <1>8

\* The initial and the final state of a call are states of a call.
LEMMA GoneTypes == Fresh \in CallState /\ Gone \in CallState /\ Gone.at = "done"
BY BoundAssumption DEF CallState, Fresh, Gone, Place, Agent, Input, Reply

\* What one pass settles without waiting: approvals only past the prohibitions
\* and permitted by the mode; and what it leaves open may be asked.
LEMMA SettledCases ==
    ASSUME NEW r \in CallState, mode \in Mode
    PROVE  /\ Settled(r) \in Denials \cup Approvals \cup {"none"}
           /\ Settled(r) \notin Denials => Cleared(r)
           /\ Settled(r) \in Approvals => Permitted(mode, Settled(r), r.input)
           /\ Settled(r) = "none" => Askable(r)
<1>1. r.input \in Input
  BY StateTypes
<1>. QED
  BY <1>1
  DEF Settled, EarlyDenial, Protected, ReadOnly, Strays, Denials, Approvals, Cleared, Askable, Permitted,
              Safe, Sensitive, Kind, Input, Mode

\* A call that joins the queue is the one new element of it.
LEMMA Joining ==
    ASSUME queue \in Seq(Call), IsInjective(queue), NEW c \in Call, c \notin ToSet(queue)
    PROVE  /\ Append(queue, c) \in Seq(Call) /\ IsInjective(Append(queue, c))
           /\ ToSet(Append(queue, c)) = ToSet(queue) \cup {c}
<1>. DEFINE q == Append(queue, c)
<1>1. /\ q \in Seq(Call) /\ DOMAIN q = 1 .. Len(queue) + 1 /\ q[Len(queue) + 1] = c
      /\ \A i \in 1 .. Len(queue) : q[i] = queue[i]
      /\ DOMAIN queue = 1 .. Len(queue) /\ Len(queue) \in Nat
  OBVIOUS
<1>. HIDE DEF q
<1>2. ToSet(q) = ToSet(queue) \cup {c}
  <2>1. ToSet(q) \subseteq ToSet(queue) \cup {c}
    BY <1>1 DEF ToSet
  <2>2. c \in ToSet(q) /\ ToSet(queue) \subseteq ToSet(q)
    BY <1>1 DEF ToSet
  <2>. QED
    BY <2>1, <2>2
<1>3. IsInjective(q)
  BY <1>1 DEF IsInjective, ToSet
<1>. QED
  BY <1>1, <1>2, <1>3 DEF q

\* The head leaves the queue, and only the head.
LEMMA Leaving ==
    ASSUME queue \in Seq(Call), IsInjective(queue), queue # <<>>
    PROVE  /\ Head(queue) \in Call
           /\ Tail(queue) \in Seq(Call) /\ IsInjective(Tail(queue))
           /\ ToSet(Tail(queue)) = ToSet(queue) \ {Head(queue)}
           /\ Head(queue) \in ToSet(queue)
<1>. DEFINE q == Tail(queue)
<1>1. /\ q \in Seq(Call) /\ DOMAIN q = 1 .. Len(queue) - 1
      /\ \A i \in 1 .. Len(queue) - 1 : q[i] = queue[i + 1]
      /\ DOMAIN queue = 1 .. Len(queue) /\ Len(queue) \in Nat \ {0}
      /\ Head(queue) = queue[1] /\ Head(queue) \in Call
  OBVIOUS
<1>. HIDE DEF q
<1>2. Head(queue) \in ToSet(queue)
  BY <1>1 DEF ToSet
<1>3. ASSUME NEW i \in DOMAIN q, NEW j \in DOMAIN q, q[i] = q[j] PROVE i = j
  <2>1. i + 1 \in DOMAIN queue /\ j + 1 \in DOMAIN queue /\ i \in Nat /\ j \in Nat
    BY <1>1
  <2>2. queue[i + 1] = queue[j + 1]
    BY <1>1, <1>3
  <2>3. i + 1 = j + 1
    BY <2>1, <2>2 DEF IsInjective
  <2>. QED
    BY <2>1, <2>3
<1>4. ToSet(q) \subseteq ToSet(queue) \ {Head(queue)}
  <2>1. SUFFICES ASSUME NEW i \in DOMAIN q
                 PROVE  q[i] \in ToSet(queue) /\ q[i] # Head(queue)
    BY DEF ToSet
  <2>2. i + 1 \in DOMAIN queue /\ 1 \in DOMAIN queue /\ i + 1 # 1
    BY <1>1
  <2>3. queue[i + 1] # queue[1]
    BY <2>2 DEF IsInjective
  <2>. QED
    BY <1>1, <2>2, <2>3 DEF ToSet
<1>5. ASSUME NEW d \in ToSet(queue) \ {Head(queue)} PROVE d \in ToSet(q)
  <2>1. PICK i \in 1 .. Len(queue) : d = queue[i]
    BY <1>1 DEF ToSet
  <2>2. i - 1 \in 1 .. Len(queue) - 1 /\ q[i - 1] = d
    BY <1>1, <1>5, <2>1
  <2>. QED
    BY <1>1, <2>2 DEF ToSet
<1>. QED
  BY <1>1, <1>2, <1>3, <1>4, <1>5 DEF q, IsInjective

\* The empty queue.
LEMMA Emptied == <<>> \in Seq(Call) /\ IsInjective(<<>>) /\ ToSet(<<>>) = {}
BY DEF IsInjective, ToSet

\* Steps of calls that are no live edits leave the history as it is.
LEMMA Aside ==
    ASSUME Chained, TypeOK, chain' = chain,
           \A d \in Call : Live(d)' <=> Live(d),
           \A d \in Call : Live(d) \/ call[d].at = "done" => call'[d] = call[d]
    PROVE  Chained'
<1>1. PICK pos \in [Call -> Nat] : InOrder(pos)
  BY DEF Chained
<1>2. \A d \in Call : call[d].prev \in Call \cup {None}
  BY StateTypes DEF TypeOK
<1>3. \A d \in Call : Live(d)' <=> Live(d)
  OBVIOUS
<1>4. \A d \in Call : Live(d) => (Free(d)' <=> Free(d))
  <2>. SUFFICES ASSUME NEW d \in Call, Live(d)
                PROVE  Free(d)' <=> Free(d)
    OBVIOUS
  <2>1. call'[d] = call[d]
    BY DEF Live
  <2>2. CASE call[d].prev = None
    BY <2>1, <2>2 DEF Free
  <2>3. CASE call[d].prev \in Call
    <3>1. Free(d) \/ Live(call[d].prev)
      BY <1>1, <2>3 DEF InOrder, Mates
    <3>. QED
      BY <2>1, <2>3, <3>1 DEF Free, Live, Ran
  <2>. QED
    BY <1>2, <2>2, <2>3
<1>5. \A d \in Call : Live(d) => call'[d] = call[d]
  OBVIOUS
<1>6. \A c, d \in Call : Mates(c, d)' <=> Mates(c, d)
  BY <1>3, <1>5 DEF Mates
<1>7. InOrder(pos)'
  BY <1>1, <1>2, <1>3, <1>4, <1>5, <1>6, NoneAssumption
  DEF InOrder, Free, Mates, TypeOK
<1>. QED
  BY <1>1, <1>7 DEF Chained

\* An edit that takes its place behind the entry of its agent comes after all
\* live ones.
LEMMA Queueing ==
    ASSUME TypeOK, Chained, NEW c \in Call, NEW r \in CallState, Edits(r),
           call[c].at \notin {"queued", "executing", "done"},
           NEW s \in CallState, call' = [call EXCEPT ![c] = s],
           s.at = "queued", s.agent = r.agent, s.input = r.input, s.prev = chain[r.agent],
           chain' = [chain EXCEPT ![r.agent] = c]
    PROVE  Chained'
<1>1. PICK pos \in [Call -> Nat] : InOrder(pos)
  BY DEF Chained
<1>a. /\ r.agent \in Agent /\ s.prev \in Call \cup {None}
      /\ \A d \in Call : call[d].prev \in Call \cup {None} /\ call[d].agent \in Agent
  BY StateTypes DEF TypeOK
<1>. DEFINE n == IF s.prev = None THEN 0 ELSE pos[s.prev] + 1
            np == [pos EXCEPT ![c] = n]
<1>2. n \in Nat /\ np \in [Call -> Nat] /\ np[c] = n /\ \A d \in Call \ {c} : np[d] = pos[d]
  BY <1>1, <1>a
<1>n. s.prev # None => s.prev \in Call /\ n = pos[s.prev] + 1
  BY <1>a
<1>. HIDE DEF n, np
<1>3. /\ call'[c] = s /\ \A d \in Call \ {c} : call'[d] = call[d]
      /\ chain'[r.agent] = c /\ \A a \in Agent \ {r.agent} : chain'[a] = chain[a]
  BY <1>a DEF TypeOK
<1>4. ~Live(c) /\ Live(c)' /\ \A d \in Call \ {c} : Live(d)' <=> Live(d)
  BY <1>3 DEF Live, Ran, Edits
<1>5. \A d \in Call \ {c} : Live(d) => (Free(d)' <=> Free(d)) /\ call[d].prev # c
  BY <1>1, <1>3, <1>4, <1>a, NoneAssumption DEF InOrder, Free, Mates
<1>6. s.prev # None => Live(s.prev) /\ call[s.prev].agent = r.agent /\ s.prev # c
  BY <1>1, <1>a, <1>4 DEF InOrder
<1>7. Free(c)' <=> s.prev = None
  BY <1>3, <1>4, <1>6, <1>a DEF Free, Live, Ran
<1>8. ASSUME NEW d \in Call, Live(d), call[d].agent = r.agent
      PROVE  s.prev # None /\ pos[d] <= pos[s.prev] /\ pos[d] < n
  BY <1>1, <1>8, <1>2, <1>n, <1>a DEF InOrder
<1>9. /\ \A d \in Call \ {c} :
            Mates(c, d)' \/ Mates(d, c)' => Live(d) /\ call[d].agent = r.agent
      /\ \A d, e \in Call \ {c} : Mates(d, e)' <=> Mates(d, e)
  <2>1. \A d \in Call \ {c} :
          Mates(c, d)' \/ Mates(d, c)' => Live(d) /\ call[d].agent = r.agent
    BY <1>3, <1>4 DEF Mates
  <2>2. ASSUME NEW d \in Call \ {c}, NEW e \in Call \ {c}
        PROVE  Mates(d, e)' <=> Mates(d, e)
    <3>1. /\ (Live(d)' <=> Live(d)) /\ (Live(e)' <=> Live(e))
          /\ call'[d] = call[d] /\ call'[e] = call[e]
      BY <1>3, <1>4
    <3>. QED
      BY <3>1 DEF Mates
  <2>. QED
    BY <2>1, <2>2
<1>. DEFINE A == \A d, e \in Call : Mates(d, e)' /\ d # e => np[d] # np[e]
            B == \A d, e \in Call : Mates(d, e)' /\ np[d] < np[e] =>
                   ~Free(e)' /\ np[d] <= np[call'[e].prev]
            C == \A d \in Call : Live(d)' /\ ~Free(d)' =>
                   Mates(call[d].prev, d)' /\ np[call'[d].prev] < np[d]
            D == \A d \in Call : Live(d)' /\ call'[d].at = "executing" => Free(d)'
            E == \A a \in Agent :
                   chain'[a] # None => Live(chain[a])' /\ call'[chain'[a]].agent = a
            F == \A d \in Call : Live(d)' =>
                   chain'[call'[d].agent] # None /\ np[d] <= np[chain'[call'[d].agent]]
<1>10. A
  BY <1>1, <1>2, <1>8, <1>9 DEF InOrder
<1>11. B
  <2>. SUFFICES ASSUME NEW d \in Call, NEW e \in Call, Mates(d, e)', np[d] < np[e]
                PROVE  ~Free(e)' /\ np[d] <= np[call'[e].prev]
    OBVIOUS
  <2>1. CASE e = c
    BY <2>1, <1>1, <1>2, <1>3, <1>6, <1>7, <1>8, <1>9, <1>a
  <2>2. CASE e # c /\ d = c
    BY <2>2, <1>2, <1>8, <1>9
  <2>3. CASE e # c /\ d # c
    <3>1. Mates(d, e) /\ pos[d] < pos[e] /\ Live(e)
      BY <2>3, <1>2, <1>9 DEF Mates
    <3>2. ~Free(e) /\ pos[d] <= pos[call[e].prev]
      BY <3>1, <1>1 DEF InOrder
    <3>. QED
      BY <3>1, <3>2, <2>3, <1>2, <1>3, <1>5, <1>a DEF Free
  <2>. QED
    BY <2>1, <2>2, <2>3
<1>12. C
  <2>. SUFFICES ASSUME NEW d \in Call, Live(d)', ~Free(d)'
                PROVE  Mates(call[d].prev, d)' /\ np[call'[d].prev] < np[d]
    OBVIOUS
  <2>1. CASE d = c
    BY <2>1, <1>1, <1>2, <1>n, <1>3, <1>4, <1>6, <1>7, <1>a DEF Mates
  <2>2. CASE d # c
    <3>1. Live(d) /\ ~Free(d) /\ call[d].prev \in Call \ {c}
      BY <2>2, <1>4, <1>5, <1>a DEF Free
    <3>2. Mates(call[d].prev, d) /\ pos[call[d].prev] < pos[d]
      BY <3>1, <1>1 DEF InOrder
    <3>. QED
      BY <3>1, <3>2, <2>2, <1>2, <1>3, <1>9 DEF Mates
  <2>. QED
    BY <2>1, <2>2
<1>13. D
  BY <1>1, <1>3, <1>4, <1>5 DEF InOrder
<1>14. E
  <2>. SUFFICES ASSUME NEW a \in Agent, chain'[a] # None
                PROVE  Live(chain[a])' /\ call'[chain'[a]].agent = a
    OBVIOUS
  <2>1. CASE a = r.agent
    BY <2>1, <1>3, <1>4
  <2>2. CASE a # r.agent
    <3>1. chain'[a] = chain[a] /\ chain[a] \in Call
      BY <2>2, <1>3 DEF TypeOK
    <3>2. Live(chain[a]) /\ call[chain[a]].agent = a
      BY <3>1, <1>1 DEF InOrder
    <3>3. chain[a] # c
      BY <3>2, <1>4
    <3>. QED
      BY <3>1, <3>2, <3>3, <1>3, <1>4 DEF Live, Ran
  <2>. QED
    BY <2>1, <2>2
<1>15. F
  <2>. SUFFICES ASSUME NEW d \in Call, Live(d)'
                PROVE  /\ chain'[call'[d].agent] # None
                       /\ np[d] <= np[chain'[call'[d].agent]]
    OBVIOUS
  <2>1. CASE d = c
    BY <2>1, <1>2, <1>3, NoneAssumption
  <2>2. CASE d # c /\ call[d].agent = r.agent
    BY <2>2, <1>1, <1>2, <1>3, <1>4, <1>8, NoneAssumption
  <2>3. CASE d # c /\ call[d].agent # r.agent
    <3>1. Live(d) /\ chain[call[d].agent] # None /\ pos[d] <= pos[chain[call[d].agent]]
      BY <2>3, <1>1, <1>4 DEF InOrder
    <3>2. Live(chain[call[d].agent]) /\ chain[call[d].agent] \in Call
      BY <3>1, <1>1, <1>a DEF InOrder, TypeOK
    <3>. QED
      BY <2>3, <3>1, <3>2, <1>2, <1>3, <1>4, <1>a
  <2>. QED
    BY <2>1, <2>2, <2>3
<1>16. InOrder(np)'
  BY <1>10, <1>11, <1>12, <1>13, <1>14, <1>15 DEF InOrder, Mates
<1>. QED
  BY <1>2, <1>16 DEF Chained

\* The edit that finishes was the first; it takes the entry along only when it
\* was the last as well.
LEMMA Releasing ==
    ASSUME TypeOK, Chained, NEW c \in Call, call[c].at = "executing",
           call' = [call EXCEPT ![c] = Gone],
           chain' = [a \in Agent |-> IF chain[a] = c THEN None ELSE chain[a]]
    PROVE  Chained'
<1>1. PICK pos \in [Call -> Nat] : InOrder(pos)
  BY DEF Chained
<1>2. \A d \in Call : call[d].prev \in Call \cup {None} /\ call[d].agent \in Agent
  BY StateTypes DEF TypeOK
<1>3. /\ call'[c].at = "done" /\ \A d \in Call \ {c} : call'[d] = call[d]
      /\ \A a \in Agent : chain'[a] = IF chain[a] = c THEN None ELSE chain[a]
  BY GoneTypes DEF TypeOK
<1>4. ~Live(c)' /\ \A d \in Call \ {c} : Live(d)' <=> Live(d)
  BY <1>3 DEF Live, Ran, Edits
<1>5. \A d, e \in Call : Mates(d, e)' <=> Mates(d, e) /\ d # c /\ e # c
  BY <1>3, <1>4 DEF Mates
\* Whoever runs is the first of its agent.
<1>6. ASSUME NEW d \in Call \ {c}, Mates(d, c) PROVE pos[c] < pos[d]
  <2>1. Mates(c, d) /\ Live(c)
    BY <1>6 DEF Mates
  <2>2. pos[c] # pos[d] /\ pos[c] \in Nat /\ pos[d] \in Nat
    BY <1>1, <2>1 DEF InOrder
  <2>3. Free(c)
    BY <1>1, <2>1 DEF InOrder
  <2>4. ~(pos[d] < pos[c])
    BY <1>1, <1>6, <2>3 DEF InOrder
  <2>. QED
    BY <2>2, <2>4
<1>7. ASSUME NEW d \in Call \ {c}, Live(d), ~Free(d)
      PROVE  /\ Free(d)' <=> call[d].prev = c
             /\ Mates(call[d].prev, d) /\ pos[call[d].prev] < pos[d]
  BY <1>1, <1>2, <1>3, <1>4, <1>7, NoneAssumption
  DEF InOrder, Free, Mates, Live, Ran
<1>8. \A d \in Call \ {c} : Live(d) /\ Free(d) => Free(d)'
  BY <1>2, <1>3 DEF Free
<1>9. ASSUME NEW d \in Call, NEW e \in Call, Mates(d, e)', pos[d] < pos[e]
      PROVE  ~Free(e)' /\ pos[d] <= pos[call'[e].prev]
  <2>1. Mates(d, e) /\ d # c /\ e # c /\ Live(e)
    BY <1>5, <1>9 DEF Mates
  <2>2. ~Free(e) /\ pos[d] <= pos[call[e].prev]
    BY <2>1, <1>1, <1>9 DEF InOrder
  <2>3. call[e].prev # c
    BY <2>1, <2>2, <1>1, <1>6, <1>7 DEF Mates
  <2>. QED
    BY <2>1, <2>2, <2>3, <1>3, <1>7
<1>10. ASSUME NEW d \in Call, Live(d)', ~Free(d)'
       PROVE  Mates(call[d].prev, d)' /\ pos[call'[d].prev] < pos[d]
  <2>1. d # c /\ Live(d) /\ ~Free(d) /\ call[d].prev # c /\ call'[d] = call[d]
    BY <1>3, <1>4, <1>7, <1>8, <1>10
  <2>2. Mates(call[d].prev, d) /\ pos[call[d].prev] < pos[d] /\ call[d].prev \in Call
    BY <2>1, <1>2, <1>7 DEF Free
  <2>3. Mates(call[d].prev, d)'
    BY <2>1, <2>2, <1>3, <1>4 DEF Mates
  <2>. QED
    BY <2>1, <2>2, <2>3
<1>11. ASSUME NEW d \in Call, Live(d)', call'[d].at = "executing"
       PROVE  Free(d)'
  BY <1>1, <1>3, <1>4, <1>8, <1>11 DEF InOrder
<1>12. ASSUME NEW a \in Agent, chain'[a] # None
       PROVE  Live(chain[a])' /\ call'[chain'[a]].agent = a /\ chain'[a] = chain[a]
  <2>1. chain[a] # c /\ chain'[a] = chain[a] /\ chain[a] \in Call
    BY <1>3, <1>12 DEF TypeOK
  <2>2. Live(chain[a]) /\ call[chain[a]].agent = a
    BY <2>1, <1>1, NoneAssumption DEF InOrder
  <2>. QED
    BY <2>1, <2>2, <1>3, <1>4 DEF Live, Ran
<1>13. ASSUME NEW d \in Call, Live(d)'
       PROVE  /\ chain'[call'[d].agent] # None
              /\ pos[d] <= pos[chain'[call'[d].agent]]
  <2>1. d # c /\ Live(d) /\ call'[d] = call[d]
    BY <1>3, <1>4, <1>13
  <2>2. chain[call[d].agent] # None /\ pos[d] <= pos[chain[call[d].agent]]
    BY <2>1, <1>1 DEF InOrder
  <2>3. chain[call[d].agent] # c
    <3>. SUFFICES ASSUME chain[call[d].agent] = c PROVE FALSE
      OBVIOUS
    <3>1. Mates(d, c)
      BY <2>1, <2>2, <1>1, <1>2 DEF InOrder, Mates
    <3>. QED
      BY <3>1, <2>1, <2>2, <1>1, <1>6
  <2>. QED
    BY <2>1, <2>2, <2>3, <1>2, <1>3
<1>14. \A d, e \in Call : Mates(d, e)' /\ d # e => pos[d] # pos[e]
  BY <1>1, <1>5 DEF InOrder
<1>15. InOrder(pos)'
  BY <1>9, <1>10, <1>11, <1>12, <1>13, <1>14 DEF InOrder, Mates
<1>. QED
  BY <1>1, <1>15 DEF Chained

\* An edit that starts to execute keeps its position.
LEMMA Starting ==
    ASSUME TypeOK, Chained, NEW c \in Call, call[c].at = "queued",
           call[c].prev # None => call[call[c].prev].at = "done",
           call' = [call EXCEPT ![c] = [call[c] EXCEPT !.at = "executing"]],
           chain' = chain
    PROVE  Chained'
<1>1. PICK pos \in [Call -> Nat] : InOrder(pos)
  BY DEF Chained
<1>2. \A d \in Call : /\ call[d] \in CallState /\ call[d].agent \in Agent
                      /\ call[d].prev \in Call \cup {None}
  BY StateTypes DEF TypeOK
<1>3. /\ call'[c].at = "executing" /\ call'[c].agent = call[c].agent
      /\ call'[c].input = call[c].input /\ call'[c].prev = call[c].prev
      /\ \A d \in Call \ {c} : call'[d] = call[d]
  BY <1>2 DEF TypeOK, CallState
<1>4. \A d \in Call : /\ call'[d].agent = call[d].agent /\ call'[d].prev = call[d].prev
                      /\ call'[d].at = "done" <=> call[d].at = "done"
                      /\ Live(d)' <=> Live(d)
                      /\ call'[d].at = "executing" => call[d].at = "executing" \/ d = c
  BY <1>3 DEF Live, Ran, Edits
<1>5. \A d \in Call : Free(d)' <=> Free(d)
  BY <1>2, <1>4 DEF Free
<1>6. \A d, e \in Call : Mates(d, e)' <=> Mates(d, e)
  BY <1>4 DEF Mates
<1>7. Free(c)
  BY DEF Free
<1>8. ASSUME NEW d \in Call, Live(d)', ~Free(d)'
      PROVE  /\ Mates(call[d].prev, d)' /\ pos[call'[d].prev] < pos[d]
             /\ call'[d].prev = call[d].prev
  <2>1. Live(d) /\ ~Free(d) /\ call'[d].prev = call[d].prev
    BY <1>4, <1>5, <1>8
  <2>2. Mates(call[d].prev, d) /\ pos[call[d].prev] < pos[d] /\ call[d].prev \in Call
    BY <2>1, <1>1, <1>2 DEF InOrder, Free
  <2>. QED
    BY <2>1, <2>2, <1>6
<1>9. \A a \in Agent : chain'[a] # None => Live(chain[a])' /\ call'[chain'[a]].agent = a
  BY <1>1, <1>4 DEF InOrder, TypeOK
<1>10. \A d \in Call : Live(d)' => /\ chain'[call'[d].agent] # None
                                   /\ pos[d] <= pos[chain'[call'[d].agent]]
  BY <1>1, <1>4 DEF InOrder
<1>11. \A d \in Call : Live(d)' /\ call'[d].at = "executing" => Free(d)'
  BY <1>1, <1>4, <1>5, <1>7 DEF InOrder
<1>12. \A d, e \in Call : Mates(d, e)' /\ pos[d] < pos[e] =>
          ~Free(e)' /\ pos[d] <= pos[call'[e].prev]
  BY <1>1, <1>4, <1>5, <1>6 DEF InOrder
<1>13. \A d, e \in Call : Mates(d, e)' /\ d # e => pos[d] # pos[e]
  BY <1>1, <1>6 DEF InOrder
<1>14. \A d \in Call : Live(d)' /\ ~Free(d)' =>
          Mates(call[d].prev, d)' /\ pos[call'[d].prev] < pos[d]
  BY <1>8
<1>15. InOrder(pos)'
  BY <1>9, <1>10, <1>11, <1>12, <1>13, <1>14 DEF InOrder, Mates
<1>. QED
  BY <1>1, <1>15 DEF Chained

\* What a step of one call leaves alone.
Steady == UNCHANGED <<mode, screen, closed, cancelled, menu, origin, switches>>

Ready(c) == c \in Call /\ call[c].at \in {"new", "hook", "withdrawn"} \cup Asked

\* A step that keeps the invariant and obeys both action properties.
Good == IInv' /\ LetThrough /\ Seen

\* PermissionGate.publish keeps the invariant, whoever settles the call.
LEMMA Publishing ==
    ASSUME IInv, Steady, NEW c \in Call, NEW r \in CallState,
           NEW outcome \in Denials \cup Approvals,
           call[c].at \in {"new", "hook", "withdrawn", "classifying", "answered"},
           outcome \in Approvals => Cleared(r) /\ Permitted(mode, outcome, r.input),
           Publish(c, r, outcome), queue' = queue, rules' \in SUBSET Grantable
    PROVE  Good
<1>. USE DEF IInv
<1>1. /\ records[c] = 0 /\ records \in [Call -> Nat] /\ ~Ran(c)
      /\ records' = [records EXCEPT ![c] = 1]
  <2>1. Held(call[c], records[c]) /\ records \in [Call -> Nat]
    BY DEF Judged, TypeOK
  <2>2. records[c] = 0 /\ ~Ran(c)
    BY <2>1 DEF Held, Asked, Ran
  <2>3. records' = [records EXCEPT ![c] = records[c] + 1]
    BY DEF Publish
  <2>. QED
    BY <2>1, <2>2, <2>3
<1>2. chain \in [Agent -> Call \cup {None}] /\ r.agent \in Agent
  BY StateTypes DEF TypeOK
<1>3. /\ \E s \in CallState : /\ call' = [call EXCEPT ![c] = s] /\ Held(s, 1)'
                              /\ s.at \in {"queued", "executing", "done"}
                              /\ s.at # "done" => Permitted(mode, s.word, s.input)
      /\ Chained' /\ chain' \in [Agent -> Call \cup {None}]
  <2>1. CASE (outcome \in Denials \/ cancelled) /\ Put(c, Gone) /\ UNCHANGED chain
    <3>1. Held(Gone, 1)'
      BY GoneTypes DEF Held, Asked
    <3>2. Chained'
      <4>1. \A d \in Call : d # c => call'[d] = call[d]
        BY <2>1 DEF Put, TypeOK
      <4>2. call'[c] = Gone
        BY <2>1 DEF Put, TypeOK
      <4>. QED
        BY <2>1, <4>1, <4>2, <1>1, GoneTypes, Aside DEF Live, Ran, Edits
    <3>. QED
      BY <2>1, <3>1, <3>2, <1>2, GoneTypes DEF Put
  <2>2. CASE outcome \notin Denials /\ Start(c, r, outcome)
    <3>0. outcome \in Approvals /\ Cleared(r) /\ Permitted(mode, outcome, r.input)
      BY <2>2
    <3>1. CASE /\ ~Edits(r)
               /\ Put(c, [r EXCEPT !.at = "executing", !.word = outcome, !.prev = None])
               /\ UNCHANGED chain
      <4>. DEFINE s == [r EXCEPT !.at = "executing", !.word = outcome, !.prev = None]
      <4>1. s \in CallState
        BY <3>0, Moves DEF Place
      <4>2. s.at = "executing" /\ s.input = r.input /\ s.agent = r.agent /\ s.word = outcome
        BY DEF CallState
      <4>3. Put(c, s)
        BY <3>1
      <4>. HIDE DEF s
      <4>4. Held(s, 1)'
        BY <3>0, <4>2 DEF Held, Asked, Cleared, Protected, Strays, Steady
      <4>5. Chained'
        <5>1. call'[c] = s /\ \A d \in Call : d # c => call'[d] = call[d]
          BY <4>3 DEF Put, TypeOK
        <5>2. ~Live(c)' /\ ~Live(c)
          BY <3>1, <4>2, <5>1, <1>1 DEF Live, Edits
        <5>. QED
          BY <3>1, <5>1, <5>2, Aside DEF Live, Ran, Edits
      <4>. QED
        BY <3>0, <3>1, <4>1, <4>2, <4>3, <4>4, <4>5, <1>2 DEF Put
    <3>2. CASE /\ Edits(r)
               /\ Put(c, [r EXCEPT !.at = "queued", !.word = outcome, !.prev = chain[r.agent]])
               /\ chain' = [chain EXCEPT ![r.agent] = c]
      <4>1. PICK s \in CallState :
              s = [r EXCEPT !.at = "queued", !.word = outcome, !.prev = chain[r.agent]]
        BY <3>0, <1>2, Moves DEF Place
      <4>2. /\ s.at = "queued" /\ s.input = r.input /\ s.agent = r.agent
            /\ s.word = outcome /\ s.prev = chain[r.agent]
        BY <4>1 DEF CallState
      <4>3. call' = [call EXCEPT ![c] = s]
        BY <3>2, <4>1 DEF Put
      <4>4. Held(s, 1)'
        <5>1. Cleared(s)
          BY <3>0, <4>2 DEF Cleared, Protected, Strays
        <5>. QED
          BY <4>2, <5>1 DEF Held, Asked, Cleared, Protected, Strays, Steady
      <4>5. Chained'
        BY <3>2, <4>1, <4>2, <4>3, Queueing
      <4>. QED
        <5>1. chain' \in [Agent -> Call \cup {None}]
          BY <3>2, <1>2
        <5>2. s.at # "done" => Permitted(mode, s.word, s.input)
          BY <3>0, <4>2
        <5>. QED
          BY <4>1, <4>2, <4>3, <4>4, <4>5, <5>1, <5>2
    <3>. QED
      BY <2>2, <3>1, <3>2 DEF Start
  <2>. QED
    BY <2>1, <2>2 DEF Publish
<1>4. PICK s \in CallState : /\ call' = [call EXCEPT ![c] = s] /\ Held(s, 1)'
                             /\ s.at \in {"queued", "executing", "done"}
                             /\ s.at # "done" => Permitted(mode, s.word, s.input)
  BY <1>3
<1>5. call'[c] = s /\ \A d \in Call \ {c} : call'[d] = call[d] /\ records'[d] = records[d]
  BY <1>1, <1>4 DEF TypeOK
<1>6. TypeOK'
  BY <1>1, <1>3, <1>4 DEF TypeOK, Steady
<1>7. Judged'
  BY <1>1, <1>4, <1>5
  DEF Judged, Held, Steady, Askable, Judgeable, Cleared, Protected, Strays, TypeOK
<1>8. Queued'
  BY <1>4, <1>5 DEF Queued
<1>9. LetThrough
  BY <1>4, <1>5 DEF LetThrough, Ran, Steady
<1>10. Seen
  BY <1>4, <1>5 DEF Seen
<1>. QED
  BY <1>3, <1>6, <1>7, <1>8, <1>9, <1>10 DEF Good

\* So does any other step of a call that waits: it waits on elsewhere, or ends.
LEMMA Waits ==
    ASSUME IInv, Steady, rules' = rules, chain' = chain, records' = records,
           NEW c \in Call, NEW s \in CallState,
           call[c].at \in {"new", "hook", "withdrawn", "classifying"},
           call' = [call EXCEPT ![c] = s],
           Held(s, 0), s.at \in {"hook", "classifying", "asking", "done"},
           \/ s.at # "asking" /\ queue' = queue
           \/ s.at = "asking" /\ queue' = Append(queue, c)
    PROVE  Good
<1>. USE DEF IInv
<1>1. call'[c] = s /\ \A d \in Call : d # c => call'[d] = call[d]
  BY DEF TypeOK
<1>2. /\ records[c] = 0 /\ c \notin ToSet(queue)
      /\ ~Live(c) /\ ~Live(c)' /\ call[c].at # "done"
  BY <1>1 DEF Judged, Held, Asked, Queued, Live, Ran
<1>3. Chained'
  BY <1>1, <1>2, Aside DEF Live, Ran, Edits
<1>4. /\ queue' \in Seq(Call) /\ IsInjective(queue')
      /\ ToSet(queue') = IF s.at = "asking" THEN ToSet(queue) \cup {c} ELSE ToSet(queue)
  BY <1>2, Joining DEF TypeOK
<1>5. TypeOK'
  BY <1>4 DEF TypeOK, Steady
<1>6. Judged'
  BY <1>1, <1>2 DEF Judged, Held, Steady, Askable, Judgeable, Cleared, Protected, Strays
<1>7. Queued'
  BY <1>1, <1>2, <1>4 DEF Queued
<1>8. LetThrough
  BY <1>1 DEF LetThrough, Ran
<1>9. Seen
  BY <1>1, <1>2 DEF Seen
<1>. QED
  BY <1>3, <1>5, <1>6, <1>7, <1>8, <1>9 DEF Good

\* A question that is put, or answered no by a closed queue.
LEMMA Asking ==
    ASSUME IInv, Steady, rules' = rules, NEW c \in Call, NEW r \in CallState,
           call[c].at \in {"hook", "withdrawn", "classifying"},
           Cleared(r), Askable(r), Ask(c, r)
    PROVE  Good
<1>1. rules \in SUBSET Grantable
  BY DEF IInv, TypeOK
<1>2. CASE closed /\ Publish(c, r, "user-denied") /\ UNCHANGED queue
  BY <1>1, <1>2, Publishing DEF Denials, Approvals
<1>3. CASE /\ queue' = Append(queue, c) /\ Put(c, [r EXCEPT !.at = "asking"])
           /\ UNCHANGED <<chain, records>>
  <2>1. PICK s \in CallState : s = [r EXCEPT !.at = "asking"]
    BY Moves DEF Place
  <2>2. s.at = "asking" /\ s.input = r.input /\ s.agent = r.agent
    BY <2>1 DEF CallState
  <2>3. Held(s, 0)
    BY <2>2 DEF Held, Asked, Cleared, Protected, Strays, Askable
  <2>. QED
    BY <1>3, <2>1, <2>2, <2>3, Waits DEF Put
<1>. QED
  BY <1>2, <1>3 DEF Ask

\* One pass of the gate, after the hooks or under a new mode.
LEMMA Judging ==
    ASSUME IInv, Steady, rules' = rules, NEW c \in Call, NEW r \in CallState,
           call[c].at \in {"hook", "withdrawn"}, Judge(c, r)
    PROVE  Good
<1>1. mode \in Mode /\ rules \in SUBSET Grantable
  BY DEF IInv, TypeOK
<1>2. CASE Settled(r) # "none" /\ Publish(c, r, Settled(r)) /\ UNCHANGED queue
  <2>1. PICK o \in Denials \cup Approvals : o = Settled(r)
    BY <1>1, <1>2, SettledCases
  <2>2. o \in Approvals => Cleared(r) /\ Permitted(mode, o, r.input)
    BY <1>1, <2>1, SettledCases DEF Approvals, Denials
  <2>3. Publish(c, r, o)
    BY <1>2, <2>1
  <2>. QED
    BY <1>1, <1>2, <2>2, <2>3, Publishing
<1>3. CASE /\ Settled(r) = "none" /\ mode = "auto" /\ ~Sensitive(r.input)
           /\ Put(c, [r EXCEPT !.at = "classifying"]) /\ UNCHANGED <<queue, chain, records>>
  <2>1. PICK s \in CallState : s = [r EXCEPT !.at = "classifying"]
    BY Moves DEF Place
  <2>2. s.at = "classifying" /\ s.input = r.input /\ s.agent = r.agent
    BY <2>1 DEF CallState
  <2>3. Cleared(r) /\ Askable(r) /\ Judgeable(r)
    BY <1>1, <1>3, SettledCases DEF Denials, Judgeable
  <2>4. Held(s, 0)
    BY <2>2, <2>3 DEF Held, Asked, Cleared, Protected, Strays, Askable, Judgeable
  <2>. QED
    BY <1>3, <2>1, <2>2, <2>4, Waits DEF Put
<1>4. CASE Settled(r) = "none" /\ Ask(c, r)
  <2>1. Cleared(r) /\ Askable(r)
    BY <1>1, <1>4, SettledCases DEF Denials
  <2>. QED
    BY <1>4, <2>1, Asking
<1>. QED
  BY <1>2, <1>3, <1>4 DEF Judge

\* The model asks for the call.
LEMMA Issuing ==
    ASSUME IInv, NEW c \in Call, Issue(c)
    PROVE  Good
<1>1. /\ call[c] \in CallState /\ call[c].at = "new" /\ menu[c] \subseteq Agent \X Input
      /\ rules \in SUBSET Grantable /\ Steady /\ UNCHANGED <<rules, queue>>
  BY DEF IInv, TypeOK, Issue, Steady
<1>2. PICK m \in Agent \X Input :
        LET r == [call[c] EXCEPT !.at = "hook", !.agent = m[1], !.input = m[2]] IN
        \/ EarlyDenial(m[2]) # "none" /\ Publish(c, r, EarlyDenial(m[2]))
        \/ EarlyDenial(m[2]) = "none" /\ Put(c, r) /\ UNCHANGED <<chain, records>>
        \/ EarlyDenial(m[2]) = "none" /\ Put(c, Gone) /\ UNCHANGED <<chain, records>>
  BY <1>1 DEF Issue
<1>3. m[1] \in Agent /\ m[2] \in Input
  OBVIOUS
<1>4. PICK r \in CallState :
        r = [call[c] EXCEPT !.at = "hook", !.agent = m[1], !.input = m[2]]
  BY <1>1, <1>3, Moves DEF Place
<1>5. r.at = "hook"
  BY <1>1, <1>4 DEF CallState
<1>6. CASE EarlyDenial(m[2]) # "none" /\ Publish(c, r, EarlyDenial(m[2]))
  <2>1. PICK o \in Denials : o = EarlyDenial(m[2])
    BY <1>6 DEF EarlyDenial, Denials
  <2>2. Publish(c, r, o) /\ o \notin Approvals
    BY <1>6, <2>1 DEF Denials, Approvals
  <2>. QED
    BY <1>1, <2>2, Publishing
<1>7. CASE Put(c, r) /\ UNCHANGED <<chain, records>>
  <2>1. Held(r, 0)
    BY <1>5 DEF Held, Asked
  <2>. QED
    BY <1>1, <1>5, <1>7, <2>1, Waits DEF Put
<1>8. CASE Put(c, Gone) /\ UNCHANGED <<chain, records>>
  <2>1. Held(Gone, 0)
    BY GoneTypes DEF Held, Asked
  <2>. QED
    BY <1>1, <1>8, <2>1, GoneTypes, Waits DEF Put
<1>. QED
  BY <1>2, <1>4, <1>6, <1>7, <1>8

\* The hooks are through.
LEMMA HooksEnding ==
    ASSUME IInv, NEW c \in Call, HooksEnd(c)
    PROVE  Good
<1>1. call[c] \in CallState /\ call[c].at = "hook" /\ Steady /\ rules' = rules
  BY DEF IInv, TypeOK, HooksEnd, Steady
<1>2. CASE Put(c, Gone) /\ UNCHANGED <<queue, chain, records>>
  <2>1. Held(Gone, 0)
    BY GoneTypes DEF Held, Asked
  <2>. QED
    BY <1>1, <1>2, <2>1, GoneTypes, Waits DEF Put
<1>3. ASSUME NEW i \in {call[c].input}
                      \cup {j \in Rewrites : Tool(j) = Tool(call[c].input)},
             Judge(c, [call[c] EXCEPT !.input = i])
      PROVE  Good
  <2>1. i \in Input
    BY <1>1, StateTypes, RewriteAssumption
  <2>2. PICK r \in CallState : r = [call[c] EXCEPT !.input = i]
    BY <1>1, <2>1, Moves
  <2>. QED
    BY <1>1, <1>3, <2>2, Judging
<1>. QED
  BY <1>2, <1>3 DEF HooksEnd

\* The classifier is through.
LEMMA Verdicts ==
    ASSUME IInv, NEW c \in Call, Verdict(c)
    PROVE  Good
<1>1. /\ call[c] \in CallState /\ call[c].at = "classifying" /\ Steady /\ rules' = rules
      /\ rules \in SUBSET Grantable /\ Held(call[c], records[c])
  BY DEF IInv, TypeOK, Verdict, Steady, Judged
<1>2. PICK r \in CallState : r = call[c]
  BY <1>1
<1>3. Cleared(r) /\ Askable(r) /\ Judgeable(r)
  BY <1>1, <1>2 DEF Held, Asked
<1>4. CASE Publish(c, r, "classifier") /\ UNCHANGED queue
  <2>1. "classifier" \in Approvals /\ Permitted(mode, "classifier", r.input)
    BY <1>3 DEF Approvals, Permitted, Askable, Judgeable
  <2>. QED
    BY <1>1, <1>3, <1>4, <2>1, Publishing
<1>5. CASE Ask(c, r)
  BY <1>1, <1>3, <1>5, Asking
<1>. QED
  BY <1>2, <1>4, <1>5 DEF Verdict

\* The pass takes the answer.
LEMMA Continuing ==
    ASSUME IInv, NEW c \in Call, Continue(c)
    PROVE  Good
<1>1. /\ call[c] \in CallState /\ call[c].at = "answered" /\ Steady /\ queue' = queue
      /\ rules \in SUBSET Grantable /\ Held(call[c], records[c])
  BY DEF IInv, TypeOK, Continue, Steady, Judged
<1>2. PICK r \in CallState : r = [call[c] EXCEPT !.reply = "no"]
  BY <1>1, Moves DEF Reply
<1>3. r.input = call[c].input /\ r.agent = call[c].agent
  BY <1>1, <1>2 DEF CallState
<1>4. Cleared(r) /\ Askable(r)
  BY <1>1, <1>3 DEF Held, Asked, Cleared, Protected, Strays, Askable
<1>5. "user-approved" \in Approvals /\ Permitted(mode, "user-approved", r.input)
  BY <1>4 DEF Approvals, Permitted, Askable
<1>6. CASE Publish(c, call[c], "user-denied") /\ UNCHANGED rules
  <2>1. PICK s \in CallState : s = call[c]
    BY <1>1
  <2>2. "user-denied" \in Denials /\ "user-denied" \notin Approvals
    BY DEF Denials, Approvals
  <2>. QED
    BY <1>1, <1>6, <2>1, <2>2, Publishing
<1>7. CASE Publish(c, r, "user-approved") /\ rules' \in SUBSET Grantable
  BY <1>1, <1>4, <1>5, <1>7, Publishing
<1>. QED
  <2>1. call[c].reply = "always" /\ rules' = rules \cup {call[c].input} =>
          rules' \in SUBSET Grantable
    BY <1>1 DEF Held
  <2>. QED
    BY <1>1, <1>2, <1>6, <1>7, <2>1 DEF Continue

\* A withdrawn pass starts over.
LEMMA Rejudging ==
    ASSUME IInv, NEW c \in Call, Rejudge(c)
    PROVE  Good
<1>1. /\ call[c] \in CallState /\ call[c].at = "withdrawn" /\ Steady /\ rules' = rules
      /\ rules \in SUBSET Grantable
  BY DEF IInv, TypeOK, Rejudge, Steady
<1>2. CASE Publish(c, call[c], "restart-limit-denied") /\ UNCHANGED queue
  <2>1. PICK s \in CallState : s = call[c]
    BY <1>1
  <2>2. "restart-limit-denied" \in Denials /\ "restart-limit-denied" \notin Approvals
    BY DEF Denials, Approvals
  <2>. QED
    BY <1>1, <1>2, <2>1, <2>2, Publishing
<1>3. CASE /\ call[c].attempt < MaxRestarts
           /\ Judge(c, [call[c] EXCEPT !.attempt = @ + 1])
  <2>1. PICK s \in CallState : s = [call[c] EXCEPT !.attempt = @ + 1]
    BY <1>1, <1>3, Moves
  <2>. QED
    BY <1>1, <1>3, <2>1, Judging
<1>. QED
  BY <1>2, <1>3 DEF Rejudge

\* A key answers the question.
LEMMA Answering ==
    ASSUME IInv, NEW reply \in Reply, Answer(reply)
    PROVE  Good
<1>. USE DEF IInv
<1>1. queue # <<>> /\ screen = Request(Head(queue))
  BY DEF Answer, Current
<1>2. /\ Head(queue) \in Call /\ Head(queue) \in ToSet(queue)
      /\ queue' \in Seq(Call) /\ IsInjective(queue')
      /\ ToSet(queue') = ToSet(queue) \ {Head(queue)}
  BY <1>1, Leaving DEF TypeOK, Answer
<1>3. PICK c \in Call : c = Head(queue)
  BY <1>2
<1>4. call[c] \in CallState /\ call[c].at = "asking" /\ Held(call[c], records[c])
  BY <1>2, <1>3 DEF Queued, Judged, TypeOK
<1>5. PICK s \in CallState : s = [call[c] EXCEPT !.at = "answered", !.reply = reply]
  BY <1>4, Moves DEF Place
<1>6. /\ s.at = "answered" /\ s.reply = reply
      /\ s.input = call[c].input /\ s.agent = call[c].agent
  BY <1>4, <1>5 DEF CallState
<1>7. call' = [call EXCEPT ![c] = s]
  BY <1>3, <1>5 DEF Answer, Put
<1>8. call'[c] = s /\ \A d \in Call : d # c => call'[d] = call[d]
  BY <1>7 DEF TypeOK
<1>9. Chained'
  <2>1. ~Live(c) /\ ~Live(c)'
    BY <1>4, <1>6, <1>8 DEF Live, Ran
  <2>. QED
    BY <1>4, <1>8, <2>1, Aside DEF Live, Ran, Edits, Answer
<1>10. TypeOK'
  BY <1>2, <1>7 DEF TypeOK, Answer
<1>11. Held(s, records[c])'
  <2>1. reply = "always" => s.input \in Grantable
    BY <1>3, <1>6 DEF Answer
  <2>. QED
    BY <1>4, <1>6, <2>1
    DEF Held, Asked, Cleared, Protected, Strays, Askable, Judgeable, Answer
<1>12. Judged'
  BY <1>8, <1>11 DEF Judged, Held, Askable, Judgeable, Cleared, Protected, Strays, Answer
<1>13. Queued'
  BY <1>2, <1>3, <1>6, <1>8 DEF Queued
<1>14. LetThrough
  BY <1>6, <1>8 DEF LetThrough, Ran
<1>15. Seen
  BY <1>1, <1>3, <1>8 DEF Seen
<1>. QED
  BY <1>9, <1>10, <1>12, <1>13, <1>14, <1>15 DEF Good

\* Interrupt and close: everything queued is answered with no.
LEMMA Refusing ==
    ASSUME IInv, call' = Refused, queue' = <<>>,
           closed' \in BOOLEAN, cancelled' \in BOOLEAN,
           UNCHANGED <<mode, rules, screen, chain, menu, origin, switches, records>>
    PROVE  Good
<1>. USE DEF IInv
<1>1. ASSUME NEW d \in Call
      PROVE  /\ call'[d] \in CallState
             /\ call[d].at # "asking" => call'[d] = call[d]
             /\ call[d].at = "asking" =>
                  /\ call'[d].at = "answered" /\ call'[d].reply = "no"
                  /\ call'[d].input = call[d].input /\ call'[d].agent = call[d].agent
  <2>1. call[d] \in CallState /\ (d \in ToSet(queue) <=> call[d].at = "asking")
    BY DEF TypeOK, Queued
  <2>2. call'[d] = IF d \in ToSet(queue)
                   THEN [call[d] EXCEPT !.at = "answered", !.reply = "no"] ELSE call[d]
    BY DEF Refused
  <2>3. [call[d] EXCEPT !.at = "answered", !.reply = "no"] \in CallState
    BY <2>1, Moves DEF Place, Reply
  <2>. QED
    BY <2>1, <2>2, <2>3 DEF CallState
<1>2. call' \in [Call -> CallState]
  BY <1>1 DEF Refused
<1>3. Chained'
  BY <1>1, Aside DEF Live, Ran, Edits
<1>4. TypeOK'
  BY <1>2, Emptied DEF TypeOK
<1>5. Judged'
  <2>. SUFFICES ASSUME NEW d \in Call PROVE Held(call[d], records[d])'
    BY DEF Judged
  <2>1. Held(call[d], records[d])
    BY DEF Judged
  <2>2. CASE call[d].at = "asking"
    BY <1>1, <2>1, <2>2 DEF Held, Asked, Cleared, Protected, Strays, Askable, Judgeable
  <2>3. CASE call[d].at # "asking"
    BY <1>1, <2>1, <2>3 DEF Held, Askable, Judgeable, Cleared, Protected, Strays
  <2>. QED
    BY <2>2, <2>3
<1>6. Queued'
  BY <1>1, Emptied DEF Queued
<1>7. LetThrough
  BY <1>1 DEF LetThrough, Ran
<1>8. Seen
  BY <1>1 DEF Seen
<1>. QED
  BY <1>3, <1>4, <1>5, <1>6, <1>7, <1>8 DEF Good

\* /mode withdraws every pass that waits.
LEMMA Withdrawing ==
    ASSUME IInv, NEW m \in Mode, SetMode(m)
    PROVE  Good
<1>. USE DEF IInv
<1>1. ASSUME NEW d \in Call
      PROVE  /\ call'[d] \in CallState
             /\ call[d].at \notin Asked => call'[d] = call[d]
             /\ call[d].at \in Asked => call'[d].at = "withdrawn"
  <2>1. call[d] \in CallState
    BY DEF TypeOK
  <2>2. call'[d] = IF d \in Waiting THEN [call[d] EXCEPT !.at = "withdrawn"] ELSE call[d]
    BY DEF SetMode
  <2>3. [call[d] EXCEPT !.at = "withdrawn"] \in CallState
    BY <2>1, Moves DEF Place
  <2>. QED
    BY <2>1, <2>2, <2>3 DEF CallState, Waiting, Asked
<1>2. call' \in [Call -> CallState]
  BY <1>1 DEF SetMode
<1>3. Chained'
  BY <1>1, Aside DEF Live, Ran, Edits, Asked, SetMode
<1>4. TypeOK'
  BY <1>2, Emptied DEF TypeOK, SetMode
<1>5. Judged'
  <2>. SUFFICES ASSUME NEW d \in Call PROVE Held(call[d], records[d])'
    BY DEF Judged
  <2>1. Held(call[d], records[d]) /\ records'[d] = records[d]
    BY DEF Judged, SetMode
  <2>2. CASE call[d].at \in Asked
    BY <1>1, <2>1, <2>2 DEF Held, Asked
  <2>3. CASE call[d].at \notin Asked
    BY <1>1, <2>1, <2>3 DEF Held, Asked, SetMode, Cleared, Protected, Strays
  <2>. QED
    BY <2>2, <2>3
<1>6. Queued'
  BY <1>1, Emptied DEF Queued, SetMode, Asked
<1>7. LetThrough
  BY <1>1 DEF LetThrough, Ran
<1>8. Seen
  BY <1>1, StateTypes DEF Seen, Asked
<1>. QED
  BY <1>3, <1>4, <1>5, <1>6, <1>7, <1>8 DEF Good

\* The steps that leave every call where it is.
LEMMA Idle ==
    ASSUME IInv, rules' \in SUBSET Grantable,
           screen' \in (Call \X (1 .. MaxRestarts)) \cup {None},
           UNCHANGED <<mode, call, queue, closed, cancelled, chain, menu, origin, switches, records>>
    PROVE  Good
<1>. USE DEF IInv
<1>1. TypeOK'
  BY DEF TypeOK
<1>2. Judged' /\ Queued'
  BY DEF Judged, Held, Askable, Judgeable, Cleared, Protected, Strays, Queued
<1>3. Chained'
  BY Aside DEF Live, Ran, Edits
<1>4. LetThrough /\ Seen
  BY DEF LetThrough, Seen, Ran
<1>. QED
  BY <1>1, <1>2, <1>3, <1>4 DEF Good

\* React renders the front of the queue.
LEMMA Rendering == ASSUME IInv, Render PROVE Good
<1>1. Current \in (Call \X (1 .. MaxRestarts)) \cup {None}
  <2>1. CASE queue = <<>>
    BY <2>1 DEF Current
  <2>2. CASE queue # <<>>
    <3>1. Head(queue) \in Call
      BY <2>2, Leaving DEF IInv, TypeOK
    <3>2. call[Head(queue)].attempt \in 1 .. MaxRestarts
      BY <3>1, StateTypes DEF IInv, TypeOK
    <3>. QED
      BY <2>2, <3>1, <3>2 DEF Current, Request
  <2>. QED
    BY <2>1, <2>2
<1>. QED
  BY <1>1, Idle DEF Render, IInv, TypeOK

\* An edit gets its turn.
LEMMA Running ==
    ASSUME IInv, NEW c \in Call, Run(c)
    PROVE  Good
<1>. USE DEF IInv
<1>1. call[c] \in CallState /\ call[c].at = "queued" /\ Held(call[c], records[c])
  BY DEF TypeOK, Run, Judged
<1>2. PICK s \in CallState : s = [call[c] EXCEPT !.at = "executing"]
  BY <1>1, Moves DEF Place
<1>3. s.at = "executing" /\ s.input = call[c].input /\ s.agent = call[c].agent
  BY <1>1, <1>2 DEF CallState
<1>4. call' = [call EXCEPT ![c] = s]
  BY <1>2 DEF Run, Put
<1>5. call'[c] = s /\ \A d \in Call : d # c => call'[d] = call[d]
  BY <1>4 DEF TypeOK
<1>6. Chained'
  BY <1>1, Starting DEF Run, Put
<1>7. TypeOK'
  BY <1>4 DEF TypeOK, Run
<1>8. Held(s, records[c])'
  BY <1>1, <1>3 DEF Held, Asked, Cleared, Protected, Strays, Run
<1>9. Judged'
  BY <1>5, <1>8 DEF Judged, Held, Askable, Judgeable, Cleared, Protected, Strays, Run
<1>10. Queued'
  BY <1>1, <1>3, <1>5 DEF Queued, Run
<1>11. LetThrough /\ Seen
  BY <1>1, <1>3, <1>5 DEF LetThrough, Seen, Ran
<1>. QED
  BY <1>6, <1>7, <1>9, <1>10, <1>11 DEF Good

\* A call ends and passes the turn on.
LEMMA Finishing ==
    ASSUME IInv, NEW c \in Call, Finish(c)
    PROVE  Good
<1>. USE DEF IInv
<1>1. call[c].at = "executing" /\ Held(call[c], records[c])
  BY DEF Finish, Judged
<1>2. call' = [call EXCEPT ![c] = Gone]
  BY DEF Finish, Put
<1>3. call'[c].at = "done" /\ \A d \in Call : d # c => call'[d] = call[d]
  BY <1>2, GoneTypes DEF TypeOK
<1>4. Chained'
  BY <1>1, <1>2, Releasing DEF Finish
<1>5. TypeOK'
  <2>1. chain' \in [Agent -> Call \cup {None}]
    BY DEF TypeOK, Finish
  <2>. QED
    BY <1>2, <2>1, GoneTypes DEF TypeOK, Finish
<1>6. Held(call[c], records[c])'
  BY <1>1, <1>3 DEF Held, Asked, Finish
<1>7. Judged'
  BY <1>3, <1>6 DEF Judged, Held, Askable, Judgeable, Cleared, Protected, Strays, Finish
<1>8. Queued'
  BY <1>1, <1>3 DEF Queued, Finish
<1>9. LetThrough /\ Seen
  BY <1>1, <1>3 DEF LetThrough, Seen, Ran
<1>. QED
  BY <1>4, <1>5, <1>7, <1>8, <1>9 DEF Good

\* Every step keeps the invariant.
LEMMA Inductive == IInv /\ [Next]_vars => Good
<1>. SUFFICES ASSUME IInv, [Next]_vars PROVE Good
  OBVIOUS
<1>1. ASSUME NEW c \in Call, Issue(c) PROVE Good
  BY <1>1, Issuing
<1>2. ASSUME NEW c \in Call, HooksEnd(c) PROVE Good
  BY <1>2, HooksEnding
<1>3. ASSUME NEW c \in Call, Verdict(c) PROVE Good
  BY <1>3, Verdicts
<1>4. ASSUME NEW c \in Call, Continue(c) PROVE Good
  BY <1>4, Continuing
<1>5. ASSUME NEW c \in Call, Rejudge(c) PROVE Good
  BY <1>5, Rejudging
<1>6. ASSUME NEW c \in Call, Run(c) PROVE Good
  BY <1>6, Running
<1>7. ASSUME NEW c \in Call, Finish(c) PROVE Good
  BY <1>7, Finishing
<1>8. CASE Render
  BY <1>8, Rendering
<1>9. ASSUME NEW reply \in Reply, Answer(reply) PROVE Good
  BY <1>9, Answering
<1>10. CASE Interrupt
  BY <1>10, Refusing DEF Interrupt, IInv, TypeOK
<1>11. CASE Close
  BY <1>11, Refusing DEF Close, IInv, TypeOK
<1>12. ASSUME NEW m \in Mode, SetMode(m) PROVE Good
  BY <1>12, Withdrawing
<1>13. ASSUME NEW i \in Grantable, Revoke(i) PROVE Good
  <2>1. rules' \in SUBSET Grantable
    BY <1>13 DEF Revoke, IInv, TypeOK
  <2>. QED
    BY <1>13, <2>1, Idle DEF Revoke, IInv, TypeOK
<1>14. CASE UNCHANGED vars
  BY <1>14, Idle DEF vars, IInv, TypeOK
<1>. QED
  BY <1>1, <1>2, <1>3, <1>4, <1>5, <1>6, <1>7, <1>8, <1>9, <1>10, <1>11, <1>12,
     <1>13, <1>14 DEF Next, Step, Over

\* The invariant holds at the start.
LEMMA Initial == Init => IInv
<1>. SUFFICES ASSUME Init PROVE IInv
  OBVIOUS
<1>1. PICK b \in Batches : /\ mode = b.mode /\ rules = b.rules
                           /\ menu = b.menu /\ origin = b.origin /\ switches = b.switches
  BY DEF Init
<1>2. \A c \in Call : call[c] = Fresh /\ records[c] = 0
  BY DEF Init
<1>3. Fresh.at = "new" /\ Fresh \in CallState
  BY GoneTypes DEF Fresh
<1>4. TypeOK
  BY <1>1, <1>3, Emptied, BatchAssumption DEF Init, TypeOK
<1>5. Judged
  BY <1>2, <1>3 DEF Judged, Held, Asked
<1>6. Queued
  BY <1>2, <1>3, Emptied DEF Queued, Init
<1>7. Chained
  <2>. DEFINE pos == [c \in Call |-> 0]
  <2>1. \A c \in Call : ~Live(c)
    BY <1>2, <1>3 DEF Live, Ran
  <2>2. InOrder(pos)
    BY <2>1 DEF InOrder, Mates, Init
  <2>. QED
    BY <2>2 DEF Chained
<1>. QED
  BY <1>4, <1>5, <1>6, <1>7 DEF IInv

\* The inductive invariant holds for every set of calls and every batch.
THEOREM Invariance == Spec => []IInv
<1>1. IInv /\ [Next]_vars => IInv'
  BY Inductive DEF Good
<1>. QED
  BY <1>1, Initial, PTL DEF Spec

\* Type correctness: restarts stay within MAX_MODE_CHANGE_RESTARTS and no call
\* is queued twice for an answer.
THEOREM TypeCorrect == Spec => []TypeOK
<1>1. IInv => TypeOK
  BY DEF IInv
<1>. QED
  BY <1>1, Invariance, PTL

\* Whatever the mode, the rules, the hooks, the classifier and the user say, a
\* call that runs is not forbidden by a deny-rule and stays within its write
\* scopes (PermissionGate.decideOnce).
THEOREM ProhibitionsHoldAlways == Spec => []ProhibitionsHold
<1>1. IInv => ProhibitionsHold
  BY DEF IInv, Judged, Held, Cleared, ProhibitionsHold, Ran
<1>. QED
  BY <1>1, Invariance, PTL

\* Edits of one file by one agent never execute together, and the chain is
\* empty once they are through (SerializedFileEditorTool.stream).
THEOREM EditsInTurnAlways == Spec => []EditsInTurn
<1>1. IInv => EditsSerialised
  <2>. SUFFICES ASSUME IInv, NEW c \in Call, NEW d \in Call, c # d,
                       Edits(call[c]), Edits(call[d]),
                       call[c].agent = call[d].agent, call[c].at = "executing",
                       call[d].at = "executing"
                PROVE  FALSE
    BY DEF EditsSerialised
  <2>1. PICK pos \in [Call -> Nat] : InOrder(pos)
    BY DEF IInv, Chained
  <2>2. Mates(c, d) /\ Mates(d, c) /\ Free(c) /\ Free(d)
    BY <2>1 DEF InOrder, Mates, Live, Ran
  <2>3. pos[c] # pos[d] /\ ~(pos[c] < pos[d]) /\ ~(pos[d] < pos[c])
    BY <2>1, <2>2 DEF InOrder
  <2>. QED
    BY <2>1, <2>3
<1>2. IInv => ChainsDrain
  <2>. SUFFICES ASSUME IInv, \A c \in Call : call[c].at \notin {"queued", "executing"}
                PROVE  chain = [a \in Agent |-> None]
    BY DEF ChainsDrain
  <2>1. chain \in [Agent -> Call \cup {None}]
    BY DEF IInv, TypeOK
  <2>2. \A a \in Agent : chain[a] = None
    BY <2>1 DEF IInv, Chained, InOrder, Live, Ran
  <2>. QED
    BY <2>1, <2>2
<1>. QED
  BY <1>1, <1>2, Invariance, PTL DEF EditsInTurn

\* A call is let through by the mode in force at that moment, on an answer to
\* the question that was on the screen, with exactly one record in the audit
\* (PermissionGate.beforeToolCall, setMode, publish).
THEOREM CallsJudgedAlways == Spec => CallsJudged
<1>1. IInv /\ [Next]_vars => [LetThrough]_vars /\ [Seen]_vars
  BY Inductive DEF Good
<1>2. IInv => OneRecordPerCall
  BY DEF IInv, Judged, Held, OneRecordPerCall, Ran
<1>3. Spec => [][LetThrough]_vars /\ [][Seen]_vars /\ []OneRecordPerCall
  BY <1>1, <1>2, Invariance, PTL DEF Spec
<1>4. ([][LetThrough]_vars <=> JudgedByOneMode) /\ ([][Seen]_vars <=> AnsweredAsSeen)
  BY DEF LetThrough, Seen, JudgedByOneMode, AnsweredAsSeen
<1>. QED
  BY <1>3, <1>4 DEF CallsJudged
=============================================================================
