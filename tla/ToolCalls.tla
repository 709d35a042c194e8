----------------------------- MODULE ToolCalls -----------------------------
(***************************************************************************)
(* A tool call of one turn, from the moment the model asks for it to the   *)
(* moment its result is counted: the hook gate around the permission gate, *)
(* the queue of questions the user answers, the mode switch and the        *)
(* interrupt that race them, and the same-path ordering of file edits.     *)
(* Calls of one message run concurrently; a step is what one call does     *)
(* between two awaits, or one key of the user.                             *)
(***************************************************************************)
EXTENDS Naturals, Sequences, FiniteSets, SequencesExt

CONSTANTS
    Call,           \* the tool calls of the run
    Batches,        \* the messages the runs start from: mode and rules in force,
                    \* whom the turn answers, menu[c] the <<agent, input>> pairs
                    \* call c may be made with, and the number of mode switches
                    \* the user may make
    Rewrites,       \* the inputs a PreToolUse hook may put in place of the model's
    MaxRestarts,    \* MAX_MODE_CHANGE_RESTARTS of the gate
    None

Mode == {"default", "auto", "plan", "yolo"}
Agent == {"parent", "child"}

\* Whom the turn answers: the user, a peer session, or a peer whose chain of
\* messages carries a read-only ceiling.
Origin == {"user", "peer", "ceiling"}

\* What the gate tells inputs apart by: the inspection of a plain and of a
\* credential path, an edit inside and outside the write scopes the child's
\* workflow node declared, a memory that is saved, a command, a command a
\* deny-rule forbids, and one on the controls of the collaboration.
Input == {"view", "secret", "edit", "stray", "save", "run", "banned", "control"}

Tool(i) == CASE i \in {"run", "banned", "control"} -> "bash"
             [] i = "save" -> "memory_save"
             [] OTHER -> "fileEditor"
Kind(i) == CASE i \in {"view", "secret"} -> "read"
             [] i \in {"edit", "stray", "save"} -> "write"
             [] OTHER -> "execute"
Safe(i) == i = "view"
Sensitive(i) == i = "secret"
Grantable == {"edit", "run"}     \* the inputs a suggested allow-rule covers

ASSUME BatchAssumption == \A b \in Batches :
    /\ b.mode \in Mode /\ b.origin \in Origin /\ b.rules \subseteq Grantable
    /\ b.switches \in Nat
    /\ b.menu \in [Call -> SUBSET (Agent \X Input)]
ASSUME RewriteAssumption == Rewrites \subseteq Input
ASSUME BoundAssumption == MaxRestarts \in Nat \ {0}
ASSUME NoneAssumption == None \notin Call

VARIABLES
    mode,       \* PermissionGate.currentMode
    rules,      \* PermissionGate.rules, by the input they cover
    call,       \* per call: where it is, who made it, with what input
    queue,      \* PermissionQueue.entries
    screen,     \* the request React last rendered, as <<call, attempt>>
    closed,     \* PermissionQueue.closed
    cancelled,  \* the turn's cancelSignal
    chain,      \* per agent: the last edit on the path (file-editor-serial)
    menu,       \* the batch's menu
    origin,     \* the batch's origin: what the turn's message came from
    switches,   \* mode switches left to the user
    records     \* history: per call, how many records onDecision received

vars == <<mode, rules, call, queue, screen, closed, cancelled, chain, menu, origin, switches, records>>

Place == {"new", "hook", "classifying", "asking", "answered", "withdrawn",
          "queued", "executing", "done"}
Reply == {"yes", "always", "no"}
Denials == {"write-scope-denied", "peer-policy-denied", "deny-rule", "plan-denied", "user-denied",
            "restart-limit-denied"}
Approvals == {"yolo", "safe", "allow-rule", "classifier", "user-approved"}

Fresh == [at |-> "new", agent |-> "parent", input |-> "view", attempt |-> 1,
          reply |-> "no", word |-> "none", prev |-> None]

Init ==
    /\ \E b \in Batches :
          mode = b.mode /\ rules = b.rules /\ switches = b.switches
          /\ menu = b.menu /\ origin = b.origin
    /\ call = [c \in Call |-> Fresh]
    /\ queue = <<>>
    /\ screen = None
    /\ closed = FALSE
    /\ cancelled = FALSE
    /\ chain = [a \in Agent |-> None]
    /\ records = [c \in Call |-> 0]

\* A call that is over keeps nothing but the records of it.
Gone == [Fresh EXCEPT !.at = "done"]
Put(c, r) == call' = [call EXCEPT ![c] = r]

---------------------------------------------------------------------------
(* The decision *)

\* What no permission covers: the controls of the collaboration, and in a turn
\* that answers a peer the memory of the project.
Protected(i) == i = "control" \/ (origin # "user" /\ i = "save")

\* Plan mode, and the ceiling a peer's message carries, leave inspection only.
ReadOnly == mode = "plan" \/ origin = "ceiling"

\* The guards a hook shell must not run ahead of: the protection of the policy,
\* a deny-rule, then the plan guard.
EarlyDenial(i) ==
    IF Protected(i) THEN "peer-policy-denied"
    ELSE IF i = "banned" THEN "deny-rule"
    ELSE IF ReadOnly /\ Kind(i) # "read" THEN "plan-denied"
    ELSE "none"

Strays(r) == r.agent = "child" /\ r.input = "stray"

\* Mutant: the guards that ran before the hooks are not asked again.
SettledTrusting(r) ==
    IF mode = "yolo" THEN "yolo"
    ELSE IF Safe(r.input) THEN "safe"
    ELSE IF r.input \in rules THEN "allow-rule"
    ELSE "none"

\* What one pass settles without waiting for anybody, or "none". The static
\* order is the point: nothing that widens runs before a prohibition.
Settled(r) ==
    IF Strays(r) THEN "write-scope-denied"
    ELSE IF EarlyDenial(r.input) # "none" THEN EarlyDenial(r.input)
    ELSE IF mode = "yolo" THEN "yolo"
    ELSE IF Safe(r.input) THEN "safe"
    ELSE IF r.input \in rules THEN "allow-rule"
    ELSE "none"

Edits(r) == r.input \in {"edit", "stray"}

\* Mutant: the call itself is the edit it waits for.
StartSelfish(c, r, outcome) ==
    \/ /\ ~Edits(r)
       /\ Put(c, [r EXCEPT !.at = "executing", !.word = outcome, !.prev = None])
       /\ UNCHANGED chain
    \/ /\ Edits(r)
       /\ Put(c, [r EXCEPT !.at = "queued", !.word = outcome, !.prev = c])
       /\ chain' = [chain EXCEPT ![r.agent] = c]

\* The executor starts an approved call; an edit takes its place behind the
\* last edit of its agent on the path.
Start(c, r, outcome) ==
    \/ /\ ~Edits(r)
       /\ Put(c, [r EXCEPT !.at = "executing", !.word = outcome, !.prev = None])
       /\ UNCHANGED chain
    \/ /\ Edits(r)
       /\ Put(c, [r EXCEPT !.at = "queued", !.word = outcome, !.prev = chain[r.agent]])
       /\ chain' = [chain EXCEPT ![r.agent] = c]

\* The settled decision is published, then the hook gate looks at the cancel
\* signal before it lets an approval through.
Publish(c, r, outcome) ==
    /\ records' = [records EXCEPT ![c] = @ + 1]
    /\ \/ /\ outcome \in Denials \/ cancelled
          /\ Put(c, Gone) /\ UNCHANGED chain
       \/ /\ outcome \notin Denials /\ ~cancelled
          /\ Start(c, r, outcome)

\* The question is put to the bridge: a closed queue answers no at once.
Ask(c, r) ==
    \/ /\ closed
       /\ Publish(c, r, "user-denied") /\ UNCHANGED queue
    \/ /\ ~closed
       /\ queue' = Append(queue, c)
       /\ Put(c, [r EXCEPT !.at = "asking"])
       /\ UNCHANGED <<chain, records>>

Judge(c, r) ==
    \/ /\ Settled(r) # "none"
       /\ Publish(c, r, Settled(r)) /\ UNCHANGED queue
    \/ /\ Settled(r) = "none"
       /\ mode = "auto" /\ ~Sensitive(r.input)
       /\ Put(c, [r EXCEPT !.at = "classifying"])
       /\ UNCHANGED <<queue, chain, records>>
    \/ /\ Settled(r) = "none"
       /\ mode # "auto" \/ Sensitive(r.input)
       /\ Ask(c, r)

\* The model asks for the call. A deny-rule or plan mode settles it before any
\* hook runs; the repeated-failure guard may refuse it without a record.
Issue(c) ==
    /\ call[c].at = "new" /\ ~cancelled
    /\ \E m \in menu[c] :
        LET r == [call[c] EXCEPT !.at = "hook", !.agent = m[1], !.input = m[2]] IN
        \/ EarlyDenial(m[2]) # "none" /\ Publish(c, r, EarlyDenial(m[2]))
        \/ EarlyDenial(m[2]) = "none" /\ Put(c, r) /\ UNCHANGED <<chain, records>>
        \/ EarlyDenial(m[2]) = "none" /\ Put(c, Gone) /\ UNCHANGED <<chain, records>>
    /\ UNCHANGED <<mode, rules, queue, screen, closed, cancelled, menu, origin, switches>>

\* The PreToolUse hooks are through: they block the call, or let it pass with
\* the input as it was or rewritten within the tool's schema. The call is then
\* judged from the top.
HooksEnd(c) ==
    /\ call[c].at = "hook"
    /\ \/ Put(c, Gone) /\ UNCHANGED <<queue, chain, records>>
       \/ /\ ~cancelled
          /\ \E i \in {call[c].input} \cup {j \in Rewrites : Tool(j) = Tool(call[c].input)} :
                Judge(c, [call[c] EXCEPT !.input = i])
    /\ UNCHANGED <<mode, rules, screen, closed, cancelled, menu, origin, switches>>

\* The classifier answered, or failed, or ran into its timeout: anything but
\* "safe" becomes a question.
Verdict(c) ==
    /\ call[c].at = "classifying"
    /\ \/ Publish(c, call[c], "classifier") /\ UNCHANGED queue
       \/ Ask(c, call[c])
    /\ UNCHANGED <<mode, rules, screen, closed, cancelled, menu, origin, switches>>

\* The awaiting pass takes the answer. A rule that came with a yes is in force
\* from here on.
Continue(c) ==
    /\ call[c].at = "answered"
    /\ \/ /\ call[c].reply = "no"
          /\ Publish(c, call[c], "user-denied") /\ UNCHANGED rules
       \/ /\ call[c].reply = "yes"
          /\ Publish(c, [call[c] EXCEPT !.reply = "no"], "user-approved") /\ UNCHANGED rules
       \/ /\ call[c].reply = "always"
          /\ Publish(c, [call[c] EXCEPT !.reply = "no"], "user-approved")
          /\ rules' = rules \cup {call[c].input}
    /\ UNCHANGED <<mode, queue, screen, closed, cancelled, menu, origin, switches>>

\* Mutant: the limit is off by one.
RejudgeOnceMore(c) ==
    /\ call[c].at = "withdrawn"
    /\ \/ /\ call[c].attempt > MaxRestarts
          /\ Publish(c, call[c], "restart-limit-denied") /\ UNCHANGED queue
       \/ /\ call[c].attempt <= MaxRestarts
          /\ Judge(c, [call[c] EXCEPT !.attempt = @ + 1])
    /\ UNCHANGED <<mode, rules, screen, closed, cancelled, menu, origin, switches>>

\* A withdrawn pass starts over under the mode now in force, up to the limit.
Rejudge(c) ==
    /\ call[c].at = "withdrawn"
    /\ \/ /\ call[c].attempt >= MaxRestarts
          /\ Publish(c, call[c], "restart-limit-denied") /\ UNCHANGED queue
       \/ /\ call[c].attempt < MaxRestarts
          /\ Judge(c, [call[c] EXCEPT !.attempt = @ + 1])
    /\ UNCHANGED <<mode, rules, screen, closed, cancelled, menu, origin, switches>>

---------------------------------------------------------------------------
(* The user *)

Request(c) == <<c, call[c].attempt>>
Current == IF queue = <<>> THEN None ELSE Request(Head(queue))

\* React renders the request at the front of the queue, some time after the
\* queue told it to.
Render ==
    /\ screen # Current
    /\ screen' = Current
    /\ UNCHANGED <<mode, rules, call, queue, closed, cancelled, chain, menu, origin, switches, records>>

\* A key answers the question on the screen, if that question is still the one
\* at the front; "always" also grants the suggested rule.
Answer(reply) ==
    /\ screen # None /\ screen = Current
    /\ reply = "always" => call[Head(queue)].input \in Grantable
    /\ Put(Head(queue), [call[Head(queue)] EXCEPT !.at = "answered", !.reply = reply])
    /\ queue' = Tail(queue)
    /\ UNCHANGED <<mode, rules, screen, closed, cancelled, chain, menu, origin, switches, records>>

\* Everything queued is answered with no.
Refused == [c \in Call |->
    IF c \in ToSet(queue) THEN [call[c] EXCEPT !.at = "answered", !.reply = "no"] ELSE call[c]]

\* Ctrl+C in a running turn: the pending questions are denied, then the turn
\* is cancelled.
Interrupt ==
    /\ ~cancelled /\ ~closed
    /\ \E c \in Call : call[c].at \notin {"new", "done"}
    /\ call' = Refused /\ queue' = <<>>
    /\ cancelled' = TRUE
    /\ UNCHANGED <<mode, rules, screen, closed, chain, menu, origin, switches, records>>

\* The session is over: the queue denies what it holds and every later request.
Close ==
    /\ ~closed
    /\ closed' = TRUE
    /\ call' = Refused /\ queue' = <<>>
    /\ UNCHANGED <<mode, rules, screen, cancelled, chain, menu, origin, switches, records>>

\* Mutant: an answer that is on its way is not withdrawn.
WaitingUnanswered == {c \in Call : call[c].at \in {"classifying", "asking"}}

\* Every pass between its first await and its settlement.
Waiting == {c \in Call : call[c].at \in {"classifying", "asking", "answered"}}

\* /mode. A rendered question owns the keyboard, so the command gets through
\* only when none is on the screen. Every decision still waiting is withdrawn,
\* its question leaves the queue, and an answer on its way is discarded.
SetMode(m) ==
    /\ screen = None /\ m # mode /\ switches > 0
    /\ mode' = m /\ switches' = switches - 1
    /\ call' = [c \in Call |->
                    IF c \in Waiting THEN [call[c] EXCEPT !.at = "withdrawn"] ELSE call[c]]
    /\ queue' = <<>>
    /\ UNCHANGED <<rules, screen, closed, cancelled, chain, menu, origin, records>>

\* /permissions revoke: the rule stops covering calls at once.
Revoke(i) ==
    /\ screen = None /\ i \in rules
    /\ rules' = rules \ {i}
    /\ UNCHANGED <<mode, call, queue, screen, closed, cancelled, chain, menu, origin, switches, records>>

---------------------------------------------------------------------------
(* The execution *)

\* The entry of the edit before it on the chain has settled.
Run(c) ==
    /\ call[c].at = "queued"
    /\ call[c].prev # None => call[call[c].prev].at = "done"
    /\ Put(c, [call[c] EXCEPT !.at = "executing"])
    /\ UNCHANGED <<mode, rules, queue, screen, closed, cancelled, chain, menu, origin, switches, records>>

\* Mutant: whoever finishes clears the path.
FinishClearing(c) ==
    /\ call[c].at = "executing"
    /\ Put(c, Gone)
    /\ chain' = [chain EXCEPT ![call[c].agent] = None]
    /\ UNCHANGED <<mode, rules, queue, screen, closed, cancelled, menu, origin, switches, records>>

\* The tool returned, threw or was cancelled: the chain is released, and its
\* entry is removed when it is still this call's.
Finish(c) ==
    /\ call[c].at = "executing"
    /\ Put(c, Gone)
    /\ chain' = [a \in Agent |-> IF chain[a] = c THEN None ELSE chain[a]]
    /\ UNCHANGED <<mode, rules, queue, screen, closed, cancelled, menu, origin, switches, records>>

Step(c) == \/ HooksEnd(c) \/ Verdict(c) \/ Continue(c) \/ Rejudge(c)
           \/ Run(c) \/ Finish(c)

\* Nothing is left to do: the run ends here.
Over == /\ \A c \in Call : call[c].at = "done" \/ (call[c].at = "new" /\ (cancelled \/ menu[c] = {}))
        /\ UNCHANGED vars

Next == \/ \E c \in Call : Issue(c) \/ Step(c)
        \/ Render
        \/ \E reply \in Reply : Answer(reply)
        \/ Interrupt \/ Close
        \/ \E m \in Mode : SetMode(m)
        \/ \E i \in Grantable : Revoke(i)
        \/ Over

\* Every await of a call settles: the hooks and the classifier have their
\* timeouts and tools return; the user owes nothing.
Spec == Init /\ [][Next]_vars
FairSpec == Spec /\ \A c \in Call : WF_vars(Step(c))

---------------------------------------------------------------------------
(* Properties *)

CallState == [at : Place, agent : Agent, input : Input, attempt : 1 .. MaxRestarts,
              reply : Reply, word : Approvals \cup {"none"}, prev : Call \cup {None}]

TypeOK ==
    /\ mode \in Mode /\ rules \in SUBSET Grantable
    /\ call \in [Call -> CallState]
    /\ queue \in Seq(Call) /\ IsInjective(queue)
    /\ screen \in (Call \X (1 .. MaxRestarts)) \cup {None}
    /\ closed \in BOOLEAN /\ cancelled \in BOOLEAN
    /\ chain \in [Agent -> Call \cup {None}]
    /\ menu \in [Call -> SUBSET (Agent \X Input)] /\ origin \in Origin
    /\ switches \in Nat
    /\ records \in [Call -> Nat]

Ran(c) == call[c].at \in {"queued", "executing"}

\* A prohibition holds whatever the user's mode, rules, answers, the
\* classifier and a hook that rewrote the input say: a call that runs is
\* neither protected from its turn, nor forbidden by a deny-rule, nor outside its
\* node's write scopes, nor above the ceiling of the peer that the turn answers.
ProhibitionsHold ==
    \A c \in Call : Ran(c) =>
        /\ ~Protected(call[c].input) /\ call[c].input # "banned" /\ ~Strays(call[c])
        /\ origin = "ceiling" => Kind(call[c].input) = "read"

\* What a mode lets pass, and on whose word (docs of the approval modes).
Permitted(m, outcome, i) ==
    /\ m = "plan" => Kind(i) = "read"
    /\ outcome = "yolo" => m = "yolo"
    /\ outcome = "classifier" => m = "auto" /\ ~Sensitive(i)
    /\ outcome \in {"user-approved", "allow-rule"} => m # "yolo"
    /\ outcome = "safe" => Safe(i)

\* No call is judged half by one mode and half by another: at the moment a
\* call is let through, the mode then in force lets that input pass on that
\* word, whatever the mode was when the question was put.
JudgedByOneMode ==
    [][\A c \in Call : ~Ran(c) /\ Ran(c)' =>
         Permitted(mode', call'[c].word, call'[c].input)]_vars

\* The user's word counts for the question he was looking at: an answer with
\* yes reaches the call, attempt and input that were on the screen.
AnsweredAsSeen ==
    [][\A c \in Call : call[c].at = "asking" /\ call'[c].at = "answered"
                        /\ call'[c].reply # "no" => screen = Request(c)]_vars

\* The permission audit has one line per call the gate settled, never two, and
\* a call runs on exactly one approving line.
OneRecordPerCall ==
    \A c \in Call : records[c] <= 1 /\ (Ran(c) => records[c] = 1)

\* Two edits of one agent on one path never run together.
EditsSerialised ==
    \A c, d \in Call : c # d /\ Edits(call[c]) /\ Edits(call[d])
                        /\ call[c].agent = call[d].agent
                        => ~(call[c].at = "executing" /\ call[d].at = "executing")

\* The chains never outlive the edits they order.
ChainsDrain ==
    (\A c \in Call : call[c].at \notin {"queued", "executing"}) =>
        chain = [a \in Agent |-> None]

\* Once the session is over no call is left waiting on a question nobody will
\* answer, whenever the question was put.
CloseReleases ==
    \A c \in Call : closed /\ call[c].at \in {"classifying", "asking", "answered", "withdrawn"}
                     ~> call[c].at \in {"queued", "executing", "done"}

\* An edit behind another always gets its turn, whether the one before it
\* succeeded, failed or was cancelled.
EditsGetTheirTurn ==
    \A c \in Call : call[c].at = "queued" ~> call[c].at = "executing"

\* The comment at the interrupt: "Deny anything waiting so the loop is not left
\* blocked on a prompt."
InterruptLeavesNoPrompt == cancelled => queue = <<>>

\* Every call is judged once, by one mode, and by the user only on what he saw.
CallsJudged == JudgedByOneMode /\ AnsweredAsSeen /\ []OneRecordPerCall

\* Edits of one path take turns, and the turn is passed on to the last.
EditsInTurn == EditsSerialised /\ ChainsDrain

\* No call waits for ever, on an answer or on another edit.
EveryCallEnds == CloseReleases /\ EditsGetTheirTurn
=============================================================================
