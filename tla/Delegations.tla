----------------------------- MODULE Delegations -----------------------------
(***************************************************************************)
(* The children of a session: the subagent tool (agents/subagent-tool.ts), *)
(* which runs one child per call, and the workflow tool                    *)
(* (agents/workflow-tool.ts), which runs a graph of them, over the one     *)
(* registry (agents/dispatch-registry.ts) whose running records are what   *)
(* the concurrency cap (agents/concurrency-limit.ts) compares against.     *)
(*                                                                         *)
(* A step is what runs between two awaits.  The awaits are the             *)
(* construction of the model of a child, its start (initialize() and the   *)
(* subagentStart hook), its run, and the cleanup of its shell;             *)
(* cancellation, of one child, of the turn or by the shutdown of the       *)
(* runtime, may come at any of them.  The code looks at the signals before *)
(* the start and not between the start and the run.                        *)
(*                                                                         *)
(* The graph that schedules the nodes is the SDK's: a node starts when     *)
(* every node it depends on has completed, a cancelled one included, at    *)
(* most maxConcurrency at a time; after a failure it may or may not start  *)
(* what does not depend on it.                                             *)
(*                                                                         *)
(* A call may be routed to the background (agent/background-delegation.ts):*)
(* it outlives its turn, and the SDK may begin it when that turn is over.  *)
(***************************************************************************)
EXTENDS Naturals, FiniteSets

CONSTANTS
  Sub,   \* calls of the subagent tool
  Node,  \* nodes of the one call of the workflow tool
  Cap    \* maxConcurrentSubagents

ASSUME CapAssumption == Cap \in Nat \ {0}
ASSUME DispatchAssumption == IsFiniteSet(Sub \cup Node) /\ Sub \cap Node = {}

VARIABLES
  rec,      \* the record of each dispatch in the registry
  wanted,   \* dispatches whose cancellation was requested
  child,    \* how far the call or node has got
  stop,     \* children that have been told to cancel
  resumed,  \* children that were continued after a stream interruption
  flow,     \* the workflow call
  turn,     \* the turn of the parent, and with it its cancel signal
  life,     \* the runtime
  awaited   \* what shutdown() waits for: activeExecutions of both tools

vars == <<rec, wanted, child, stop, resumed, flow, turn, life, awaited>>

Dispatch == Sub \cup Node
Terminal == {"succeeded", "failed", "cancelled"}

\* An agent that has been invoked and has not answered.
Executing == {d \in Dispatch : child[d] = "invoked"}

\* A child that is past the last look at the signals and has no end yet.
Started == {d \in Dispatch : child[d] \in {"starting", "invoked"}}

\* The records that count against the cap.
Running == {d \in Dispatch : rec[d] = "running"}

\* The one transition of a record to a terminal state: the first caller wins.
Finish(D, state) ==
  [d \in Dispatch |-> IF d \in D /\ rec[d] = "running" THEN state ELSE rec[d]]

NoFlow == [phase |-> "idle", edges |-> {}, scoped |-> {}, width |-> 0,
           aborted |-> FALSE]

\* The `nodes` array of a workflow run: the nodes whose child exists.
Pushed == {n \in Node : child[n] \in {"built", "starting", "invoked", "answered"}}

Init ==
  /\ rec = [d \in Dispatch |-> "none"]
  /\ wanted = {}
  /\ child = [d \in Dispatch |-> "none"]
  /\ stop = {}
  /\ resumed = {}
  /\ flow = NoFlow
  /\ turn = "running"
  /\ life = "up"
  /\ awaited = {}

-----------------------------------------------------------------------------
(* The subagent tool *)

Admitted == Cardinality(Running) < Cap

\* Mutant: the record is left to whoever builds the child.
DelegateUnrecorded(s) ==
  /\ child[s] = "none"
  /\ Admitted
  /\ child' = [child EXCEPT ![s] = "building"]
  /\ UNCHANGED <<rec, wanted, stop, resumed, flow, turn, life, awaited>>

\* A call is refused at the cap; otherwise its record is begun and the
\* construction of its model awaited.
Delegate(s) ==
  /\ child[s] = "none"
  /\ Admitted
  /\ rec' = [rec EXCEPT ![s] = "running"]
  /\ child' = [child EXCEPT ![s] = "building"]
  /\ UNCHANGED <<wanted, stop, resumed, flow, turn, life, awaited>>

\* Mutant: no look at the signals after the construction.
NeverWithdrawn(s) == FALSE

\* The cancel signal of the parent is that of the turn which runs now.
Withdrawn(s) == turn = "stopped" \/ s \in wanted

\* The model is there.  A cancellation that arrived meanwhile, before there
\* was an agent to cancel, is honoured here; otherwise the child is built, and
\* its start awaited.
ModelBuilt(s) ==
  /\ child[s] = "building"
  /\ \/ /\ Withdrawn(s)
        /\ rec' = Finish({s}, "cancelled")
        /\ child' = [child EXCEPT ![s] = "gone"]
     \/ /\ ~Withdrawn(s)
        /\ child' = [child EXCEPT ![s] = "starting"]
        /\ UNCHANGED rec
  /\ UNCHANGED <<wanted, stop, resumed, flow, turn, life, awaited>>

\* Whether an agent still knows, when it is invoked, that it was told to cancel
\* before, is the SDK's to say: both are possible.
Recalled(d) == {stop, stop \ {d}}

\* The child has started: it is invoked, whatever was cancelled meanwhile.
Invoked(d) ==
  /\ child[d] = "starting"
  /\ child' = [child EXCEPT ![d] = "invoked"]
  /\ stop' \in Recalled(d)
  /\ UNCHANGED <<rec, wanted, resumed, flow, turn, life, awaited>>

ModelFails(s) ==
  /\ child[s] = "building"
  /\ rec' = Finish({s}, "failed")
  /\ child' = [child EXCEPT ![s] = "gone"]
  /\ UNCHANGED <<wanted, stop, resumed, flow, turn, life, awaited>>

\* The child answers: it may succeed however late it was told to cancel.
\* The record settles before the cleanup of its shell.
Answers(s, outcome) ==
  /\ child[s] = "invoked"
  /\ outcome = "cancelled" => s \in stop
  /\ rec' = Finish({s}, outcome)
  /\ child' = [child EXCEPT ![s] = "cleaning"]
  /\ UNCHANGED <<wanted, stop, resumed, flow, turn, life, awaited>>

\* The child throws, in its start or in its run: the record settles only after
\* the cleanup, in the catch of the caller.
Throws(s) ==
  /\ child[s] \in {"starting", "invoked"}
  /\ child' = [child EXCEPT ![s] = "failing"]
  /\ UNCHANGED <<rec, wanted, stop, resumed, flow, turn, life, awaited>>

Resumable(s) == s \notin stop /\ turn # "stopped" /\ s \notin wanted

\* The stream of the child broke off: it is invoked once more, unless it, its
\* parent or its dispatch has been cancelled.
Resumes(s) ==
  /\ child[s] = "invoked"
  /\ s \notin resumed
  /\ Resumable(s)
  /\ resumed' = resumed \cup {s}
  /\ UNCHANGED <<rec, wanted, child, stop, flow, turn, life, awaited>>

\* The shell of the child is reaped, and its agent dropped.
CleanedUp(s) ==
  /\ child[s] \in {"cleaning", "failing"}
  /\ rec' = IF child[s] = "failing" THEN Finish({s}, "failed") ELSE rec
  /\ child' = [child EXCEPT ![s] = "gone"]
  /\ stop' = stop \ {s}
  /\ UNCHANGED <<wanted, resumed, flow, turn, life, awaited>>

-----------------------------------------------------------------------------
(* The workflow tool *)

\* reachability(): the nodes a path of edges leads to from n, as the least set
\* of nodes that holds what an edge leads to from n or from a member.
Reachable(edges, n) ==
  {m \in Node : \A S \in SUBSET Node :
     (\A e \in edges : e[1] \in S \cup {n} => e[2] \in S) => m \in S}

Acyclic(edges) == \A n \in Node : n \notin Reachable(edges, n)

\* Mutant: validation stops at cycles.
AnyGraph(edges, scoped) == Acyclic(edges)

\* What validate() lets through: an acyclic graph, in which two nodes whose
\* declared write scopes overlap, as those in scoped do, are ordered by a path.
Valid(edges, scoped) ==
  /\ Acyclic(edges)
  /\ \A a, b \in scoped : \/ a = b
                         \/ b \in Reachable(edges, a)
                         \/ a \in Reachable(edges, b)

Fits(width) == Cardinality(Running) + width <= Cap

\* The call is refused unless its parallelism fits; then its first node is
\* begun, and the construction of its model awaited.
Orchestrate(edges, scoped, width) ==
  /\ flow.phase = "idle"
  /\ Valid(edges, scoped)
  /\ Fits(width)
  /\ flow' = [phase |-> "building", edges |-> edges, scoped |-> scoped,
              width |-> width, aborted |-> turn = "stopped"]
  /\ \E n \in Node : /\ rec' = [rec EXCEPT ![n] = "running"]
                     /\ child' = [child EXCEPT ![n] = "building"]
  /\ UNCHANGED <<wanted, stop, resumed, turn, life, awaited>>

\* attachCancel() tells a new child of a cancellation requested before.
Attached(n) == stop \cup ({n} \cap wanted)

Unbegun == {n \in Node : child[n] = "none"}

\* The model of a node is there: its child is built, and the next node begun.
NodeBuilt(n) ==
  /\ child[n] = "building"
  /\ stop' = Attached(n)
  /\ \E next \in Unbegun :
       /\ rec' = [rec EXCEPT ![next] = "running"]
       /\ child' = [child EXCEPT ![n] = "built", ![next] = "building"]
  /\ UNCHANGED <<wanted, resumed, flow, turn, life, awaited>>

\* The finally block: what was pushed and has no end yet is cancelled, and
\* the shells of the children are cleaned up.
Sweep(nodes) ==
  /\ rec' = Finish(nodes, "cancelled")
  /\ flow' = [flow EXCEPT !.phase = "cleaning"]

\* The last node is built.  A run that was aborted meanwhile ends here.
FlowBuilt(n) ==
  /\ child[n] = "building"
  /\ Unbegun = {}
  /\ child' = [child EXCEPT ![n] = "built"]
  /\ stop' = Attached(n)
  /\ \/ flow.aborted /\ Sweep(Node)
     \/ /\ ~flow.aborted
        /\ flow' = [flow EXCEPT !.phase = "graph"]
        /\ UNCHANGED rec
  /\ UNCHANGED <<wanted, resumed, turn, life, awaited>>

\* The model of a node cannot be built: the call throws, and the sweep covers
\* the nodes that were pushed.
NodeFails(n) ==
  /\ child[n] = "building"
  /\ child' = [child EXCEPT ![n] = "gone"]
  /\ Sweep(Pushed)
  /\ UNCHANGED <<wanted, stop, resumed, turn, life, awaited>>

\* The graph: a node is ready when all it depends on has completed.
Completed(n) == child[n] = "answered" /\ rec[n] # "failed"
Startable(n) ==
  /\ flow.phase = "graph"
  /\ child[n] = "built"
  /\ \A e \in flow.edges : e[2] = n => Completed(e[1])
  /\ Cardinality(Started \cap Node) < flow.width

\* The graph starts a node.  One that was cancelled before, or whose run was
\* aborted, is not started and counts as completed.
NodeStarts(n) ==
  /\ Startable(n)
  /\ \/ /\ n \in wanted \/ flow.aborted
        /\ rec' = Finish({n}, "cancelled")
        /\ child' = [child EXCEPT ![n] = "answered"]
     \/ /\ n \notin wanted /\ ~flow.aborted
        /\ child' = [child EXCEPT ![n] = "starting"]
        /\ UNCHANGED rec
  /\ UNCHANGED <<wanted, stop, resumed, flow, turn, life, awaited>>

\* The end of a node; in its start it can only fail.
NodeAnswers(n, outcome) ==
  /\ \/ child[n] = "invoked"
     \/ child[n] = "starting" /\ outcome = "failed"
  /\ outcome = "cancelled" => n \in stop \/ flow.aborted
  /\ rec' = Finish({n}, outcome)
  /\ child' = [child EXCEPT ![n] = "answered"]
  /\ UNCHANGED <<wanted, stop, resumed, flow, turn, life, awaited>>

\* The graph returns when no node runs, and none is left to start unless the
\* run was aborted or a node failed.
GraphEnds ==
  /\ flow.phase = "graph"
  /\ Started \cap Node = {}
  /\ \/ flow.aborted
     \/ \E n \in Node : rec[n] = "failed"
     \/ \A n \in Node : child[n] = "answered"
  /\ Sweep(Pushed)
  /\ UNCHANGED <<wanted, child, stop, resumed, turn, life, awaited>>

\* The call is over, and its children with it.
FlowCleaned ==
  /\ flow.phase = "cleaning"
  /\ flow' = [NoFlow EXCEPT !.phase = "over"]
  /\ child' = [d \in Dispatch |-> IF d \in Pushed THEN "gone" ELSE child[d]]
  /\ stop' = stop \ Node
  /\ UNCHANGED <<rec, wanted, resumed, turn, life, awaited>>

-----------------------------------------------------------------------------
(* Cancellation and shutdown *)

ActiveNodes == IF flow.phase = "graph" THEN Pushed ELSE {}

\* cancelActive() of both tools: the children that exist are told, and the
\* workflow run is aborted wherever it is.
CancelActive ==
  /\ stop' = stop \cup (Started \cap Sub) \cup ActiveNodes
  /\ flow' = [flow EXCEPT !.aborted = @ \/ flow.phase \in {"building", "graph"}]

\* runtime.cancel(): the cancel signal of the parent fires too.
CancelTurn ==
  /\ turn = "running"
  /\ turn' = "stopped"
  /\ CancelActive
  /\ UNCHANGED <<rec, wanted, child, resumed, life, awaited>>

\* The calls under way, a workflow being one.
Tracked == {s \in Sub : child[s] \notin {"none", "gone"}}
             \cup (IF flow.phase \in {"building", "graph", "cleaning"}
                     THEN Node ELSE {})

\* The next turn, with a signal of its own.  A call that is still under way is
\* one that was routed to the background, as any may be.
NextTurn ==
  /\ turn = "stopped" /\ life = "up"
  /\ turn' = "running"
  /\ UNCHANGED <<rec, wanted, child, stop, resumed, flow, life, awaited>>

\* The canceller that buildRecipeChild() attached, once there is a child.
Told(d) == IF child[d] \in {"built", "starting", "invoked"} THEN {d} ELSE {}

\* registry.cancel(): the record keeps running until the child has ended.
CancelOne(d) ==
  /\ rec[d] = "running" /\ d \notin wanted
  /\ wanted' = wanted \cup {d}
  /\ stop' = stop \cup Told(d)
  /\ UNCHANGED <<rec, child, resumed, flow, turn, life, awaited>>

\* Both tools cancel what is active and wait for the calls under way.
Shutdown ==
  /\ life = "up"
  /\ life' = "closing"
  /\ CancelActive
  /\ awaited' = Tracked
  /\ UNCHANGED <<rec, wanted, child, resumed, turn>>

\* Mutant: shutdown waits for the records, not for the calls.
ShutdownDoneSettled ==
  /\ life = "closing"
  /\ Running = {}
  /\ life' = "down"
  /\ UNCHANGED <<rec, wanted, child, stop, resumed, flow, turn, awaited>>

ShutdownDone ==
  /\ life = "closing"
  /\ awaited \cap Tracked = {}
  /\ life' = "down"
  /\ UNCHANGED <<rec, wanted, child, stop, resumed, flow, turn, awaited>>

-----------------------------------------------------------------------------
\* What a child, a provider or the SDK does: it ends sooner or later.
Progress ==
  \/ \E s \in Sub : \/ ModelBuilt(s) \/ ModelFails(s) \/ Throws(s) \/ CleanedUp(s)
                    \/ \E o \in Terminal : Answers(s, o)
  \/ \E d \in Dispatch : Invoked(d)
  \/ \E n \in Node : \/ NodeBuilt(n) \/ FlowBuilt(n) \/ NodeFails(n)
                     \/ NodeStarts(n)
                     \/ \E o \in Terminal : NodeAnswers(n, o)
  \/ GraphEnds
  \/ FlowCleaned

Next ==
  /\ life # "down"
  /\ \/ Progress
     \/ \E s \in Sub : Delegate(s) \/ Resumes(s)
     \/ \E edges \in SUBSET (Node \X Node), scoped \in {{}, Node},
           width \in 1..Cardinality(Node) : Orchestrate(edges, scoped, width)
     \/ \E d \in Dispatch : CancelOne(d)
     \/ CancelTurn \/ NextTurn \/ Shutdown \/ ShutdownDone

Spec == Init /\ [][Next]_vars

\* A provider answers or times out, a child that runs ends its turn, the graph
\* starts what is ready, and a settled promise resumes its caller.
Fairness == /\ WF_vars(life # "down" /\ Progress)
            /\ WF_vars(life # "down" /\ ShutdownDone)

FairSpec == Spec /\ Fairness

-----------------------------------------------------------------------------
(* Properties *)

Flow == [phase : {"idle", "building", "graph", "cleaning", "over"},
         edges : SUBSET (Node \X Node), scoped : SUBSET Node,
         width : Nat, aborted : BOOLEAN]

TypeOK ==
  /\ rec \in [Dispatch -> Terminal \cup {"none", "running"}]
  /\ wanted \in SUBSET Dispatch
  /\ child \in [Dispatch -> {"none", "building", "built", "starting", "invoked",
                             "answered", "failing", "cleaning", "gone"}]
  /\ stop \in SUBSET Dispatch /\ resumed \in SUBSET Sub
  /\ flow \in Flow
  /\ turn \in {"running", "stopped"}
  /\ life \in {"up", "closing", "down"} /\ awaited \in SUBSET Dispatch
  /\ \A d \in Dispatch : child[d] = "none" <=> rec[d] = "none"
  /\ flow.phase = "idle" => \A n \in Node : child[n] = "none"

\* A dispatch reaches one terminal state and keeps it: the sweep of a workflow,
\* the catch of a call and a late cancellation all meet a settled record
\* without rewriting it.
TerminalIsFinal ==
  [][\A d \in Dispatch : rec[d] \in Terminal => rec'[d] = rec[d]]_vars

\* A slot is freed by settlement and by nothing else: a child that executes,
\* one that was told to cancel included, has a running record that the cap
\* counts.
ExecutingIsCounted == \A d \in Executing : rec[d] = "running"

\* From the moment a dispatch or the turn has been cancelled, wherever the call
\* was, its child is not started, and not continued after a stream interruption.
\* One that had been started and not invoked is invoked all the same, but never
\* without having been told to cancel.
WithdrawnNeverStarts ==
  [][\A d \in Dispatch : d \in wanted \/ turn = "stopped" =>
        /\ d \in Started' => d \in Started
        /\ d \in resumed' => d \in resumed
        /\ d \in Executing' => d \in Executing \cup stop]_vars

\* Stronger, and not so: the start of a child is awaited after the last look.
WithdrawnNeverInvoked ==
  [][\A d \in Executing' : d \in wanted \/ turn = "stopped" => d \in Executing]_vars

\* Two nodes that declared overlapping write scopes never execute at once.
NoConcurrentOverlap == Cardinality(Executing \cap flow.scoped) <= 1

\* A dispatch that reports "cancelled" was cancelled: by its own request, with
\* its turn, by the shutdown, or, for a node, because its workflow was aborted
\* or failed.
FlowFailed == \/ \E n \in Node : rec[n] = "failed"
              \/ \E n \in Node : child[n] = "building" /\ child'[n] = "gone"
CancelledHasCause ==
  [][\A d \in Dispatch : rec[d] # "cancelled" /\ rec'[d] = "cancelled" =>
        \/ d \in wanted \cup stop \/ turn = "stopped"
        \/ d \in Node /\ (flow.aborted \/ FlowFailed)]_vars

\* shutdown() returns, wherever the calls that it waits for were.
ShutdownEnds == life = "closing" ~> life = "down"

\* "At most ${cap} child dispatches run at once" (concurrency-limit.ts:46).
CapHolds == Cardinality(Executing) <= Cap

\* A settled call holds no slot: the finally sweep settles every dispatch of a
\* workflow (workflow-tool.ts:257), as a slot is freed by settlement alone.
EverySlotFreed == Tracked = {} => Running = {}

\* What the records say of cancellation is what happens to the children: the end
\* that was recorded stands, it has the cause it names, nothing executes behind a
\* settled record, and nothing is started that was cancelled.
CancellationIsHonest ==
  []ExecutingIsCounted /\ TerminalIsFinal /\ CancelledHasCause /\ WithdrawnNeverStarts
=============================================================================
