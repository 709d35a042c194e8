-------------------------- MODULE DelegationsProofs --------------------------
(***************************************************************************)
(* Safety of the delegations, for any set of subagent calls, any graph of  *)
(* workflow nodes and any cap: what the write scopes promise, and what the *)
(* records say of cancellation.                                            *)
(***************************************************************************)
EXTENDS Delegations, FiniteSetTheorems, TLAPS

\* A subagent that is built, runs or fails holds its slot.
Counted == \A s \in Sub :
    /\ child[s] \in {"none", "building", "starting", "invoked", "failing",
                    "cleaning", "gone"}
    /\ child[s] \in {"building", "starting", "invoked", "failing"}
         => rec[s] = "running"

\* How far the nodes are in each phase of the workflow.
Placed == \A n \in Node :
    /\ child[n] = "building" => flow.phase = "building"
    /\ child[n] \in {"starting", "invoked"}
         => flow.phase = "graph" /\ rec[n] = "running"
    /\ child[n] = "answered" => rec[n] # "running"
    /\ child[n] \in {"building", "built"} /\ flow.phase \in {"building", "graph"}
         => rec[n] = "running"
    /\ flow.phase = "building" =>
         /\ child[n] \in {"none", "building", "built"}
         /\ \A m \in Node :
              child[n] = "building" /\ child[m] = "building" => m = n
    /\ flow.phase = "graph"
         => child[n] \in {"built", "starting", "invoked", "answered"}

\* A workflow under way was let through by validate(), and a node was started
\* only after every node with an edge to it had completed.
Ordered ==
    /\ flow.edges \subseteq Node \X Node
    /\ flow.phase \in {"building", "graph"} => Valid(flow.edges, flow.scoped)
    /\ flow.phase = "graph" =>
        \A e \in flow.edges :
            child[e[2]] \in {"starting", "invoked", "answered"}
              => child[e[1]] = "answered"

\* A turn that was cancelled aborted the workflow of its call.
Aborts ==
    turn = "stopped" /\ flow.phase \in {"building", "graph"} => flow.aborted

\* A child that is being started has been told of every cancellation.
Reached == \A d \in Dispatch :
    child[d] = "starting" /\ (d \in wanted \/ turn = "stopped") => d \in stop

IInv == TypeOK /\ Counted /\ Placed /\ Ordered /\ Aborts /\ Reached

-----------------------------------------------------------------------------
\* A dispatch is a call of the subagent tool or a node, and not both.
LEMMA Disjoint ==
    /\ \A s \in Sub : s \in Dispatch /\ s \notin Node
    /\ \A n \in Node : n \in Dispatch /\ n \notin Sub
  BY DispatchAssumption DEF Dispatch

\* Finishing records begins none and takes none back.
LEMMA FinishIs ==
    ASSUME TypeOK, NEW D, NEW state \in Terminal
    PROVE  /\ Finish(D, state) \in [Dispatch -> Terminal \cup {"none", "running"}]
           /\ \A d \in Dispatch : Finish(D, state)[d] = "none" <=> rec[d] = "none"
  BY DEF Finish, TypeOK, Terminal

\* Finishing writes the state of running records alone.
LEMMA FinishNode ==
    ASSUME TypeOK, NEW D, NEW state, NEW m \in Node
    PROVE  /\ m \in D /\ rec[m] = "running" => Finish(D, state)[m] = state
           /\ m \notin D \/ rec[m] # "running" => Finish(D, state)[m] = rec[m]
  BY DEF Finish, TypeOK, Dispatch

\* The values that are written to the workflow call.
LEMMA FlowTypes ==
    ASSUME NEW f \in Flow
    PROVE  /\ \A x \in {"idle", "building", "graph", "cleaning", "over"} :
                  [f EXCEPT !.phase = x] \in Flow
           /\ \A b \in BOOLEAN : [f EXCEPT !.aborted = b] \in Flow
           /\ f.aborted \in BOOLEAN
           /\ NoFlow \in Flow /\ [NoFlow EXCEPT !.phase = "over"] \in Flow
  BY DEF Flow, NoFlow

\* The invariant holds at first.
LEMMA InitInv == Init => IInv
<1>. SUFFICES ASSUME Init PROVE IInv
  OBVIOUS
<1>1. NoFlow \in Flow
  BY DEF NoFlow, Flow
<1>. QED  BY <1>1
          DEF Init, IInv, TypeOK, Counted, Placed, Ordered, Aborts, Reached,
              NoFlow, Dispatch

\* Every step keeps the types.
LEMMA TypeStep == TypeOK /\ Placed /\ [Next]_vars => TypeOK'
<1>. SUFFICES ASSUME TypeOK, Placed, [Next]_vars PROVE TypeOK'
  OBVIOUS
<1>. USE DEF TypeOK, Terminal, Dispatch
<1>1. ASSUME NEW s \in Sub, ModelBuilt(s) PROVE TypeOK'
  <2>1. /\ rec' \in [Dispatch -> Terminal \cup {"none", "running"}]
        /\ \A d \in Dispatch : rec'[d] = "none" <=> rec[d] = "none"
    BY <1>1, FinishIs DEF ModelBuilt
  <2>. QED  BY <1>1, <2>1 DEF ModelBuilt
<1>2. ASSUME NEW s \in Sub, ModelFails(s) PROVE TypeOK'
  <2>1. /\ rec' \in [Dispatch -> Terminal \cup {"none", "running"}]
        /\ \A d \in Dispatch : rec'[d] = "none" <=> rec[d] = "none"
    BY <1>2, FinishIs DEF ModelFails
  <2>. QED  BY <1>2, <2>1 DEF ModelFails
<1>3. ASSUME NEW s \in Sub, Throws(s) PROVE TypeOK'
  BY <1>3 DEF Throws
<1>4. ASSUME NEW s \in Sub, CleanedUp(s) PROVE TypeOK'
  <2>1. /\ rec' \in [Dispatch -> Terminal \cup {"none", "running"}]
        /\ \A d \in Dispatch : rec'[d] = "none" <=> rec[d] = "none"
    BY <1>4, FinishIs DEF CleanedUp
  <2>. QED  BY <1>4, <2>1 DEF CleanedUp
<1>5. ASSUME NEW s \in Sub, NEW o \in Terminal, Answers(s, o) PROVE TypeOK'
  <2>1. /\ rec' \in [Dispatch -> Terminal \cup {"none", "running"}]
        /\ \A d \in Dispatch : rec'[d] = "none" <=> rec[d] = "none"
    BY <1>5, FinishIs DEF Answers
  <2>. QED  BY <1>5, <2>1 DEF Answers
<1>6. ASSUME NEW n \in Node, NodeBuilt(n) PROVE TypeOK'
  <2>1. PICK next \in Unbegun :
              /\ rec' = [rec EXCEPT ![next] = "running"]
              /\ child' = [child EXCEPT ![n] = "built", ![next] = "building"]
    BY <1>6 DEF NodeBuilt
  <2>2. next \in Node /\ n # next /\ flow.phase = "building"
    BY <1>6 DEF Unbegun, NodeBuilt, Placed
  <2>. QED  BY <1>6, <2>1, <2>2 DEF NodeBuilt, Attached
<1>7. ASSUME NEW n \in Node, FlowBuilt(n) PROVE TypeOK'
  <2>1. /\ rec' \in [Dispatch -> Terminal \cup {"none", "running"}]
        /\ \A d \in Dispatch : rec'[d] = "none" <=> rec[d] = "none"
    BY <1>7, FinishIs DEF FlowBuilt, Sweep
  <2>2. \E x \in {"cleaning", "graph"} : flow' = [flow EXCEPT !.phase = x]
    BY <1>7 DEF FlowBuilt, Sweep
  <2>3. flow' \in Flow /\ flow'.phase # "idle"
    BY <2>2 DEF Flow
  <2>. QED  BY <1>7, <2>1, <2>3 DEF FlowBuilt, Attached
<1>8. ASSUME NEW n \in Node, NodeFails(n) PROVE TypeOK'
  <2>1. /\ rec' \in [Dispatch -> Terminal \cup {"none", "running"}]
        /\ \A d \in Dispatch : rec'[d] = "none" <=> rec[d] = "none"
    BY <1>8, FinishIs DEF NodeFails, Sweep
  <2>2. flow' \in Flow /\ flow'.phase = "cleaning"
    <3>1. flow' = [flow EXCEPT !.phase = "cleaning"]
      BY <1>8 DEF NodeFails, Sweep
    <3>. QED  BY <3>1 DEF Flow
  <2>. QED  BY <1>8, <2>1, <2>2 DEF NodeFails, Sweep
<1>9. ASSUME NEW n \in Node, NodeStarts(n) PROVE TypeOK'
  <2>1. /\ rec' \in [Dispatch -> Terminal \cup {"none", "running"}]
        /\ \A d \in Dispatch : rec'[d] = "none" <=> rec[d] = "none"
    BY <1>9, FinishIs DEF NodeStarts, Startable
  <2>. QED  BY <1>9, <2>1 DEF NodeStarts, Startable
<1>10. ASSUME NEW n \in Node, NEW o \in Terminal, NodeAnswers(n, o)
     PROVE TypeOK'
  <2>1. /\ rec' \in [Dispatch -> Terminal \cup {"none", "running"}]
        /\ \A d \in Dispatch : rec'[d] = "none" <=> rec[d] = "none"
    BY <1>10, FinishIs DEF NodeAnswers
  <2>. QED  BY <1>10, <2>1 DEF NodeAnswers
<1>11. ASSUME GraphEnds PROVE TypeOK'
  <2>1. /\ rec' \in [Dispatch -> Terminal \cup {"none", "running"}]
        /\ \A d \in Dispatch : rec'[d] = "none" <=> rec[d] = "none"
    BY <1>11, FinishIs DEF GraphEnds, Sweep
  <2>2. flow' \in Flow /\ flow'.phase = "cleaning"
    <3>1. flow' = [flow EXCEPT !.phase = "cleaning"]
      BY <1>11 DEF GraphEnds, Sweep
    <3>. QED  BY <3>1 DEF Flow
  <2>. QED  BY <1>11, <2>1, <2>2 DEF GraphEnds, Sweep
<1>12. ASSUME FlowCleaned PROVE TypeOK'
  <2>1. flow' \in Flow /\ flow'.phase # "idle"
    BY <1>12, FlowTypes DEF FlowCleaned, NoFlow
  <2>. QED  BY <1>12, <2>1 DEF FlowCleaned, Pushed
<1>13. ASSUME NEW s \in Sub, Delegate(s) PROVE TypeOK'
  <2>1. rec[s] = "none"
    BY <1>13 DEF Delegate
  <2>. QED  BY <1>13, <2>1, Disjoint DEF Delegate
<1>14. ASSUME NEW s \in Sub, Resumes(s) PROVE TypeOK'
  BY <1>14 DEF Resumes
<1>15. ASSUME NEW edges \in SUBSET (Node \X Node), NEW scoped \in {{}, Node},
              NEW width \in 1 .. Cardinality(Node),
              Orchestrate(edges, scoped, width)
     PROVE TypeOK'
  <2>1. flow' \in Flow /\ flow'.phase # "idle"
    BY <1>15 DEF Orchestrate, Flow
  <2>2. PICK n \in Node : /\ rec' = [rec EXCEPT ![n] = "running"]
                         /\ child' = [child EXCEPT ![n] = "building"]
    BY <1>15 DEF Orchestrate
  <2>. QED  BY <1>15, <2>1, <2>2 DEF Orchestrate
<1>16. ASSUME NEW d \in Dispatch, CancelOne(d) PROVE TypeOK'
  BY <1>16 DEF CancelOne, Told
<1>17. ASSUME CancelTurn PROVE TypeOK'
  <2>1. flow' \in Flow /\ flow'.phase = flow.phase
    BY <1>17 DEF CancelTurn, CancelActive, Flow
  <2>2. stop' \in SUBSET Dispatch
    BY <1>17 DEF CancelTurn, CancelActive, ActiveNodes, Executing, Pushed
  <2>. QED  BY <1>17, <2>1, <2>2 DEF CancelTurn
<1>18. ASSUME NextTurn PROVE TypeOK'
  BY <1>18 DEF NextTurn
<1>19. ASSUME Shutdown PROVE TypeOK'
  <2>1. flow' \in Flow /\ flow'.phase = flow.phase
    BY <1>19 DEF Shutdown, CancelActive, Flow
  <2>2. stop' \in SUBSET Dispatch /\ awaited' \in SUBSET Dispatch
    BY <1>19
    DEF Shutdown, CancelActive, ActiveNodes, Executing, Pushed, Tracked
  <2>. QED  BY <1>19, <2>1, <2>2 DEF Shutdown
<1>20. ASSUME ShutdownDone PROVE TypeOK'
  BY <1>20 DEF ShutdownDone
<1>21. ASSUME NEW d \in Dispatch, Invoked(d) PROVE TypeOK'
  BY <1>21 DEF Invoked, Recalled
<1>22. CASE UNCHANGED vars
  BY <1>22 DEF vars
<1>. QED
  BY <1>1, <1>2, <1>3, <1>4, <1>5, <1>6, <1>7, <1>8, <1>9, <1>10, <1>11,
     <1>12, <1>13, <1>14, <1>15, <1>16, <1>17, <1>18, <1>19, <1>20, <1>21,
     <1>22
  DEF Next, Progress

\* No step frees the slot of a subagent that may run.
LEMMA CountedStep == TypeOK /\ Counted /\ [Next]_vars => Counted'
<1>. SUFFICES ASSUME TypeOK, Counted, [Next]_vars PROVE Counted'
  OBVIOUS
<1>. USE Disjoint DEF TypeOK, Counted, Terminal
<1>1. ASSUME NEW s \in Sub, ModelBuilt(s) PROVE Counted'
  BY <1>1 DEF ModelBuilt, Finish, Pushed, Dispatch
<1>2. ASSUME NEW s \in Sub, ModelFails(s) PROVE Counted'
  BY <1>2 DEF ModelFails, Finish, Pushed, Dispatch
<1>3. ASSUME NEW s \in Sub, Throws(s) PROVE Counted'
  BY <1>3 DEF Throws, Finish, Pushed, Dispatch
<1>4. ASSUME NEW s \in Sub, CleanedUp(s) PROVE Counted'
  BY <1>4 DEF CleanedUp, Finish, Pushed, Dispatch
<1>5. ASSUME NEW s \in Sub, NEW o \in Terminal, Answers(s, o) PROVE Counted'
  BY <1>5 DEF Answers, Finish, Pushed, Dispatch
<1>6. ASSUME NEW n \in Node, NodeBuilt(n) PROVE Counted'
  BY <1>6 DEF NodeBuilt, Attached, Finish, Pushed, Dispatch
<1>7. ASSUME NEW n \in Node, FlowBuilt(n) PROVE Counted'
  BY <1>7 DEF FlowBuilt, Sweep, Attached, Finish, Pushed, Dispatch
<1>8. ASSUME NEW n \in Node, NodeFails(n) PROVE Counted'
  BY <1>8 DEF NodeFails, Sweep, Finish, Pushed, Dispatch
<1>9. ASSUME NEW n \in Node, NodeStarts(n) PROVE Counted'
  BY <1>9 DEF NodeStarts, Startable, Completed, Finish, Pushed, Dispatch
<1>10. ASSUME NEW n \in Node, NEW o \in Terminal, NodeAnswers(n, o)
     PROVE Counted'
  BY <1>10 DEF NodeAnswers, Finish, Pushed, Dispatch
<1>11. ASSUME GraphEnds PROVE Counted'
  BY <1>11 DEF GraphEnds, Sweep, Finish, Pushed, Dispatch
<1>12. ASSUME FlowCleaned PROVE Counted'
  BY <1>12 DEF FlowCleaned, NoFlow, Finish, Pushed, Dispatch
<1>13. ASSUME NEW s \in Sub, Delegate(s) PROVE Counted'
  BY <1>13 DEF Delegate, Finish, Pushed, Dispatch
<1>14. ASSUME NEW s \in Sub, Resumes(s) PROVE Counted'
  BY <1>14 DEF Resumes, Finish, Pushed, Dispatch
<1>15. ASSUME NEW edges \in SUBSET (Node \X Node), NEW scoped \in {{}, Node},
              NEW width \in 1 .. Cardinality(Node),
              Orchestrate(edges, scoped, width)
     PROVE Counted'
  BY <1>15 DEF Orchestrate, Finish, Pushed, Dispatch
<1>16. ASSUME NEW d \in Dispatch, CancelOne(d) PROVE Counted'
  BY <1>16 DEF CancelOne, Told, Finish, Pushed, Dispatch
<1>17. ASSUME CancelTurn PROVE Counted'
  BY <1>17 DEF CancelTurn, CancelActive, ActiveNodes, Finish, Pushed, Dispatch
<1>18. ASSUME NextTurn PROVE Counted'
  BY <1>18 DEF NextTurn, Finish, Pushed, Dispatch
<1>19. ASSUME Shutdown PROVE Counted'
  BY <1>19 DEF Shutdown, CancelActive, ActiveNodes, Finish, Pushed, Dispatch
<1>20. ASSUME ShutdownDone PROVE Counted'
  BY <1>20 DEF ShutdownDone, Finish, Pushed, Dispatch
<1>21. ASSUME NEW d \in Dispatch, Invoked(d) PROVE Counted'
  BY <1>21 DEF Invoked, Dispatch
<1>22. CASE UNCHANGED vars
  BY <1>22 DEF vars, Dispatch
<1>. QED
  BY <1>1, <1>2, <1>3, <1>4, <1>5, <1>6, <1>7, <1>8, <1>9, <1>10, <1>11,
     <1>12, <1>13, <1>14, <1>15, <1>16, <1>17, <1>18, <1>19, <1>20, <1>21,
     <1>22
  DEF Next, Progress

\* Every step keeps the nodes in line with the phase of the workflow.
LEMMA PlacedStep == TypeOK /\ Placed /\ [Next]_vars => Placed'
<1>. SUFFICES ASSUME TypeOK, Placed, [Next]_vars PROVE Placed'
  OBVIOUS
<1>. USE Disjoint DEF TypeOK, Placed, Terminal, Flow
<1>1. ASSUME NEW s \in Sub, ModelBuilt(s) PROVE Placed'
  BY <1>1 DEF ModelBuilt, Finish, Pushed, Unbegun
<1>2. ASSUME NEW s \in Sub, ModelFails(s) PROVE Placed'
  BY <1>2 DEF ModelFails, Finish, Pushed, Unbegun
<1>3. ASSUME NEW s \in Sub, Throws(s) PROVE Placed'
  BY <1>3 DEF Throws, Finish, Pushed, Unbegun
<1>4. ASSUME NEW s \in Sub, CleanedUp(s) PROVE Placed'
  BY <1>4 DEF CleanedUp, Finish, Pushed, Unbegun
<1>5. ASSUME NEW s \in Sub, NEW o \in Terminal, Answers(s, o) PROVE Placed'
  BY <1>5 DEF Answers, Finish, Pushed, Unbegun
<1>6. ASSUME NEW n \in Node, NodeBuilt(n) PROVE Placed'
  <2>1. PICK next \in Unbegun :
              /\ rec' = [rec EXCEPT ![next] = "running"]
              /\ child' = [child EXCEPT ![n] = "built", ![next] = "building"]
    BY <1>6 DEF NodeBuilt
  <2>2. next \in Node /\ n # next /\ flow.phase = "building"
    BY <1>6 DEF Unbegun, NodeBuilt, Placed
  <2>3. \A m \in Node : /\ m # n /\ m # next => child'[m] = child[m] /\ rec'[m] = rec[m]
                          /\ child'[n] = "built" /\ rec'[n] = rec[n]
                        /\ child'[next] = "building" /\ rec'[next] = "running"
    BY <2>1, <2>2
  <2>. QED  BY <1>6, <2>1, <2>2, <2>3 DEF NodeBuilt
<1>7. ASSUME NEW n \in Node, FlowBuilt(n) PROVE Placed'
  <2>1. /\ child[n] = "building" /\ flow.phase = "building"
        /\ \A m \in Node : /\ m # n => child[m] = "built" /\ rec[m] = "running"
                           /\ child'[m] = "built"
    BY <1>7 DEF FlowBuilt, Unbegun
  <2>2. CASE flow' = [flow EXCEPT !.phase = "cleaning"]
    BY <1>7, <2>1, <2>2
  <2>3. CASE flow' = [flow EXCEPT !.phase = "graph"] /\ rec' = rec
    BY <1>7, <2>1, <2>3
  <2>. QED  BY <1>7, <2>2, <2>3 DEF FlowBuilt, Sweep
<1>8. ASSUME NEW n \in Node, NodeFails(n) PROVE Placed'
  <2>1. flow.phase = "building" /\ flow'.phase = "cleaning"
    BY <1>8 DEF NodeFails, Sweep
  <2>2. \A m \in Node : child'[m] \in {"none", "built", "gone"}
    BY <1>8, <2>1 DEF NodeFails
  <2>. QED  BY <2>1, <2>2
<1>9. ASSUME NEW n \in Node, NodeStarts(n) PROVE Placed'
  <2>1. flow.phase = "graph" /\ flow' = flow /\ child[n] = "built" /\ rec[n] = "running"
    BY <1>9 DEF NodeStarts, Startable
  <2>2. CASE rec' = Finish({n}, "cancelled") /\ child' = [child EXCEPT ![n] = "answered"]
    <3>1. \A m \in Node : /\ m = n => rec'[m] = "cancelled" /\ child'[m] = "answered"
                          /\ m # n => rec'[m] = rec[m] /\ child'[m] = child[m]
      BY <2>1, <2>2, FinishNode
    <3>. HIDE DEF TypeOK, Flow
    <3>. QED  BY <2>1, <3>1
  <2>3. CASE child' = [child EXCEPT ![n] = "starting"] /\ rec' = rec
    BY <2>1, <2>3
  <2>. QED  BY <1>9, <2>2, <2>3 DEF NodeStarts
<1>10. ASSUME NEW n \in Node, NEW o \in Terminal, NodeAnswers(n, o)
     PROVE Placed'
  <2>1. flow.phase = "graph" /\ flow' = flow /\ rec[n] = "running"
    BY <1>10 DEF NodeAnswers
  <2>2. \A m \in Node : /\ m = n => rec'[m] = o /\ child'[m] = "answered"
                        /\ m # n => rec'[m] = rec[m] /\ child'[m] = child[m]
    BY <1>10, <2>1, FinishNode DEF NodeAnswers
  <2>. HIDE DEF TypeOK, Flow
  <2>. QED  BY <2>1, <2>2
<1>11. ASSUME GraphEnds PROVE Placed'
  <2>1. flow.phase = "graph" /\ flow'.phase = "cleaning" /\ child' = child
    BY <1>11 DEF GraphEnds, Sweep
  <2>2. \A m \in Node : child[m] \in {"built", "answered"}
    BY <1>11, <2>1 DEF GraphEnds, Started, Dispatch
  <2>3. \A m \in Node : rec[m] # "running" => rec'[m] # "running"
    BY <1>11, FinishNode DEF GraphEnds, Sweep
  <2>. QED  BY <2>1, <2>2, <2>3
<1>12. ASSUME FlowCleaned PROVE Placed'
  <2>1. flow.phase = "cleaning" /\ flow'.phase = "over" /\ rec' = rec
    BY <1>12 DEF FlowCleaned, NoFlow
  <2>2. \A m \in Node : \/ child'[m] = "gone"
                       \/ /\ child'[m] = child[m]
                          /\ child[m] \notin {"built", "starting", "invoked", "answered"}
    BY <1>12 DEF FlowCleaned, Pushed, Dispatch
  <2>. QED  BY <2>1, <2>2
<1>13. ASSUME NEW s \in Sub, Delegate(s) PROVE Placed'
  BY <1>13 DEF Delegate, Finish, Pushed, Unbegun
<1>14. ASSUME NEW s \in Sub, Resumes(s) PROVE Placed'
  BY <1>14 DEF Resumes, Finish, Pushed, Unbegun
<1>15. ASSUME NEW edges \in SUBSET (Node \X Node), NEW scoped \in {{}, Node},
              NEW width \in 1 .. Cardinality(Node),
              Orchestrate(edges, scoped, width)
     PROVE Placed'
  BY <1>15 DEF Orchestrate, Finish, Pushed, Unbegun
<1>16. ASSUME NEW d \in Dispatch, CancelOne(d) PROVE Placed'
  BY <1>16 DEF CancelOne, Told, Finish, Pushed, Unbegun
<1>17. ASSUME CancelTurn PROVE Placed'
  BY <1>17 DEF CancelTurn, CancelActive, ActiveNodes, Finish, Pushed, Unbegun
<1>18. ASSUME NextTurn PROVE Placed'
  BY <1>18 DEF NextTurn, Finish, Pushed, Unbegun
<1>19. ASSUME Shutdown PROVE Placed'
  BY <1>19 DEF Shutdown, CancelActive, ActiveNodes, Finish, Pushed, Unbegun
<1>20. ASSUME ShutdownDone PROVE Placed'
  BY <1>20 DEF ShutdownDone, Finish, Pushed, Unbegun
<1>21. ASSUME NEW d \in Dispatch, Invoked(d) PROVE Placed'
  BY <1>21 DEF Invoked, Dispatch
<1>22. CASE UNCHANGED vars
  BY <1>22 DEF vars
<1>. HIDE DEF TypeOK, Placed, Flow, Terminal
<1>. QED
  BY <1>1, <1>2, <1>3, <1>4, <1>5, <1>6, <1>7, <1>8, <1>9, <1>10, <1>11,
     <1>12, <1>13, <1>14, <1>15, <1>16, <1>17, <1>18, <1>19, <1>20, <1>21,
     <1>22
  DEF Next, Progress

\* No step starts a node before those it depends on.
LEMMA OrderedStep == TypeOK /\ Placed /\ Ordered /\ [Next]_vars => Ordered'
<1>. SUFFICES ASSUME TypeOK, Placed, Ordered, [Next]_vars PROVE Ordered'
  OBVIOUS
<1>. USE Disjoint DEF TypeOK, Placed, Ordered, Flow
<1>1. ASSUME NEW s \in Sub, ModelBuilt(s) PROVE Ordered'
  BY <1>1 DEF ModelBuilt, Pushed
<1>2. ASSUME NEW s \in Sub, ModelFails(s) PROVE Ordered'
  BY <1>2 DEF ModelFails, Pushed
<1>3. ASSUME NEW s \in Sub, Throws(s) PROVE Ordered'
  BY <1>3 DEF Throws, Pushed
<1>4. ASSUME NEW s \in Sub, CleanedUp(s) PROVE Ordered'
  BY <1>4 DEF CleanedUp, Pushed
<1>5. ASSUME NEW s \in Sub, NEW o \in Terminal, Answers(s, o) PROVE Ordered'
  BY <1>5 DEF Answers, Pushed
<1>6. ASSUME NEW n \in Node, NodeBuilt(n) PROVE Ordered'
  BY <1>6 DEF NodeBuilt, Attached, Pushed
<1>7. ASSUME NEW n \in Node, FlowBuilt(n) PROVE Ordered'
  BY <1>7 DEF FlowBuilt, Sweep, Attached, Pushed
<1>8. ASSUME NEW n \in Node, NodeFails(n) PROVE Ordered'
  BY <1>8 DEF NodeFails, Sweep, Pushed
<1>9. ASSUME NEW n \in Node, NodeStarts(n) PROVE Ordered'
  BY <1>9 DEF NodeStarts, Startable, Completed, Pushed
<1>10. ASSUME NEW n \in Node, NEW o \in Terminal, NodeAnswers(n, o)
     PROVE Ordered'
  BY <1>10 DEF NodeAnswers, Pushed
<1>11. ASSUME GraphEnds PROVE Ordered'
  BY <1>11 DEF GraphEnds, Sweep, Pushed
<1>12. ASSUME FlowCleaned PROVE Ordered'
  BY <1>12 DEF FlowCleaned, NoFlow, Pushed
<1>13. ASSUME NEW s \in Sub, Delegate(s) PROVE Ordered'
  BY <1>13 DEF Delegate, Pushed
<1>14. ASSUME NEW s \in Sub, Resumes(s) PROVE Ordered'
  BY <1>14 DEF Resumes, Pushed
<1>15. ASSUME NEW edges \in SUBSET (Node \X Node), NEW scoped \in {{}, Node},
              NEW width \in 1 .. Cardinality(Node),
              Orchestrate(edges, scoped, width)
     PROVE Ordered'
  BY <1>15 DEF Orchestrate, Pushed
<1>16. ASSUME NEW d \in Dispatch, CancelOne(d) PROVE Ordered'
  BY <1>16 DEF CancelOne, Told, Pushed
<1>17. ASSUME CancelTurn PROVE Ordered'
  BY <1>17 DEF CancelTurn, CancelActive, ActiveNodes, Pushed
<1>18. ASSUME NextTurn PROVE Ordered'
  BY <1>18 DEF NextTurn, Pushed
<1>19. ASSUME Shutdown PROVE Ordered'
  BY <1>19 DEF Shutdown, CancelActive, ActiveNodes, Pushed
<1>20. ASSUME ShutdownDone PROVE Ordered'
  BY <1>20 DEF ShutdownDone, Pushed
<1>21. ASSUME NEW d \in Dispatch, Invoked(d) PROVE Ordered'
  BY <1>21 DEF Invoked, Dispatch
<1>22. CASE UNCHANGED vars
  BY <1>22 DEF vars
<1>. HIDE DEF TypeOK, Placed, Ordered, Flow
<1>. QED
  BY <1>1, <1>2, <1>3, <1>4, <1>5, <1>6, <1>7, <1>8, <1>9, <1>10, <1>11,
     <1>12, <1>13, <1>14, <1>15, <1>16, <1>17, <1>18, <1>19, <1>20, <1>21,
     <1>22
  DEF Next, Progress

\* No step lets a workflow run on in a cancelled turn.
LEMMA AbortsStep == TypeOK /\ Placed /\ Aborts /\ [Next]_vars => Aborts'
<1>. SUFFICES ASSUME TypeOK, Placed, Aborts, [Next]_vars PROVE Aborts'
  OBVIOUS
<1>. USE DEF TypeOK, Aborts, Flow
<1>1. ASSUME NEW s \in Sub, ModelBuilt(s) PROVE Aborts'
  BY <1>1 DEF ModelBuilt
<1>2. ASSUME NEW s \in Sub, ModelFails(s) PROVE Aborts'
  BY <1>2 DEF ModelFails
<1>3. ASSUME NEW s \in Sub, Throws(s) PROVE Aborts'
  BY <1>3 DEF Throws
<1>4. ASSUME NEW s \in Sub, CleanedUp(s) PROVE Aborts'
  BY <1>4 DEF CleanedUp
<1>5. ASSUME NEW s \in Sub, NEW o \in Terminal, Answers(s, o) PROVE Aborts'
  BY <1>5 DEF Answers
<1>6. ASSUME NEW n \in Node, NodeBuilt(n) PROVE Aborts'
  BY <1>6 DEF NodeBuilt, Attached
<1>7. ASSUME NEW n \in Node, FlowBuilt(n) PROVE Aborts'
  <2>1. CASE flow' = [flow EXCEPT !.phase = "cleaning"]
    BY <1>7, <2>1
  <2>2. CASE ~flow.aborted
    BY <1>7, <2>2 DEF FlowBuilt, Sweep, Placed
  <2>. QED  BY <1>7, <2>1, <2>2 DEF FlowBuilt, Sweep
<1>8. ASSUME NEW n \in Node, NodeFails(n) PROVE Aborts'
  BY <1>8 DEF NodeFails, Sweep
<1>9. ASSUME NEW n \in Node, NodeStarts(n) PROVE Aborts'
  BY <1>9 DEF NodeStarts, Startable, Completed
<1>10. ASSUME NEW n \in Node, NEW o \in Terminal, NodeAnswers(n, o)
     PROVE Aborts'
  BY <1>10 DEF NodeAnswers
<1>11. ASSUME GraphEnds PROVE Aborts'
  BY <1>11 DEF GraphEnds, Sweep
<1>12. ASSUME FlowCleaned PROVE Aborts'
  BY <1>12 DEF FlowCleaned, NoFlow
<1>13. ASSUME NEW s \in Sub, Delegate(s) PROVE Aborts'
  BY <1>13 DEF Delegate
<1>14. ASSUME NEW s \in Sub, Resumes(s) PROVE Aborts'
  BY <1>14 DEF Resumes
<1>15. ASSUME NEW edges \in SUBSET (Node \X Node), NEW scoped \in {{}, Node},
              NEW width \in 1 .. Cardinality(Node),
              Orchestrate(edges, scoped, width)
     PROVE Aborts'
  BY <1>15 DEF Orchestrate
<1>16. ASSUME NEW d \in Dispatch, CancelOne(d) PROVE Aborts'
  BY <1>16 DEF CancelOne, Told
<1>17. ASSUME CancelTurn PROVE Aborts'
  BY <1>17 DEF CancelTurn, CancelActive, ActiveNodes
<1>18. ASSUME NextTurn PROVE Aborts'
  BY <1>18 DEF NextTurn
<1>19. ASSUME Shutdown PROVE Aborts'
  BY <1>19 DEF Shutdown, CancelActive, ActiveNodes
<1>20. ASSUME ShutdownDone PROVE Aborts'
  BY <1>20 DEF ShutdownDone
<1>21. ASSUME NEW d \in Dispatch, Invoked(d) PROVE Aborts'
  BY <1>21 DEF Invoked
<1>22. CASE UNCHANGED vars
  BY <1>22 DEF vars
<1>. HIDE DEF TypeOK, Aborts, Flow
<1>. QED
  BY <1>1, <1>2, <1>3, <1>4, <1>5, <1>6, <1>7, <1>8, <1>9, <1>10, <1>11,
     <1>12, <1>13, <1>14, <1>15, <1>16, <1>17, <1>18, <1>19, <1>20, <1>21,
     <1>22
  DEF Next, Progress

\* No step leaves a child that is being started without word of a cancellation.
LEMMA ReachedStep ==
    TypeOK /\ Placed /\ Aborts /\ Reached /\ [Next]_vars => Reached'
<1>. SUFFICES ASSUME TypeOK, Placed, Aborts, Reached, [Next]_vars
     PROVE  Reached'
  OBVIOUS
<1>. USE Disjoint DEF TypeOK, Reached, Dispatch
<1>1. ASSUME NEW s \in Sub, ModelBuilt(s) PROVE Reached'
  BY <1>1 DEF ModelBuilt, Withdrawn
<1>2. ASSUME NEW s \in Sub, ModelFails(s) PROVE Reached'
  BY <1>2 DEF ModelFails
<1>3. ASSUME NEW s \in Sub, Throws(s) PROVE Reached'
  BY <1>3 DEF Throws
<1>4. ASSUME NEW s \in Sub, CleanedUp(s) PROVE Reached'
  BY <1>4 DEF CleanedUp
<1>5. ASSUME NEW s \in Sub, NEW o \in Terminal, Answers(s, o)
     PROVE Reached'
  BY <1>5 DEF Answers
<1>6. ASSUME NEW n \in Node, NodeBuilt(n) PROVE Reached'
  BY <1>6 DEF NodeBuilt, Attached
<1>7. ASSUME NEW n \in Node, FlowBuilt(n) PROVE Reached'
  BY <1>7 DEF FlowBuilt, Sweep, Attached
<1>8. ASSUME NEW n \in Node, NodeFails(n) PROVE Reached'
  BY <1>8 DEF NodeFails, Sweep
<1>9. ASSUME NEW n \in Node, NodeStarts(n) PROVE Reached'
  <2>1. flow.phase = "graph"
    BY <1>9 DEF NodeStarts, Startable
  <2>2. ~flow.aborted => turn # "stopped"
    BY <2>1 DEF Aborts
  <2>. QED  BY <1>9, <2>2 DEF NodeStarts
<1>10. ASSUME NEW n \in Node, NEW o \in Terminal,
              NodeAnswers(n, o)
     PROVE Reached'
  BY <1>10 DEF NodeAnswers
<1>11. ASSUME GraphEnds PROVE Reached'
  BY <1>11 DEF GraphEnds, Sweep
<1>12. ASSUME FlowCleaned PROVE Reached'
  BY <1>12 DEF FlowCleaned, NoFlow, Pushed
<1>13. ASSUME NEW s \in Sub, Delegate(s) PROVE Reached'
  BY <1>13 DEF Delegate
<1>14. ASSUME NEW s \in Sub, Resumes(s) PROVE Reached'
  BY <1>14 DEF Resumes
<1>15. ASSUME NEW edges \in SUBSET (Node \X Node), NEW scoped \in {{}, Node},
              NEW width \in 1 .. Cardinality(Node),
              Orchestrate(edges, scoped, width)
     PROVE Reached'
  BY <1>15 DEF Orchestrate
<1>16. ASSUME NEW d \in Dispatch, CancelOne(d) PROVE Reached'
  BY <1>16 DEF CancelOne, Told
<1>17. ASSUME CancelTurn PROVE Reached'
  <2>1. ASSUME NEW d \in Dispatch, child[d] = "starting" PROVE d \in stop'
    <3>1. CASE d \in Sub
      BY <1>17, <2>1, <3>1 DEF CancelTurn, CancelActive, Started
    <3>2. CASE d \in Node
      BY <1>17, <2>1, <3>2
      DEF CancelTurn, CancelActive, ActiveNodes, Pushed, Placed
    <3>. QED  BY <3>1, <3>2
  <2>. QED  BY <1>17, <2>1 DEF CancelTurn
<1>18. ASSUME NextTurn PROVE Reached'
  BY <1>18 DEF NextTurn
<1>19. ASSUME Shutdown PROVE Reached'
  BY <1>19 DEF Shutdown, CancelActive
<1>20. ASSUME ShutdownDone PROVE Reached'
  BY <1>20 DEF ShutdownDone
<1>21. ASSUME NEW d \in Dispatch, Invoked(d) PROVE Reached'
  BY <1>21 DEF Invoked, Recalled
<1>22. CASE UNCHANGED vars
  BY <1>22 DEF vars
<1>. HIDE DEF TypeOK, Reached
<1>. QED
  BY <1>1, <1>2, <1>3, <1>4, <1>5, <1>6, <1>7, <1>8, <1>9, <1>10, <1>11,
     <1>12, <1>13, <1>14, <1>15, <1>16, <1>17, <1>18, <1>19, <1>20, <1>21,
     <1>22
  DEF Next, Progress

\* The strengthened invariant holds in every reachable state.
THEOREM Invariance == Spec => []IInv
<1>1. IInv /\ [Next]_vars => IInv'
  BY TypeStep, CountedStep, PlacedStep, OrderedStep, AbortsStep, ReachedStep
  DEF IInv
<1>. QED  BY InitInv, <1>1, PTL DEF Spec

\* Every variable keeps its type.
THEOREM TypeCorrect == Spec => []TypeOK
<1>1. IInv => TypeOK
  BY DEF IInv
<1>. QED  BY Invariance, <1>1, PTL

\* No path of edges leads from a node that executes to one that does: what such
\* a path reaches has not been started.
LEMMA NotBeforeEnd ==
    ASSUME IInv, NEW a \in Executing \cap Node, NEW b \in Executing \cap Node
    PROVE  b \notin Reachable(flow.edges, a)
<1>. DEFINE S == {n \in Node : child[n] = "built"}
<1>1. flow.phase = "graph" /\ child[a] = "invoked" /\ child[b] = "invoked"
  BY DEF IInv, Placed, Executing
<1>2. ASSUME NEW e \in flow.edges, e[1] \in S \cup {a} PROVE e[2] \in S
  <2>1. e[1] \in Node /\ e[2] \in Node /\ child[e[1]] # "answered"
    BY <1>1, <1>2 DEF IInv, Ordered
  <2>2. child[e[2]] \notin {"starting", "invoked", "answered"}
    BY <1>1, <2>1 DEF IInv, Ordered
  <2>. QED  BY <1>1, <2>1, <2>2 DEF IInv, Placed
<1>3. S \in SUBSET Node /\ b \notin S
  BY <1>1
<1>. QED  BY <1>2, <1>3 DEF Reachable

\* Two nodes that declared overlapping write scopes never execute at once,
\* whatever graph validate() let through.
THEOREM NoConcurrentOverlapHolds == Spec => []NoConcurrentOverlap
<1>1. ASSUME IInv PROVE NoConcurrentOverlap
  <2>. DEFINE X == Executing \cap flow.scoped
  <2>1. X \subseteq Executing \cap Node
    BY <1>1 DEF IInv, TypeOK, Flow
  <2>2. ASSUME NEW a \in X, NEW b \in X PROVE a = b
    <3>1. flow.phase = "graph"
      BY <1>1, <2>1, <2>2 DEF IInv, Placed, Executing
    <3>2. Valid(flow.edges, flow.scoped)
      BY <1>1, <3>1 DEF IInv, Ordered
    <3>3. b \notin Reachable(flow.edges, a) /\ a \notin Reachable(flow.edges, b)
      BY <1>1, <2>1, NotBeforeEnd
    <3>. QED  BY <3>2, <3>3 DEF Valid
  <2>3. CASE X = {}
    BY <2>3, FS_EmptySet DEF NoConcurrentOverlap
  <2>4. ASSUME NEW a \in X PROVE NoConcurrentOverlap
    <3>1. X = {a}
      BY <2>2
    <3>2. Cardinality({a}) = 1
      BY FS_Singleton
    <3>. QED  BY <3>1, <3>2 DEF NoConcurrentOverlap
  <2>. QED  BY <2>3, <2>4
<1>2. IInv => NoConcurrentOverlap
  BY <1>1
<1>. QED  BY Invariance, <1>2, PTL

\* What executes has a running record.
LEMMA CountedInv == IInv => ExecutingIsCounted
  BY DEF IInv, Counted, Placed, ExecutingIsCounted, Executing, Dispatch

\* No step rewrites a settled record.
LEMMA FinalStep ==
    ASSUME IInv, [Next]_vars, NEW d \in Dispatch, rec[d] \in Terminal
    PROVE  rec'[d] = rec[d]
<1>1. ASSUME NEW s \in Sub, ModelBuilt(s) PROVE rec'[d] = rec[d]
  BY <1>1 DEF ModelBuilt, Finish, IInv, TypeOK, Terminal, Dispatch
<1>2. ASSUME NEW s \in Sub, ModelFails(s) PROVE rec'[d] = rec[d]
  BY <1>2 DEF ModelFails, Finish, IInv, TypeOK, Terminal, Dispatch
<1>3. ASSUME NEW s \in Sub, Throws(s) PROVE rec'[d] = rec[d]
  BY <1>3 DEF Throws, Finish, IInv, TypeOK, Terminal, Dispatch
<1>4. ASSUME NEW s \in Sub, CleanedUp(s) PROVE rec'[d] = rec[d]
  BY <1>4 DEF CleanedUp, Finish, IInv, TypeOK, Terminal, Dispatch
<1>5. ASSUME NEW s \in Sub, NEW o \in Terminal, Answers(s, o)
     PROVE rec'[d] = rec[d]
  BY <1>5 DEF Answers, Finish, IInv, TypeOK, Terminal, Dispatch
<1>6. ASSUME NEW n \in Node, NodeBuilt(n) PROVE rec'[d] = rec[d]
  <2>1. \A m \in Unbegun : m \in Dispatch /\ rec[m] = "none"
    BY Disjoint DEF Unbegun, IInv, TypeOK
  <2>. QED  BY <1>6, <2>1 DEF NodeBuilt, Terminal, IInv, TypeOK
<1>7. ASSUME NEW n \in Node, FlowBuilt(n) PROVE rec'[d] = rec[d]
  BY <1>7
  DEF FlowBuilt, Sweep, Attached, Finish, IInv, TypeOK, Terminal, Dispatch
<1>8. ASSUME NEW n \in Node, NodeFails(n) PROVE rec'[d] = rec[d]
  BY <1>8 DEF NodeFails, Sweep, Finish, IInv, TypeOK, Terminal, Dispatch
<1>9. ASSUME NEW n \in Node, NodeStarts(n) PROVE rec'[d] = rec[d]
  BY <1>9
  DEF NodeStarts, Startable, Completed, Finish, IInv, TypeOK, Terminal,
      Dispatch
<1>10. ASSUME NEW n \in Node, NEW o \in Terminal, NodeAnswers(n, o)
     PROVE rec'[d] = rec[d]
  BY <1>10 DEF NodeAnswers, Finish, IInv, TypeOK, Terminal, Dispatch
<1>11. ASSUME GraphEnds PROVE rec'[d] = rec[d]
  BY <1>11 DEF GraphEnds, Sweep, Finish, IInv, TypeOK, Terminal, Dispatch
<1>12. ASSUME FlowCleaned PROVE rec'[d] = rec[d]
  BY <1>12 DEF FlowCleaned, NoFlow, Finish, IInv, TypeOK, Terminal, Dispatch
<1>13. ASSUME NEW s \in Sub, Delegate(s) PROVE rec'[d] = rec[d]
  BY <1>13 DEF Delegate, Finish, IInv, TypeOK, Terminal, Dispatch
<1>14. ASSUME NEW s \in Sub, Resumes(s) PROVE rec'[d] = rec[d]
  BY <1>14 DEF Resumes, Finish, IInv, TypeOK, Terminal, Dispatch
<1>15. ASSUME NEW edges \in SUBSET (Node \X Node), NEW scoped \in {{}, Node},
              NEW width \in 1 .. Cardinality(Node),
              Orchestrate(edges, scoped, width)
     PROVE rec'[d] = rec[d]
  BY <1>15 DEF Orchestrate, Finish, IInv, TypeOK, Terminal, Dispatch
<1>16. ASSUME NEW c \in Dispatch, CancelOne(c) PROVE rec'[d] = rec[d]
  BY <1>16 DEF CancelOne, Told, Finish, IInv, TypeOK, Terminal, Dispatch
<1>17. ASSUME CancelTurn PROVE rec'[d] = rec[d]
  BY <1>17
  DEF CancelTurn, CancelActive, ActiveNodes, Finish, IInv, TypeOK, Terminal,
      Dispatch
<1>18. ASSUME NextTurn PROVE rec'[d] = rec[d]
  BY <1>18 DEF NextTurn, Finish, IInv, TypeOK, Terminal, Dispatch
<1>19. ASSUME Shutdown PROVE rec'[d] = rec[d]
  BY <1>19
  DEF Shutdown, CancelActive, ActiveNodes, Finish, IInv, TypeOK, Terminal,
      Dispatch
<1>20. ASSUME ShutdownDone PROVE rec'[d] = rec[d]
  BY <1>20 DEF ShutdownDone, Finish, IInv, TypeOK, Terminal, Dispatch
<1>21. ASSUME NEW c \in Dispatch, Invoked(c) PROVE rec'[d] = rec[d]
  BY <1>21 DEF Invoked
<1>22. CASE UNCHANGED vars
  BY <1>22 DEF vars
<1>. QED
  BY <1>1, <1>2, <1>3, <1>4, <1>5, <1>6, <1>7, <1>8, <1>9, <1>10, <1>11,
     <1>12, <1>13, <1>14, <1>15, <1>16, <1>17, <1>18, <1>19, <1>20, <1>21,
     <1>22
  DEF Next, Progress

\* A record that becomes cancelled has a cause.
LEMMA CauseStep ==
    ASSUME IInv, [Next]_vars, NEW d \in Dispatch,
           rec[d] # "cancelled", rec'[d] = "cancelled"
    PROVE  \/ d \in wanted \cup stop \/ turn = "stopped"
           \/ d \in Node /\ (flow.aborted \/ FlowFailed)
<1>. DEFINE Cause == \/ d \in wanted \cup stop \/ turn = "stopped"
                     \/ d \in Node /\ (flow.aborted \/ FlowFailed)
<1>. SUFFICES Cause
  OBVIOUS
<1>1. ASSUME NEW s \in Sub, ModelBuilt(s) PROVE Cause
  BY <1>1 DEF ModelBuilt, Withdrawn, Finish
<1>2. ASSUME NEW s \in Sub, ModelFails(s) PROVE Cause
  BY <1>2 DEF ModelFails, Finish, IInv, TypeOK, Terminal, Dispatch
<1>3. ASSUME NEW s \in Sub, Throws(s) PROVE Cause
  BY <1>3 DEF Throws, Finish, IInv, TypeOK, Terminal, Dispatch
<1>4. ASSUME NEW s \in Sub, CleanedUp(s) PROVE Cause
  BY <1>4 DEF CleanedUp, Finish, IInv, TypeOK, Terminal, Dispatch
<1>5. ASSUME NEW s \in Sub, NEW o \in Terminal, Answers(s, o) PROVE Cause
  BY <1>5 DEF Answers, Finish, IInv, TypeOK, Terminal, Dispatch
<1>6. ASSUME NEW n \in Node, NodeBuilt(n) PROVE Cause
  BY <1>6 DEF NodeBuilt, Attached, Finish, IInv, TypeOK, Terminal, Dispatch
<1>7. ASSUME NEW n \in Node, FlowBuilt(n) PROVE Cause
  BY <1>7
  DEF FlowBuilt, Sweep, Attached, Finish, IInv, TypeOK, Terminal, Dispatch
<1>8. ASSUME NEW n \in Node, NodeFails(n) PROVE Cause
  BY <1>8, Disjoint
  DEF NodeFails, Sweep, Finish, Pushed, FlowFailed, IInv, TypeOK
<1>9. ASSUME NEW n \in Node, NodeStarts(n) PROVE Cause
  BY <1>9
  DEF NodeStarts, Startable, Completed, Finish, IInv, TypeOK, Terminal,
      Dispatch
<1>10. ASSUME NEW n \in Node, NEW o \in Terminal, NodeAnswers(n, o) PROVE Cause
  BY <1>10 DEF NodeAnswers, Finish, IInv, TypeOK, Terminal, Dispatch
<1>11. ASSUME GraphEnds PROVE Cause
  <2>1. d \in Pushed /\ rec[d] = "running"
    BY <1>11 DEF GraphEnds, Sweep, Finish
  <2>2. child[d] # "answered" /\ d \in Node
    BY <2>1 DEF IInv, Placed, Pushed
  <2>. QED  BY <1>11, <2>2 DEF GraphEnds, FlowFailed
<1>12. ASSUME FlowCleaned PROVE Cause
  BY <1>12 DEF FlowCleaned, NoFlow, Finish, IInv, TypeOK, Terminal, Dispatch
<1>13. ASSUME NEW s \in Sub, Delegate(s) PROVE Cause
  BY <1>13 DEF Delegate, Finish, IInv, TypeOK, Terminal, Dispatch
<1>14. ASSUME NEW s \in Sub, Resumes(s) PROVE Cause
  BY <1>14 DEF Resumes, Finish, IInv, TypeOK, Terminal, Dispatch
<1>15. ASSUME NEW edges \in SUBSET (Node \X Node), NEW scoped \in {{}, Node},
              NEW width \in 1 .. Cardinality(Node),
              Orchestrate(edges, scoped, width)
     PROVE Cause
  BY <1>15 DEF Orchestrate, Finish, IInv, TypeOK, Terminal, Dispatch
<1>16. ASSUME NEW c \in Dispatch, CancelOne(c) PROVE Cause
  BY <1>16 DEF CancelOne, Told, Finish, IInv, TypeOK, Terminal, Dispatch
<1>17. ASSUME CancelTurn PROVE Cause
  BY <1>17
  DEF CancelTurn, CancelActive, ActiveNodes, Finish, IInv, TypeOK, Terminal,
      Dispatch
<1>18. ASSUME NextTurn PROVE Cause
  BY <1>18 DEF NextTurn, Finish, IInv, TypeOK, Terminal, Dispatch
<1>19. ASSUME Shutdown PROVE Cause
  BY <1>19
  DEF Shutdown, CancelActive, ActiveNodes, Finish, IInv, TypeOK, Terminal,
      Dispatch
<1>20. ASSUME ShutdownDone PROVE Cause
  BY <1>20 DEF ShutdownDone, Finish, IInv, TypeOK, Terminal, Dispatch
<1>21. ASSUME NEW c \in Dispatch, Invoked(c) PROVE Cause
  BY <1>21 DEF Invoked
<1>22. CASE UNCHANGED vars
  BY <1>22 DEF vars
<1>. QED
  BY <1>1, <1>2, <1>3, <1>4, <1>5, <1>6, <1>7, <1>8, <1>9, <1>10, <1>11,
     <1>12, <1>13, <1>14, <1>15, <1>16, <1>17, <1>18, <1>19, <1>20, <1>21,
     <1>22
  DEF Next, Progress

\* What was cancelled is not started and not continued, and has been told so
\* when it is invoked.
LEMMA WithdrawnStep ==
    ASSUME IInv, [Next]_vars, NEW d \in Dispatch,
           d \in wanted \/ turn = "stopped"
    PROVE  /\ d \in Started' => d \in Started
           /\ d \in resumed' => d \in resumed
           /\ d \in Executing' => d \in Executing \cup stop
<1>. DEFINE Same == /\ d \in Started' => d \in Started
                    /\ d \in resumed' => d \in resumed
                    /\ d \in Executing' => d \in Executing \cup stop
<1>. SUFFICES Same
  OBVIOUS
<1>1. ASSUME NEW s \in Sub, ModelBuilt(s) PROVE Same
  BY <1>1 DEF ModelBuilt, Withdrawn, Executing, Started, IInv, TypeOK, Dispatch
<1>2. ASSUME NEW s \in Sub, ModelFails(s) PROVE Same
  BY <1>2 DEF ModelFails, Executing, Started, IInv, TypeOK, Dispatch
<1>3. ASSUME NEW s \in Sub, Throws(s) PROVE Same
  BY <1>3 DEF Throws, Executing, Started, IInv, TypeOK, Dispatch
<1>4. ASSUME NEW s \in Sub, CleanedUp(s) PROVE Same
  BY <1>4 DEF CleanedUp, Executing, Started, IInv, TypeOK, Dispatch
<1>5. ASSUME NEW s \in Sub, NEW o \in Terminal, Answers(s, o) PROVE Same
  BY <1>5 DEF Answers, Executing, Started, IInv, TypeOK, Dispatch
<1>6. ASSUME NEW n \in Node, NodeBuilt(n) PROVE Same
  BY <1>6 DEF NodeBuilt, Attached, Executing, Started, IInv, TypeOK, Dispatch
<1>7. ASSUME NEW n \in Node, FlowBuilt(n) PROVE Same
  BY <1>7 DEF FlowBuilt, Sweep, Attached, Executing, Started, IInv, TypeOK, Dispatch
<1>8. ASSUME NEW n \in Node, NodeFails(n) PROVE Same
  BY <1>8 DEF NodeFails, Sweep, Executing, Started, IInv, TypeOK, Dispatch
<1>9. ASSUME NEW n \in Node, NodeStarts(n) PROVE Same
  <2>1. flow.phase = "graph"
    BY <1>9 DEF NodeStarts, Startable
  <2>2. ~flow.aborted => d \in wanted
    BY <2>1 DEF IInv, Aborts
  <2>. QED  BY <1>9, <2>2 DEF NodeStarts, Executing, Started, IInv, TypeOK
<1>10. ASSUME NEW n \in Node, NEW o \in Terminal, NodeAnswers(n, o) PROVE Same
  BY <1>10 DEF NodeAnswers, Executing, Started, IInv, TypeOK, Dispatch
<1>11. ASSUME GraphEnds PROVE Same
  BY <1>11 DEF GraphEnds, Sweep, Executing, Started, IInv, TypeOK, Dispatch
<1>12. ASSUME FlowCleaned PROVE Same
  BY <1>12 DEF FlowCleaned, NoFlow, Executing, Started, IInv, TypeOK, Dispatch
<1>13. ASSUME NEW s \in Sub, Delegate(s) PROVE Same
  BY <1>13 DEF Delegate, Executing, Started, IInv, TypeOK, Dispatch
<1>14. ASSUME NEW s \in Sub, Resumes(s) PROVE Same
  BY <1>14 DEF Resumes, Resumable, Executing, Started
<1>15. ASSUME NEW edges \in SUBSET (Node \X Node), NEW scoped \in {{}, Node},
              NEW width \in 1 .. Cardinality(Node),
              Orchestrate(edges, scoped, width)
     PROVE Same
  BY <1>15 DEF Orchestrate, Executing, Started, IInv, TypeOK, Dispatch
<1>16. ASSUME NEW c \in Dispatch, CancelOne(c) PROVE Same
  BY <1>16 DEF CancelOne, Told, Executing, Started, IInv, TypeOK, Dispatch
<1>17. ASSUME CancelTurn PROVE Same
  BY <1>17
  DEF CancelTurn, CancelActive, ActiveNodes, Executing, Started, IInv, TypeOK, Dispatch
<1>18. ASSUME NextTurn PROVE Same
  BY <1>18 DEF NextTurn, Executing, Started, IInv, TypeOK, Dispatch
<1>19. ASSUME Shutdown PROVE Same
  BY <1>19
  DEF Shutdown, CancelActive, ActiveNodes, Executing, Started, IInv, TypeOK, Dispatch
<1>20. ASSUME ShutdownDone PROVE Same
  BY <1>20 DEF ShutdownDone, Executing, Started, IInv, TypeOK, Dispatch
<1>21. ASSUME NEW c \in Dispatch, Invoked(c) PROVE Same
  BY <1>21
  DEF Invoked, Executing, Started, IInv, TypeOK, Dispatch, Reached
<1>22. CASE UNCHANGED vars
  BY <1>22 DEF vars, Executing, Started
<1>. QED
  BY <1>1, <1>2, <1>3, <1>4, <1>5, <1>6, <1>7, <1>8, <1>9, <1>10, <1>11,
     <1>12, <1>13, <1>14, <1>15, <1>16, <1>17, <1>18, <1>19, <1>20, <1>21,
     <1>22
  DEF Next, Progress

\* The end that was recorded stands and has the cause it names, nothing
\* executes behind a settled record, and nothing that was cancelled is started:
\* what was being started then has been told to cancel when it is invoked.
THEOREM CancellationIsHonestHolds == Spec => CancellationIsHonest
<1>1. IInv /\ [Next]_vars =>
        \A d \in Dispatch : rec[d] \in Terminal => rec'[d] = rec[d]
  BY FinalStep
<1>2. IInv /\ [Next]_vars =>
        \A d \in Dispatch : rec[d] # "cancelled" /\ rec'[d] = "cancelled" =>
            \/ d \in wanted \cup stop \/ turn = "stopped"
            \/ d \in Node /\ (flow.aborted \/ FlowFailed)
  BY CauseStep
<1>3. IInv /\ [Next]_vars =>
        \A d \in Dispatch : d \in wanted \/ turn = "stopped" =>
            /\ d \in Started' => d \in Started
            /\ d \in resumed' => d \in resumed
            /\ d \in Executing' => d \in Executing \cup stop
  BY WithdrawnStep
<1>4. Spec => []ExecutingIsCounted
  BY Invariance, CountedInv, PTL
<1>5. Spec => TerminalIsFinal
  BY Invariance, <1>1, PTL DEF Spec, TerminalIsFinal
<1>6. Spec => CancelledHasCause
  BY Invariance, <1>2, PTL DEF Spec, CancelledHasCause
<1>7. Spec => WithdrawnNeverStarts
  BY Invariance, <1>3, PTL DEF Spec, WithdrawnNeverStarts
<1>. QED  BY <1>4, <1>5, <1>6, <1>7 DEF CancellationIsHonest

=============================================================================
