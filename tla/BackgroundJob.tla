--------------------------- MODULE BackgroundJob ---------------------------
(***************************************************************************)
(* What the rest of darwin may rely on about a background job, whatever    *)
(* the manager does to provide it: a job settles once, into one of three   *)
(* terminal states, and its terminal snapshot is published once, after     *)
(* that.  BackgroundBash implements this module; TaskWake is built on it.  *)
(***************************************************************************)
EXTENDS Naturals

CONSTANT Task           \* the job ids

VARIABLES state,        \* BackgroundTaskState, "absent" before registration
          published     \* how often the terminal snapshot reached the listeners

jobVars == <<state, published>>

Terminal == {"succeeded", "failed", "stopped"}

Init ==
    /\ state = [t \in Task |-> "absent"]
    /\ published = [t \in Task |-> 0]

\* this.tasks.set(id, task) at the end of launch()
Register(t) ==
    /\ state[t] = "absent"
    /\ state' = [state EXCEPT ![t] = "running"]
    /\ UNCHANGED published

\* The first assignment of finish()
Settle(t) ==
    /\ state[t] = "running"
    /\ \E s \in Terminal : state' = [state EXCEPT ![t] = s]
    /\ UNCHANGED published

\* The listener loop at the end of finish()
Publish(t) ==
    /\ state[t] \in Terminal
    /\ published[t] = 0
    /\ published' = [published EXCEPT ![t] = 1]
    /\ UNCHANGED state

Next == \E t \in Task : Register(t) \/ Settle(t) \/ Publish(t)

Spec == Init /\ [][Next]_jobVars
=============================================================================
