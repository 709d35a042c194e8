----------------------------- MODULE MCTaskWake -----------------------------
(***************************************************************************)
(* The scenarios of the run that has liveness properties: two prompts, or  *)
(* one prompt and the delegations, in both cases with the jobs.            *)
(***************************************************************************)
EXTENDS TaskWake

\* Nobody has to type or to dispatch, so this bounds the environment.  What comes
\* after an overlap is cut off: it satisfies Reported, and the run with commands
\* goes beyond it.
MCScenarios ==
    /\ ~overlapped
    /\ typed = 2 => \A d \in Delegation : delegation[d] = "none"
=============================================================================
