--------------------------- MODULE MCPeerMessages ---------------------------
(* Two sessions; each budget lets one kind of trouble happen often enough to *)
(* meet itself and the others.                                               *)
EXTENDS PeerMessages
CONSTANTS a, b

MCId == 1 .. 3
MCChain == 1 .. 3

Quiet == [prompt |-> (a :> 1) @@ (b :> 0), policy |-> 0, replace |-> 0, wake |-> 0,
          break |-> 0, fail |-> 0, cancel |-> 0, loss |-> 0, messages |-> 2, chains |-> 2]
MCBudgets == {
    [Quiet EXCEPT !.policy = 2, !.chains = 1],
    [Quiet EXCEPT !.wake = 1, !.fail = 1, !.cancel = 1, !.chains = 1],
    [Quiet EXCEPT !.cancel = 1, !.prompt[b] = 1],
    [Quiet EXCEPT !.break = 2, !.wake = 1, !.chains = 3],
    [Quiet EXCEPT !.loss = 1, !.replace = 1],
    [Quiet EXCEPT !.messages = 3, !.chains = 1, !.break = 1],
    [Quiet EXCEPT !.messages = 3, !.chains = 3, !.prompt = (a :> 0) @@ (b :> 1)] }
=============================================================================
