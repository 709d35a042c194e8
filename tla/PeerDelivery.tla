---------------------------- MODULE PeerDelivery ----------------------------
(***************************************************************************)
(* What the collaboration of two sessions promises of each message: it is  *)
(* queued at most once, a queued message is either taken by one turn or    *)
(* dropped, and what its sender is told of the queueing is true.           *)
(***************************************************************************)
CONSTANT Id     \* the messages

VARIABLES
    stage,      \* where each message is
    answer      \* what its sender was told

vars == <<stage, answer>>

Stage == {"unsent", "sent", "queued", "taken", "dropped"}
Answer == {"none", "queued", "refused"}

Init == /\ stage = [m \in Id |-> "unsent"]
        /\ answer = [m \in Id |-> "none"]

Move(m, from, to) == /\ stage[m] = from
                     /\ stage' = [stage EXCEPT ![m] = to]
                     /\ UNCHANGED answer

Send(m) == Move(m, "unsent", "sent")

\* A message its sender was told is refused is never queued afterwards.
Queue(m) == answer[m] # "refused" /\ Move(m, "sent", "queued")

\* Messages leave a queue: one to its turn, any others are dropped.
Leave ==
    LET gone == {m \in Id : stage'[m] # stage[m]} IN
    /\ stage' \in [Id -> Stage]
    /\ \A m \in gone : stage[m] = "queued" /\ stage'[m] \in {"dropped", "taken"}
    /\ \A m, n \in gone : stage'[m] = "taken" /\ stage'[n] = "taken" => m = n
    /\ UNCHANGED answer

\* An answer comes once, and says whether the message had been queued.
Tell(m, word) ==
    /\ answer[m] = "none" /\ stage[m] # "unsent"
    /\ word = "queued" <=> stage[m] # "sent"
    /\ answer' = [answer EXCEPT ![m] = word]
    /\ UNCHANGED stage

Next == \/ \E m \in Id : Send(m) \/ Queue(m) \/ \E word \in {"queued", "refused"} : Tell(m, word)
        \/ Leave

Spec == Init /\ [][Next]_vars
=============================================================================
