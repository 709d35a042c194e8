------------------------------ MODULE MCOutbox ------------------------------
(* Two processes, two turns of one and one of the other; each budget lets   *)
(* one kind of trouble happen often enough to meet itself and the others.   *)
EXTENDS Outbox, TLC
CONSTANTS p1, p2

MCTurn == 1 .. 3
MCOwner == <<p1, p2, p1>>

Quiet == [mode |-> 0, cancel |-> 0, fault |-> 0, crash |-> 0, hand |-> 0, aged |-> 0,
          leave |-> 0, lost |-> 0, turns |-> {1, 3}]
MCBudgets == {
    [Quiet EXCEPT !.turns = {1, 2}, !.mode = 2],
    [Quiet EXCEPT !.turns = {1, 2}, !.mode = 1, !.crash = 1],
    [Quiet EXCEPT !.turns = {1, 2}, !.leave = 1],
    [Quiet EXCEPT !.turns = {1, 2}, !.hand = 1, !.aged = 1],
    [Quiet EXCEPT !.turns = Turn, !.cancel = 1, !.lost = 1],
    [Quiet EXCEPT !.leave = 1, !.mode = 1],
    [Quiet EXCEPT !.leave = 1, !.crash = 1],
    [Quiet EXCEPT !.aged = 1, !.mode = 1],
    [Quiet EXCEPT !.hand = 1, !.fault = 4],
    [Quiet EXCEPT !.hand = 1, !.crash = 1, !.aged = 1],
    [Quiet EXCEPT !.turns = {1}, !.hand = 2, !.crash = 1, !.aged = 1] }
=============================================================================
