---------------------------- MODULE MCTurnRecord ----------------------------
(* Two facts under one key and one under another; each budget lets one kind *)
(* of trouble meet two or three turns of up to three processes.             *)
EXTENDS TurnRecord
CONSTANTS a1, a2, a3, b1, ka, kb

MCFact == {a1, a2, b1}
MCMoreFacts == MCFact \cup {a3}
MCKey == {ka, kb}
MCKeyOf == [f \in Fact |-> IF f = b1 THEN kb ELSE ka]

Plain == {<<TRUE, FALSE>>}      \* prompts without a checkpoint
Kept == {<<TRUE, TRUE>>}        \* prompts with one
Woken == {<<FALSE, FALSE>>}     \* turns of the session itself
Good == {<<"ok", TRUE>>}
Bad == {<<"other", FALSE>>}

Quiet == [opens |-> Plain, ends |-> Good, sends |-> 2, runs |-> 1, exits |-> 1, crash |-> 0, events |-> 0,
          notes |-> 0, faults |-> 0, saves |-> 0, commands |-> 0, moves |-> 0]
MCBudgets == {
    \* the file fills up, is cut off by a crash, and is taken on by another process
    [Quiet EXCEPT !.ends = Good \cup Bad, !.notes = 1, !.crash = 1, !.events = 1],
    \* checkpoints between turns of the session itself, over a restart
    [Quiet EXCEPT !.opens = Kept \cup Woken, !.ends = Good \cup Bad, !.sends = 3],
    \* ... and with two things going wrong
    [Quiet EXCEPT !.opens = Kept, !.faults = 2, !.crash = 1],
    \* turns that end in every way, with facts to commit and a disk that fails
    [Quiet EXCEPT !.ends = Outcomes, !.saves = 2, !.faults = 2, !.runs = 0],
    \* commands of the user between the commits of three turns
    [Quiet EXCEPT !.sends = 3, !.saves = 3, !.commands = 2, !.moves = 1, !.runs = 0, !.exits = 0],
    \* ... and a state that cannot be read when a save is staged or committed
    [Quiet EXCEPT !.saves = 2, !.commands = 1, !.faults = 1, !.runs = 0, !.exits = 0],
    \* what a process leaves behind in memory is found by the next
    [Quiet EXCEPT !.saves = 2, !.commands = 1, !.crash = 1],
    \* a session that is left by /clear while its disk hangs
    [Quiet EXCEPT !.opens = Kept, !.runs = 2, !.exits = 2, !.notes = 1, !.faults = 1] }
=============================================================================
