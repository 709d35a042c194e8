---------------------------- MODULE MCToolCalls ----------------------------
(* The messages of the checked run: two calls of any kind under every mode,  *)
(* one call under a user who keeps switching, one call in an answer to a     *)
(* peer, three edits of one file.                                            *)
EXTENDS ToolCalls
CONSTANTS c1, c2, c3

NoCalls == [c \in Call |-> {}]
Message(m, granted, n, calls) ==
    [mode |-> m, origin |-> "user", rules |-> granted, switches |-> n, menu |-> calls @@ NoCalls]

Pairs == { Message(m, g, 1,
             (c1 :> {<<"parent", "edit">>, <<"parent", "secret">>, <<"parent", "view">>})
             @@ (c2 :> {<<"child", "edit">>, <<"parent", "run">>})) :
           m \in Mode, g \in {{}, {"edit"}} }
Alone == { Message(m, {}, 3, c1 :> {<<"child", i>> : i \in Input}) : m \in Mode }
Edited == { Message("yolo", {}, 0,
             (c1 :> {<<"parent", "edit">>}) @@ (c2 :> {<<"parent", "edit">>, <<"child", "edit">>})
             @@ (c3 :> {<<"parent", "edit">>})) }
Peers == { [Message(m, {"edit"}, 1, c1 :> {<<"parent", i>> : i \in Input})
              EXCEPT !.origin = o] : m \in Mode, o \in {"peer", "ceiling"} }
MCBatches == Pairs \cup Alone \cup Peers \cup Edited
=============================================================================
