------------------------------ MODULE MCEngine ------------------------------
(* An instance of Engine: an object stream, another one with other bed       *)
(* labels whose metadata also states a configuration of its own, and a       *)
(* channel-based one at twice the rate, with a copy and no presentation 3.   *)
EXTENDS Engine

ObjectStream ==
    [decodes |-> [p \in Presentations |-> p], independent |-> {0, 1, 2, 3},
     channels |-> [p \in Presentations |-> IF p = 0 THEN 1 ELSE 2],
     labels |-> [p \in Presentations |-> <<"L">>],
     objects |-> TRUE, frames |-> 1, oamd |-> {<<"L", "object">>}]
OtherObjects ==
    [ObjectStream EXCEPT !.labels = [p \in Presentations |-> <<"R">>],
                         !.oamd = {<<"R", "object">>, <<"object", "object">>}]
ChannelStream ==
    [decodes |-> [p \in Presentations |-> IF p = 3 THEN Absent ELSE IF p = 2 THEN 1 ELSE p],
     independent |-> {0, 1},
     channels |-> [p \in Presentations |-> IF p = 0 THEN 1 ELSE 2],
     labels |-> [p \in Presentations |-> <<"L", "R">>],
     objects |-> FALSE, frames |-> 2, oamd |-> {}]

SmallSpeakers == {"L", "R", "object", "unknown"}

SmallSelections == {HighestChannelBased, 3}

SmallConfigs == {ObjectStream, OtherObjects, ChannelStream}
=============================================================================
