-------------------------- MODULE MCObjectSchedule --------------------------
(* An instance of ObjectSchedule: two elements with two values, and two     *)
(* element configurations. Updates of one payload may be due in the order   *)
(* they are stated, at the same frame, or the other way round.              *)
EXTENDS ObjectSchedule

SmallLayouts == {[count |-> 2, roles |-> "bed, object"], [count |-> 2, roles |-> "objects"]}
A == CHOOSE l \in SmallLayouts : l.roles = "bed, object"
B == CHOOSE l \in SmallLayouts : l.roles = "objects"

Still(d) == [delay |-> d, elements |-> <<0, 0>>]
Moved(d) == [delay |-> d, elements |-> <<0, 1>>]

\* A payload with these updates.
Of(l, us) == [trim |-> NotSignalled, object |-> TRUE, sound |-> TRUE, layout |-> l,
              updates |-> us]

SmallPayloads ==
    {Of(A, <<Still(d)>>) : d \in {0, 3}} \cup {Of(A, <<Moved(d)>>) : d \in {0, 1}}
        \cup {Of(A, <<Still(1), Moved(1)>>), Of(A, <<Moved(3), Still(0)>>)}
        \cup {Of(B, <<Still(1)>>),
              [Of(A, <<Moved(0)>>) EXCEPT !.trim = 1, !.sound = FALSE],
              [Of(A, <<>>) EXCEPT !.trim = 1, !.object = FALSE]}

\* Two warp modes: one stated with an update, one by itself or with a rejected
\* payload; and updates without one.
WarpPayloads ==
    {Of(A, <<Still(0)>>), [Of(A, <<Moved(0)>>) EXCEPT !.trim = 1],
     [Of(A, <<>>) EXCEPT !.trim = 2, !.object = FALSE],
     [Of(A, <<Moved(0)>>) EXCEPT !.trim = 2, !.sound = FALSE]}
=============================================================================
