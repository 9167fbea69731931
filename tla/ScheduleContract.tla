-------------------------- MODULE ScheduleContract --------------------------
(***************************************************************************)
(* What Engine::emit relies on of the metadata schedule                    *)
(* (src/src/objects.rs) where it asks which channel layout is in force:    *)
(* layouts come into force only by an update that was queued since the     *)
(* last clear, in whichever order the updates become due, and stay until   *)
(* another takes over.  Engine is built on it, and ObjectSchedule shows    *)
(* that the schedule keeps it.                                             *)
(***************************************************************************)

VARIABLES
    scheduled,  \* layouts of the updates waiting
    layout      \* the layout in force

\* Of the updates waiting and those that arrived with the access unit some
\* start; others of the same layout may be left waiting.
Takes(arrived, started, left) ==
    /\ started \subseteq scheduled \cup arrived
    /\ left \subseteq started
    /\ scheduled' = ((scheduled \cup arrived) \ started) \cup left
    /\ IF started = {} THEN layout' = layout ELSE layout' \in started

\* ObjectState::clear
Drops(none) == scheduled' = {} /\ layout' = none
=============================================================================
