---------------------------- MODULE AuFramerView ----------------------------
(***************************************************************************)
(* The framer with what Engine::pull makes of its replies beside it        *)
(* (src/src/engine.rs:214-234, 266-277): it compares the damage counter    *)
(* before and after each call, and takes numbers and the estimate flag     *)
(* along with an access unit.                                              *)
(***************************************************************************)
EXTENDS AuFramer

VARIABLES
    inSync,      \* a major sync came to be decoded, no damage counted since
    nextNumber,  \* one more than the number of the last access unit reported
    flagged,     \* the estimate flag as it was then
    reports      \* access units reported since the seek

view == <<inSync, nextNumber, flagged, reports>>

InitView ==
    /\ Init
    /\ inSync = FALSE /\ nextNumber = 0 /\ flagged = FALSE /\ reports = 0

SeesReset ==
    /\ resets' # resets
    /\ inSync' = FALSE /\ nextNumber' = 0 /\ flagged' = FALSE /\ reports' = 0

SeesNothing ==
    /\ resets' = resets /\ ~Reported'
    /\ inSync' = (inSync /\ syncErrors' = syncErrors)
    /\ UNCHANGED <<nextNumber, flagged, reports>>

SeesUnit ==
    /\ resets' = resets /\ Reported'
    /\ inSync' = (last'.kind = "Au")
    /\ nextNumber' = last'.ordinal + 1
    /\ flagged' = estimated'
    /\ reports' = reports + 1

ViewedNext == Next /\ (SeesReset \/ SeesNothing \/ SeesUnit)

ViewedSpec == InitView /\ [][ViewedNext]_<<vars, view>>
FairViewedSpec == ViewedSpec /\ Fairness

Seen == INSTANCE FramerContract WITH
            ordinal <- nextNumber, estimated <- flagged, reported <- reports

Broke  == syncErrors' # syncErrors
Passed == last'.ordinal - nextNumber

\* What one step of the framer is to Engine::pull.
KeepsContract ==
    \/ Seen!Forgets
    \/ Seen!RunsDry(Broke)
    \/ \E guess \in BOOLEAN :
           /\ Reported' /\ Passed \in Nat
           /\ \/ last'.kind = "Skipped" /\ Seen!Skips(Broke, Passed, guess)
              \/ last'.kind = "Au" /\ Seen!Delivers(last'.major, Broke, Passed, guess)

\* An access unit to decode that is no major sync only comes without a break
\* after one that was; what can only be counted leads onto a major sync to
\* decode; and numbers are exact until something broke (framer.rs:178-227, as
\* engine.rs:214-234 relies on it).
MeetsContract == Seen!Unseen /\ [][KeepsContract]_<<vars, view>>
=============================================================================
