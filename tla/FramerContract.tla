--------------------------- MODULE FramerContract ---------------------------
(***************************************************************************)
(* What Engine::pull relies on of Framer::next (src/src/framer.rs:178-227),*)
(* in the terms in which it uses the replies (src/src/engine.rs:214-234):  *)
(* whether the damage counter moved, whether the access unit reported can  *)
(* be decoded and is a major sync, and its number.                         *)
(*                                                                         *)
(* The promise is that after a break, and at the beginning, the next       *)
(* access unit to decode is a major sync; that access units which can only *)
(* be counted come up on the way to one; and that a number is exact until  *)
(* something has broken.  Engine is built on it, and AuFramerView shows    *)
(* that the framer keeps it.                                               *)
(***************************************************************************)
EXTENDS Integers

VARIABLES
    inSync,     \* a major sync was reported to decode, nothing broke since
    ordinal,    \* the number of the next access unit, as far as reported
    estimated,  \* some number reported rests on an estimate
    reported    \* access units reported since the seek

framerView == <<inSync, ordinal, estimated, reported>>

Unseen == /\ inSync = FALSE /\ ordinal = 0
          /\ estimated = FALSE /\ reported = 0

\* Framer::reset
Forgets == /\ inSync' = FALSE /\ ordinal' = 0
           /\ estimated' = FALSE /\ reported' = 0

\* NeedData, perhaps after running into damage.
RunsDry(damaged) ==
    /\ damaged => inSync
    /\ inSync' = (inSync /\ ~damaged)
    /\ UNCHANGED <<ordinal, estimated, reported>>

\* One more is reported, `lost` numbers having been given to access units that
\* are not, or taken to be sound where none was checked (guess).
Counts(damaged, lost, guess) ==
    /\ lost > 0 \/ guess => damaged \/ ~inSync
    /\ guess => lost = 0
    /\ ordinal' = ordinal + lost + 1
    /\ estimated' = (estimated \/ lost > 0 \/ guess)
    /\ reported' = reported + 1

\* Skipped: found by following length fields back from a major sync.
Skips(damaged, lost, guess) ==
    /\ damaged \/ ~inSync
    /\ Counts(damaged, lost, guess)
    /\ inSync' = FALSE

\* Au: one to decode.
Delivers(major, damaged, lost, guess) ==
    /\ ~major => inSync /\ ~damaged
    /\ Counts(damaged, lost, guess)
    /\ inSync' = TRUE
=============================================================================
