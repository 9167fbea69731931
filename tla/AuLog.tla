------------------------------- MODULE AuLog -------------------------------
(***************************************************************************)
(* What the framer promises its caller, whatever bytes are pushed and in   *)
(* whatever pieces (src/src/framer.rs:1-17, src/include/truehd_atmos.h     *)
(* INPUT TIMELINE): a log of access units in stream order, without overlap.*)
(* Bytes between two of them are accounted for as skipped, and numbers run *)
(* on without a gap or a repeat.  The only bytes that may be left out of   *)
(* the count in silence are those in front of the very first access unit;  *)
(* whenever others are let go, or a number is guessed, the log says so     *)
(* from then on.                                                           *)
(***************************************************************************)
EXTENDS Integers

VARIABLES
    at,        \* every byte before this offset is accounted for
    count,     \* number of the next access unit
    guessed,   \* some number handed out rests on an estimate
    gone,      \* bytes let go without belonging to a reported access unit
    entry      \* the access unit just reported, or NoEntry

logVars == <<at, count, guessed, gone, entry>>

NoEntry == [reported |-> FALSE, offset |-> 0, len |-> 0, ordinal |-> 0]

\* An access unit of `len` bytes, after a gap of `gap` bytes taken for `guess`
\* access units.
Enter(gap, guess, len) ==
    /\ len > 0
    /\ entry' = [reported |-> TRUE, offset |-> at + gap, len |-> len,
                 ordinal |-> count + guess]
    /\ at' = at + gap + len
    /\ count' = count + guess + 1
    /\ gone' = gone + gap
    /\ guessed => guessed'
    /\ guess > 0 => guessed'
    /\ gap > 0 => guessed' \/ count = 0
    /\ gap = 0 => guess = 0

\* Bytes given up while no access unit can be reported.
LetGo(gap, guess) ==
    /\ gap > 0
    /\ at' = at + gap /\ count' = count + guess /\ gone' = gone + gap
    /\ guessed' = TRUE
    /\ entry' = NoEntry

Idle == entry' = NoEntry /\ UNCHANGED <<at, count, guessed, gone>>

\* A seek starts another log.
Restart ==
    /\ at' = 0 /\ count' = 0 /\ guessed' = FALSE /\ gone' = 0
    /\ entry' = NoEntry

LogInit ==
    /\ at = 0 /\ count = 0 /\ guessed = FALSE /\ gone = 0 /\ entry = NoEntry

\* gap and guess are what the step itself shows.
LogNext ==
    \/ /\ entry'.reported
       /\ entry'.offset - at \in Nat
       /\ entry'.ordinal - count \in Nat
       /\ Enter(entry'.offset - at, entry'.ordinal - count, entry'.len)
    \/ at' - at \in Nat /\ count' - count \in Nat
          /\ LetGo(at' - at, count' - count)
    \/ Idle
    \/ Restart

LogSpec == LogInit /\ [][LogNext]_logVars
=============================================================================
