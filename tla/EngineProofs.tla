---------------------------- MODULE EngineProofs ----------------------------
(***************************************************************************)
(* Proofs about Engine, for every set of configurations and any number of  *)
(* access units, seeks and presentation changes.                           *)
(***************************************************************************)
EXTENDS Engine, TLAPS

-----------------------------------------------------------------------------
(* Discontinuities.                                                        *)

\* While decoding waits for a major sync the next block is marked already, so
\* what happens meanwhile needs no mark of its own; and it waits whenever the
\* framer has lost its place.
Marked ==
    /\ waiting => discontinuity
    /\ step # "poisoned" => (discontinuity <=> cut)
    /\ ~inSync => waiting
    /\ step \notin {"caller", "poisoned"} => inSync
    /\ step = "emit" => ~waiting
    /\ DiscontinuityExact

LEMMA MarkedInit == Init => Marked
  BY Zenon DEF Init, Unseen, Marked, DiscontinuityExact, Returned

LEMMA MarkedKept == Marked /\ [Next]_vars => Marked'
<1> SUFFICES ASSUME Marked, [Next]_vars PROVE Marked'
  OBVIOUS
<1> USE DEF Marked, DiscontinuityExact, Returned
<1>1. CASE Reset
  BY <1>1, Zenon DEF Reset, Restart, Drops, Forgets
<1>2. ASSUME NEW sel \in Selections, SetPresentation(sel) PROVE Marked'
  BY <1>2, Zenon DEF SetPresentation, Restart, framerVars, framerView
<1>3. ASSUME NEW damaged \in BOOLEAN, FetchNothing(damaged) PROVE Marked'
  BY <1>3, Zenon DEF FetchNothing, RunsDry, RestartIf, Restart, decodingVars
<1>4. ASSUME NEW damaged \in BOOLEAN, NEW guess \in BOOLEAN, NEW lost \in 0..1,
             FetchSkipped(damaged, lost, guess)
      PROVE  Marked'
  BY <1>4, Zenon DEF FetchSkipped, Skips, RestartIf, Restart, decodingVars
<1>5. ASSUME NEW damaged \in BOOLEAN, NEW guess \in BOOLEAN, NEW lost \in 0..1,
             NEW major \in BOOLEAN, NEW config \in Configs,
             FetchAu(major, config, damaged, lost, guess)
      PROVE  Marked'
  BY <1>5, Zenon DEF FetchAu, Delivers, RestartIf, Restart, decodingVars
<1>6. CASE ConfigureKnown
  BY <1>6, Zenon DEF ConfigureKnown, decodingVars, framerVars, framerView
<1>7. CASE ConfigureBlindly
  BY <1>7, Zenon DEF ConfigureBlindly, decodingVars, framerVars, framerView
<1>8. CASE ConfigureNew
  BY <1>8, Zenon DEF ConfigureNew, ChangedMidStream, RestartIf, Restart, decodingVars, framerVars, framerView
<1>9. CASE DecodeFails
  BY <1>9, Zenon DEF DecodeFails, MayParse, RestartIf, Restart, decodingVars, framerVars, framerView
<1>10. ASSUME NEW duplicate \in BOOLEAN, Decode(duplicate) PROVE Marked'
  BY <1>10, Zenon DEF Decode, framerVars, framerView
<1>11. CASE Emit
  <2>1. /\ ~discontinuity' /\ ~cut' /\ step' = "caller"
        /\ inSync' = inSync /\ waiting' = waiting /\ step = "emit"
    BY <1>11, Zenon DEF Emit, framerVars, framerView
  <2>2. block'.discontinuity = discontinuity /\ block'.cut = cut
    BY <1>11, SMT DEF Emit
  <2>3. ~waiting
    BY <2>1, Zenon
  <2>4. QED BY <2>1, <2>2, <2>3, Zenon
<1>12. CASE Panic
  BY <1>12, Zenon DEF Panic, decodingVars, framerVars, framerView
<1>13. CASE Rebuild
  <2>1. waiting' /\ discontinuity' = TRUE /\ cut' = TRUE /\ step' = "caller" /\ block' = NoBlock
    BY <1>13, SMT DEF Rebuild
  <2>2. QED BY <2>1, Zenon
<1>14. CASE UNCHANGED vars
  BY <1>14, Zenon DEF vars, decodingVars, framerVars, framerView
<1>15. QED
  BY <1>1, <1>2, <1>3, <1>4, <1>5, <1>6, <1>7, <1>8, <1>9, <1>10, <1>11, <1>12, <1>13,
     <1>14 DEF Next

\* A block is marked exactly when it does not follow on the block before it, for
\* any order of damage, failures, seeks and changes of configuration
\* (engine.rs:144-150, 266-277, 304-307).
THEOREM DiscontinuityMarked == Spec => []DiscontinuityExact
<1>1. Marked => DiscontinuityExact
  BY Zenon DEF Marked
<1>2. QED BY <1>1, MarkedInit, MarkedKept, PTL DEF Spec

-----------------------------------------------------------------------------
(* What the parser is given.                                               *)

\* Nothing has been parsed since the restart exactly while decoding waits; and
\* unless it was set up blindly, what has been parsed since is of the
\* configuration it was set up for, which is the one of the stream.
Clean ==
    /\ waiting <=> parsed = {}
    /\ step \notin {"caller", "poisoned"} => au.config = stream /\ stream \in Configs
    /\ step = "configure" => au.major
    /\ step = "decode" => au.major \/ ~waiting
    /\ ~blind /\ ~waiting /\ step # "poisoned" =>
           parsed = {signature} /\ signature \in Configs
    /\ ~blind /\ ~waiting /\ step \notin {"configure", "poisoned"} => signature = stream
    /\ ~blind /\ step \in {"decode", "emit"} => signature = stream

LEMMA CleanInit == Init => Clean
  BY Zenon DEF Init, Clean

LEMMA CleanKept == Clean /\ [Next]_vars => Clean'
<1> SUFFICES ASSUME Clean, [Next]_vars PROVE Clean'
  OBVIOUS
<1> USE DEF Clean
<1>1. CASE Reset
  BY <1>1, Zenon DEF Reset, Restart, engineVars
<1>2. ASSUME NEW sel \in Selections, SetPresentation(sel) PROVE Clean'
  BY <1>2, Zenon DEF SetPresentation, Restart, framerVars
<1>3. ASSUME NEW damaged \in BOOLEAN, FetchNothing(damaged) PROVE Clean'
  BY <1>3, Zenon DEF FetchNothing, RestartIf, Restart, decodingVars, engineVars
<1>4. ASSUME NEW damaged \in BOOLEAN, NEW guess \in BOOLEAN, NEW lost \in 0..1,
             FetchSkipped(damaged, lost, guess)
      PROVE  Clean'
  BY <1>4, Zenon DEF FetchSkipped, RestartIf, Restart, decodingVars, engineVars
<1>5. ASSUME NEW damaged \in BOOLEAN, NEW guess \in BOOLEAN, NEW lost \in 0..1,
             NEW major \in BOOLEAN, NEW config \in Configs,
             FetchAu(major, config, damaged, lost, guess)
      PROVE  Clean'
  BY <1>5, SMT DEF FetchAu, Delivers, RestartIf, Restart, decodingVars, engineVars
<1>6. CASE ConfigureKnown
  BY <1>6, Zenon DEF ConfigureKnown, Known, decodingVars, framerVars, engineVars
<1>7. CASE ConfigureBlindly
  BY <1>7, Zenon DEF ConfigureBlindly, decodingVars, framerVars
<1>8. CASE ConfigureNew
  BY <1>8, EngineConstants, Zenon DEF ConfigureNew, ChangedMidStream, RestartIf, Restart, decodingVars, framerVars
<1>9. CASE DecodeFails
  BY <1>9, Zenon DEF DecodeFails, MayParse, RestartIf, Restart, decodingVars, framerVars, engineVars
<1>10. ASSUME NEW duplicate \in BOOLEAN, Decode(duplicate) PROVE Clean'
  BY <1>10, Zenon DEF Decode, framerVars, engineVars
<1>11. CASE Emit
  BY <1>11, Zenon DEF Emit, framerVars, engineVars
<1>12. CASE UNCHANGED vars
  BY <1>12, Zenon DEF vars, decodingVars, framerVars, engineVars
<1>13. CASE Panic
  BY <1>13, Zenon DEF Panic, decodingVars, framerVars
<1>14. CASE Rebuild
  BY <1>14, Zenon DEF Rebuild
<1>15. QED
  BY <1>1, <1>2, <1>3, <1>4, <1>5, <1>6, <1>7, <1>8, <1>9, <1>10, <1>11, <1>12, <1>13,
     <1>14 DEF Next

\* The parser is only given a major sync first, and one configuration between two
\* restarts (engine.rs:223, 304-307, 322).
THEOREM ParserFedCleanly == Spec => []ParsesCleanly
<1>1. Clean => ParsesCleanly
  BY Zenon DEF Clean, ParsesCleanly, MayParse
<1>2. QED BY <1>1, CleanInit, CleanKept, PTL DEF Spec

-----------------------------------------------------------------------------
(* The identity of the layout.                                             *)

\* What the engine remembers of the last block is what that block said.
Remembered ==
    /\ serial \in 0..MaxSerial
    /\ previous = [roles |-> roles, serial |-> serial]
    /\ LayoutIdentity

LEMMA RememberedInit == Init => Remembered
  BY EngineConstants DEF Init, Remembered, LayoutIdentity, Returned

\* Only a block changes what is remembered.
LEMMA RememberedOtherwise ==
    ASSUME Remembered, UNCHANGED identityVars, UNCHANGED block \/ block' = NoBlock
    PROVE  Remembered'
  BY Zenon DEF Remembered, identityVars, LayoutIdentity, Returned

LEMMA RememberedByEmit == Remembered /\ Emit => Remembered'
<1> SUFFICES ASSUME Remembered, Emit PROVE Remembered'
  OBVIOUS
<1>1. PICK now :
        /\ roles' = now
        /\ serial' = IF roles # now THEN Following(serial) ELSE serial
        /\ previous' = [roles |-> now, serial |-> serial']
        /\ block'.changed = (roles # now)
        /\ block'.roles = now /\ block'.serial = serial' /\ block'.last = previous
  BY DEF Emit, RolesMoved
<1>2. serial' \in 0..MaxSerial /\ (serial' = serial <=> roles = now)
  BY <1>1, EngineConstants DEF Remembered, Following
<1>3. previous.roles = roles /\ previous.serial = serial
  BY DEF Remembered
<1>4. LayoutIdentity'
  BY <1>1, <1>2, <1>3, Zenon DEF LayoutIdentity
<1>5. QED BY <1>1, <1>2, <1>4, Zenon DEF Remembered

LEMMA RememberedAnew == Rebuild => Remembered'
  BY EngineConstants DEF Rebuild, Remembered, LayoutIdentity, Returned

LEMMA RememberedKept == Remembered /\ [Next]_vars => Remembered'
<1> SUFFICES ASSUME Remembered, [Next]_vars, ~Emit, ~Rebuild PROVE Remembered'
  BY RememberedByEmit, RememberedAnew
<1> DEFINE Apart == UNCHANGED identityVars /\ (UNCHANGED block \/ block' = NoBlock)
<1>1. Reset \/ Panic \/ (\E sel \in Selections : SetPresentation(sel)) => Apart
  BY Zenon DEF Reset, Panic, SetPresentation
<1>2. (\E damaged \in BOOLEAN : FetchNothing(damaged)) => Apart
  BY Zenon DEF FetchNothing
<1>3. ASSUME NEW damaged \in BOOLEAN, NEW guess \in BOOLEAN, NEW lost \in 0..1
      PROVE  FetchSkipped(damaged, lost, guess) => Apart
  BY Zenon DEF FetchSkipped
<1>4. ASSUME NEW damaged \in BOOLEAN, NEW guess \in BOOLEAN, NEW lost \in 0..1,
             NEW major \in BOOLEAN, NEW config \in Configs
      PROVE  FetchAu(major, config, damaged, lost, guess) => Apart
  BY Zenon DEF FetchAu
<1>5. ConfigureKnown \/ ConfigureBlindly \/ ConfigureNew => Apart
  BY Zenon DEF ConfigureKnown, ConfigureBlindly, ConfigureNew
<1>6. DecodeFails \/ (\E duplicate \in BOOLEAN : Decode(duplicate)) => Apart
  BY Zenon DEF DecodeFails, Decode
<1>7. UNCHANGED vars => Apart
  BY Zenon DEF vars
<1>8. Apart
  BY <1>1, <1>2, <1>3, <1>4, <1>5, <1>6, <1>7 DEF Next
<1>9. QED BY <1>8, RememberedOtherwise

\* layout_serial and LAYOUT_CHANGED move exactly with the roles, whatever comes
\* between two blocks (engine.rs:118-132, 437-442).
THEOREM SerialIsIdentity == Spec => []LayoutIdentity
<1>1. Remembered => LayoutIdentity
  BY Zenon DEF Remembered
<1>2. QED BY <1>1, RememberedInit, RememberedKept, PTL DEF Spec

-----------------------------------------------------------------------------
(* The counters.                                                           *)

Tally(a, b, c, d, e) ==
    [skipped |-> a, decoded |-> b, blocks |-> c, duplicates |-> d, errors |-> e]

\* The access unit in hand is counted nowhere until it is decoded, and a decoded
\* one in no block until that is returned.
Balanced(at, a, b, c, d, e, units) ==
    /\ a + e + b + (IF at \in {"configure", "decode"} THEN 1 ELSE 0) = units
    /\ c + d + (IF at = "emit" THEN 1 ELSE 0) = b

Numbered(at, number, next, units) == next = units /\ (at # "caller" => number + 1 = next)

\* A block is only there to be seen while nothing has been counted after it.
Latest(at, b, total) ==
    b # NoBlock => at = "caller" /\ (~b.estimated => b.number + 1 = total)

Tallied(at, counters, units, b) ==
    \E s, d, k, u, e \in Nat :
        /\ counters = Tally(s, d, k, u, e)
        /\ Balanced(at, s, d, k, u, e, units)
        /\ Latest(at, b, s + e + d)

Steps == {"caller", "configure", "decode", "emit"}

\* After a panic nothing is left to add up until the counters start again.
Accounts ==
    /\ reported \in Nat /\ ordinal \in Nat /\ au.number \in Nat
    /\ step # "poisoned" =>
           /\ step \in Steps
           /\ ~estimated => Numbered(step, au.number, ordinal, reported)
           /\ Tallied(step, stats, reported, block)

LEMMA CountedTally ==
    ASSUME NEW a \in Nat, NEW b \in Nat, NEW c \in Nat, NEW d \in Nat, NEW e \in Nat,
           stats = Tally(a, b, c, d, e)
    PROVE  /\ Counted({"skipped"}) = Tally(a + 1, b, c, d, e)
           /\ Counted({"errors"}) = Tally(a, b, c, d, e + 1)
           /\ Counted({"blocks"}) = Tally(a, b, c + 1, d, e)
           /\ Counted({"decoded"}) = Tally(a, b + 1, c, d, e)
           /\ Counted({"decoded", "duplicates"}) = Tally(a, b + 1, c, d + 1, e)
  BY DEF Counted, Tally

\* What the counters have been, and what they become.
LEMMA TalliedOpen ==
    ASSUME NEW at, NEW units, NEW b, Tallied(at, stats, units, b)
    PROVE  \E s, d, k, u, e \in Nat :
               /\ stats = Tally(s, d, k, u, e)
               /\ Balanced(at, s, d, k, u, e, units)
               /\ Latest(at, b, s + e + d)
  BY DEF Tallied

LEMMA TalliedBy ==
    ASSUME NEW at, NEW units, NEW blk, NEW a \in Nat, NEW b \in Nat, NEW c \in Nat,
           NEW d \in Nat, NEW e \in Nat,
           Balanced(at, a, b, c, d, e, units), Latest(at, blk, a + e + b)
    PROVE  Tallied(at, Tally(a, b, c, d, e), units, blk)
  BY Zenon DEF Tallied

\* A step of the loop that counts nothing.
LEMMA TallyKept ==
    ASSUME NEW units \in Nat, NEW at, NEW to, NEW b, NEW b2, Tallied(at, stats, units, b),
           \/ at = to
           \/ at = "configure" /\ to = "decode",
           b2 \in {b, NoBlock}, at = "caller" \/ b2 = b
    PROVE  Tallied(to, stats, units, b2)
<1>1. PICK s \in Nat, d \in Nat, k \in Nat, u \in Nat, e \in Nat :
          /\ stats = Tally(s, d, k, u, e)
          /\ Balanced(at, s, d, k, u, e, units)
          /\ Latest(at, b, s + e + d)
  BY TalliedOpen
<1>2. Balanced(to, s, d, k, u, e, units)
  BY <1>1 DEF Balanced
<1>3. Latest(to, b2, s + e + d)
  BY <1>1, Zenon DEF Latest
<1>4. QED BY <1>1, <1>2, <1>3, TalliedBy

\* One more access unit is skipped.
LEMMA TallySkipped ==
    ASSUME NEW units \in Nat, NEW b, Tallied("caller", stats, units, b)
    PROVE  Tallied("caller", Counted({"skipped"}), units + 1, NoBlock)
<1>1. PICK s \in Nat, d \in Nat, k \in Nat, u \in Nat, e \in Nat :
          /\ stats = Tally(s, d, k, u, e)
          /\ Balanced("caller", s, d, k, u, e, units)
  BY TalliedOpen
<1>2. Balanced("caller", s + 1, d, k, u, e, units + 1)
  BY <1>1 DEF Balanced
<1>3. Latest("caller", NoBlock, (s + 1) + e + d)
  BY DEF Latest
<1>4. s + 1 \in Nat
  OBVIOUS
<1>5. Tallied("caller", Tally(s + 1, d, k, u, e), units + 1, NoBlock)
  BY <1>2, <1>3, <1>4, TalliedBy
<1>6. Counted({"skipped"}) = Tally(s + 1, d, k, u, e)
  BY <1>1, CountedTally
<1>7. QED BY <1>5, <1>6

\* One more is in hand.
LEMMA TallyFetched ==
    ASSUME NEW units \in Nat, NEW b, NEW to \in {"configure", "decode"},
           Tallied("caller", stats, units, b)
    PROVE  Tallied(to, stats, units + 1, NoBlock)
<1>1. PICK s \in Nat, d \in Nat, k \in Nat, u \in Nat, e \in Nat :
          /\ stats = Tally(s, d, k, u, e)
          /\ Balanced("caller", s, d, k, u, e, units)
  BY TalliedOpen
<1>2. Balanced(to, s, d, k, u, e, units + 1)
  BY <1>1 DEF Balanced
<1>3. Latest(to, NoBlock, s + e + d)
  BY DEF Latest
<1>4. QED BY <1>1, <1>2, <1>3, TalliedBy

\* The one in hand fails or is skipped after all.
LEMMA TallyFailed ==
    ASSUME NEW units \in Nat, NEW b, NEW counter \in {"errors", "skipped"},
           Tallied("decode", stats, units, b)
    PROVE  Tallied("caller", Counted({counter}), units, b)
<1>1. PICK s \in Nat, d \in Nat, k \in Nat, u \in Nat, e \in Nat :
          /\ stats = Tally(s, d, k, u, e)
          /\ Balanced("decode", s, d, k, u, e, units)
          /\ Latest("decode", b, s + e + d)
  BY TalliedOpen
<1>2. b = NoBlock
  BY <1>1 DEF Latest
<1>3. /\ Balanced("caller", s + 1, d, k, u, e, units)
      /\ Balanced("caller", s, d, k, u, e + 1, units)
  BY <1>1 DEF Balanced
<1>4. /\ Latest("caller", b, (s + 1) + e + d)
      /\ Latest("caller", b, s + (e + 1) + d)
  BY <1>2 DEF Latest
<1>5. /\ Tallied("caller", Tally(s + 1, d, k, u, e), units, b)
      /\ Tallied("caller", Tally(s, d, k, u, e + 1), units, b)
  <2>1. s + 1 \in Nat /\ e + 1 \in Nat
    OBVIOUS
  <2>2. QED BY <2>1, <1>3, <1>4, TalliedBy
<1>6. /\ Counted({"skipped"}) = Tally(s + 1, d, k, u, e)
      /\ Counted({"errors"}) = Tally(s, d, k, u, e + 1)
  BY <1>1, CountedTally
<1>7. QED BY <1>5, <1>6

\* It decodes, as a duplicate or to be returned.
LEMMA TallyDecoded ==
    ASSUME NEW units \in Nat, NEW b, NEW duplicate \in BOOLEAN,
           Tallied("decode", stats, units, b)
    PROVE  Tallied(IF duplicate THEN "caller" ELSE "emit", Counted(Counters(duplicate)),
                   units, b)
<1>1. PICK s \in Nat, d \in Nat, k \in Nat, u \in Nat, e \in Nat :
          /\ stats = Tally(s, d, k, u, e)
          /\ Balanced("decode", s, d, k, u, e, units)
          /\ Latest("decode", b, s + e + d)
  BY TalliedOpen
<1>2. b = NoBlock
  BY <1>1 DEF Latest
<1>3. d + 1 \in Nat /\ u + 1 \in Nat
  OBVIOUS
<1>4. /\ Balanced("caller", s, d + 1, k, u + 1, e, units)
      /\ Balanced("emit", s, d + 1, k, u, e, units)
  BY <1>1 DEF Balanced
<1>5. /\ Latest("caller", b, s + e + (d + 1))
      /\ Latest("emit", b, s + e + (d + 1))
  BY <1>2 DEF Latest
<1>6. /\ Tallied("caller", Tally(s, d + 1, k, u + 1, e), units, b)
      /\ Tallied("emit", Tally(s, d + 1, k, u, e), units, b)
  BY <1>3, <1>4, <1>5, TalliedBy
<1>7. /\ Counted({"decoded"}) = Tally(s, d + 1, k, u, e)
      /\ Counted({"decoded", "duplicates"}) = Tally(s, d + 1, k, u + 1, e)
  BY <1>1, CountedTally
<1>8. QED BY <1>6, <1>7 DEF Counters

\* It is returned in a block that bears its number.
LEMMA TallyEmitted ==
    ASSUME NEW units \in Nat, NEW b, NEW blk, NEW number \in Nat,
           Tallied("emit", stats, units, b),
           blk.number = number, ~blk.estimated => number + 1 = units
    PROVE  Tallied("caller", Counted({"blocks"}), units, blk)
<1>1. PICK s \in Nat, d \in Nat, k \in Nat, u \in Nat, e \in Nat :
          /\ stats = Tally(s, d, k, u, e)
          /\ Balanced("emit", s, d, k, u, e, units)
  BY TalliedOpen
<1>2. Balanced("caller", s, d, k + 1, u, e, units) /\ s + e + d = units
  BY <1>1 DEF Balanced
<1>3. Latest("caller", blk, s + e + d)
  BY <1>2, Zenon DEF Latest
<1>4. QED BY <1>1, <1>2, <1>3, TalliedBy, CountedTally, SMTT(30)

LEMMA AccountsInit == Init => Accounts
<1> SUFFICES ASSUME Init PROVE Accounts
  OBVIOUS
<1>1. Balanced("caller", 0, 0, 0, 0, 0, 0) /\ Latest("caller", NoBlock, 0 + 0 + 0)
  BY DEF Balanced, Latest
<1>2. Tallied("caller", Tally(0, 0, 0, 0, 0), 0, NoBlock)
  BY <1>1, TalliedBy
<1>3. stats = Tally(0, 0, 0, 0, 0)
  BY DEF Init, NoStats, Tally
<1>4. QED BY <1>2, <1>3 DEF Init, Unseen, Accounts, Steps, Numbered, NoAu

\* A step that counts nothing.
LEMMA AccountsIdle ==
    ASSUME Accounts, UNCHANGED <<stats, reported, ordinal, estimated, au>>,
           step # "poisoned",
           step' = step \/ (step = "configure" /\ step' = "decode"),
           block' \in {block, NoBlock}, step = "caller" \/ block' = block
    PROVE  Accounts'
<1>1. Tallied(step', stats, reported, block')
  BY TallyKept DEF Accounts
<1>2. ~estimated => Numbered(step', au.number, ordinal, reported)
  BY Zenon DEF Accounts, Numbered
<1>3. step' \in Steps
  BY DEF Accounts, Steps
<1>4. QED BY <1>1, <1>2, <1>3, Zenon DEF Accounts

\* The counters start again.
LEMMA AccountsAnew == Accounts /\ (Reset \/ Rebuild) => Accounts'
<1> SUFFICES ASSUME Accounts, Reset \/ Rebuild PROVE Accounts'
  OBVIOUS
<1>1. Balanced("caller", 0, 0, 0, 0, 0, 0) /\ Latest("caller", NoBlock, 0 + 0 + 0)
  BY DEF Balanced, Latest
<1>2. Tallied("caller", Tally(0, 0, 0, 0, 0), 0, NoBlock)
  BY <1>1, TalliedBy
<1>3. stats' = Tally(0, 0, 0, 0, 0)
  BY DEF Reset, Rebuild, NoStats, Tally
<1>4. /\ step' = "caller" /\ block' = NoBlock /\ reported' = 0 /\ ordinal' = 0
      /\ au' = au \/ au' = NoAu
  BY Zenon DEF Reset, Rebuild, Forgets
<1>5. au'.number \in Nat
  BY <1>4 DEF Accounts, NoAu
<1>6. QED BY <1>2, <1>3, <1>4, <1>5 DEF Accounts, Steps, Numbered

LEMMA AccountsPoisoned == Accounts /\ Panic => Accounts'
  BY DEF Accounts, Panic, framerVars, framerView, NoAu

\* Where no estimate is made nothing is lost, and an access unit's number is the
\* count of those before it.
LEMMA NumberedOn ==
    ASSUME Accounts, step = "caller", NEW damaged \in BOOLEAN, NEW guess \in BOOLEAN,
           NEW lost \in 0..1, Counts(damaged, lost, guess)
    PROVE  /\ reported' = reported + 1 /\ reported' \in Nat /\ ordinal' \in Nat
           /\ ordinal + lost \in Nat
           /\ ~estimated' => ordinal' = reported' /\ ordinal + lost + 1 = ordinal'
<1>1. reported \in Nat /\ ordinal \in Nat
  BY DEF Accounts
<1>2. reported' = reported + 1 /\ ordinal' = ordinal + lost + 1
  BY DEF Counts
<1>3. reported' \in Nat /\ ordinal' \in Nat /\ ordinal + lost \in Nat
  BY <1>1, <1>2
<1>4. ASSUME ~estimated' PROVE ~estimated /\ ~(lost > 0)
  BY <1>4, Zenon DEF Counts
<1>5. ASSUME ~estimated' PROVE lost = 0 /\ ordinal = reported
  BY <1>4, <1>5 DEF Accounts, Numbered
<1>6. QED BY <1>1, <1>2, <1>3, <1>5

LEMMA AccountsSkipped ==
    ASSUME Accounts, NEW damaged \in BOOLEAN, NEW guess \in BOOLEAN, NEW lost \in 0..1,
           FetchSkipped(damaged, lost, guess)
    PROVE  Accounts'
<1>1. step = "caller" /\ step' = "caller" /\ au' = au /\ block' = NoBlock
  BY DEF FetchSkipped
<1>2. Counts(damaged, lost, guess)
  BY DEF FetchSkipped, Skips
<1>3. /\ reported' = reported + 1 /\ reported' \in Nat /\ ordinal' \in Nat
      /\ ~estimated' => ordinal' = reported'
  BY <1>1, <1>2, NumberedOn
<1>4. stats' = Counted({"skipped"})
  BY DEF FetchSkipped
<1>5. Tallied("caller", Counted({"skipped"}), reported + 1, NoBlock)
  BY <1>1, TallySkipped DEF Accounts
<1>6. Tallied(step', stats', reported', block')
  BY <1>1, <1>3, <1>4, <1>5
<1>7. ~estimated' => Numbered(step', au'.number, ordinal', reported')
  BY <1>1, <1>3, Zenon DEF Numbered
<1>8. step' \in Steps /\ au'.number \in Nat
  BY <1>1 DEF Steps, Accounts
<1>9. QED BY <1>3, <1>6, <1>7, <1>8, Zenon DEF Accounts

LEMMA AccountsFetched ==
    ASSUME Accounts, NEW damaged \in BOOLEAN, NEW guess \in BOOLEAN, NEW lost \in 0..1,
           NEW major \in BOOLEAN, NEW config \in Configs,
           FetchAu(major, config, damaged, lost, guess)
    PROVE  Accounts'
<1> DEFINE wanted == ~waiting \/ major
<1>1. step = "caller" /\ block' = NoBlock
  BY DEF FetchAu
<1>2. Counts(damaged, lost, guess)
  BY DEF FetchAu, Delivers
<1>3. /\ reported' = reported + 1 /\ reported' \in Nat /\ ordinal' \in Nat
      /\ ordinal + lost \in Nat
      /\ ~estimated' => ordinal' = reported' /\ ordinal + lost + 1 = ordinal'
  BY <1>1, <1>2, NumberedOn
<1>4. CASE wanted
  <2>1. au'.number = ordinal + lost
    BY <1>4 DEF FetchAu
  <2>2. step' \in {"configure", "decode"} /\ stats' = stats
    BY <1>4, Zenon DEF FetchAu
  <2>3. Tallied(step', stats, reported + 1, NoBlock)
    BY <1>1, <2>2, TallyFetched DEF Accounts
  <2>4. Tallied(step', stats', reported', block')
    BY <1>1, <1>3, <2>2, <2>3
  <2>5. ~estimated' => Numbered(step', au'.number, ordinal', reported')
    BY <1>3, <2>1, Zenon DEF Numbered
  <2>6. step' \in Steps /\ au'.number \in Nat
    BY <1>3, <2>1, <2>2 DEF Steps
  <2>7. QED BY <1>3, <2>4, <2>5, <2>6, Zenon DEF Accounts
<1>5. CASE ~wanted
  <2>1. step' = "caller" /\ stats' = Counted({"skipped"}) /\ au' = NoAu
    BY <1>5, Zenon DEF FetchAu
  <2>2. Tallied("caller", Counted({"skipped"}), reported + 1, NoBlock)
    BY <1>1, TallySkipped DEF Accounts
  <2>3. Tallied(step', stats', reported', block')
    BY <1>1, <1>3, <2>1, <2>2
  <2>4. ~estimated' => Numbered(step', au'.number, ordinal', reported')
    BY <1>3, <2>1, Zenon DEF Numbered
  <2>5. step' \in Steps /\ au'.number \in Nat
    BY <2>1 DEF Steps, NoAu
  <2>6. QED BY <1>3, <2>3, <2>4, <2>5, Zenon DEF Accounts
<1>6. QED BY <1>4, <1>5

LEMMA AccountsFailed == Accounts /\ DecodeFails => Accounts'
<1> SUFFICES ASSUME Accounts, DecodeFails PROVE Accounts'
  OBVIOUS
<1>1. PICK counter \in {"errors", "skipped"} : stats' = Counted({counter})
  BY DEF DecodeFails
<1>2. /\ step = "decode" /\ step' = "caller" /\ au' = NoAu /\ block' = block
      /\ UNCHANGED <<reported, ordinal, estimated>>
  BY Zenon DEF DecodeFails, framerVars, framerView
<1>3. Tallied("caller", Counted({counter}), reported, block)
  BY <1>2, TallyFailed DEF Accounts
<1>4. Tallied(step', stats', reported', block')
  BY <1>1, <1>2, <1>3
<1>5. ~estimated' => Numbered(step', au'.number, ordinal', reported')
  BY <1>2, Zenon DEF Accounts, Numbered
<1>6. step' \in Steps /\ au'.number \in Nat
  BY <1>2 DEF Steps, NoAu
<1>7. reported' \in Nat /\ ordinal' \in Nat
  BY <1>2 DEF Accounts
<1>8. QED BY <1>4, <1>5, <1>6, <1>7, Zenon DEF Accounts

LEMMA AccountsDecoded ==
    ASSUME Accounts, NEW duplicate \in BOOLEAN, Decode(duplicate)
    PROVE  Accounts'
<1>1. /\ step = "decode" /\ step' = (IF duplicate THEN "caller" ELSE "emit")
      /\ au' = (IF duplicate THEN NoAu ELSE au) /\ block' = block
      /\ stats' = Counted(Counters(duplicate))
      /\ UNCHANGED <<reported, ordinal, estimated>>
  BY Zenon DEF Decode, framerVars, framerView
<1>2. Tallied(step', Counted(Counters(duplicate)), reported, block)
  BY <1>1, TallyDecoded DEF Accounts
<1>3. Tallied(step', stats', reported', block')
  BY <1>1, <1>2
<1>4. ~estimated' => Numbered(step', au'.number, ordinal', reported')
  BY <1>1, Zenon DEF Accounts, Numbered
<1>5. step' \in Steps /\ au'.number \in Nat
  BY <1>1 DEF Accounts, Steps, NoAu
<1>6. reported' \in Nat /\ ordinal' \in Nat
  BY <1>1 DEF Accounts
<1>7. QED BY <1>3, <1>4, <1>5, <1>6, Zenon DEF Accounts

LEMMA AccountsEmitted == Accounts /\ Emit => Accounts'
<1> SUFFICES ASSUME Accounts, Emit PROVE Accounts'
  OBVIOUS
<1>1. /\ step = "emit" /\ step' = "caller" /\ au' = NoAu
      /\ stats' = Counted({"blocks"})
      /\ UNCHANGED <<reported, ordinal, estimated>>
  BY Zenon DEF Emit, framerVars, framerView
<1>2. block'.number = au.number /\ block'.estimated = estimated
  BY DEF Emit
<1>3. reported \in Nat /\ ordinal \in Nat /\ au.number \in Nat
  BY DEF Accounts
<1>4. ~block'.estimated => au.number + 1 = reported
  <2>1. ~estimated => Numbered("emit", au.number, ordinal, reported)
    BY <1>1, Zenon DEF Accounts
  <2>2. Numbered("emit", au.number, ordinal, reported) => au.number + 1 = reported
    BY <1>3 DEF Numbered
  <2>3. QED BY <1>2, <2>1, <2>2, Zenon
<1>5. Tallied("caller", Counted({"blocks"}), reported, block')
  <2>1. Tallied("emit", stats, reported, block)
    BY <1>1 DEF Accounts
  <2>2. QED BY <1>2, <1>3, <1>4, <2>1, TallyEmitted
<1>6. Tallied(step', stats', reported', block')
  BY <1>1, <1>5
<1>7. ~estimated' => Numbered(step', au'.number, ordinal', reported')
  BY <1>1, Zenon DEF Accounts, Numbered
<1>8. step' \in Steps /\ au'.number \in Nat /\ reported' \in Nat /\ ordinal' \in Nat
  BY <1>1, <1>3 DEF Steps, NoAu
<1>9. QED BY <1>6, <1>7, <1>8, Zenon DEF Accounts

LEMMA AccountsKept == Accounts /\ [Next]_vars => Accounts'
<1> SUFFICES ASSUME Accounts, [Next]_vars PROVE Accounts'
  OBVIOUS
<1> DEFINE Idle ==
        /\ UNCHANGED <<stats, reported, ordinal, estimated, au>>
        /\ step' = step \/ (step = "configure" /\ step' = "decode")
        /\ block' = block \/ block' = NoBlock
        /\ step = "caller" \/ block' = block
        /\ step # "poisoned"
<1>1. (\E sel \in Selections : SetPresentation(sel)) => Idle
  BY Zenon DEF SetPresentation, framerVars, framerView
<1>2. (\E damaged \in BOOLEAN : FetchNothing(damaged)) => Idle
  BY Zenon DEF FetchNothing, RunsDry
<1>3. ConfigureKnown \/ ConfigureBlindly \/ ConfigureNew => Idle
  BY Zenon DEF ConfigureKnown, ConfigureBlindly, ConfigureNew, framerVars, framerView
<1>4. CASE UNCHANGED vars
  BY <1>4, Zenon DEF vars, framerVars, framerView, Accounts
<1>5. CASE Idle
  BY <1>5, AccountsIdle
<1>6. CASE Reset \/ Rebuild \/ Panic
  BY <1>6, AccountsAnew, AccountsPoisoned
<1>7. ASSUME NEW damaged \in BOOLEAN, NEW guess \in BOOLEAN, NEW lost \in 0..1,
             \/ FetchSkipped(damaged, lost, guess)
             \/ \E major \in BOOLEAN, config \in Configs :
                    FetchAu(major, config, damaged, lost, guess)
      PROVE  Accounts'
  BY <1>7, AccountsSkipped, AccountsFetched
<1>8. CASE DecodeFails \/ (\E duplicate \in BOOLEAN : Decode(duplicate))
  BY <1>8, AccountsFailed, AccountsDecoded
<1>9. CASE Emit
  BY <1>9, AccountsEmitted
<1>10. QED BY <1>1, <1>2, <1>3, <1>4, <1>5, <1>6, <1>7, <1>8, <1>9 DEF Next

\* Every access unit reported is skipped, in error or decoded, every decoded one a
\* block or a duplicate, and a block's number, unless estimated, is the count of
\* those before it (engine.rs:200-236, 251-271, 405-411).
THEOREM EveryUnitCounted == Spec => []CountsAddUp
<1>1. Accounts => CountsAddUp
  <2> SUFFICES ASSUME Accounts, step = "caller" PROVE CountsAddUp
    BY DEF CountsAddUp
  <2>1. PICK s \in Nat, d \in Nat, k \in Nat, u \in Nat, e \in Nat :
            /\ stats = Tally(s, d, k, u, e)
            /\ Balanced("caller", s, d, k, u, e, reported)
            /\ Latest("caller", block, s + e + d)
    BY TalliedOpen DEF Accounts
  <2>2. /\ stats.skipped = s /\ stats.decoded = d /\ stats.blocks = k
        /\ stats.duplicates = u /\ stats.errors = e
    BY <2>1 DEF Tally
  <2>3. s + e + d = reported /\ k + u = d
    BY <2>1 DEF Balanced, Accounts
  <2>4. Returned /\ ~block.estimated => block.number + 1 = s + e + d
    BY <2>1, Zenon DEF Latest, Returned
  <2>5. QED BY <2>2, <2>3, <2>4 DEF CountsAddUp
<1>2. QED BY <1>1, AccountsInit, AccountsKept, PTL DEF Spec

-----------------------------------------------------------------------------
(* Presentations.                                                          *)

LEMMA GreatestPresentation ==
    ASSUME NEW S \in SUBSET Presentations, S # {}
    PROVE  \E i \in S : IsGreatest(i, S)
<1>1. CASE 3 \in S
  BY <1>1 DEF IsGreatest, Presentations
<1>2. CASE 3 \notin S /\ 2 \in S
  BY <1>2 DEF IsGreatest, Presentations
<1>3. CASE 3 \notin S /\ 2 \notin S /\ 1 \in S
  BY <1>3 DEF IsGreatest, Presentations
<1>4. CASE 3 \notin S /\ 2 \notin S /\ 1 \notin S
  <2>1. \A i \in S : i = 0
    BY <1>4 DEF Presentations
  <2>2. PICK i \in S : TRUE
    BY Zenon
  <2>3. \A j \in S : j <= i
    BY <2>1
  <2>4. QED BY <2>2, <2>3, Zenon DEF IsGreatest
<1>5. QED BY <1>1, <1>2, <1>3, <1>4

\* What the fields of a configuration are.
LEMMA ConfigTypes ==
    ASSUME NEW config \in Configs
    PROVE  /\ \A i \in Presentations : config.decodes[i] \in Presentations \cup {Absent}
           /\ config.independent \in SUBSET Presentations
           /\ \A i \in Presentations : /\ config.channels[i] \in Nat
                                       /\ config.labels[i] \in Seq(Speakers)
           /\ config.objects \in BOOLEAN /\ config.frames \in Nat
           /\ config.oamd \subseteq Seq(Speakers)
<1>1. config \in Config
  BY EngineConstants, Zenon
<1>2. /\ config.decodes \in [Presentations -> Presentations \cup {Absent}]
      /\ config.channels \in [Presentations -> Nat]
      /\ config.labels \in [Presentations -> Seq(Speakers)]
      /\ config.independent \in SUBSET Presentations
      /\ config.objects \in BOOLEAN /\ config.frames \in Nat \ {0}
      /\ config.oamd \in SUBSET Seq(Speakers)
  BY <1>1, Zenon DEF Config
<1>3. QED BY <1>2, Zenon

LEMMA BestType ==
    ASSUME NEW config \in Configs
    PROVE  /\ Best(config) \in Presentations
           /\ config.independent # {} => Best(config) \in config.independent
           /\ config.independent = {} => Best(config) = 0
<1>1. config.independent \in SUBSET Presentations
  BY ConfigTypes, Zenon
<1>2. CASE config.independent = {}
  BY <1>2 DEF Best, Presentations
<1>3. CASE config.independent # {}
  <2>1. \E i \in config.independent : IsGreatest(i, config.independent)
    BY <1>1, <1>3, GreatestPresentation, Zenon
  <2>2. Best(config) \in config.independent
    BY <1>3, <2>1, Zenon DEF Best
  <2>3. QED BY <1>1, <1>3, <2>2, Zenon
<1>4. QED BY <1>2, <1>3, Zenon

\* A presentation that is there decodes as one that is there and decodes as itself.
LEMMA PresentDecodes ==
    ASSUME NEW config \in Configs, NEW i \in Present(config)
    PROVE  /\ config.decodes[i] \in Presentations /\ config.decodes[i] \in Present(config)
           /\ config.decodes[config.decodes[i]] = config.decodes[i]
<1>1. i \in Presentations /\ config.decodes[i] # Absent
  BY Zenon DEF Present
<1>2. config.decodes[i] \in Presentations
  BY <1>1, ConfigTypes, Zenon
<1>3. config.decodes[config.decodes[i]] = config.decodes[i]
  BY MapsConform, Zenon
<1>4. QED BY <1>1, <1>2, <1>3, Zenon DEF Present

\* The fallback decodes as itself as well.
LEMMA BestDecodes ==
    ASSUME NEW config \in Configs
    PROVE  DecodesAs(Best(config), config) = Best(config)
<1>1. CASE Best(config) \notin Present(config)
  BY <1>1, Zenon DEF DecodesAs
<1>2. CASE Best(config) \in Present(config) /\ config.independent # {}
  <2>1. config.decodes[Best(config)] = Best(config)
    BY <1>2, BestType, MapsConform, Zenon
  <2>2. QED BY <1>2, <2>1, Zenon DEF DecodesAs
<1>3. CASE Best(config) \in Present(config) /\ config.independent = {}
  <2>1. Best(config) = 0 /\ 0 \in Present(config)
    BY <1>3, BestType, Zenon
  <2>2. config.decodes[0] \in Presentations /\ config.decodes[0] <= 0
    BY <2>1, PresentDecodes, MapsConform, Zenon
  <2>3. config.decodes[0] = 0
    BY <2>2 DEF Presentations
  <2>4. QED BY <2>1, <2>3, Zenon DEF DecodesAs
<1>4. QED BY <1>1, <1>2, <1>3, Zenon

\* What a selector means is one of the presentations, and decodes as itself.
LEMMA ResolveDecodes ==
    ASSUME NEW config \in Configs, NEW sel \in Selections
    PROVE  /\ Resolve(sel, config) \in Presentations
           /\ DecodesAs(Resolve(sel, config), config) = Resolve(sel, config)
<1> DEFINE beds == Present(config) \ {3}
           bed == CHOOSE i \in beds : IsGreatest(i, beds)
<1>1. CASE sel = HighestChannelBased
  <2>1. beds # {} /\ beds \in SUBSET Presentations
    BY MapsConform, Zenon DEF Present
  <2>2. bed \in Present(config)
    <3>1. \E i \in beds : IsGreatest(i, beds)
      BY <2>1, GreatestPresentation, Zenon
    <3>2. bed \in beds
      BY <3>1, Zenon
    <3>3. QED BY <3>2, Zenon
  <2>3. Resolve(sel, config) = config.decodes[bed]
    BY <1>1, <2>1, Zenon DEF Resolve
  <2> HIDE DEF bed
  <2>4. QED BY <2>2, <2>3, PresentDecodes, Zenon DEF DecodesAs
<1>2. CASE sel # HighestChannelBased
  <2> DEFINE wanted == IF sel = Highest THEN 3 ELSE sel
  <2>1. Resolve(sel, config) = IF wanted \in Present(config) THEN config.decodes[wanted]
                                                             ELSE Best(config)
    BY <1>2, Zenon DEF Resolve
  <2> HIDE DEF wanted
  <2>2. CASE wanted \in Present(config)
    BY <2>1, <2>2, PresentDecodes, Zenon DEF DecodesAs
  <2>3. CASE wanted \notin Present(config)
    BY <2>1, <2>3, BestType, BestDecodes, Zenon
  <2>4. QED BY <2>2, <2>3, Zenon
<1>3. QED BY <1>1, <1>2, Zenon

LEMMA DecodesAsType ==
    ASSUME NEW config \in Configs, NEW required
    PROVE  DecodesAs(required, config) \in Presentations
  BY PresentDecodes, BestType, Zenon DEF DecodesAs

LEMMA FallbackType ==
    ASSUME NEW sel \in Selections
    PROVE  Fallback(sel) \in Presentations
<1>1. sel = Highest \/ sel = HighestChannelBased \/ sel \in Presentations
  BY EngineConstants, Zenon
<1>2. 2 \in Presentations /\ 3 \in Presentations
  BY DEF Presentations
<1>3. QED BY <1>1, <1>2, Zenon DEF Fallback

-----------------------------------------------------------------------------
(* Types.                                                                  *)

LEMMA NoRolesType == NoRoles \in Roles
  BY DEF NoRoles, Roles, Presentations, Absent

LEMMA CountedType ==
    ASSUME stats \in [DOMAIN NoStats -> Nat], NEW counters
    PROVE  Counted(counters) \in [DOMAIN NoStats -> Nat]
<1>1. DOMAIN stats = DOMAIN NoStats
  BY Zenon
<1>2. \A c \in DOMAIN NoStats : stats[c] \in Nat /\ stats[c] + 1 \in Nat
  <2>1. \A c \in DOMAIN NoStats : stats[c] \in Nat
    BY Zenon
  <2>2. \A n \in Nat : n + 1 \in Nat
    OBVIOUS
  <2>3. QED BY <2>1, <2>2, Zenon
<1>3. QED BY <1>1, <1>2, Zenon DEF Counted

\* The speakers a major sync names for a presentation.
LEMMA SpeakersType ==
    ASSUME NEW labels \in Seq(Speakers), NEW channels \in Nat, NEW objects
    PROVE  RolesFromSync(labels, channels, objects) \in Seq(Speakers)
<1>1. \A c \in 1..channels :
         (IF c <= Len(labels) THEN labels[c] ELSE IF objects THEN "object" ELSE "unknown")
             \in Speakers
  <2>1. \A c \in 1..channels : c <= Len(labels) => c \in 1..Len(labels)
    OBVIOUS
  <2>2. \A c \in 1..Len(labels) : labels[c] \in Speakers
    OBVIOUS
  <2>3. "object" \in Speakers /\ "unknown" \in Speakers
    BY EngineConstants, Zenon
  <2>4. QED BY <2>1, <2>2, <2>3, Zenon
<1>2. RolesFromSync(labels, channels, objects) \in [1..channels -> Speakers]
  BY <1>1, Zenon DEF RolesFromSync
<1>3. QED BY <1>2, SMT

\* The layouts a block can be given are those waiting and those of the access
\* unit's stream.
LEMMA MetadataTakes ==
    ASSUME NEW presentation, NEW channels, Metadata(presentation, channels)
    PROVE  /\ scheduled' \subseteq scheduled \cup {l \in au.config.oamd : Len(l) = channels}
           /\ \/ layout' = layout
              \/ layout' \in scheduled \cup {l \in au.config.oamd : Len(l) = channels}
           /\ presentation # 3 => scheduled' \subseteq scheduled /\ layout' \in scheduled \cup {layout}
<1>1. PICK arrived \in SUBSET {l \in au.config.oamd : Len(l) = channels} :
         /\ arrived # {} => presentation = 3
         /\ \E started \in SUBSET (scheduled \cup arrived) :
               \E left \in SUBSET started : Takes(arrived, started, left)
  BY Zenon DEF Metadata
<1>2. PICK started \in SUBSET (scheduled \cup arrived) :
         \E left \in SUBSET started : Takes(arrived, started, left)
  BY <1>1, Zenon
<1>3. PICK left \in SUBSET started : Takes(arrived, started, left)
  BY <1>2, Zenon
<1>4. scheduled' \subseteq scheduled \cup arrived /\ (layout' = layout \/ layout' \in scheduled \cup arrived)
  <2>1. scheduled' = ((scheduled \cup arrived) \ started) \cup left
    BY <1>3, Zenon DEF Takes
  <2>2. layout' = layout \/ layout' \in started
    BY <1>3, Zenon DEF Takes
  <2>3. QED BY <2>1, <2>2, Zenon
<1>5. QED BY <1>1, <1>4, Zenon

\* The parts of TypeOK that belong together.
EngineTyped ==
    /\ selection \in Selections /\ {signature, desc} \subseteq Configs \cup {NoConfig}
    /\ resolved \in Presentations /\ torn \in BOOLEAN
LoopTyped ==
    /\ step \in {"caller", "configure", "decode", "emit", "poisoned"}
    /\ stats \in [DOMAIN NoStats -> Nat]
    /\ au.config \in Configs \cup {NoConfig} /\ au.number \in Nat
    /\ cut \in BOOLEAN /\ blind \in BOOLEAN /\ calls \in 0..MaxCalls
FramerTyped ==
    /\ inSync \in BOOLEAN /\ estimated \in BOOLEAN
    /\ ordinal \in Nat /\ reported \in Nat /\ stream \in Configs \cup {NoConfig}
DecodingTyped ==
    /\ waiting \in BOOLEAN /\ discontinuity \in BOOLEAN
    /\ scheduled \subseteq Seq(Speakers) /\ layout \in Seq(Speakers)
    /\ parsed \subseteq Configs
IdentityTyped ==
    /\ roles \in Roles /\ serial \in 0..MaxSerial
    /\ previous.roles \in Roles /\ previous.serial \in 0..MaxSerial

LEMMA TypeParts ==
    TypeOK <=> EngineTyped /\ LoopTyped /\ FramerTyped /\ DecodingTyped /\ IdentityTyped
  BY Zenon DEF TypeOK, EngineTyped, LoopTyped, FramerTyped, DecodingTyped, IdentityTyped

LEMMA RestartTyped == Restart => DecodingTyped'
<1>1. NoLayout \in Seq(Speakers)
  BY DEF NoLayout
<1>2. QED BY <1>1, Zenon DEF Restart, Drops, DecodingTyped

LEMMA RestartIfTyped ==
    ASSUME DecodingTyped, NEW condition, RestartIf(condition)
    PROVE  DecodingTyped'
  BY RestartTyped, Zenon DEF RestartIf, decodingVars, DecodingTyped

LEMMA ForgetsTyped == Forgets /\ stream' = NoConfig => FramerTyped'
<1>1. 0 \in Nat
  OBVIOUS
<1>2. QED BY <1>1, Zenon DEF Forgets, FramerTyped

LEMMA FirstTypes ==
    /\ NoStats \in [DOMAIN NoStats -> Nat]
    /\ NoAu.config = NoConfig /\ NoAu.number = 0
    /\ 0 \in Presentations /\ NoRoles \in Roles /\ 0 \in 0..MaxSerial /\ MaxCalls \in Nat
    /\ NoLayout \in Seq(Speakers)
<1>1. NoStats \in [DOMAIN NoStats -> Nat]
  BY DEF NoStats
<1>2. 0 \in 0..MaxSerial /\ MaxCalls \in Nat
  BY EngineConstants
<1>3. QED BY <1>1, <1>2, NoRolesType DEF NoAu, Presentations, NoLayout

LEMMA EngineTypeInit == Init => TypeOK
<1> SUFFICES ASSUME Init PROVE TypeOK
  OBVIOUS
<1>1. calls \in 0..MaxCalls /\ ordinal \in Nat /\ reported \in Nat
  BY FirstTypes DEF Init, Unseen
<1>2. previous.roles = NoRoles /\ previous.serial = 0
  BY DEF Init
<1>3. QED BY <1>1, <1>2, FirstTypes, Zenon DEF Init, Unseen, TypeOK

LEMMA EngineTypeKept == Clean /\ TypeOK /\ [Next]_vars => TypeOK'
<1> SUFFICES ASSUME Clean, TypeOK, [Next]_vars PROVE TypeOK'
  OBVIOUS
<1> DEFINE All == EngineTyped' /\ LoopTyped' /\ FramerTyped' /\ DecodingTyped' /\ IdentityTyped'
<1>0. /\ EngineTyped /\ LoopTyped /\ FramerTyped /\ DecodingTyped /\ IdentityTyped
      /\ All => TypeOK'
  <2>1. EngineTyped /\ LoopTyped /\ FramerTyped /\ DecodingTyped /\ IdentityTyped
    BY TypeParts, Zenon
  <2>2. All => TypeOK'
    BY Zenon DEF TypeOK, EngineTyped, LoopTyped, FramerTyped, DecodingTyped, IdentityTyped
  <2>3. QED BY <2>1, <2>2, Zenon
<1> HIDE DEF All
<1>1. calls < MaxCalls /\ calls' = calls + 1 => calls' \in 0..MaxCalls
  BY <1>0, EngineConstants DEF LoopTyped
<1>2. \A counters : Counted(counters) \in [DOMAIN NoStats -> Nat]
  BY <1>0, CountedType, Zenon DEF LoopTyped
<1>3. CASE Reset
  <2>1. EngineTyped' /\ IdentityTyped'
    BY <1>0, <1>3, Zenon DEF Reset, engineVars, identityVars, EngineTyped, IdentityTyped
  <2>2. FramerTyped' /\ DecodingTyped'
    BY <1>3, RestartTyped, ForgetsTyped, Zenon DEF Reset
  <2>3. LoopTyped'
    BY <1>0, <1>1, <1>3, FirstTypes, Zenon DEF Reset, LoopTyped
  <2>4. QED BY <1>0, <2>1, <2>2, <2>3, Zenon DEF All
<1>4. ASSUME NEW sel \in Selections, SetPresentation(sel) PROVE TypeOK'
  <2>1. EngineTyped' /\ IdentityTyped' /\ FramerTyped'
    BY <1>0, <1>4, Zenon
       DEF SetPresentation, framerVars, framerView, identityVars, EngineTyped, IdentityTyped,
           FramerTyped
  <2>2. DecodingTyped'
    BY <1>4, RestartTyped, Zenon DEF SetPresentation
  <2>3. LoopTyped'
    BY <1>0, <1>1, <1>4, Zenon DEF SetPresentation, LoopTyped
  <2>4. QED BY <1>0, <2>1, <2>2, <2>3, Zenon DEF All
<1>5. CASE Panic
  <2>1. IdentityTyped' /\ FramerTyped' /\ DecodingTyped'
    BY <1>0, <1>5, Zenon
       DEF Panic, framerVars, framerView, identityVars, decodingVars, IdentityTyped, FramerTyped,
           DecodingTyped
  <2>2. EngineTyped' /\ blind' \in BOOLEAN
    <3>1. CASE UNCHANGED <<engineVars, blind>>
      BY <1>0, <3>1, Zenon DEF engineVars, EngineTyped, LoopTyped
    <3>2. CASE /\ selection' \in Selections /\ signature' = NoConfig /\ torn' = FALSE
               /\ UNCHANGED <<desc, resolved, blind>>
      BY <1>0, <3>2, Zenon DEF EngineTyped, LoopTyped
    <3>3. CASE /\ step = "configure" /\ signature' = au.config /\ desc' = au.config
               /\ resolved' \in {resolved, Resolve(selection, au.config)}
               /\ torn' = TRUE /\ UNCHANGED <<selection, blind>>
      <4>1. au.config \in Configs
        BY <3>3, Zenon DEF Clean
      <4>2. resolved' \in Presentations
        BY <1>0, <3>3, <4>1, ResolveDecodes, Zenon DEF EngineTyped
      <4>3. QED BY <1>0, <3>3, <4>1, <4>2, Zenon DEF EngineTyped, LoopTyped
    <3>4. CASE /\ resolved' = Fallback(selection) /\ blind' = TRUE
               /\ UNCHANGED <<selection, signature, desc, torn>>
      BY <1>0, <3>4, FallbackType, Zenon DEF EngineTyped
    <3>5. QED BY <1>5, <3>1, <3>2, <3>3, <3>4, Zenon DEF Panic
  <2>3. LoopTyped'
    <3>1. 0 \in Nat
      OBVIOUS
    <3>2. QED BY <1>0, <1>5, <2>2, <3>1, FirstTypes, Zenon DEF Panic, LoopTyped
  <2>4. QED BY <1>0, <2>1, <2>2, <2>3, Zenon DEF All
<1>6. CASE Rebuild
  <2>1. EngineTyped'
    BY <1>0, <1>6, FirstTypes, Zenon DEF Rebuild, EngineTyped
  <2>2. IdentityTyped'
    <3>1. previous'.roles = NoRoles /\ previous'.serial = 0
      BY <1>6, SMT DEF Rebuild
    <3>2. QED BY <1>6, <3>1, FirstTypes, Zenon DEF Rebuild, IdentityTyped
  <2>3. FramerTyped'
    BY <1>6, ForgetsTyped, Zenon DEF Rebuild
  <2>4. DecodingTyped'
    BY <1>6, FirstTypes, Zenon DEF Rebuild, Drops, DecodingTyped
  <2>5. LoopTyped'
    <3>1. 0 \in Nat
      OBVIOUS
    <3>2. QED BY <1>1, <1>6, <3>1, FirstTypes, Zenon DEF Rebuild, LoopTyped
  <2>6. QED BY <1>0, <2>1, <2>2, <2>3, <2>4, <2>5, Zenon DEF All
<1>7. ASSUME NEW damaged \in BOOLEAN, FetchNothing(damaged) PROVE TypeOK'
  <2>1. EngineTyped' /\ IdentityTyped'
    BY <1>0, <1>7, Zenon DEF FetchNothing, engineVars, identityVars, EngineTyped, IdentityTyped
  <2>2. FramerTyped'
    BY <1>0, <1>7, Zenon DEF FetchNothing, RunsDry, FramerTyped
  <2>3. DecodingTyped'
    BY <1>0, <1>7, RestartIfTyped, Zenon DEF FetchNothing
  <2>4. LoopTyped'
    BY <1>0, <1>7, Zenon DEF FetchNothing, LoopTyped
  <2>5. QED BY <1>0, <2>1, <2>2, <2>3, <2>4, Zenon DEF All
<1>8. ASSUME NEW damaged \in BOOLEAN, NEW guess \in BOOLEAN, NEW lost \in 0..1,
             Counts(damaged, lost, guess)
      PROVE  ordinal' \in Nat /\ reported' \in Nat /\ estimated' \in BOOLEAN /\ ordinal + lost \in Nat
  <2>1. ordinal' \in Nat /\ reported' \in Nat /\ ordinal + lost \in Nat
    BY <1>0, <1>8, SMT DEF Counts, FramerTyped
  <2>2. estimated' \in BOOLEAN
    BY <1>0, <1>8, Zenon DEF Counts, FramerTyped
  <2>3. QED BY <2>1, <2>2, Zenon
<1>9. ASSUME NEW damaged \in BOOLEAN, NEW guess \in BOOLEAN, NEW lost \in 0..1,
             FetchSkipped(damaged, lost, guess)
      PROVE  TypeOK'
  <2>1. EngineTyped' /\ IdentityTyped'
    BY <1>0, <1>9, Zenon DEF FetchSkipped, engineVars, identityVars, EngineTyped, IdentityTyped
  <2>2. FramerTyped'
    BY <1>0, <1>8, <1>9, Zenon DEF FetchSkipped, Skips, FramerTyped
  <2>3. DecodingTyped'
    BY <1>0, <1>9, RestartIfTyped, Zenon DEF FetchSkipped
  <2>4. LoopTyped'
    BY <1>0, <1>2, <1>9, Zenon DEF FetchSkipped, LoopTyped
  <2>5. QED BY <1>0, <2>1, <2>2, <2>3, <2>4, Zenon DEF All
<1>10. ASSUME NEW damaged \in BOOLEAN, NEW guess \in BOOLEAN, NEW lost \in 0..1,
              NEW major \in BOOLEAN, NEW config \in Configs,
              FetchAu(major, config, damaged, lost, guess)
       PROVE  TypeOK'
  <2>1. EngineTyped' /\ IdentityTyped'
    BY <1>0, <1>10, Zenon DEF FetchAu, engineVars, identityVars, EngineTyped, IdentityTyped
  <2>2. FramerTyped'
    BY <1>0, <1>8, <1>10, Zenon DEF FetchAu, Delivers, FramerTyped
  <2>3. DecodingTyped'
    BY <1>0, <1>10, RestartIfTyped, Zenon DEF FetchAu
  <2>4. LoopTyped'
    <3>1. ordinal + lost \in Nat
      BY <1>8, <1>10, Zenon DEF FetchAu, Delivers
    <3>2. au'.config \in Configs \cup {NoConfig} /\ au'.number \in Nat
      <4>1. \/ au' = [major |-> major, config |-> config, number |-> ordinal + lost]
            \/ au' = NoAu
        BY <1>10, Zenon DEF FetchAu
      <4>2. QED BY <3>1, <4>1, SMT DEF NoAu
    <3>3. step' \in {"caller", "configure", "decode"} /\ cut' \in BOOLEAN
          /\ (stats' = stats \/ stats' = Counted({"skipped"}))
          /\ blind' = blind /\ calls' = calls
      BY <1>0, <1>10, Zenon DEF FetchAu, LoopTyped
    <3>4. QED BY <1>0, <1>2, <3>2, <3>3, Zenon DEF LoopTyped
  <2>5. QED BY <1>0, <2>1, <2>2, <2>3, <2>4, Zenon DEF All
<1>11. CASE ConfigureKnown
  BY <1>0, <1>11, Zenon
     DEF ConfigureKnown, engineVars, decodingVars, identityVars, framerVars, framerView, All,
         EngineTyped, LoopTyped, FramerTyped, DecodingTyped, IdentityTyped
<1>12. CASE ConfigureBlindly
  <2>1. EngineTyped'
    BY <1>0, <1>12, FallbackType, Zenon DEF ConfigureBlindly, EngineTyped
  <2>2. QED
    BY <1>0, <1>12, <2>1, Zenon
       DEF ConfigureBlindly, decodingVars, identityVars, framerVars, framerView, All,
           LoopTyped, FramerTyped, DecodingTyped, IdentityTyped
<1>13. CASE ConfigureNew
  <2>1. au.config \in Configs
    BY <1>13, Zenon DEF ConfigureNew, Clean
  <2>2. EngineTyped'
    BY <1>0, <1>13, <2>1, ResolveDecodes, Zenon DEF ConfigureNew, EngineTyped
  <2>3. DecodingTyped'
    BY <1>0, <1>13, RestartIfTyped, Zenon DEF ConfigureNew
  <2>4. QED
    BY <1>0, <1>13, <2>2, <2>3, Zenon
       DEF ConfigureNew, identityVars, framerVars, framerView, All, LoopTyped, FramerTyped,
           IdentityTyped
<1>14. CASE DecodeFails
  <2>1. DecodingTyped'
    BY <1>0, <1>14, RestartIfTyped, Zenon DEF DecodeFails
  <2>2. LoopTyped'
    <3>1. 0 \in Nat
      OBVIOUS
    <3>2. QED BY <1>0, <1>2, <1>14, <3>1, FirstTypes, Zenon DEF DecodeFails, LoopTyped
  <2>3. QED
    BY <1>0, <1>14, <2>1, <2>2, Zenon
       DEF DecodeFails, engineVars, identityVars, framerVars, framerView, All, EngineTyped,
           FramerTyped, IdentityTyped
<1>15. ASSUME NEW duplicate \in BOOLEAN, Decode(duplicate) PROVE TypeOK'
  <2>1. au.config \in Configs
    BY <1>15, Zenon DEF Decode, Clean
  <2>2. DecodingTyped'
    BY <1>0, <1>15, <2>1, Zenon DEF Decode, DecodingTyped
  <2>3. LoopTyped'
    <3>1. 0 \in Nat
      OBVIOUS
    <3>2. QED BY <1>0, <1>2, <1>15, <3>1, FirstTypes, Zenon DEF Decode, LoopTyped
  <2>4. QED
    BY <1>0, <1>15, <2>2, <2>3, Zenon
       DEF Decode, engineVars, identityVars, framerVars, framerView, All, EngineTyped,
           FramerTyped, IdentityTyped
<1>16. CASE Emit
  <2> DEFINE config == au.config
             presentation == DecodesAs(resolved, config)
             channels == config.channels[presentation]
             labels == config.labels[presentation]
  <2>1. config \in Configs /\ presentation \in Presentations
    BY <1>16, DecodesAsType, Zenon DEF Emit, Clean
  <2>2. channels \in Nat /\ labels \in Seq(Speakers) /\ config.oamd \subseteq Seq(Speakers)
        /\ config.frames \in Nat
    BY <2>1, ConfigTypes, Zenon
  <2>3. Metadata(presentation, channels)
    BY <1>16, Zenon DEF Emit
  <2>4. scheduled' \subseteq Seq(Speakers) /\ layout' \in Seq(Speakers)
    BY <1>0, <2>2, <2>3, MetadataTakes, Zenon DEF DecodingTyped
  <2>5. DecodingTyped'
    BY <1>0, <1>16, <2>4, Zenon DEF Emit, DecodingTyped
  <2> DEFINE objects == IsObjects(presentation)
             speakers == IF layout' # NoLayout /\ objects /\ Len(layout') = channels
                         THEN layout' ELSE RolesFromSync(labels, channels, objects)
             now == [frames |-> config.frames, presentation |-> presentation,
                     speakers |-> speakers]
  <2>6. /\ roles' = now /\ previous' = [roles |-> now, serial |-> serial']
        /\ serial' \in {serial, Following(serial)}
    BY <1>16, Zenon DEF Emit
  <2>7. speakers \in Seq(Speakers)
    BY <2>2, <2>4, SpeakersType, Zenon
  <2> HIDE DEF speakers
  <2>8. now \in Roles
    BY <2>1, <2>2, <2>7, SMT DEF Roles
  <2> HIDE DEF now
  <2>9. serial' \in 0..MaxSerial
    BY <1>0, <2>6, EngineConstants DEF IdentityTyped, Following
  <2>10. previous'.roles = now /\ previous'.serial = serial'
    BY <2>6, SMT
  <2>11. IdentityTyped'
    BY <2>6, <2>8, <2>9, <2>10, Zenon DEF IdentityTyped
  <2>12. LoopTyped'
    <3>1. 0 \in Nat
      OBVIOUS
    <3>2. QED BY <1>0, <1>2, <1>16, <3>1, FirstTypes, Zenon DEF Emit, LoopTyped
  <2>13. QED
    BY <1>0, <1>16, <2>5, <2>11, <2>12, Zenon
       DEF Emit, engineVars, framerVars, framerView, All, EngineTyped, FramerTyped
<1>17. CASE UNCHANGED vars
  BY <1>0, <1>17, ZenonT(60)
     DEF vars, engineVars, decodingVars, identityVars, framerVars, framerView, All,
         EngineTyped, LoopTyped, FramerTyped, DecodingTyped, IdentityTyped
<1>18. QED
  BY <1>3, <1>4, <1>5, <1>6, <1>7, <1>9, <1>10, <1>11, <1>12, <1>13, <1>14, <1>15, <1>16,
     <1>17, Zenon DEF Next

\* The presentation required of the decoder is always one there can be, the
\* description always one of a stream and the layout of a block its speakers
\* (engine.rs:280-307, 364-470; stream.rs:210-222).
THEOREM EngineTypeCorrect == Spec => []TypeOK
  BY CleanInit, CleanKept, EngineTypeInit, EngineTypeKept, PTL DEF Spec

-----------------------------------------------------------------------------
(* The presentation that is decoded.                                       *)

\* A block is there to be seen only until pull() goes on; and unless it was set up
\* blindly, the description is that of the configuration decoding is set up for,
\* and the presentation as well unless a panic left it half set up.
Described ==
    /\ Returned => step = "caller"
    /\ ~blind /\ signature # NoConfig =>
           /\ desc = signature
           /\ ~torn => resolved = Resolve(selection, signature)

LEMMA DescribedInit == Init => Described
  BY Zenon DEF Init, Described, Returned

LEMMA DescribedKept == Described /\ [Next]_vars => Described'
<1> SUFFICES ASSUME Described, [Next]_vars PROVE Described'
  OBVIOUS
<1> USE DEF Described, Returned
<1>1. CASE Reset
  BY <1>1, Zenon DEF Reset, engineVars
<1>2. ASSUME NEW sel \in Selections, SetPresentation(sel) PROVE Described'
  BY <1>2, Zenon DEF SetPresentation
<1>3. CASE Panic
  <2>1. block' = NoBlock
    BY <1>3, Zenon DEF Panic
  <2>2. ASSUME UNCHANGED engineVars, blind' = blind PROVE Described'
    BY <2>1, <2>2, Zenon DEF engineVars
  <2>3. signature' = NoConfig => Described'
    BY <2>1, Zenon
  <2>4. desc' = signature' /\ torn' => Described'
    BY <2>1, Zenon
  <2>5. blind' => Described'
    BY <2>1, Zenon
  <2>6. \/ UNCHANGED engineVars /\ blind' = blind
        \/ signature' = NoConfig
        \/ desc' = signature' /\ torn' = TRUE
        \/ blind' = TRUE
    BY <1>3, Zenon DEF Panic
  <2>7. QED BY <2>2, <2>3, <2>4, <2>5, <2>6, Zenon
<1>4. CASE Rebuild
  BY <1>4, Zenon DEF Rebuild
<1>5. ASSUME NEW damaged \in BOOLEAN, FetchNothing(damaged) PROVE Described'
  BY <1>5, Zenon DEF FetchNothing, engineVars
<1>6. ASSUME NEW damaged \in BOOLEAN, NEW guess \in BOOLEAN, NEW lost \in 0..1,
             FetchSkipped(damaged, lost, guess)
      PROVE  Described'
  BY <1>6, Zenon DEF FetchSkipped, engineVars
<1>7. ASSUME NEW damaged \in BOOLEAN, NEW guess \in BOOLEAN, NEW lost \in 0..1,
             NEW major \in BOOLEAN, NEW config \in Configs,
             FetchAu(major, config, damaged, lost, guess)
      PROVE  Described'
  BY <1>7, Zenon DEF FetchAu, engineVars
<1>8. CASE ConfigureKnown
  BY <1>8, Zenon DEF ConfigureKnown, engineVars
<1>9. CASE ConfigureBlindly
  BY <1>9, Zenon DEF ConfigureBlindly
<1>10. CASE ConfigureNew
  BY <1>10, Zenon DEF ConfigureNew
<1>11. CASE DecodeFails
  BY <1>11, Zenon DEF DecodeFails, engineVars
<1>12. ASSUME NEW duplicate \in BOOLEAN, Decode(duplicate) PROVE Described'
  BY <1>12, Zenon DEF Decode, engineVars
<1>13. CASE Emit
  BY <1>13, Zenon DEF Emit, engineVars
<1>14. CASE UNCHANGED vars
  BY <1>14, Zenon DEF vars, engineVars
<1>15. QED
  BY <1>1, <1>2, <1>3, <1>4, <1>5, <1>6, <1>7, <1>8, <1>9, <1>10, <1>11, <1>12, <1>13, <1>14,
     Zenon DEF Next

\* A step other than emit leaves no block to be seen.
LEMMA OnlyEmitReturns ==
    Described /\ [Next]_vars => Emit \/ block' = NoBlock \/ UNCHANGED vars
<1> SUFFICES ASSUME Described, Next, ~Emit PROVE block' = NoBlock
  BY Zenon
<1>1. Reset \/ Panic \/ Rebuild \/ (\E sel \in Selections : SetPresentation(sel)) => block' = NoBlock
  BY Zenon DEF Reset, Panic, Rebuild, SetPresentation
<1>2. (\E damaged \in BOOLEAN : FetchNothing(damaged)) => block' = NoBlock
  BY Zenon DEF FetchNothing
<1>3. (\E damaged, guess \in BOOLEAN, lost \in 0..1 :
           \/ FetchSkipped(damaged, lost, guess)
           \/ \E major \in BOOLEAN, config \in Configs :
                  FetchAu(major, config, damaged, lost, guess)) => block' = NoBlock
  BY ZenonT(60) DEF FetchSkipped, FetchAu
<1>4. ConfigureKnown \/ ConfigureBlindly \/ ConfigureNew =>
          step = "configure" /\ block' = block
  BY Zenon DEF ConfigureKnown, ConfigureBlindly, ConfigureNew
<1>5. DecodeFails \/ (\E duplicate \in BOOLEAN : Decode(duplicate)) =>
          step = "decode" /\ block' = block
  BY Zenon DEF DecodeFails, Decode
<1>6. block # NoBlock => step # "configure" /\ step # "decode"
  BY Zenon DEF Described, Returned
<1>7. QED BY <1>1, <1>2, <1>3, <1>4, <1>5, <1>6, Zenon DEF Next

\* What a block says, and what it was made from.
Makes(config, presentation, speakers) ==
    /\ config \in Configs /\ config = au.config
    /\ signature = config /\ desc = config
    /\ presentation = DecodesAs(resolved, config)
    /\ ~torn => presentation = Resolve(selection, config) /\ resolved = presentation
    /\ Metadata(presentation, config.channels[presentation])
    /\ LET objects == presentation = 3 /\ config.objects
       IN  speakers = IF /\ layout' # NoLayout /\ objects
                         /\ Len(layout') = config.channels[presentation]
                      THEN layout'
                      ELSE RolesFromSync(config.labels[presentation],
                                         config.channels[presentation], objects)
    /\ block'.au = au /\ block'.metadata = layout' /\ block'.serial = serial'
    /\ block'.roles.presentation = presentation /\ block'.roles.speakers = speakers
    /\ UNCHANGED <<selection, signature, desc, resolved, torn, blind>>

LEMMA BlockMade ==
    ASSUME Marked, Clean, Described, TypeOK, Emit, ~blind
    PROVE  \E config, presentation, speakers : Makes(config, presentation, speakers)
<1> DEFINE config == au.config
           presentation == DecodesAs(resolved, config)
           channels == config.channels[presentation]
           labels == config.labels[presentation]
           objects == presentation = 3 /\ config.objects
           speakers == IF layout' # NoLayout /\ objects /\ Len(layout') = channels
                       THEN layout' ELSE RolesFromSync(labels, channels, objects)
           now == [frames |-> config.frames, presentation |-> presentation,
                   speakers |-> speakers]
<1>1. step = "emit" /\ UNCHANGED <<selection, signature, desc, resolved, torn, blind>>
  BY Zenon DEF Emit, engineVars
<1>2. config \in Configs /\ signature = config
  BY <1>1, Zenon DEF Clean
<1>3. /\ desc = config /\ config # NoConfig
      /\ ~torn => resolved = Resolve(selection, config)
  BY <1>2, EngineConstants, Zenon DEF Described
<1>4. /\ presentation = DecodesAs(resolved, config)
      /\ ~torn => presentation = Resolve(selection, config) /\ resolved = presentation
  BY <1>2, <1>3, ResolveDecodes, Zenon DEF TypeOK
<1>5. IsObjects(presentation) = objects
  BY <1>2, <1>3, ConfigTypes, Zenon DEF IsObjects
<1>6. Metadata(presentation, channels)
  BY Zenon DEF Emit
<1>7. roles' = now
  BY <1>5, Zenon DEF Emit
<1>8. /\ block'.au = au /\ block'.metadata = layout' /\ block'.serial = serial'
      /\ block'.roles = roles'
  BY SMT DEF Emit
<1>9. now.presentation = presentation /\ now.speakers = speakers
  OBVIOUS
<1> HIDE DEF now, speakers, presentation
<1>10. block'.roles.presentation = presentation /\ block'.roles.speakers = speakers
  BY <1>7, <1>8, <1>9, Zenon
<1>11. Makes(config, presentation, speakers)
  BY <1>1, <1>2, <1>3, <1>4, <1>6, <1>8, <1>10, Zenon DEF Makes, speakers
<1>12. QED BY <1>11, Zenon

Honours == Marked /\ Clean /\ Described /\ TypeOK

LEMMA HonoursInit == Init => Honours
  BY MarkedInit, CleanInit, DescribedInit, EngineTypeInit, Zenon DEF Honours

LEMMA HonoursKept == Honours /\ [Next]_vars => Honours'
  BY MarkedKept, CleanKept, DescribedKept, EngineTypeKept, Zenon DEF Honours

LEMMA SelectionKept == Honours /\ SelectionHonoured /\ [Next]_vars => SelectionHonoured'
<1> SUFFICES ASSUME Honours, SelectionHonoured, [Next]_vars PROVE SelectionHonoured'
  OBVIOUS
<1>1. CASE block' = NoBlock
  BY <1>1, Zenon DEF SelectionHonoured, Returned
<1>2. CASE UNCHANGED vars
  BY <1>2, Zenon DEF vars, engineVars, identityVars, SelectionHonoured, Returned
<1>3. CASE Emit /\ blind
  <2>1. blind'
    BY <1>3, Zenon DEF Emit
  <2>2. QED BY <2>1, Zenon DEF SelectionHonoured
<1>4. CASE Emit /\ ~blind
  <2>1. PICK config, presentation, speakers : Makes(config, presentation, speakers)
    BY <1>4, BlockMade, Zenon DEF Honours
  <2>2. /\ desc' = config /\ block'.au.config = config /\ serial' = block'.serial
        /\ block'.roles.presentation = presentation
        /\ ~torn' => resolved' = presentation /\ presentation = Resolve(selection', config)
    BY <2>1, Zenon DEF Makes
  <2>3. QED BY <2>2, Zenon DEF SelectionHonoured
<1>5. QED BY <1>1, <1>2, <1>3, <1>4, OnlyEmitReturns, Zenon DEF Honours

\* Unless a stream could not be probed, get_stream_info is about the stream of the
\* block returned; and unless a panic cut configure short since the stream was
\* last set up, the block is of the presentation the selector means on it, for
\* any order of seeks, panics, selectors and configurations (engine.rs:138-142,
\* 280-309; stream.rs:210-222).
THEOREM SelectionsHonoured == Spec => []SelectionHonoured
<1>1. Init => SelectionHonoured
  BY Zenon DEF Init, SelectionHonoured, Returned
<1>2. QED BY <1>1, HonoursInit, HonoursKept, SelectionKept, PTL DEF Spec

-----------------------------------------------------------------------------
(* The metadata of a block.                                                *)

\* Unless set up blindly, what is scheduled and in force is of the configuration
\* and the presentation that are being decoded.
OwnMetadata ==
    /\ waiting => scheduled = {} /\ layout = NoLayout
    /\ ~blind /\ step # "poisoned" =>
           \A l \in scheduled \cup ({layout} \ {NoLayout}) :
               /\ DecodesAs(resolved, signature) = 3
               /\ l \in signature.oamd /\ Len(l) = signature.channels[3]

LEMMA OwnInit == Init => OwnMetadata
  BY Zenon DEF Init, OwnMetadata

LEMMA OwnRestart == Restart => OwnMetadata'
  BY Zenon DEF Restart, Drops, OwnMetadata

LEMMA OwnRestartIf ==
    ASSUME OwnMetadata, NEW condition, RestartIf(condition), UNCHANGED engineVars,
           UNCHANGED blind, step # "poisoned"
    PROVE  OwnMetadata'
  BY OwnRestart, Zenon DEF RestartIf, decodingVars, engineVars, OwnMetadata

LEMMA OwnKept == Honours /\ OwnMetadata /\ [Next]_vars => OwnMetadata'
<1> SUFFICES ASSUME Honours, OwnMetadata, [Next]_vars PROVE OwnMetadata'
  OBVIOUS
<1>1. CASE Reset
  BY <1>1, OwnRestart, Zenon DEF Reset
<1>2. ASSUME NEW sel \in Selections, SetPresentation(sel) PROVE OwnMetadata'
  BY <1>2, OwnRestart, Zenon DEF SetPresentation
<1>3. CASE Panic
  BY <1>3, Zenon DEF Panic, decodingVars, OwnMetadata
<1>4. CASE Rebuild
  BY <1>4, Zenon DEF Rebuild, Drops, OwnMetadata
<1>5. ASSUME NEW damaged \in BOOLEAN, FetchNothing(damaged) PROVE OwnMetadata'
  BY <1>5, OwnRestartIf, Zenon DEF FetchNothing
<1>6. ASSUME NEW damaged \in BOOLEAN, NEW guess \in BOOLEAN, NEW lost \in 0..1,
             FetchSkipped(damaged, lost, guess)
      PROVE  OwnMetadata'
  BY <1>6, OwnRestartIf, Zenon DEF FetchSkipped
<1>7. ASSUME NEW damaged \in BOOLEAN, NEW guess \in BOOLEAN, NEW lost \in 0..1,
             NEW major \in BOOLEAN, NEW config \in Configs,
             FetchAu(major, config, damaged, lost, guess)
      PROVE  OwnMetadata'
  BY <1>7, OwnRestartIf, Zenon DEF FetchAu
<1>8. CASE ConfigureKnown
  BY <1>8, Zenon DEF ConfigureKnown, engineVars, decodingVars, OwnMetadata
<1>9. CASE ConfigureBlindly
  BY <1>9, Zenon DEF ConfigureBlindly, decodingVars, OwnMetadata
<1>10. CASE ConfigureNew
  <2>1. CASE ChangedMidStream
    BY <1>10, <2>1, OwnRestart, Zenon DEF ConfigureNew, RestartIf
  <2>2. CASE ~ChangedMidStream /\ waiting
    BY <1>10, <2>2, Zenon DEF ConfigureNew, RestartIf, decodingVars, OwnMetadata
  <2>3. CASE ~ChangedMidStream /\ ~waiting
    <3>1. step = "configure" /\ signature = NoConfig
      BY <1>10, <2>3, Zenon DEF ConfigureNew, ChangedMidStream
    <3>2. blind
      BY <2>3, <3>1, EngineConstants, Zenon DEF Honours, Clean
    <3>3. blind' /\ waiting' = waiting /\ scheduled' = scheduled /\ layout' = layout
      BY <1>10, <2>3, <3>1, <3>2, Zenon DEF ConfigureNew, RestartIf, decodingVars
    <3>4. QED BY <2>3, <3>3, Zenon DEF OwnMetadata
  <2>4. QED BY <2>1, <2>2, <2>3, Zenon
<1>11. CASE DecodeFails
  BY <1>11, OwnRestartIf, Zenon DEF DecodeFails
<1>12. ASSUME NEW duplicate \in BOOLEAN, Decode(duplicate) PROVE OwnMetadata'
  BY <1>12, Zenon DEF Decode, engineVars, OwnMetadata
<1>13. CASE Emit /\ blind
  <2>1. blind' /\ ~waiting'
    BY <1>13, Zenon DEF Emit, Honours, Marked
  <2>2. QED BY <2>1, Zenon DEF OwnMetadata
<1>14. CASE Emit /\ ~blind
  <2>1. PICK config, presentation, speakers : Makes(config, presentation, speakers)
    BY <1>14, BlockMade, Zenon DEF Honours
  <2>2. ~waiting' /\ step # "poisoned"
    BY <1>14, Zenon DEF Emit, Honours, Marked
  <2>3. /\ Metadata(presentation, config.channels[presentation]) /\ config = au.config
        /\ signature' = config /\ signature = config /\ resolved' = resolved
        /\ presentation = DecodesAs(resolved, config)
    BY <2>1, Zenon DEF Makes
  <2>4. ASSUME NEW l \in scheduled' \cup ({layout'} \ {NoLayout})
        PROVE  /\ DecodesAs(resolved, config) = 3
               /\ l \in config.oamd /\ Len(l) = config.channels[3]
    <3>1. CASE l \in scheduled \cup ({layout} \ {NoLayout})
      BY <1>14, <2>2, <2>3, <3>1, Zenon DEF OwnMetadata
    <3>2. CASE l \notin scheduled \cup ({layout} \ {NoLayout})
      <4>1. presentation = 3
        BY <2>3, <2>4, <3>2, MetadataTakes, Zenon
      <4>2. l \in config.oamd /\ Len(l) = config.channels[presentation]
        BY <2>3, <2>4, <3>2, MetadataTakes, Zenon
      <4>3. QED BY <2>3, <4>1, <4>2, Zenon
    <3>3. QED BY <3>1, <3>2, Zenon
  <2>5. QED BY <2>2, <2>3, <2>4, Zenon DEF OwnMetadata
<1>15. CASE UNCHANGED vars
  BY <1>15, Zenon DEF vars, engineVars, decodingVars, OwnMetadata
<1>16. QED
  BY <1>1, <1>2, <1>3, <1>4, <1>5, <1>6, <1>7, <1>8, <1>9, <1>10, <1>11, <1>12, <1>13, <1>14,
     <1>15, Zenon DEF Next

\* Metadata in a block is of the access unit's own stream, which has objects.
LEMMA MetadataIsOwn ==
    ASSUME Honours, OwnMetadata, Emit, ~blind, layout' # NoLayout,
           NEW config, NEW presentation, NEW speakers, Makes(config, presentation, speakers)
    PROVE  /\ presentation = 3 /\ layout' \in config.oamd
           /\ Len(layout') = config.channels[3] /\ config.objects
<1>1. OwnMetadata'
  BY OwnKept, Zenon DEF Next
<1>2. signature' = config /\ resolved' = resolved /\ ~blind' /\ step' # "poisoned"
  <2>1. step' = "caller"
    BY Zenon DEF Emit
  <2>2. signature' = config /\ resolved' = resolved /\ ~blind'
    BY Zenon DEF Makes
  <2>3. QED BY <2>1, <2>2, Zenon
<1>3. DecodesAs(resolved, config) = 3 /\ layout' \in config.oamd /\ Len(layout') = config.channels[3]
  <2>1. layout' \in scheduled' \cup ({layout'} \ {NoLayout})
    BY Zenon
  <2>2. DecodesAs(resolved', signature') = 3 /\ layout' \in signature'.oamd
        /\ Len(layout') = signature'.channels[3]
    BY <1>1, <1>2, <2>1, Zenon DEF OwnMetadata
  <2>3. QED BY <1>2, <2>2, Zenon
<1>4. presentation = DecodesAs(resolved, config)
  BY Zenon DEF Makes
<1>5. config.objects
  BY <1>3, MetadataConforms, Zenon DEF Makes
<1>6. QED BY <1>3, <1>4, <1>5, Zenon

LEMMA MetadataKept ==
    Honours /\ OwnMetadata /\ MetadataMatchesBlock /\ RolesFollowStream /\ [Next]_vars =>
        MetadataMatchesBlock' /\ RolesFollowStream'
<1> SUFFICES ASSUME Honours, OwnMetadata, MetadataMatchesBlock, RolesFollowStream, [Next]_vars
             PROVE  MetadataMatchesBlock' /\ RolesFollowStream'
  OBVIOUS
<1>1. CASE block' = NoBlock
  BY <1>1, Zenon DEF MetadataMatchesBlock, RolesFollowStream, Returned
<1>2. CASE UNCHANGED vars
  BY <1>2, Zenon DEF vars, MetadataMatchesBlock, RolesFollowStream, Returned
<1>3. CASE Emit /\ blind
  <2>1. blind'
    BY <1>3, Zenon DEF Emit
  <2>2. QED BY <2>1, Zenon DEF MetadataMatchesBlock, RolesFollowStream
<1>4. CASE Emit /\ ~blind
  <2>1. PICK config, presentation, speakers : Makes(config, presentation, speakers)
    BY <1>4, BlockMade, Zenon DEF Honours
  <2>2. /\ block'.au.config = config /\ block'.metadata = layout'
        /\ block'.roles.presentation = presentation /\ block'.roles.speakers = speakers
    BY <2>1, Zenon DEF Makes
  <2>3. layout' # NoLayout => /\ presentation = 3 /\ layout' \in config.oamd
                             /\ Len(layout') = config.channels[3] /\ config.objects
    BY <1>4, <2>1, MetadataIsOwn, Zenon
  <2>4. speakers = IF /\ layout' # NoLayout /\ presentation = 3 /\ config.objects
                      /\ Len(layout') = config.channels[presentation]
                   THEN layout'
                   ELSE RolesFromSync(config.labels[presentation],
                                      config.channels[presentation],
                                      presentation = 3 /\ config.objects)
    BY <2>1, Zenon DEF Makes
  <2>5. MetadataMatchesBlock'
    BY <2>2, <2>3, <2>4, Zenon DEF MetadataMatchesBlock
  <2>6. RolesFollowStream'
    BY <2>2, <2>3, <2>4, Zenon DEF RolesFollowStream
  <2>7. QED BY <2>5, <2>6, Zenon
<1>5. QED BY <1>1, <1>2, <1>3, <1>4, OnlyEmitReturns, Zenon DEF Honours

LEMMA MetadataInit == Init => MetadataMatchesBlock /\ RolesFollowStream
  BY Zenon DEF Init, MetadataMatchesBlock, RolesFollowStream, Returned

LEMMA MetadataAlways == Spec => [](MetadataMatchesBlock /\ RolesFollowStream)
  BY HonoursInit, HonoursKept, OwnInit, OwnKept, MetadataInit, MetadataKept, PTL DEF Spec

\* The metadata a block carries is of presentation 3 of the stream the block is
\* from, never of the one before a seek, a switch or a change of configuration,
\* and matches the block's speakers (engine.rs:384-428).
THEOREM MetadataMatches == Spec => []MetadataMatchesBlock
  BY MetadataAlways, PTL

\* On a stream whose metadata agrees with its major syncs the roles of a block
\* are the same with and without metadata (engine.rs:419-425).
THEOREM RolesFollow == Spec => []RolesFollowStream
  BY MetadataAlways, PTL
=============================================================================
