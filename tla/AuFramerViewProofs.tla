------------------------- MODULE AuFramerViewProofs -------------------------
(***************************************************************************)
(* For every stream, chunking and value of the constants: what the framer  *)
(* reports keeps the promise Engine::pull is built on (FramerContract).    *)
(***************************************************************************)
EXTENDS AuFramerView, AuChainProofs

\* In sync there is nothing queued and nothing unreported; locked without it,
\* what is next leads onto a major sync.  Numbers run ahead of the reports only
\* once they rest on estimates.
VInv ==
    /\ LInv
    /\ inSync \in BOOLEAN /\ flagged \in BOOLEAN
    /\ nextNumber \in Nat /\ ordinal - nextNumber \in Nat /\ reports \in Nat
    /\ inSync => /\ state = "Locked" /\ queued = {}
                 /\ flagged = estimated /\ nextNumber = ordinal
    /\ state = "Locked" /\ ~inSync => Leading
    /\ flagged => estimated
    /\ ordinal # nextNumber => estimated

LEMMA VInvTypes ==
    ASSUME VInv
    PROVE  /\ IInv /\ LInv
           /\ inSync \in BOOLEAN /\ flagged \in BOOLEAN /\ estimated \in BOOLEAN
           /\ nextNumber \in Nat /\ ordinal \in Nat /\ nextNumber <= ordinal
           /\ state \in {"Locked", "Seeking"}
           /\ syncErrors \in Nat /\ reports \in Nat
<1>1. IInv /\ LInv
  BY Zenon DEF VInv, LInv
<1>2. /\ estimated \in BOOLEAN /\ ordinal \in Nat /\ state \in {"Locked", "Seeking"}
      /\ syncErrors \in Nat
  BY <1>1, Zenon DEF IInv, TypeOK
<1>3. nextNumber \in Nat /\ ordinal - nextNumber \in Nat /\ reports \in Nat
  BY Zenon DEF VInv
<1>4. nextNumber <= ordinal
  BY <1>2, <1>3
<1>5. inSync \in BOOLEAN /\ flagged \in BOOLEAN
  BY Zenon DEF VInv
<1>6. QED BY <1>1, <1>2, <1>3, <1>4, <1>5

LEMMA ViewStarts == InitView => VInv /\ Seen!Unseen
<1> SUFFICES ASSUME Init, InitView PROVE VInv /\ Seen!Unseen
  BY DEF InitView
<1>1. LInv
  <2>1. queued = {} /\ last.kind # "Skipped"
    BY DEF Init, Fresh
  <2>2. QED BY <2>1, InitHolds, Zenon DEF LInv
<1>2. /\ inSync = FALSE /\ flagged = FALSE /\ nextNumber = 0 /\ ordinal = 0 /\ reports = 0
      /\ state = "Seeking"
  BY Zenon DEF Init, InitView
<1>3. 0 \in Nat /\ ordinal - nextNumber \in Nat /\ "Seeking" # "Locked"
  BY <1>2
<1>4. VInv
  BY <1>1, <1>2, <1>3, Zenon DEF VInv
<1>5. Seen!Unseen
  BY <1>2, Zenon DEF Seen!Unseen
<1>6. QED BY <1>4, <1>5

-----------------------------------------------------------------------------
(* The search counts a failure that has ended the sync.                    *)

LEMMA SearchBreaks ==
    ASSUME VInv, Searching
    PROVE  /\ ErrorsNow \in Nat /\ ErrorsNow >= syncErrors
           /\ inSync <=> ErrorsNow # syncErrors
<1>1. syncErrors \in Nat /\ inSync \in BOOLEAN
  BY VInvTypes
<1>2. CASE state = "Seeking"
  <2>1. ErrorsNow = syncErrors
    BY <1>2, Zenon DEF ErrorsNow
  <2>2. ~inSync
    BY <1>2 DEF VInv
  <2>3. QED BY <1>1, <2>1, <2>2
<1>3. CASE state # "Seeking"
  <2>1. ErrorsNow = syncErrors + 1
    BY <1>3, Zenon DEF ErrorsNow
  <2>2. state = "Locked"
    BY <1>3, VInvTypes, Zenon
  <2>3. AuInvalid(cursor) /\ queued = {}
    BY <1>3, Zenon DEF Searching
  <2>4. inSync
    <3>1. ASSUME ~inSync PROVE FALSE
      <4>1. Leading
        BY <2>2, <3>1, Zenon DEF VInv
      <4>2. QED BY <2>3, <4>1, LeadsToValid, VInvTypes, Zenon
    <3>2. QED BY <3>1
  <2>5. QED BY <1>1, <2>1, <2>4
<1>4. QED BY <1>2, <1>3

\* Ending it may count one more.
LEMMA ResyncErrors ==
    ASSUME SeekFound
    PROVE  syncErrors' = ErrorsNow \/ syncErrors' = ErrorsNow + 1 \/ syncErrors' = ErrorsNow + 0
  BY ZenonT(60) DEF SeekFound, Resync

-----------------------------------------------------------------------------
(* A step that reports nothing.                                            *)

LEMMA QuietMeets ==
    ASSUME VInv, LInv', SeesNothing, Broke => inSync,
           ordinal' - ordinal \in Nat,
           estimated => estimated', ordinal' # ordinal => estimated',
           inSync /\ ~Broke => UNCHANGED <<state, queued, estimated, ordinal>>,
           state' = "Locked" /\ ~inSync' => Leading'
    PROVE  VInv' /\ KeepsContract
<1>1. /\ inSync' = (inSync /\ ~Broke) /\ nextNumber' = nextNumber /\ flagged' = flagged
      /\ reports' = reports
  BY Zenon DEF SeesNothing, Broke
<1>2. Seen!RunsDry(Broke)
  BY <1>1, Zenon DEF Seen!RunsDry
<1>3. ordinal' - nextNumber \in Nat /\ (ordinal' = nextNumber => ordinal' = ordinal)
  <2>1. ordinal' \in Nat
    BY Zenon DEF LInv, IInv, TypeOK
  <2>2. QED BY <2>1, VInvTypes
<1>4. inSync' \in BOOLEAN
  BY <1>1, Zenon
<1>5. inSync' => inSync /\ ~Broke
  BY <1>1, Zenon
<1>6. inSync' => /\ state' = "Locked" /\ queued' = {}
                 /\ flagged' = estimated' /\ nextNumber' = ordinal'
  BY <1>1, <1>5, Zenon DEF VInv
<1>7. /\ flagged' => estimated'
      /\ ordinal' # nextNumber' => estimated'
  <2>1. flagged' => estimated'
    BY <1>1, Zenon DEF VInv
  <2>2. ordinal' # nextNumber => estimated'
    <3>1. CASE ordinal' # ordinal
      BY <3>1
    <3>2. CASE ordinal' = ordinal
      BY <3>2, Zenon DEF VInv
    <3>3. QED BY <3>1, <3>2
  <2>3. QED BY <1>1, <2>1, <2>2, Zenon
<1>8. /\ flagged' \in BOOLEAN /\ nextNumber' \in Nat /\ ordinal' - nextNumber' \in Nat
      /\ reports' \in Nat
  BY <1>1, <1>3, VInvTypes, Zenon
<1>9. VInv'
  BY <1>4, <1>6, <1>7, <1>8, Zenon DEF VInv
<1>10. QED BY <1>2, <1>9, Zenon DEF KeepsContract

-----------------------------------------------------------------------------
(* A step that reports an access unit.                                     *)

LEMMA UnitMeets ==
    ASSUME VInv, LInv', SeesUnit,
           last'.ordinal \in Nat, last'.ordinal - ordinal \in Nat, ordinal' = last'.ordinal + 1,
           estimated => estimated', last'.ordinal # ordinal => estimated',
           inSync /\ ~Broke => estimated' = estimated /\ last'.ordinal = ordinal,
           \/ last'.kind = "Au" /\ state' = "Locked" /\ queued' = {}
                 /\ (~last'.major => inSync /\ ~Broke)
           \/ last'.kind = "Skipped" /\ Leading' /\ (Broke \/ ~inSync)
    PROVE  VInv' /\ KeepsContract
<1> DEFINE guess == estimated' /\ ~flagged /\ Passed = 0
           number == last'.ordinal
<1>1. /\ inSync' = (last'.kind = "Au") /\ nextNumber' = number + 1
      /\ flagged' = estimated' /\ reports' = reports + 1 /\ Reported'
  BY Zenon DEF SeesUnit
<1>2. /\ inSync \in BOOLEAN /\ flagged \in BOOLEAN /\ nextNumber \in Nat
      /\ ordinal \in Nat /\ nextNumber <= ordinal /\ reports \in Nat
  BY VInvTypes
<1>3. estimated' \in BOOLEAN /\ ordinal' \in Nat
  BY Zenon DEF LInv, IInv, TypeOK
<1>4. /\ Passed = number - nextNumber
      /\ number \in Int /\ number - nextNumber \in Nat
      /\ nextNumber + (number - nextNumber) + 1 = number + 1
      /\ (number - nextNumber > 0 \/ number - nextNumber = 0)
      /\ ~(number - nextNumber > 0 /\ number - nextNumber = 0)
      /\ number - nextNumber > 0 => number # ordinal \/ ordinal # nextNumber
  <2>1. number \in Int /\ number - ordinal \in Nat
    BY SMT
  <2>2. Passed = number - nextNumber
    BY Zenon DEF Passed
  <2> HIDE DEF number
  <2>3. QED BY <1>2, <2>1, <2>2 DEF number
<1> HIDE DEF number
<1>5. guess \in BOOLEAN
  BY Zenon
<1>6. Passed > 0 \/ guess => Broke \/ ~inSync
  <2>1. ASSUME inSync, ~Broke PROVE Passed = 0 /\ (estimated' => flagged)
    <3>1. number = ordinal /\ estimated' = estimated
      BY <2>1, Zenon DEF number
    <3>2. nextNumber = ordinal /\ flagged = estimated
      BY <2>1, Zenon DEF VInv
    <3>3. QED BY <1>2, <1>4, <3>1, <3>2
  <2>2. ~(Passed > 0) \/ Passed # 0
    BY <1>4
  <2>3. QED BY <2>1, <2>2, Zenon
<1>7. estimated' = (flagged \/ Passed > 0 \/ guess)
  <2>1. CASE estimated'
    <3>1. Passed > 0 \/ Passed = 0
      BY <1>4
    <3>2. flagged \/ Passed > 0 \/ guess
      BY <2>1, <3>1, Zenon
    <3> HIDE DEF guess
    <3>3. QED BY <1>2, <1>3, <1>5, <2>1, <3>2
  <2>2. CASE ~estimated'
    <3>1. ~flagged
      BY <2>2, Zenon DEF VInv
    <3>2. ~(Passed > 0)
      <4>1. number = ordinal
        BY <2>2, Zenon DEF number
      <4>2. ordinal = nextNumber
        BY <2>2, Zenon DEF VInv
      <4>3. QED BY <1>4, <4>1, <4>2
    <3>3. ~guess
      BY <2>2, Zenon
    <3> HIDE DEF guess
    <3>4. QED BY <1>2, <1>3, <2>2, <3>1, <3>2, <3>3
  <2>3. QED BY <2>1, <2>2
<1>8. Seen!Counts(Broke, Passed, guess)
  <2>1. nextNumber' = nextNumber + Passed + 1
    BY <1>1, <1>4, Zenon
  <2>2. guess => Passed = 0
    BY Zenon
  <2> HIDE DEF guess
  <2>3. QED BY <1>1, <1>6, <1>7, <2>1, <2>2, Zenon DEF Seen!Counts
<1>9. Passed \in Nat
  BY <1>4
<1> HIDE DEF guess
<1>10. "Au" # "Skipped"
  OBVIOUS
<1>11. CASE /\ last'.kind = "Au" /\ state' = "Locked" /\ queued' = {}
            /\ ~last'.major => inSync /\ ~Broke
  <2>1. inSync' = TRUE
    BY <1>1, <1>11, Zenon
  <2>2. Seen!Delivers(last'.major, Broke, Passed, guess)
    BY <1>8, <1>11, <2>1, Zenon DEF Seen!Delivers
  <2>3. KeepsContract
    BY <1>1, <1>5, <1>9, <1>11, <2>2, Zenon DEF KeepsContract
  <2>4. ordinal' - nextNumber' \in Nat /\ ordinal' = nextNumber' /\ nextNumber' \in Nat
        /\ reports' \in Nat
    BY <1>1, <1>2, <1>3 DEF number
  <2>5. VInv'
    BY <1>1, <1>3, <1>11, <2>1, <2>4, Zenon DEF VInv
  <2>6. QED BY <2>3, <2>5
<1>12. CASE last'.kind = "Skipped" /\ Leading' /\ (Broke \/ ~inSync)
  <2>1. inSync' = FALSE
    BY <1>1, <1>10, <1>12, Zenon
  <2>2. Seen!Skips(Broke, Passed, guess)
    BY <1>8, <1>12, <2>1, Zenon DEF Seen!Skips
  <2>3. KeepsContract
    BY <1>1, <1>5, <1>9, <1>12, <2>2, Zenon DEF KeepsContract
  <2>4. ordinal' - nextNumber' \in Nat /\ ordinal' = nextNumber' /\ nextNumber' \in Nat
        /\ reports' \in Nat
    BY <1>1, <1>2, <1>3 DEF number
  <2>5. VInv'
    BY <1>1, <1>3, <1>12, <2>1, <2>4, Zenon DEF VInv
  <2>6. QED BY <2>3, <2>5
<1>13. QED BY <1>11, <1>12

-----------------------------------------------------------------------------
(* Every step.                                                             *)

\* Which of the three sights a step is.
LEMMA Sights ==
    ASSUME ViewedNext
    PROVE  /\ resets' = resets /\ last' \in {Fresh, NeedData} => SeesNothing
           /\ resets' = resets /\ last'.kind \in {"Au", "Skipped"} => SeesUnit
           /\ resets' # resets => SeesReset
<1>1. SeesReset \/ SeesNothing \/ SeesUnit
  BY Zenon DEF ViewedNext
<1>2. Reported' <=> last'.kind \in {"Au", "Skipped"}
  BY Zenon DEF Reported
<1>3. last' \in {Fresh, NeedData} => last'.kind \notin {"Au", "Skipped"}
  BY DEF Fresh, NeedData
<1>4. QED BY <1>1, <1>2, <1>3, Zenon DEF SeesReset, SeesNothing, SeesUnit

LEMMA PushSeen ==
    ASSUME VInv, LInv', ViewedNext, \E n \in 1..Len(stream.bytes) : Push(n)
    PROVE  VInv' /\ KeepsContract
<1>1. PICK n \in 1..Len(stream.bytes) : Push(n)
  OBVIOUS
<1>2. n \in Nat
  BY SMT
<1>3. /\ last' = Fresh
      /\ UNCHANGED <<resets, syncErrors, state, queued, estimated, ordinal>>
  BY <1>1, Zenon DEF Push
<1>4. SeesNothing /\ ~Broke
  BY <1>3, Sights, Zenon DEF Broke
<1>5. ordinal' - ordinal \in Nat
  BY <1>3, VInvTypes
<1>6. state' = "Locked" /\ ~inSync' => Leading'
  <2>1. ASSUME state' = "Locked", ~inSync' PROVE Leading
    BY <1>3, <1>4, <2>1, Zenon DEF VInv, SeesNothing
  <2>2. Leading => Leading'
    BY <1>1, <1>2, PushLeads, VInvTypes, Zenon
  <2>3. QED BY <2>1, <2>2, Zenon
<1>7. QED BY <1>3, <1>4, <1>5, <1>6, QuietMeets, Zenon

LEMMA NextQueuedSeen ==
    ASSUME VInv, LInv', ViewedNext, NextQueued
    PROVE  VInv' /\ KeepsContract
<1>1. PICK end \in queued : Report("Skipped", consumed, end - consumed, ordinal, FALSE, 0)
  BY DEF NextQueued
<1>2. last'.kind = "Skipped" /\ last'.ordinal = ordinal /\ ordinal' = ordinal + 1
  BY <1>1 DEF Report
<1>3. UNCHANGED <<resets, syncErrors, estimated, substreams>>
  BY Zenon DEF NextQueued
<1>4. SeesUnit
  BY <1>2, <1>3, Sights, Zenon
<1>5. queued # {} /\ ~inSync
  BY <1>1, Zenon DEF VInv
<1>6. Leading'
  <2>1. Leading
    BY <1>5, Zenon DEF VInv, LInv
  <2>2. QED BY <2>1, NextQueuedLeads, VInvTypes, Zenon
<1>7. last'.ordinal \in Nat /\ last'.ordinal - ordinal \in Nat
  BY <1>2, VInvTypes
<1>8. QED BY <1>2, <1>3, <1>4, <1>5, <1>6, <1>7, UnitMeets, Zenon

LEMMA NextLockedSeen ==
    ASSUME VInv, LInv', ViewedNext, NextLocked
    PROVE  VInv' /\ KeepsContract
<1>1. Report("Au", consumed, At(cursor).len, ordinal, At(cursor).sync, 0)
  BY DEF NextLocked
<1>2. /\ last'.kind = "Au" /\ last'.ordinal = ordinal /\ ordinal' = ordinal + 1
      /\ last'.major = At(cursor).sync
  BY <1>1 DEF Report
<1>3. /\ UNCHANGED <<resets, syncErrors, estimated, state>>
      /\ queued = {} /\ queued' = {} /\ state = "Locked"
  BY Zenon DEF NextLocked
<1>4. SeesUnit
  BY <1>2, <1>3, Sights, Zenon
<1>5. ~last'.major => inSync /\ ~Broke
  <2>1. ASSUME ~inSync PROVE At(cursor).sync
    <3>1. Leading
      BY <1>3, <2>1, Zenon DEF VInv
    <3>2. QED BY <1>3, <3>1, LeadsToValid, VInvTypes, Zenon
  <2>2. QED BY <1>2, <1>3, <2>1, Zenon DEF Broke
<1>6. last'.ordinal \in Nat /\ last'.ordinal - ordinal \in Nat
  BY <1>2, VInvTypes
<1>7. QED BY <1>2, <1>3, <1>4, <1>5, <1>6, UnitMeets, Zenon

LEMMA NextStarvedSeen ==
    ASSUME VInv, LInv', ViewedNext, NextStarved
    PROVE  VInv' /\ KeepsContract
<1>1. /\ last' = NeedData /\ ~AuValid(cursor) /\ queued = {} /\ state = "Locked"
      /\ UNCHANGED <<resets, syncErrors, state, queued, estimated, ordinal>>
  BY Zenon DEF NextStarved
<1>2. inSync
  <2>1. ASSUME ~inSync PROVE FALSE
    <3>1. Leading
      BY <1>1, <2>1, Zenon DEF VInv
    <3>2. QED BY <1>1, <3>1, LeadsToValid, VInvTypes, Zenon
  <2>2. QED BY <2>1
<1>3. SeesNothing /\ ~Broke
  BY <1>1, Sights, Zenon DEF Broke
<1>4. inSync'
  BY <1>2, <1>3, Zenon DEF SeesNothing, Broke
<1>5. ordinal' - ordinal \in Nat
  BY <1>1, VInvTypes
<1>6. QED BY <1>1, <1>3, <1>4, <1>5, QuietMeets, Zenon

\* A search that finds nothing yet.
LEMMA SearchSeen ==
    ASSUME VInv, LInv', ViewedNext, Searching, last' = NeedData, resets' = resets,
           syncErrors' = ErrorsNow, state' = "Seeking",
           ordinal' - ordinal \in Nat,
           estimated => estimated', ordinal' # ordinal => estimated'
    PROVE  VInv' /\ KeepsContract
<1>1. SeesNothing
  BY Sights, Zenon
<1>2. Broke <=> inSync
  BY SearchBreaks, Zenon DEF Broke
<1>3. state' # "Locked"
  OBVIOUS
<1>4. QED BY <1>1, <1>2, <1>3, QuietMeets, Zenon

LEMMA SeekNothingSeen ==
    ASSUME VInv, LInv', ViewedNext, SeekNothing
    PROVE  VInv' /\ KeepsContract
<1> DEFINE idle == Larger(BufLen - ScanKeep, SearchFrom) - cursor
<1>1. /\ Searching /\ last' = NeedData /\ resets' = resets
      /\ syncErrors' = ErrorsNow /\ state' = "Seeking"
  BY Zenon DEF SeekNothing
<1>2. idle \in Nat
  BY <1>1, SearchStart, VInvTypes, FramerConstants DEF Larger, IInv, TypeOK
<1>3. Estimate(idle) \in Nat
  BY <1>2, EstimateNat, VInvTypes, Zenon DEF IInv
<1>4. \/ ordinal' = ordinal + Estimate(idle) /\ estimated' = TRUE
      \/ ordinal' = ordinal /\ estimated' = estimated
  BY Zenon DEF SeekNothing
<1> HIDE DEF idle
<1>5. /\ ordinal' - ordinal \in Nat
      /\ estimated => estimated'
      /\ ordinal' # ordinal => estimated'
  <2>1. ordinal' - ordinal \in Nat
    BY <1>3, <1>4, VInvTypes
  <2>2. CASE estimated' = TRUE
    BY <2>1, <2>2
  <2>3. CASE ordinal' = ordinal /\ estimated' = estimated
    BY <2>1, <2>3
  <2>4. QED BY <1>4, <2>2, <2>3, Zenon
<1>6. QED BY <1>1, <1>5, SearchSeen, Zenon

LEMMA SeekUndecidedSeen ==
    ASSUME VInv, LInv', ViewedNext, SeekUndecided
    PROVE  VInv' /\ KeepsContract
<1>1. /\ Searching /\ last' = NeedData /\ resets' = resets
      /\ syncErrors' = ErrorsNow /\ state' = "Seeking"
      /\ ordinal' = ordinal /\ estimated' = estimated
  BY Zenon DEF SeekUndecided
<1>2. ordinal' - ordinal \in Nat
  BY <1>1, VInvTypes
<1>3. QED BY <1>1, <1>2, SearchSeen, Zenon

LEMMA SeekFoundSeen ==
    ASSUME VInv, LInv', ViewedNext, SeekFound
    PROVE  VInv' /\ KeepsContract
<1>1. PICK c \in SyncCandidates : SyncProven(c) /\ Resync(c)
  BY DEF SeekFound
<1>2. Searching /\ state' = "Locked" /\ resets' = resets
  BY Zenon DEF SeekFound
<1>3. PICK from \in consumed..drained + c, ends \in SUBSET Nat, number, len, lost \in Nat,
           kind \in {"Au", "Skipped"}, major \in BOOLEAN :
               Recovers(c, from, ends, number, len, lost, kind, major)
  BY <1>1, <1>2, ResyncEffect, VInvTypes
<1>4. /\ Report(kind, from, len, number, major, lost)
      /\ number - ordinal \in Nat
      /\ estimated => estimated'
      /\ number # ordinal => estimated'
  BY <1>3, Zenon DEF Recovers
<1>5. last'.kind = kind /\ last'.ordinal = number /\ ordinal' = number + 1
  BY <1>4 DEF Report
<1>6. SeesUnit
  BY <1>2, <1>3, <1>5, Sights, Zenon
<1>7. Broke \/ ~inSync
  <2>1. ASSUME inSync PROVE Broke
    <3>1. ErrorsNow \in Nat /\ ErrorsNow >= syncErrors /\ ErrorsNow # syncErrors
      BY <1>2, <2>1, SearchBreaks
    <3>2. syncErrors' # syncErrors
      BY <3>1, ResyncErrors, VInvTypes
    <3>3. QED BY <3>2, Zenon DEF Broke
  <2>2. QED BY <2>1
<1>8. \/ last'.kind = "Au" /\ last'.major /\ queued' = {}
      \/ last'.kind = "Skipped" /\ Leading'
  BY ResyncLeads, VInvTypes, Zenon
<1>9. last'.ordinal \in Nat
  BY <1>3, <1>5
<1>10. QED BY <1>2, <1>4, <1>5, <1>6, <1>7, <1>8, <1>9, UnitMeets, Zenon

LEMMA ResetSeen ==
    ASSUME VInv, LInv', ViewedNext, Reset
    PROVE  VInv' /\ KeepsContract
<1>1. /\ resets' = resets + 1 /\ state' = "Seeking" /\ ordinal' = 0
  BY Zenon DEF Reset, ClearBuffer
<1>2. resets \in Nat
  BY VInvTypes, FramerConstants DEF IInv, TypeOK
<1>3. resets' # resets
  BY <1>1, <1>2
<1>4. /\ inSync' = FALSE /\ nextNumber' = 0 /\ flagged' = FALSE /\ reports' = 0
  BY <1>3, Sights, Zenon DEF SeesReset
<1>5. Seen!Forgets
  BY <1>4, Zenon DEF Seen!Forgets
<1>6. /\ nextNumber' \in Nat /\ ordinal' - nextNumber' \in Nat /\ reports' \in Nat
      /\ ordinal' = nextNumber' /\ state' # "Locked"
  BY <1>1, <1>4
<1>7. VInv'
  BY <1>4, <1>6, Zenon DEF VInv
<1>8. QED BY <1>5, <1>7, Zenon DEF KeepsContract

LEMMA ViewKept ==
    VInv /\ [ViewedNext]_<<vars, view>> => VInv' /\ [KeepsContract]_<<vars, view>>
<1> SUFFICES ASSUME VInv, [ViewedNext]_<<vars, view>>
             PROVE  VInv' /\ [KeepsContract]_<<vars, view>>
  OBVIOUS
<1>1. CASE ViewedNext
  <2>1. Next /\ LInv'
    <3>1. Next
      BY <1>1, Zenon DEF ViewedNext
    <3>2. QED BY <3>1, LeadingKept, VInvTypes, Zenon
  <2>2. VInv' /\ KeepsContract
    BY <1>1, <2>1, PushSeen, NextQueuedSeen, NextLockedSeen, NextStarvedSeen,
       SeekNothingSeen, SeekUndecidedSeen, SeekFoundSeen, ResetSeen, Zenon
       DEF Next, NextCall
  <2>3. QED BY <2>2, Zenon
<1>2. CASE UNCHANGED <<vars, view>>
  <2>1. UNCHANGED vars /\ UNCHANGED view
    BY <1>2, Zenon
  <2>2. LInv'
    BY <2>1, LeadingKept, VInvTypes, Zenon
  <2>3. UNCHANGED <<inSync, flagged, nextNumber, reports>>
    BY <2>1, Zenon DEF view
  <2>4. UNCHANGED <<stream, pushed, consumed, queued, substreams, ordinal, state, estimated>>
    BY <2>1, Zenon DEF vars
  <2>5. Leading => Leading'
    BY <2>4, LeadingStays, Zenon
  <2>6. VInv'
    BY <2>2, <2>3, <2>4, <2>5, Zenon DEF VInv
  <2>7. QED BY <1>2, <2>6, Zenon
<1>3. QED BY <1>1, <1>2

\* Whatever is pushed and however it is cut, the framer keeps the promise that
\* Engine::pull is built on (framer.rs:178-227, engine.rs:214-234): the first
\* access unit to decode after damage is a major sync, what can only be counted
\* comes up on the way to one, and numbers are exact until something broke.
THEOREM FramerKeepsContract == ViewedSpec => MeetsContract
<1>1. InitView => VInv /\ Seen!Unseen
  BY ViewStarts
<1>2. VInv /\ [ViewedNext]_<<vars, view>> => VInv' /\ [KeepsContract]_<<vars, view>>
  BY ViewKept
<1>3. QED BY <1>1, <1>2, PTL DEF ViewedSpec, MeetsContract
=============================================================================
