--------------------------- MODULE AuFramerProofs ---------------------------
(***************************************************************************)
(* Proofs about AuFramer, for every stream, chunking and value of the      *)
(* constants: the indices next() uses stay inside the buffer, and the      *)
(* reports are those of the abstract log AuLog.                            *)
(***************************************************************************)
EXTENDS AuStreams, TLAPS

IInv == TypeOK /\ InBounds /\ SearchKnowsDamage

\* The reading of a byte that has been pushed.
LEMMA HeaderType ==
    ASSUME stream \in Streams, NEW o \in Nat, o < Len(stream.bytes)
    PROVE  Header(o) \in Reading
<1>1. stream.bytes \in Seq(Reading)
  BY StreamsAreReadings
<1>2. o + 1 \in 1..Len(stream.bytes)
  BY <1>1
<1>3. QED BY <1>1, <1>2 DEF Header

\* The same for an index into the buffer.
LEMMA AtType ==
    ASSUME TypeOK, InBounds, NEW i \in Nat, i < BufLen
    PROVE  /\ At(i) \in Reading
           /\ At(i).len \in Nat /\ At(i).sync \in BOOLEAN
           /\ At(i).subs \in SubstreamCounts
<1>1. drained + i \in Nat /\ drained + i < Len(stream.bytes)
  <2>1. stream.bytes \in Seq(Reading)
    BY StreamsAreReadings DEF TypeOK
  <2>2. QED BY <2>1 DEF TypeOK, InBounds, BufLen
<1>2. At(i) \in Reading
  BY <1>1, HeaderType DEF At, TypeOK
<1>3. QED BY <1>2, FramerConstants DEF Reading

\* Hops do not leave the region they are followed in.
LEMMA HopsWithin == \A from, to : HopsFrom(from, to) \subseteq from..to
  BY DEF HopsFrom

LEMMA ChainWithin ==
    \A from, sync, subs : ChainStarts(from, sync, subs) \subseteq from..sync - 1
  BY DEF ChainStarts

LEMMA QuotientNat ==
    ASSUME NEW a \in Nat, NEW b \in Nat, b > 0
    PROVE  a \div b \in Nat
  OBVIOUS

LEMMA EstimateNat ==
    ASSUME TypeOK, InBounds, NEW n \in Nat
    PROVE  Estimate(n) \in Nat
<1>1. CASE framedAus = 0
  <2>1. 2 * n + DefaultAuLen \in Nat /\ 2 * DefaultAuLen \in Nat /\ 2 * DefaultAuLen > 0
    BY FramerConstants
  <2>2. QED BY <2>1, <1>1, QuotientNat DEF Estimate
<1>2. CASE framedAus # 0
  <2>1. framedBytes \in Nat /\ framedBytes > 0 /\ framedAus \in Nat
    BY <1>2 DEF TypeOK, InBounds
  <2>2. 2 * n * framedAus + framedBytes \in Nat
    BY <2>1
  <2>3. 2 * framedBytes \in Nat /\ 2 * framedBytes > 0
    BY <2>1
  <2>4. QED BY <2>2, <2>3, <1>2, QuotientNat DEF Estimate
<1>3. QED BY <1>1, <1>2

\* What next() can answer.
LEMMA PlainReplies == Fresh \in Reply /\ NeedData \in Reply
  BY DEF Reply

LEMMA ReportType ==
    ASSUME TypeOK, NEW kind \in {"Au", "Skipped"}, NEW offset \in Nat, NEW len \in Nat,
           NEW number \in Nat, NEW major \in BOOLEAN, NEW lost \in Nat,
           Report(kind, offset, len, number, major, lost)
    PROVE  /\ last' \in Reply
           /\ ordinal' \in Nat /\ framedAus' \in Nat /\ framedBytes' \in Nat
           /\ cursor' \in Nat /\ consumed' \in Nat
<1>1. last' = [kind |-> kind, offset |-> offset, len |-> len,
               ordinal |-> number, major |-> major]
  BY DEF Report
<1>2. last' \in Reply
  BY <1>1 DEF Reply
<1>3. QED BY <1>2 DEF Report, TypeOK

-----------------------------------------------------------------------------
(* The invariant, one operation at a time.                                 *)

LEMMA InitHolds == Init => IInv
<1> SUFFICES ASSUME Init PROVE IInv OBVIOUS
<1>1. Len(stream.bytes) \in Nat
  BY StreamsAreReadings DEF Init
<1>2. TypeOK
  <2>1. afterDamage \in BOOLEAN /\ estimated \in BOOLEAN
    BY Zenon DEF Init
  <2>2. QED BY <2>1, FramerConstants, PlainReplies DEF Init, TypeOK
<1>3. InBounds
  BY <1>1 DEF Init, InBounds, BufLen
<1>4. QED BY <1>2, <1>3 DEF IInv, SearchKnowsDamage, Init

\* compact() moves the window, not what is in it.
LEMMA CompactKeeps ==
    ASSUME TypeOK, InBounds, Compact
    PROVE  \E d, c, s \in Nat :
               /\ drained' = d /\ cursor' = c /\ scan' = s
               /\ d + c = drained + cursor
               /\ state = "Seeking" => c <= s /\ s + d = scan + drained
<1>1. CASE /\ drained' = drained + cursor /\ cursor' = 0
           /\ scan' = IF state = "Seeking" THEN scan - cursor ELSE scan
  <2> DEFINE moved == IF state = "Seeking" THEN scan - cursor ELSE scan
  <2> drained + cursor \in Nat /\ 0 \in Nat /\ moved \in Nat
    BY DEF TypeOK, InBounds
  <2> WITNESS drained + cursor \in Nat, 0 \in Nat, moved \in Nat
  <2> QED BY <1>1 DEF TypeOK, InBounds
<1>2. CASE UNCHANGED <<drained, cursor, scan>>
  <2> drained \in Nat /\ cursor \in Nat /\ scan \in Nat
    BY DEF TypeOK
  <2> WITNESS drained \in Nat, cursor \in Nat, scan \in Nat
  <2> QED BY <1>2 DEF InBounds
<1>3. QED BY <1>1, <1>2 DEF Compact

LEMMA PushKeeps ==
    ASSUME IInv, NEW n \in Nat, Push(n)
    PROVE  IInv'
<1>1. TypeOK /\ InBounds /\ SearchKnowsDamage
  BY DEF IInv
<1>2. Len(stream.bytes) \in Nat
  BY <1>1, StreamsAreReadings DEF TypeOK
<1>3. PICK d, c, s \in Nat :
          /\ drained' = d /\ cursor' = c /\ scan' = s
          /\ d + c = drained + cursor
          /\ state = "Seeking" => c <= s /\ s + d = scan + drained
  BY <1>1, CompactKeeps DEF Push
<1>4. /\ UNCHANGED <<stream, consumed, state, queued, framedAus, framedBytes>>
      /\ pushed' = pushed + n /\ pushed + n <= Len(stream.bytes)
  BY DEF Push
<1>5. TypeOK'
  BY <1>1, <1>2, <1>3, PlainReplies DEF Push, TypeOK
<1>6. InBounds'
  <2>1. n \in Nat /\ pushed \in Nat /\ consumed \in Nat /\ drained \in Nat
        /\ cursor \in Nat /\ scan \in Nat /\ consumed = drained + cursor
    BY <1>1, <1>2 DEF TypeOK, InBounds
  <2>2. queued' \subseteq consumed' + 1..pushed'
    BY <1>1, <1>4, <2>1 DEF InBounds
  <2>3. state' = "Seeking" => cursor' <= scan' /\ scan' <= BufLen'
    <3>1. state = "Seeking" => scan + drained <= pushed
      BY <1>1, <2>1 DEF InBounds, BufLen
    <3>2. QED BY <1>3, <1>4, <2>1, <3>1 DEF BufLen
  <2>4. consumed' = drained' + cursor' /\ consumed' <= pushed'
    BY <1>1, <1>3, <1>4, <2>1 DEF InBounds
  <2>5. QED BY <1>1, <1>4, <2>2, <2>3, <2>4 DEF InBounds
<1>7. SearchKnowsDamage'
  BY <1>1 DEF Push, SearchKnowsDamage
<1>8. QED BY <1>5, <1>6, <1>7 DEF IInv

LEMMA PushHolds ==
    IInv /\ (\E n \in 1..Len(stream.bytes) : Push(n)) => IInv'
  BY PushKeeps, 1..Len(stream.bytes) \subseteq Nat, Zenon

LEMMA ResetHolds == IInv /\ Reset => IInv'
<1> SUFFICES ASSUME IInv, Reset PROVE IInv' OBVIOUS
<1> USE DEF IInv
<1>1. Len(stream'.bytes) \in Nat
  BY StreamsAreReadings DEF Reset
<1>2. TypeOK'
  <2>1. stream' \in Streams /\ afterDamage' \in BOOLEAN /\ estimated' \in BOOLEAN
    BY StreamsAreReadings, Zenon DEF Reset, ClearBuffer
  <2>2. QED BY <2>1, FramerConstants, PlainReplies DEF Reset, ClearBuffer, TypeOK
<1>3. InBounds'
  BY <1>1 DEF Reset, ClearBuffer, InBounds, TypeOK, BufLen
<1>4. SearchKnowsDamage'
  BY DEF Reset, ClearBuffer, SearchKnowsDamage
<1>5. QED BY <1>2, <1>3, <1>4

LEMMA NextQueuedHolds == IInv /\ NextQueued => IInv'
<1> SUFFICES ASSUME IInv, NextQueued PROVE IInv' OBVIOUS
<1> USE DEF IInv
<1>1. PICK end \in queued :
          /\ IsLeast(end, queued)
          /\ Report("Skipped", consumed, end - consumed, ordinal, FALSE, 0)
          /\ queued' = queued \ {end}
  BY DEF NextQueued
<1>2. /\ end \in Nat /\ consumed < end /\ end <= pushed
      /\ end - consumed \in Nat /\ end - consumed > 0
  BY <1>1 DEF TypeOK, InBounds
<1>3. queued' \subseteq end + 1..pushed
  BY <1>1, <1>2 DEF IsLeast, TypeOK, InBounds
<1>4. TypeOK'
  <2>1. /\ last' \in Reply
        /\ ordinal' \in Nat /\ framedAus' \in Nat /\ framedBytes' \in Nat
        /\ cursor' \in Nat /\ consumed' \in Nat
    BY <1>1, <1>2, ReportType DEF TypeOK
  <2>2. queued' \in SUBSET Nat
    BY <1>1 DEF TypeOK
  <2>3. QED BY <2>1, <2>2 DEF NextQueued, TypeOK
<1>5. InBounds'
  <2>1. /\ consumed' = end /\ cursor' = cursor + (end - consumed)
        /\ framedBytes' = framedBytes + (end - consumed)
    BY <1>1, <1>2 DEF Report, TypeOK
  <2>2. UNCHANGED <<stream, pushed, drained, state, scan>> /\ state = "Locked"
    BY DEF NextQueued, SearchKnowsDamage, TypeOK
  <2>3. QED BY <1>2, <1>3, <2>1, <2>2 DEF InBounds, TypeOK, BufLen
<1>6. SearchKnowsDamage'
  BY DEF NextQueued, SearchKnowsDamage, TypeOK
<1>7. QED BY <1>4, <1>5, <1>6

LEMMA NextLockedHolds == IInv /\ NextLocked => IInv'
<1> SUFFICES ASSUME IInv, NextLocked PROVE IInv' OBVIOUS
<1> USE DEF IInv
<1>1. cursor \in Nat /\ cursor < BufLen
  BY FramerConstants DEF NextLocked, AuValid, Left, TypeOK, BufLen
<1>2. At(cursor).len \in Nat /\ At(cursor).sync \in BOOLEAN
      /\ At(cursor).subs \in SubstreamCounts
  BY <1>1, AtType
<1>3. At(cursor).len > 0 /\ cursor + At(cursor).len <= BufLen
  BY <1>1, <1>2, FramerConstants
     DEF NextLocked, AuValid, SyncProven, Left, BufLen, TypeOK
<1>4. TypeOK'
  <2>1. /\ last' \in Reply
        /\ ordinal' \in Nat /\ framedAus' \in Nat /\ framedBytes' \in Nat
        /\ cursor' \in Nat /\ consumed' \in Nat
    BY <1>2, ReportType DEF NextLocked, TypeOK
  <2>2. QED BY <1>2, <2>1 DEF NextLocked, TypeOK
<1>5. InBounds'
  BY <1>2, <1>3, SMTT(30) DEF NextLocked, Report, InBounds, TypeOK, BufLen
<1>6. SearchKnowsDamage'
  BY DEF NextLocked, SearchKnowsDamage
<1>7. QED BY <1>4, <1>5, <1>6

LEMMA NextStarvedHolds == IInv /\ NextStarved => IInv'
  BY PlainReplies DEF IInv, NextStarved, TypeOK, InBounds, SearchKnowsDamage, BufLen

-----------------------------------------------------------------------------
(* The search for a major sync.                                            *)

\* Where a search starts is inside the buffer, and what it has been told about
\* damage is well typed.
LEMMA SearchStart ==
    ASSUME IInv, Searching
    PROVE  /\ SearchFrom \in Nat /\ cursor <= SearchFrom /\ SearchFrom <= BufLen
           /\ BufLen \in Nat
           /\ Damaged \in BOOLEAN /\ ErrorsNow \in Nat
           /\ queued = {}
           /\ ~Damaged => ordinal = 0 \/ estimated
<1> USE DEF IInv
<1>1. BufLen \in Nat /\ cursor \in Nat /\ cursor <= BufLen
  BY DEF TypeOK, InBounds, BufLen
<1>2. CASE state = "Seeking"
  <2>1. /\ SearchFrom = scan /\ ErrorsNow = syncErrors
    BY <1>2 DEF SearchFrom, ErrorsNow
  <2>2. Damaged = afterDamage
    BY <1>2, Zenon DEF Damaged
  <2>3. QED BY <1>1, <1>2, <2>1, <2>2 DEF TypeOK, InBounds, SearchKnowsDamage
<1>3. CASE state # "Seeking"
  <2>1. cursor < BufLen
    BY <1>1, <1>3, FramerConstants DEF Searching, AuInvalid, Left
  <2>2. SearchFrom = cursor + 1 /\ ErrorsNow = syncErrors + 1
    BY <1>3 DEF SearchFrom, ErrorsNow
  <2>3. Damaged = TRUE
    BY <1>3, Zenon DEF Damaged
  <2>4. QED BY <1>1, <2>1, <2>2, <2>3 DEF TypeOK, Searching
<1>4. QED BY <1>2, <1>3

LEMMA CandidatesWithin ==
    ASSUME IInv, Searching, NEW c \in SyncCandidates
    PROVE  c \in Nat /\ cursor <= c /\ c < BufLen
  BY SearchStart, FramerConstants DEF SyncCandidates, IInv, TypeOK

LEMMA SeekNothingHolds == IInv /\ SeekNothing => IInv'
<1> SUFFICES ASSUME IInv, SeekNothing PROVE IInv' OBVIOUS
<1>1. Searching
  BY DEF SeekNothing
<1> DEFINE resume == Larger(BufLen - ScanKeep, SearchFrom)
           idle   == resume - cursor
<1>2. resume \in Nat /\ cursor <= resume /\ resume <= BufLen /\ idle \in Nat
  BY <1>1, SearchStart, FramerConstants DEF Larger, IInv, TypeOK
<1>3. scan' = resume /\ state' = "Seeking" /\ last' = NeedData
      /\ syncErrors' = ErrorsNow
      /\ UNCHANGED <<stream, pushed, drained, queued, substreams, framedAus,
                     framedBytes, resets>>
  BY DEF SeekNothing
<1>4. afterDamage' = Damaged
  BY Zenon DEF SeekNothing
<1>5. Estimate(idle) \in Nat
  BY <1>2, EstimateNat DEF IInv
<1>6. PICK k \in 0..idle, e \in Nat :
          /\ cursor' = cursor + k /\ consumed' = consumed + k
          /\ ordinal' = ordinal + e /\ skippedBytes' = skippedBytes + k
          /\ estimated' = TRUE \/ (estimated' = estimated /\ e = 0)
  <2>1. CASE idle > MaxRetained
    BY <1>2, <1>5, <2>1 DEF SeekNothing
  <2>2. CASE ~(idle > MaxRetained)
    <3>1. UNCHANGED <<ordinal, estimated, skippedBytes, cursor, consumed>>
      BY <2>2 DEF SeekNothing
    <3>2. QED BY <1>2, <3>1 DEF IInv, TypeOK
  <2>3. QED BY <2>1, <2>2
<1>7. cursor + k <= resume
  BY <1>2 DEF IInv, TypeOK
<1> HIDE DEF resume, idle
<1>8. TypeOK'
  <2>1. estimated' \in BOOLEAN
    BY <1>6, Zenon DEF IInv, TypeOK
  <2>2. cursor' \in Nat /\ consumed' \in Nat /\ ordinal' \in Nat /\ skippedBytes' \in Nat
    BY <1>2, <1>6 DEF IInv, TypeOK
  <2>3. QED
    BY <2>1, <2>2, <1>1, <1>2, <1>3, <1>4, SearchStart, PlainReplies DEF IInv, TypeOK
<1>9. queued' = {}
  BY <1>1, <1>3, SearchStart
<1>10. InBounds'
  BY <1>2, <1>3, <1>6, <1>7, <1>9 DEF IInv, TypeOK, InBounds, BufLen
<1>11. SearchKnowsDamage'
  <2>1. ~Damaged => ordinal' = 0 \/ estimated'
    BY <1>1, <1>6, SearchStart
  <2>2. QED BY <2>1, <1>4, <1>9 DEF SearchKnowsDamage
<1>12. QED BY <1>8, <1>10, <1>11 DEF IInv

LEMMA SeekUndecidedHolds == IInv /\ SeekUndecided => IInv'
<1> SUFFICES ASSUME IInv, SeekUndecided PROVE IInv' OBVIOUS
<1>1. Searching
  BY DEF SeekUndecided
<1>2. scan' \in Nat /\ cursor <= scan' /\ scan' <= BufLen
  BY <1>1, CandidatesWithin DEF SeekUndecided, IsLeast, IInv, TypeOK, BufLen
<1>3. /\ state' = "Seeking" /\ last' = NeedData /\ syncErrors' = ErrorsNow
      /\ UNCHANGED <<stream, pushed, drained, cursor, consumed, queued, substreams,
                     ordinal, framedAus, framedBytes, skippedBytes, resets>>
  BY DEF SeekUndecided
<1>4. afterDamage' = Damaged /\ estimated' = estimated
  BY Zenon DEF SeekUndecided
<1>5. queued' = {}
  BY <1>1, <1>3, SearchStart
<1>6. TypeOK'
  BY <1>1, <1>2, <1>3, <1>4, SearchStart, PlainReplies DEF IInv, TypeOK
<1>7. InBounds'
  BY <1>2, <1>3, <1>5 DEF IInv, TypeOK, InBounds, BufLen
<1>8. SearchKnowsDamage'
  BY <1>1, <1>3, <1>4, <1>5, SearchStart DEF SearchKnowsDamage
<1>9. QED BY <1>6, <1>7, <1>8 DEF IInv

\* An access unit of `size` bytes is reported that begins at `start`, after `gap`
\* bytes let go, and the units that end at `rest` wait to be reported.
Recovers(c, start, rest, num, size, gap, kind, major) ==
    /\ gap = start - consumed
    /\ rest \subseteq start + size + 1..drained + c
    /\ size > 0 /\ start + size <= pushed
    /\ Report(kind, start, size, num, major, gap)
    /\ queued' = rest
    /\ substreams' \in SubstreamCounts
    /\ syncErrors' \in Nat
    /\ skippedBytes' = skippedBytes + gap
    /\ estimated' \in BOOLEAN
    /\ num - ordinal \in Nat
    /\ estimated => estimated'
    /\ num # ordinal => estimated'
    /\ gap > 0 => estimated' \/ ordinal = 0
    /\ gap = 0 => num = ordinal

LEMMA ResyncEffect ==
    ASSUME IInv, Searching, NEW c \in SyncCandidates, SyncProven(c), Resync(c)
    PROVE  \E start \in consumed..drained + c, rest \in SUBSET Nat,
              num, size, gap \in Nat, kind \in {"Au", "Skipped"}, major \in BOOLEAN :
               Recovers(c, start, rest, num, size, gap, kind, major)
<1>1. /\ c \in Nat /\ cursor <= c /\ c < BufLen
      /\ drained \in Nat /\ cursor \in Nat /\ consumed \in Nat /\ pushed \in Nat
      /\ consumed = drained + cursor
  BY CandidatesWithin DEF IInv, TypeOK, InBounds
<1>2. /\ At(c).len \in Nat /\ At(c).len > 0 /\ drained + c + At(c).len <= pushed
      /\ At(c).subs \in SubstreamCounts
  BY <1>1, AtType, FramerConstants DEF IInv, SyncProven, Left, BufLen
<1> DEFINE sync == drained + c
           subs == At(c).subs
<1>3. PICK first \in consumed..sync :
        LET fragment == first - consumed
            lead     == HopsFrom(consumed, first)
            whole    == fragment > 0 /\ first \in lead
            lost     == IF whole THEN 0 ELSE fragment
            guess    == lost > 0 /\ (Damaged \/ lost > MaxAuLen)
            from     == consumed + lost
            ends     == ((IF whole THEN lead ELSE {}) \cup HopsFrom(first, sync))
                            \ {from}
            number   == ordinal + IF guess THEN Larger(1, Estimate(lost)) ELSE 0
        IN  /\ substreams' = subs
            /\ syncErrors' = ErrorsNow + IF whole /\ ~Damaged THEN 1 ELSE 0
            /\ estimated' = (estimated \/ whole \/ guess)
            /\ skippedBytes' = skippedBytes + lost
            /\ \/ /\ from = sync
                  /\ Report("Au", from, At(c).len, number, TRUE, lost)
                  /\ queued' = {}
               \/ \E end \in ends :
                     /\ from < sync /\ IsLeast(end, ends)
                     /\ Report("Skipped", from, end - from, number, FALSE, lost)
                     /\ queued' = ends \ {end}
  BY Zenon DEF Resync
<1> DEFINE fragment == first - consumed
           lead     == HopsFrom(consumed, first)
           whole    == fragment > 0 /\ first \in lead
           lost     == IF whole THEN 0 ELSE fragment
           guess    == lost > 0 /\ (Damaged \/ lost > MaxAuLen)
           from     == consumed + lost
           ends     == ((IF whole THEN lead ELSE {}) \cup HopsFrom(first, sync))
                            \ {from}
           number   == ordinal + IF guess THEN Larger(1, Estimate(lost)) ELSE 0
<1>4. /\ lost \in Nat /\ from \in consumed..sync /\ from \in Nat
      /\ lost = from - consumed
  BY <1>1
<1>5. ends \subseteq from + 1..sync
  <2>1. HopsFrom(consumed, first) \subseteq consumed..first
        /\ HopsFrom(first, sync) \subseteq first..sync
    BY HopsWithin
  <2>2. first \in Nat /\ sync \in Nat /\ consumed <= first /\ first <= sync
    BY <1>1
  <2>3. CASE whole
    <3>1. from = consumed
      BY <1>1, <2>3
    <3>2. QED BY <1>1, <2>1, <2>2, <3>1
  <2>4. CASE ~whole
    <3>1. from = first
      BY <1>1, <2>2, <2>4
    <3>2. QED BY <1>1, <2>1, <2>2, <2>4, <3>1
  <2>5. QED BY <2>3, <2>4
<1>6. number \in Nat /\ number - ordinal \in Nat
  <2>1. Estimate(lost) \in Nat
    BY <1>4, EstimateNat DEF IInv
  <2>2. QED BY <2>1 DEF Larger, IInv, TypeOK
<1>7. /\ substreams' \in SubstreamCounts
      /\ skippedBytes' = skippedBytes + lost
  BY <1>2, <1>3
<1>8. syncErrors' \in Nat
  BY <1>3, SearchStart
<1>9. estimated' = (estimated \/ whole \/ guess)
  BY <1>3, Zenon
<1>10. /\ estimated' \in BOOLEAN /\ (estimated => estimated')
       /\ number # ordinal => estimated'
       /\ lost > 0 => estimated' \/ ordinal = 0
       /\ lost = 0 => number = ordinal
  <2>1. guess => estimated'
    BY <1>9, Zenon
  <2>2. number # ordinal => guess
    BY DEF IInv, TypeOK
  <2>3. lost > 0 /\ ~guess => estimated \/ ordinal = 0
    BY SearchStart
  <2>4. estimated => estimated'
    BY <1>9, Zenon
  <2>5. estimated' \in BOOLEAN
    BY <1>9, Zenon
  <2>6. lost = 0 => ~guess
    BY <1>4
  <2> HIDE DEF lost, guess, number
  <2>7. QED BY <2>1, <2>2, <2>3, <2>4, <2>5, <2>6
<1>11. \/ /\ from = sync
          /\ Report("Au", from, At(c).len, number, TRUE, lost)
          /\ queued' = {}
       \/ \E end \in ends :
             /\ from < sync /\ IsLeast(end, ends)
             /\ Report("Skipped", from, end - from, number, FALSE, lost)
             /\ queued' = ends \ {end}
  BY <1>3, Zenon
<1> HIDE DEF lost, from, ends, number, sync, subs, whole, guess
<1>12. CASE /\ from = sync
            /\ Report("Au", from, At(c).len, number, TRUE, lost)
            /\ queued' = {}
  <2> from \in consumed..drained + c /\ {} \in SUBSET Nat /\ number \in Nat
      /\ At(c).len \in Nat /\ lost \in Nat /\ TRUE \in BOOLEAN
    BY <1>2, <1>4, <1>6 DEF sync
  <2>1. /\ {} \subseteq from + At(c).len + 1..sync
        /\ from + At(c).len <= pushed
    BY <1>2, <1>12 DEF sync
  <2>2. Recovers(c, from, {}, number, At(c).len, lost, "Au", TRUE)
    BY <1>2, <1>4, <1>6, <1>7, <1>8, <1>10, <1>12, <2>1 DEF sync, Recovers
  <2> QED BY <2>2
<1>13. CASE \E end \in ends :
               /\ from < sync /\ IsLeast(end, ends)
               /\ Report("Skipped", from, end - from, number, FALSE, lost)
               /\ queued' = ends \ {end}
  <2>1. PICK end \in ends :
               /\ from < sync /\ IsLeast(end, ends)
               /\ Report("Skipped", from, end - from, number, FALSE, lost)
               /\ queued' = ends \ {end}
    BY <1>13
  <2> DEFINE others == ends \ {end}
  <2>2. end \in Nat /\ from < end /\ end <= sync /\ sync \in Nat
    BY <1>1, <1>4, <1>5, <2>1 DEF sync
  <2>3. others \subseteq end + 1..sync
    BY <1>4, <1>5, <2>1, <2>2 DEF IsLeast
  <2>4. /\ others \subseteq from + (end - from) + 1..sync
        /\ end - from > 0 /\ from + (end - from) <= pushed
    BY <1>1, <1>4, <2>2, <2>3 DEF sync, BufLen
  <2>5. Recovers(c, from, others, number, end - from, lost, "Skipped", FALSE)
    BY <1>4, <1>6, <1>7, <1>8, <1>10, <2>1, <2>4 DEF sync, Recovers
  <2>6. from \in consumed..drained + c /\ others \in SUBSET Nat /\ number \in Nat
        /\ end - from \in Nat /\ lost \in Nat
    BY <1>4, <1>6, <2>2, <2>3 DEF sync
  <2> HIDE DEF others
  <2>7. QED BY <2>5, <2>6
<1>14. QED BY <1>11, <1>12, <1>13

LEMMA SeekFoundHolds == IInv /\ SeekFound => IInv'
<1> SUFFICES ASSUME IInv, SeekFound PROVE IInv' OBVIOUS
<1>1. PICK c \in SyncCandidates : SyncProven(c) /\ Resync(c)
  BY DEF SeekFound
<1>2. Searching /\ state' = "Locked" /\ scan' = 0
      /\ UNCHANGED <<stream, pushed, drained, resets>>
  BY DEF SeekFound
<1>3. afterDamage' \in BOOLEAN
  BY Zenon DEF SeekFound
<1>4. PICK from \in consumed..drained + c, ends \in SUBSET Nat, number, len, lost \in Nat,
           kind \in {"Au", "Skipped"}, major \in BOOLEAN :
               Recovers(c, from, ends, number, len, lost, kind, major)
  BY <1>1, <1>2, ResyncEffect
<1>5. from \in Nat /\ drained + c < pushed
  BY <1>1, <1>2, CandidatesWithin DEF IInv, TypeOK, BufLen
<1>6. TypeOK'
  <2>1. /\ last' \in Reply
        /\ ordinal' \in Nat /\ framedAus' \in Nat /\ framedBytes' \in Nat
        /\ cursor' \in Nat /\ consumed' \in Nat
    BY <1>4, <1>5, ReportType DEF IInv, Recovers
  <2>2. skippedBytes' \in Nat
    BY <1>4 DEF IInv, TypeOK, Recovers
  <2>3. QED BY <1>2, <1>3, <1>4, <2>1, <2>2 DEF IInv, TypeOK, Recovers
<1>7. InBounds'
  <2>1. /\ consumed' = consumed + lost + len /\ cursor' = cursor + lost + len
        /\ framedBytes' = framedBytes + len
    BY <1>4 DEF Report, Recovers
  <2>2. queued' \subseteq consumed' + 1..pushed'
    BY <1>1, <1>2, <1>4, <1>5, <2>1, CandidatesWithin DEF IInv, TypeOK, Recovers
  <2>3. QED BY <1>2, <1>4, <1>5, <2>1, <2>2 DEF IInv, TypeOK, InBounds, Recovers
<1>8. SearchKnowsDamage'
  BY <1>2 DEF SearchKnowsDamage
<1>9. QED BY <1>6, <1>7, <1>8 DEF IInv

\* Every step keeps the invariant.
LEMMA StepKept == IInv /\ [Next]_vars => IInv'
<1> SUFFICES ASSUME IInv, [Next]_vars PROVE IInv' OBVIOUS
<1>1. CASE \E n \in 1..Len(stream.bytes) : Push(n)
  BY <1>1, PushHolds
<1>2. CASE NextCall
  BY <1>2, NextQueuedHolds, NextLockedHolds, NextStarvedHolds, SeekNothingHolds,
     SeekUndecidedHolds, SeekFoundHolds DEF NextCall
<1>3. CASE Reset
  BY <1>3, ResetHolds
<1>4. CASE UNCHANGED vars
  BY <1>4 DEF vars, IInv, TypeOK, InBounds, SearchKnowsDamage, BufLen
<1>5. QED BY <1>1, <1>2, <1>3, <1>4 DEF Next

LEMMA Invariance == Spec => []IInv
  BY InitHolds, StepKept, PTL DEF Spec

\* Every variable of the framer keeps its type.
THEOREM TypeCorrect == Spec => []TypeOK
  BY Invariance, PTL DEF IInv

\* The framer never indexes outside the bytes it holds, whatever it is pushed.
THEOREM NoSliceOutOfRange == Spec => []InBounds
  BY Invariance, PTL DEF IInv

\* Bytes behind an exactly numbered access unit never go uncounted in silence.
THEOREM DamageIsRemembered == Spec => []SearchKnowsDamage
  BY Invariance, PTL DEF IInv

-----------------------------------------------------------------------------
(* The reports of the framer are those of the abstract log.                *)

LEMMA LogInitMapped == Init => Log!LogInit
  BY DEF Init, Log!LogInit, Log!NoEntry, Reported, Fresh

\* A report is an entry of the log.
LEMMA ReportEnters ==
    ASSUME IInv, NEW from \in Nat, NEW len \in Nat, NEW number \in Nat, NEW lost \in Nat,
           NEW kind \in {"Au", "Skipped"}, NEW major \in BOOLEAN,
           from = consumed + lost, len > 0,
           Report(kind, from, len, number, major, lost),
           skippedBytes' = skippedBytes + lost,
           number - ordinal \in Nat,
           estimated => estimated',
           number # ordinal => estimated',
           lost > 0 => estimated' \/ ordinal = 0,
           lost = 0 => number = ordinal
    PROVE  Log!LogNext
<1> DEFINE now == [reported |-> TRUE, offset |-> from, len |-> len, ordinal |-> number]
<1>1. /\ last' = [kind |-> kind, offset |-> from, len |-> len,
                  ordinal |-> number, major |-> major]
      /\ ordinal' = number + 1 /\ consumed' = consumed + lost + len
  BY DEF Report
<1>2. Reported' /\ last'.offset = from /\ last'.len = len /\ last'.ordinal = number
  BY <1>1 DEF Reported
<1>3. consumed \in Nat /\ ordinal \in Nat
  BY DEF IInv, TypeOK
<1>4. from - consumed = lost
  BY <1>3
<1>5. ordinal + (number - ordinal) = number
  BY <1>3
<1>6. Log!Enter(from - consumed, number - ordinal, len)
  BY <1>1, <1>2, <1>3, <1>4, <1>5 DEF Log!Enter
<1>7. QED BY <1>2, <1>4, <1>6 DEF Log!LogNext

\* A step that reports nothing and moves nothing is the log's idle step.
LEMMA QuietStep ==
    ASSUME last' \in {Fresh, NeedData}, UNCHANGED <<consumed, ordinal, estimated, skippedBytes>>
    PROVE  Log!LogNext
  BY DEF Log!LogNext, Log!Idle, Log!NoEntry, Reported, Fresh, NeedData

LEMMA SkippedEnters == IInv /\ NextQueued => Log!LogNext
<1> SUFFICES ASSUME IInv, NextQueued PROVE Log!LogNext OBVIOUS
<1>1. PICK end \in queued : Report("Skipped", consumed, end - consumed, ordinal, FALSE, 0)
  BY DEF NextQueued
<1> DEFINE size == end - consumed
           no   == FALSE
<1>2. /\ size \in Nat /\ size > 0 /\ consumed \in Nat
      /\ ordinal \in Nat /\ ordinal - ordinal \in Nat /\ consumed = consumed + 0
      /\ skippedBytes = skippedBytes + 0
  BY <1>1 DEF IInv, TypeOK, InBounds
<1>3. skippedBytes' = skippedBytes + 0 /\ (estimated => estimated')
  BY <1>2 DEF NextQueued
<1>4. Report("Skipped", consumed, size, ordinal, no, 0) /\ no \in BOOLEAN
  BY <1>1
<1> HIDE DEF size, no
<1>5. QED BY <1>2, <1>3, <1>4, ReportEnters

LEMMA LockedEnters == IInv /\ NextLocked => Log!LogNext
<1> SUFFICES ASSUME IInv, NextLocked PROVE Log!LogNext OBVIOUS
<1>1. cursor \in Nat /\ cursor < BufLen
  BY FramerConstants DEF NextLocked, AuValid, Left, IInv, TypeOK, BufLen
<1>2. At(cursor).len \in Nat /\ At(cursor).sync \in BOOLEAN
  BY <1>1, AtType DEF IInv
<1>3. /\ At(cursor).len > 0 /\ consumed \in Nat /\ ordinal \in Nat
      /\ ordinal - ordinal \in Nat /\ consumed = consumed + 0
      /\ skippedBytes = skippedBytes + 0
  BY <1>2, FramerConstants DEF NextLocked, AuValid, IInv, TypeOK
<1>4. /\ Report("Au", consumed, At(cursor).len, ordinal, At(cursor).sync, 0)
      /\ skippedBytes' = skippedBytes + 0 /\ (estimated => estimated')
  BY <1>3 DEF NextLocked
<1>5. QED BY <1>2, <1>3, <1>4, ReportEnters

LEMMA SeekNothingLetsGo == IInv /\ SeekNothing => Log!LogNext
<1> SUFFICES ASSUME IInv, SeekNothing PROVE Log!LogNext OBVIOUS
<1> DEFINE resume == Larger(BufLen - ScanKeep, SearchFrom)
           idle   == resume - cursor
<1>1. idle \in Nat
  BY SearchStart, FramerConstants DEF SeekNothing, Larger, IInv, TypeOK
<1>2. Estimate(idle) \in Nat
  BY <1>1, EstimateNat DEF IInv
<1>3. last' = NeedData
  BY DEF SeekNothing
<1>4. CASE idle > MaxRetained
  <2>1. /\ ordinal' = ordinal + Estimate(idle) /\ estimated' = TRUE
        /\ skippedBytes' = skippedBytes + idle /\ consumed' = consumed + idle
    BY <1>4 DEF SeekNothing
  <2>2. idle > 0
    BY <1>1, <1>4, FramerConstants
  <2> HIDE DEF idle
  <2>3. consumed' - consumed = idle /\ ordinal' - ordinal = Estimate(idle)
    BY <1>1, <1>2, <2>1 DEF IInv, TypeOK
  <2>4. ~Reported'
    BY <1>3 DEF Reported, NeedData
  <2>5. Log!LetGo(idle, Estimate(idle))
    BY <2>1, <2>2, <2>4 DEF Log!LetGo, Log!NoEntry
  <2>6. QED BY <1>1, <1>2, <2>3, <2>5 DEF Log!LogNext
<1>5. CASE ~(idle > MaxRetained)
  <2>1. UNCHANGED <<ordinal, estimated, skippedBytes, consumed>>
    BY <1>5 DEF SeekNothing
  <2>2. QED BY <1>3, <2>1, QuietStep
<1>6. QED BY <1>4, <1>5

LEMMA ResyncEnters == IInv /\ SeekFound => Log!LogNext
<1> SUFFICES ASSUME IInv, SeekFound PROVE Log!LogNext OBVIOUS
<1>1. PICK c \in SyncCandidates : SyncProven(c) /\ Resync(c)
  BY DEF SeekFound
<1>2. Searching
  BY DEF SeekFound
<1>3. PICK from \in consumed..drained + c, ends \in SUBSET Nat, number, len, lost \in Nat,
           kind \in {"Au", "Skipped"}, major \in BOOLEAN :
               Recovers(c, from, ends, number, len, lost, kind, major)
  BY <1>1, <1>2, ResyncEffect
<1>4. from \in Nat /\ from = consumed + lost
  BY <1>1, <1>2, <1>3, CandidatesWithin DEF IInv, TypeOK, Recovers
<1>5. QED BY <1>3, <1>4, ReportEnters DEF Recovers

LEMMA StepMapped == IInv /\ [Next]_vars => [Log!LogNext]_(Log!logVars)
<1> SUFFICES ASSUME IInv, [Next]_vars PROVE [Log!LogNext]_(Log!logVars) OBVIOUS
<1>1. CASE \E n \in 1..Len(stream.bytes) : Push(n)
  BY <1>1, QuietStep DEF Push
<1>2. CASE Reset
  <2>1. Log!Restart
    BY <1>2 DEF Reset, ClearBuffer, Log!Restart, Log!NoEntry, Reported, Fresh
  <2>2. QED BY <2>1 DEF Log!LogNext
<1>3. CASE NextCall
  <2>1. NextStarved => Log!LogNext
    BY QuietStep DEF NextStarved
  <2>2. SeekUndecided => Log!LogNext
    BY QuietStep DEF SeekUndecided
  <2>3. QED BY <1>3, <2>1, <2>2, SkippedEnters, LockedEnters, SeekNothingLetsGo,
               ResyncEnters DEF NextCall
<1>4. CASE UNCHANGED vars
  BY <1>4 DEF vars, Log!logVars, Reported
<1>5. QED BY <1>1, <1>2, <1>3, <1>4 DEF Next

\* Whatever is pushed and however it is cut, the access units reported form the
\* log that AuLog describes: in order, without overlap, numbered without a gap,
\* and flagged from the first number that is a guess.
THEOREM FramerImplementsLog == Spec => ImplementsLog
<1>1. Init => Log!LogInit
  BY LogInitMapped
<1>2. IInv /\ [Next]_vars => [Log!LogNext]_(Log!logVars)
  BY StepMapped
<1>3. QED BY <1>1, <1>2, Invariance, PTL DEF Spec, ImplementsLog, Log!LogSpec

-----------------------------------------------------------------------------
(* Push and pull never both refuse, where major syncs come often enough.   *)

\* No major sync that checks has been searched past.
Scanned == state = "Seeking" => \A o \in consumed..drained + scan - 1 : ~Proves(stream, o)

\* A call that needs more data leaves room for some.
Room == last = NeedData => Pending < MaxPending

LEMMA ProvesSame ==
    ASSUME stream' = stream, NEW o
    PROVE  Proves(stream, o)' <=> Proves(stream, o)
  BY Zenon DEF Proves

\* The sizes and positions a call works with.
Sized ==
    /\ pushed \in Nat /\ drained \in Nat /\ cursor \in Nat /\ consumed \in Nat
    /\ consumed = drained + cursor /\ consumed <= pushed
    /\ scan \in Nat /\ stream \in Streams
    /\ Len(stream.bytes) \in Nat /\ pushed <= Len(stream.bytes)
    /\ BufLen = pushed - drained /\ Pending = pushed - consumed
    /\ MinAuLen \in Nat \ {0} /\ MinAuLen <= Decides /\ Decides \in Nat
    /\ MsiPeek <= Decides /\ MaxAuLen <= Decides /\ MaxAuLen \in Nat /\ MsiPeek \in Nat
    /\ MinAuLen <= MsiEnd /\ MsiEnd \in Nat /\ MaxPending \in Nat

LEMMA Measures == IInv => Sized
<1> SUFFICES ASSUME IInv PROVE Sized
  OBVIOUS
<1>1. stream \in Streams
  BY DEF IInv, TypeOK
<1>2. stream.bytes \in Seq(Reading)
  BY <1>1, StreamsAreReadings
<1>3. Len(stream.bytes) \in Nat
  BY <1>2
<1>4. /\ MinAuLen \in Nat \ {0} /\ MinAuLen <= MaxAuLen /\ MaxAuLen \in Nat /\ MsiPeek \in Nat
      /\ MinAuLen <= MsiPeek /\ MsiPeek <= MsiEnd /\ MsiEnd \in Nat /\ MaxPending \in Nat
  BY FramerConstants
<1>5. /\ MinAuLen <= Decides /\ Decides \in Nat /\ MsiPeek <= Decides /\ MaxAuLen <= Decides
      /\ MinAuLen <= MsiEnd
  BY <1>4 DEF Decides, Larger
<1>6. QED BY <1>1, <1>3, <1>4, <1>5 DEF Sized, IInv, TypeOK, InBounds, BufLen, Pending

\* A major sync that checks is never refuted.
LEMMA ProvenStays ==
    ASSUME IInv, NEW i \in Nat, Left(i) >= MinAuLen, Proves(stream, drained + i)
    PROVE  At(i).sync /\ ~SyncRefuted(i) /\ ~(At(i).len < MinAuLen)
<1>1. Sized
  BY Measures, Zenon
<1>2. At(i) = stream.bytes[(drained + i) + 1]
  BY DEF At, Header
<1>3. At(i).sync /\ At(i).len > MsiEnd /\ At(i).subs \in At(i).pass
  BY <1>2, Zenon DEF Proves
<1>4. At(i).len \in Nat
  <2>1. i < BufLen
    BY <1>1 DEF Sized, Left
  <2>2. QED BY <2>1, AtType, Zenon DEF IInv
<1>5. ~(At(i).len <= MsiEnd) /\ ~(At(i).len < MinAuLen)
  BY <1>3, <1>4, <1>1 DEF Sized
<1>6. QED BY <1>3, <1>5, Zenon DEF SyncRefuted

\* Where a search starts nothing has been passed over.
LEMMA NothingPassed ==
    ASSUME IInv, Scanned, Searching
    PROVE  \A o \in consumed..drained + SearchFrom - 1 : ~Proves(stream, o)
<1>1. Sized
  BY Measures, Zenon
<1>2. CASE state = "Seeking"
  BY <1>2, Zenon DEF Scanned, SearchFrom
<1>3. CASE state # "Seeking"
  <2>1. AuInvalid(cursor) /\ SearchFrom = cursor + 1
    BY <1>3 DEF Searching, SearchFrom
  <2>2. Left(cursor) >= MinAuLen
    BY <2>1, Zenon DEF AuInvalid
  <2>3. ~Proves(stream, drained + cursor)
    BY <2>1, <2>2, <1>1, ProvenStays, Zenon DEF Sized, AuInvalid
  <2>4. \A o \in consumed..drained + SearchFrom - 1 : o = drained + cursor
    BY <2>1, <1>1 DEF Sized
  <2>5. QED BY <2>3, <2>4, Zenon
<1>4. QED BY <1>2, <1>3

\* What has been searched without a candidate, up to z, holds none of them either.
LEMMA NothingFound ==
    ASSUME IInv, Scanned, Searching, NEW z \in Nat,
           \A c \in SyncCandidates : z <= c,
           z <= SearchFrom \/ drained + z <= (pushed - MinAuLen) + 1
    PROVE  \A o \in consumed..drained + z - 1 : ~Proves(stream, o)
<1> SUFFICES ASSUME NEW o \in consumed..drained + z - 1, Proves(stream, o) PROVE FALSE
  OBVIOUS
<1>1. Sized
  BY Measures, Zenon
<1>2. /\ SearchFrom \in Nat /\ o \in Nat /\ o < drained + z
  BY SearchStart, <1>1 DEF Sized
<1>3. ~(o <= drained + SearchFrom - 1)
  BY <1>2, NothingPassed
<1>4. /\ o - drained \in Nat /\ drained + (o - drained) = o
      /\ o - drained \in SearchFrom..BufLen - MinAuLen /\ o - drained < z
      /\ Left(o - drained) >= MinAuLen
  BY <1>2, <1>3, <1>1 DEF Sized, Left
<1>5. At(o - drained).sync /\ ~SyncRefuted(o - drained)
  BY <1>4, ProvenStays, Zenon
<1>6. o - drained \in SyncCandidates
  BY <1>4, <1>5, Zenon DEF SyncCandidates
<1>7. z <= o - drained
  BY <1>6
<1>8. QED BY <1>4, <1>7

\* A full buffer holds a major sync that can be decided on.
LEMMA FullHolds ==
    ASSUME IInv, SyncsInReach, Pending >= MaxPending
    PROVE  \E i \in Nat : /\ cursor <= i /\ Left(i) >= Decides
                          /\ Proves(stream, drained + i)
<1>1. Sized
  BY Measures, Zenon
<1>2. consumed \in 0..Len(stream.bytes) - MaxPending
  BY <1>1 DEF Sized
<1>3. PICK c \in consumed..consumed + MaxPending - Decides : Proves(stream, c)
  BY <1>2, <1>1, Zenon DEF Sized, SyncsInReach
<1>4. /\ c - drained \in Nat /\ drained + (c - drained) = c /\ cursor <= c - drained
      /\ Left(c - drained) >= Decides
  BY <1>1 DEF Sized, Left
<1>5. QED BY <1>3, <1>4

LEMMA FullIsSought ==
    ASSUME IInv, Scanned, SyncsInReach, Searching, Pending >= MaxPending
    PROVE  \E i \in SyncCandidates : i \in Nat /\ Left(i) >= Decides
<1>1. Sized
  BY Measures, Zenon
<1>2. PICK i \in Nat : /\ cursor <= i /\ Left(i) >= Decides /\ Proves(stream, drained + i)
  BY FullHolds
<1>3. SearchFrom \in Nat
  BY SearchStart
<1>4. ~(drained + i \in consumed..drained + SearchFrom - 1)
  BY <1>2, NothingPassed
<1>5. i \in SearchFrom..BufLen - MinAuLen /\ Left(i) >= MinAuLen
  BY <1>2, <1>3, <1>4, <1>1 DEF Sized, Left
<1>6. At(i).sync /\ ~SyncRefuted(i)
  BY <1>2, <1>5, ProvenStays, Zenon
<1>7. QED BY <1>2, <1>5, <1>6, Zenon DEF SyncCandidates

\* In front of the candidate taken there is none either.
LEMMA LeastFirst ==
    ASSUME IInv, Scanned, Searching, NEW c \in SyncCandidates, IsLeast(c, SyncCandidates)
    PROVE  \A o \in consumed..drained + c - 1 : ~Proves(stream, o)
<1>1. Sized
  BY Measures, Zenon
<1>2. c \in Nat /\ cursor <= c /\ c < BufLen
  BY CandidatesWithin
<1>3. c \in SearchFrom..BufLen - MinAuLen
  BY Zenon DEF SyncCandidates
<1>4. drained + c <= (pushed - MinAuLen) + 1
  BY <1>2, <1>3, SearchStart, <1>1 DEF Sized
<1>5. QED BY <1>2, <1>4, NothingFound, Zenon DEF IsLeast

LEMMA NothingScanned ==
    ASSUME IInv, Scanned, SeekNothing
    PROVE  Scanned'
<1> DEFINE resume == Larger(BufLen - ScanKeep, SearchFrom)
           idle   == resume - cursor
<1>1. Sized
  BY Measures, Zenon
<1>2. /\ Searching /\ SyncCandidates = {} /\ scan' = resume
      /\ IF idle > MaxRetained
         THEN cursor' = cursor + idle /\ consumed' = consumed + idle
         ELSE UNCHANGED <<ordinal, estimated, skippedBytes, cursor, consumed>>
      /\ UNCHANGED <<stream, pushed, drained>>
  BY Zenon DEF SeekNothing
<1>3. /\ SearchFrom \in Nat /\ cursor <= SearchFrom /\ ScanKeep = MinAuLen - 1
  BY <1>2, SearchStart, FramerConstants
<1>4. resume \in Nat /\ cursor <= resume
      /\ (resume <= SearchFrom \/ drained + resume <= (pushed - MinAuLen) + 1)
  BY <1>3, <1>1 DEF Sized, Larger
<1> HIDE DEF resume
<1>5. \A o \in consumed..drained + resume - 1 : ~Proves(stream, o)
  BY <1>2, <1>4, NothingFound, Zenon
<1>6. consumed' = consumed \/ consumed' = drained + resume
  <2>1. consumed' = consumed \/ consumed' = consumed + (resume - cursor)
    BY <1>2, Zenon
  <2>2. consumed + (resume - cursor) = drained + resume
    BY <1>1, <1>4 DEF Sized
  <2>3. QED BY <2>1, <2>2
<1>7. \A o \in consumed'..drained' + scan' - 1 : ~Proves(stream, o)
  BY <1>2, <1>4, <1>5, <1>6, <1>1 DEF Sized
<1>8. \A o : Proves(stream, o)' <=> Proves(stream, o)
  BY <1>2, ProvesSame
<1>9. QED BY <1>7, <1>8, Zenon DEF Scanned

LEMMA UndecidedScanned ==
    ASSUME IInv, Scanned, SeekUndecided
    PROVE  Scanned'
<1>1. Searching /\ UNCHANGED <<stream, pushed, drained, cursor, consumed>>
  BY DEF SeekUndecided
<1>2. PICK c \in SyncCandidates : IsLeast(c, SyncCandidates) /\ scan' = c
  BY DEF SeekUndecided
<1>3. \A o \in consumed..drained + c - 1 : ~Proves(stream, o)
  BY <1>1, <1>2, LeastFirst, Zenon
<1>4. \A o : Proves(stream, o)' <=> Proves(stream, o)
  BY <1>1, ProvesSame
<1>5. QED BY <1>1, <1>2, <1>3, <1>4, Zenon DEF Scanned

LEMMA PushScanned ==
    ASSUME IInv, Scanned, NEW n, Push(n)
    PROVE  Scanned'
<1>1. Sized
  BY Measures, Zenon
<1>2. UNCHANGED <<stream, consumed, state>>
  BY DEF Push
<1>3. PICK d, c, s \in Nat :
          /\ drained' = d /\ cursor' = c /\ scan' = s
          /\ d + c = drained + cursor
          /\ state = "Seeking" => c <= s /\ s + d = scan + drained
  BY CompactKeeps, Zenon DEF IInv, Push
<1>4. ASSUME state = "Seeking" PROVE \A o \in consumed'..drained' + scan' - 1 : ~Proves(stream, o)
  <2>1. drained' + scan' - 1 = drained + scan - 1
    BY <1>3, <1>4, <1>1 DEF Sized
  <2>2. QED BY <1>2, <1>4, <2>1, Zenon DEF Scanned
<1>5. \A o : Proves(stream, o)' <=> Proves(stream, o)
  BY <1>2, ProvesSame
<1>6. QED BY <1>2, <1>4, <1>5, Zenon DEF Scanned

LEMMA ScannedStart == Init => Scanned
<1> SUFFICES ASSUME Init PROVE Scanned OBVIOUS
<1>1. consumed..drained + scan - 1 = {}
  BY DEF Init
<1>2. QED BY <1>1, Zenon DEF Scanned

LEMMA ScannedKept == IInv /\ Scanned /\ [Next]_vars => Scanned'
<1> SUFFICES ASSUME IInv, Scanned, [Next]_vars PROVE Scanned'
  OBVIOUS
<1>1. CASE \E n \in 1..Len(stream.bytes) : Push(n)
  BY <1>1, PushScanned
<1>2. CASE Reset
  <2>1. consumed' = 0 /\ drained' = 0 /\ scan' = 0
    BY <1>2 DEF Reset, ClearBuffer
  <2>2. consumed'..drained' + scan' - 1 = {}
    BY <2>1
  <2>3. QED BY <2>2, Zenon DEF Scanned
<1>3. CASE NextQueued
  <2>1. queued # {} /\ state' = state
    BY <1>3 DEF NextQueued
  <2>2. state' # "Seeking"
    BY <2>1 DEF IInv, SearchKnowsDamage
  <2>3. QED BY <2>2 DEF Scanned
<1>4. CASE NextLocked \/ NextStarved \/ SeekFound
  <2>1. state' = "Locked"
    BY <1>4 DEF NextLocked, NextStarved, SeekFound
  <2>2. QED BY <2>1 DEF Scanned
<1>5. CASE SeekNothing
  BY <1>5, NothingScanned
<1>6. CASE SeekUndecided
  BY <1>6, UndecidedScanned
<1>7. CASE UNCHANGED vars
  <2>1. UNCHANGED <<stream, drained, consumed, state, scan>>
    BY <1>7 DEF vars
  <2>2. \A o : Proves(stream, o)' <=> Proves(stream, o)
    BY <2>1, ProvesSame
  <2>3. consumed'..drained' + scan' - 1 = consumed..drained + scan - 1
    BY <2>1
  <2>4. QED BY <2>1, <2>2, <2>3, Zenon DEF Scanned
<1>8. QED BY <1>1, <1>2, <1>3, <1>4, <1>5, <1>6, <1>7, Zenon DEF Next, NextCall

LEMMA StarvedRoom ==
    ASSUME IInv, SyncsInReach, NextStarved
    PROVE  Room'
<1>1. Sized
  BY Measures, Zenon
<1>2. /\ state = "Locked" /\ state' = "Locked" /\ ~AuValid(cursor) /\ ~AuInvalid(cursor)
      /\ UNCHANGED <<pushed, drained, cursor>>
  BY DEF NextStarved
<1>3. SUFFICES ASSUME Pending >= MaxPending PROVE FALSE
  <2>1. Pending' = Pending /\ Pending \in Int /\ MaxPending \in Nat
    BY <1>2, <1>1 DEF Sized, Pending, BufLen
  <2>2. QED BY <1>2, <2>1 DEF Room
<1>4. Left(cursor) >= Decides
  <2>1. PICK i \in Nat : cursor <= i /\ Left(i) >= Decides
    BY <1>3, FullHolds
  <2>2. QED BY <2>1, <1>1 DEF Sized, Left
<1>5. /\ Left(cursor) >= MinAuLen /\ Left(cursor) >= MsiPeek /\ Left(cursor) >= MaxAuLen
      /\ Left(cursor) \in Int
  BY <1>4, <1>1 DEF Sized, Left
<1>6. At(cursor) \in Reading /\ At(cursor).len \in Nat
  <2>1. cursor \in Nat /\ cursor < BufLen
    BY <1>5, <1>1 DEF Sized, Left
  <2>2. QED BY <2>1, AtType, Zenon DEF IInv
<1>7. Left(cursor) >= At(cursor).len
  <2>1. At(cursor).len <= MaxAuLen
    BY <1>6 DEF Reading
  <2>2. QED BY <1>5, <1>6, <2>1, <1>1 DEF Sized
<1>8. At(cursor).len > MsiEnd \/ At(cursor).len <= MsiEnd
  BY <1>6, <1>1 DEF Sized
<1>9. At(cursor).len >= MinAuLen \/ At(cursor).len < MinAuLen
  BY <1>6, <1>1 DEF Sized
<1>10. SyncProven(cursor) \/ SyncRefuted(cursor)
  BY <1>5, <1>7, <1>8, Zenon DEF SyncProven, SyncRefuted
<1>11. QED BY <1>2, <1>5, <1>7, <1>9, <1>10, Zenon DEF AuValid, AuInvalid

LEMMA NothingRoom ==
    ASSUME IInv, Scanned, SyncsInReach, SeekNothing
    PROVE  Room'
<1> DEFINE resume == Larger(BufLen - ScanKeep, SearchFrom)
           idle   == resume - cursor
<1>1. Sized
  BY Measures, Zenon
<1>2. /\ Searching /\ SyncCandidates = {}
      /\ IF idle > MaxRetained THEN cursor' = cursor + idle ELSE cursor' = cursor
      /\ UNCHANGED <<pushed, drained>>
  BY Zenon DEF SeekNothing
<1>3. SearchFrom \in Nat /\ cursor <= SearchFrom /\ ScanKeep = MinAuLen - 1
  BY <1>2, SearchStart, FramerConstants
<1>4. idle \in Nat
  BY <1>3, <1>1 DEF Sized, Larger
<1> HIDE DEF idle
<1>5. ~(Pending >= MaxPending)
  BY <1>2, FullIsSought, Zenon
<1>6. Pending' <= Pending /\ Pending' \in Int
  BY <1>2, <1>4, <1>1 DEF Sized, Pending, BufLen
<1>7. Pending' < MaxPending
  BY <1>5, <1>6, <1>1 DEF Sized
<1>8. QED BY <1>7 DEF Room

LEMMA UndecidedRoom ==
    ASSUME IInv, Scanned, SyncsInReach, SeekUndecided
    PROVE  Room'
<1>1. Sized
  BY Measures, Zenon
<1>2. Searching /\ UNCHANGED <<stream, pushed, drained, cursor, consumed>>
  BY DEF SeekUndecided
<1>3. PICK c \in SyncCandidates : IsLeast(c, SyncCandidates) /\ ~SyncProven(c) /\ scan' = c
  BY DEF SeekUndecided
<1>4. c \in Nat /\ cursor <= c /\ c < BufLen
  BY <1>2, CandidatesWithin
<1>5. c \in SearchFrom..BufLen - MinAuLen /\ ~SyncRefuted(c)
  BY <1>3, Zenon DEF SyncCandidates
<1>6. ASSUME Pending >= MaxPending PROVE FALSE
  <2>1. PICK i \in SyncCandidates : i \in Nat /\ Left(i) >= Decides
    BY <1>2, <1>6, FullIsSought
  <2>2. c <= i
    BY <1>3, <2>1, Zenon DEF IsLeast
  <2>3. Left(c) >= MsiPeek /\ Left(c) >= MaxAuLen /\ Left(c) \in Int
    BY <1>4, <2>1, <2>2, <1>1 DEF Sized, Left
  <2>4. At(c) \in Reading /\ At(c).len \in Nat
    BY <1>4, AtType, Zenon DEF IInv
  <2>5. At(c).len <= MaxAuLen
    BY <2>4 DEF Reading
  <2>6. Left(c) >= At(c).len
    BY <2>3, <2>4, <2>5, <1>1 DEF Sized
  <2>7. At(c).len > MsiEnd \/ At(c).len <= MsiEnd
    BY <2>4, <1>1 DEF Sized
  <2>8. QED BY <1>3, <1>5, <2>3, <2>6, <2>7, Zenon DEF SyncProven, SyncRefuted
<1>7. Pending' < MaxPending
  <2>1. Pending' = Pending /\ Pending \in Int
    BY <1>2, <1>1 DEF Sized, Pending, BufLen
  <2>2. QED BY <1>6, <2>1, <1>1 DEF Sized
<1>8. QED BY <1>7 DEF Room

LEMMA RoomKept == IInv /\ Scanned /\ Room /\ SyncsInReach /\ [Next]_vars => Room'
<1> SUFFICES ASSUME IInv, Scanned, Room, SyncsInReach, [Next]_vars PROVE Room'
  OBVIOUS
<1>1. CASE \/ \E n \in 1..Len(stream.bytes) : Push(n)
           \/ Reset
  <2>1. last' = Fresh
    BY <1>1 DEF Push, Reset, ClearBuffer
  <2>2. QED BY <2>1 DEF Room, Fresh, NeedData
<1>2. CASE NextQueued \/ NextLocked
  <2>1. last'.kind \in {"Au", "Skipped"}
    BY <1>2 DEF NextQueued, NextLocked, Report
  <2>2. QED BY <2>1 DEF Room, NeedData
<1>3. CASE NextStarved
  BY <1>3, StarvedRoom
<1>4. CASE SeekNothing
  BY <1>4, NothingRoom
<1>5. CASE SeekUndecided
  BY <1>5, UndecidedRoom
<1>6. CASE SeekFound
  <2>1. Searching
    BY <1>6 DEF SeekFound
  <2>2. PICK c \in SyncCandidates : SyncProven(c) /\ Resync(c)
    BY <1>6, Zenon DEF SeekFound
  <2>3. PICK from \in consumed..drained + c, ends \in SUBSET Nat, number \in Nat,
              len \in Nat, lost \in Nat, kind \in {"Au", "Skipped"}, major \in BOOLEAN :
               Recovers(c, from, ends, number, len, lost, kind, major)
    BY <2>1, <2>2, ResyncEffect, Zenon
  <2>4. last'.kind = kind
    BY <2>3 DEF Recovers, Report
  <2>5. QED BY <2>4 DEF Room, NeedData
<1>7. CASE UNCHANGED vars
  <2>1. Pending' = Pending /\ last' = last
    BY <1>7 DEF vars, Pending, BufLen
  <2>2. QED BY <2>1 DEF Room
<1>8. QED BY <1>1, <1>2, <1>3, <1>4, <1>5, <1>6, <1>7, Zenon DEF Next, NextCall

\* When next() needs more data push() takes some (framer.rs:279-320, engine.rs:170),
\* on streams with a major sync that checks in any MaxPending bytes.
THEOREM OneOfThemTakes == SyncsInReach /\ Spec => []NeverBothRefuse
<1> SUFFICES ASSUME SyncsInReach PROVE Spec => []NeverBothRefuse
  OBVIOUS
<1>1. Init => Room
  BY DEF Init, Fresh, NeedData, Room
<1>2. IInv /\ Scanned /\ Room /\ [Next]_vars => Room'
  BY RoomKept
<1>3. IInv /\ Room => NeverBothRefuse
  <2> SUFFICES ASSUME IInv, Room, last = NeedData PROVE Pending + 1 <= MaxPending
    BY Zenon DEF NeverBothRefuse, MayPush
  <2>1. Pending \in Int /\ MaxPending \in Nat
    <3>1. Sized
      BY Measures, Zenon
    <3>2. QED BY <3>1 DEF Sized
  <2>2. Pending < MaxPending
    BY Zenon DEF Room
  <2>3. QED BY <2>1, <2>2
<1>4. QED BY <1>1, <1>2, <1>3, ScannedStart, ScannedKept, Invariance, PTL DEF Spec

=============================================================================
