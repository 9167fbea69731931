------------------------ MODULE AuFramerChunksProofs ------------------------
(***************************************************************************)
(* Proof that chunking is irrelevant to the framer: the same bytes give    *)
(* the same access units however they are cut into pushes.                 *)
(*                                                                         *)
(* Between two reports the framer only searches. What it has come to so    *)
(* far, an Outcome, decides with the bytes what it reports next (Replies), *)
(* and more bytes change nothing about a reply once there is one.          *)
(***************************************************************************)
EXTENDS AuFramerChunks, AuFramerProofs, SequenceTheorems

-----------------------------------------------------------------------------
(* What the checks find at a stream offset when n bytes have been pushed.  *)

Proven(o, n) ==
    LET h == Header(o)
    IN  h.len > MsiEnd /\ n - o >= h.len /\ h.subs \in h.pass

Refuted(o, n) ==
    LET h == Header(o)
    IN  /\ n - o >= MsiPeek
        /\ h.len <= MsiEnd \/ (n - o >= h.len /\ h.subs \notin h.pass)

Valid(o, subs, n) ==
    LET h == Header(o)
    IN  /\ n - o >= MinAuLen /\ h.len >= MinAuLen
        /\ IF h.sync THEN Proven(o, n)
           ELSE n - o >= h.dir[subs] /\ subs \in h.pass /\ n - o >= h.len

Invalid(o, subs, n) ==
    LET h == Header(o)
    IN  /\ n - o >= MinAuLen
        /\ \/ h.len < MinAuLen
           \/ h.sync /\ Refuted(o, n)
           \/ ~h.sync /\ IF n - o >= h.dir[subs] THEN subs \notin h.pass ELSE n - o >= h.len

Sought(from, n) ==
    {o \in from..n - MinAuLen : Header(o).sync /\ ~Refuted(o, n)}

-----------------------------------------------------------------------------
(* What is reported after an outcome s.                                    *)

Beginning ==
    [reply |-> Fresh, at |-> 0, number |-> 0, subs |-> 0, waiting |-> {}, flagged |-> FALSE,
     aus |-> 0, bytes |-> 0, errors |-> 0, gone |-> 0]

Begun(s) == s.reply # Fresh

\* Where a search after s starts, and the failed checks counted by then.
From(s)   == IF Begun(s) THEN s.at + 1 ELSE s.at
Errors(s) == IF Begun(s) THEN s.errors + 1 ELSE s.errors

Guess(s, bytes) ==
    IF s.aus = 0
    THEN (2 * bytes + DefaultAuLen) \div (2 * DefaultAuLen)
    ELSE (2 * bytes * s.aus + s.bytes) \div (2 * s.bytes)

Told(s, kind, from, len, number, major, lost, subs, rest, flagged, errors) ==
    [reply |-> [kind |-> kind, offset |-> from, len |-> len, ordinal |-> number,
                major |-> major],
     at |-> s.at + lost + len, number |-> number + 1, subs |-> subs, waiting |-> rest,
     flagged |-> flagged, aus |-> s.aus + 1, bytes |-> s.bytes + len,
     errors |-> errors, gone |-> s.gone + lost]

\* As Resync: the chain before the major sync at c begins at `first`.
Found(s, c, first, t) ==
    LET fragment == first - s.at
        lead     == HopsFrom(s.at, first)
        whole    == fragment > 0 /\ first \in lead
        lost     == IF whole THEN 0 ELSE fragment
        guess    == lost > 0 /\ (Begun(s) \/ lost > MaxAuLen)
        from     == s.at + lost
        ends     == ((IF whole THEN lead ELSE {}) \cup HopsFrom(first, c)) \ {from}
        number   == s.number + IF guess THEN Larger(1, Guess(s, lost)) ELSE 0
        flagged  == s.flagged \/ whole \/ guess
        errors   == Errors(s) + IF whole /\ ~Begun(s) THEN 1 ELSE 0
        subs     == Header(c).subs
    IN  \/ /\ from = c
           /\ t = Told(s, "Au", from, Header(c).len, number, TRUE, lost, subs, {}, flagged, errors)
        \/ \E end \in ends :
              /\ from < c /\ IsLeast(end, ends)
              /\ t = Told(s, "Skipped", from, end - from, number, FALSE, lost, subs,
                          ends \ {end}, flagged, errors)

Recovered(s, c, t) ==
    \E first \in s.at..c :
        /\ IsLeast(first, ChainStarts(s.at, c, Header(c).subs) \cup {c})
        /\ Found(s, c, first, t)

\* The next access unit that waits, the one in the chain, and the first behind a
\* search.
RepliesQueued(s, t) ==
    \E end \in s.waiting :
        /\ IsLeast(end, s.waiting)
        /\ t = Told(s, "Skipped", s.at, end - s.at, s.number, FALSE, 0, s.subs,
                    s.waiting \ {end}, s.flagged, s.errors)

RepliesLocked(s, n, t) ==
    LET h == Header(s.at)
    IN  /\ s.waiting = {} /\ Begun(s) /\ Valid(s.at, s.subs, n)
        /\ t = Told(s, "Au", s.at, h.len, s.number, h.sync, 0,
                    IF h.sync THEN h.subs ELSE s.subs, s.waiting, s.flagged, s.errors)

Searches(s, n) == s.waiting = {} /\ (Begun(s) => Invalid(s.at, s.subs, n))

RepliesFound(s, n, t) ==
    /\ Searches(s, n)
    /\ \E c \in Sought(From(s), n) :
           IsLeast(c, Sought(From(s), n)) /\ Proven(c, n) /\ Recovered(s, c, t)

Replies(s, n, t) == RepliesQueued(s, t) \/ RepliesLocked(s, n, t) \/ RepliesFound(s, n, t)

-----------------------------------------------------------------------------
(* The framer has reported s last, and may be searching since.             *)

Reached(s) ==
    /\ consumed = s.at /\ ordinal = s.number /\ substreams = s.subs /\ queued = s.waiting
    /\ estimated = s.flagged /\ framedAus = s.aus /\ framedBytes = s.bytes
    /\ skippedBytes = s.gone

Searched(s) ==
    /\ queued = {} /\ afterDamage = Begun(s) /\ syncErrors = Errors(s)
    /\ Searches(s, pushed)
    /\ From(s) <= drained + scan
    /\ \A o \in From(s)..drained + scan - 1 : ~Header(o).sync \/ Refuted(o, pushed)

Behind(s) ==
    /\ Reached(s)
    /\ state = "Locked" => Begun(s) /\ syncErrors = s.errors
    /\ state = "Seeking" => Searched(s)

Total == Len(stream.bytes)

Outcomes == [reply : Reply, at : Nat, number : Nat, subs : SubstreamCounts,
             waiting : SUBSET Nat, flagged : BOOLEAN, aus : Nat, bytes : Nat,
             errors : Nat, gone : Nat]

\* What the first run reported, each as the reply to the one before it, and that
\* there was nothing more to report.
Follows(s, t) == Replies(s, Total, t)
IsSettled(s, m) == s = IF m = 0 THEN Beginning ELSE expected[m]

FirstRun ==
    /\ expected \in Seq(Outcomes)
    /\ \A m \in 0..Len(expected) - 1 : \A s, t \in Outcomes :
           IsSettled(s, m) /\ t = expected[m + 1] => Follows(s, t)
    /\ run # "whole" =>
           \A s \in Outcomes : IsSettled(s, Len(expected)) => \A t : ~Follows(s, t)

ComeTo(m) == \E s \in Outcomes : IsSettled(s, m) /\ Behind(s)

ChunkInv ==
    /\ IInv /\ FirstRun
    /\ run \in {"whole", "drained", "pieces", "done"}
    /\ matched \in 0..Len(expected)
    /\ run = "whole" => matched = 0 /\ pushed \in {0, Total} /\ ComeTo(Len(expected))
    /\ run = "drained" => matched = 0
    /\ run = "pieces" => ComeTo(matched)
    /\ ChunkingIrrelevant

-----------------------------------------------------------------------------
(* The checks, seen from the buffer and from the stream.                   *)

LEMMA TotalNat == stream \in Streams => Total \in Nat
<1> SUFFICES ASSUME stream \in Streams PROVE Total \in Nat OBVIOUS
<1>1. stream.bytes \in Seq(Reading)
  BY StreamsAreReadings
<1>2. QED BY <1>1, LenProperties, Zenon DEF Total

LEMMA Places ==
    ASSUME IInv
    PROVE  /\ pushed \in Nat /\ drained \in Nat /\ cursor \in Nat /\ consumed \in Nat /\ scan \in Nat
           /\ consumed = drained + cursor /\ consumed <= pushed
           /\ pushed <= Total /\ Total \in Nat
           /\ stream \in Streams
<1>1. stream \in Streams
  BY DEF IInv, TypeOK
<1>2. Total \in Nat
  BY <1>1, TotalNat
<1>3. QED BY <1>1, <1>2 DEF IInv, TypeOK, InBounds, Total

LEMMA LeftIs ==
    ASSUME IInv, NEW i \in Nat
    PROVE  Left(i) = pushed - (drained + i)
  BY Places DEF Left, BufLen

LEMMA SameChecks ==
    ASSUME IInv, NEW i \in Nat
    PROVE  /\ SyncProven(i) <=> Proven(drained + i, pushed)
           /\ SyncRefuted(i) <=> Refuted(drained + i, pushed)
           /\ AuValid(i) <=> Valid(drained + i, substreams, pushed)
           /\ AuInvalid(i) <=> Invalid(drained + i, substreams, pushed)
<1>1. Left(i) = pushed - (drained + i) /\ At(i) = Header(drained + i)
  BY LeftIs DEF At
<1>2. SyncProven(i) <=> Proven(drained + i, pushed)
  BY <1>1, Zenon DEF SyncProven, Proven
<1>3. SyncRefuted(i) <=> Refuted(drained + i, pushed)
  BY <1>1, Zenon DEF SyncRefuted, Refuted
<1>4. AuValid(i) <=> Valid(drained + i, substreams, pushed)
  BY <1>1, <1>2, Zenon DEF AuValid, Valid
<1>5. AuInvalid(i) <=> Invalid(drained + i, substreams, pushed)
  BY <1>1, <1>3, Zenon DEF AuInvalid, Invalid
<1>6. QED BY <1>2, <1>3, <1>4, <1>5

\* The reading at an offset, where n bytes have been pushed.
LEMMA ReadingAt ==
    ASSUME stream \in Streams, NEW n \in Nat, n <= Total, NEW o \in Nat, n - o >= MinAuLen
    PROVE  /\ Header(o) \in Reading /\ Header(o).len \in Nat /\ Header(o).subs \in SubstreamCounts
           /\ Header(o).pass \in SUBSET SubstreamCounts
           /\ \A c \in SubstreamCounts : Header(o).dir[c] \in Nat
           /\ o < n /\ o + 1 \in 1..Total
<1>1. MinAuLen \in Nat \ {0}
  BY FramerConstants
<1>2. Total \in Nat
  BY TotalNat
<1>3. o < n /\ o + 1 \in 1..Total /\ o < Total
  BY <1>1, <1>2
<1>4. Header(o) \in Reading
  BY <1>3, HeaderType DEF Total
<1>5. QED BY <1>3, <1>4, SMT DEF Reading

LEMMA Fits ==
    ASSUME Contained, stream \in Streams, NEW o, o + 1 \in 1..Total,
           NEW c \in SubstreamCounts, c \in Header(o).pass
    PROVE  Header(o).dir[c] <= Header(o).len
  BY Zenon DEF Contained, Header, Total

\* What more bytes do not change.
LEMMA MoreBytes ==
    ASSUME Contained, stream \in Streams, NEW n \in Nat, NEW m \in Nat, n <= m, m <= Total, NEW o \in Nat
    PROVE  /\ n - o >= MinAuLen /\ Proven(o, n) => Proven(o, m)
           /\ n - o >= MinAuLen /\ Refuted(o, n) => Refuted(o, m)
           /\ \A c \in SubstreamCounts : Valid(o, c, n) => Valid(o, c, m)
           /\ \A c \in SubstreamCounts : Invalid(o, c, n) => Invalid(o, c, m)
<1>1. SUFFICES ASSUME n - o >= MinAuLen
               PROVE  /\ Proven(o, n) => Proven(o, m)
                      /\ Refuted(o, n) => Refuted(o, m)
                      /\ \A c \in SubstreamCounts : Valid(o, c, n) => Valid(o, c, m)
                      /\ \A c \in SubstreamCounts : Invalid(o, c, n) => Invalid(o, c, m)
  BY Zenon DEF Valid, Invalid
<1> DEFINE h == Header(o)
<1>2. /\ h.len \in Nat /\ \A c \in SubstreamCounts : h.dir[c] \in Nat
      /\ o + 1 \in 1..Total
  <2>1. n <= Total
    BY TotalNat
  <2>2. QED BY <1>1, <2>1, ReadingAt, Zenon
<1>3. \A c \in SubstreamCounts : c \in h.pass => h.dir[c] <= h.len
  BY <1>2, Fits, Zenon
<1> HIDE DEF h
<1>4. MinAuLen \in Nat /\ MsiPeek \in Nat
  BY FramerConstants
<1>5. \A x \in Nat : n - o >= x => m - o >= x
  BY SMT
<1>6. Proven(o, n) => Proven(o, m)
  BY <1>2, <1>5, Zenon DEF Proven, h
<1>7. Refuted(o, n) => Refuted(o, m)
  BY <1>2, <1>4, <1>5, Zenon DEF Refuted, h
<1>8. ASSUME NEW c \in SubstreamCounts, Valid(o, c, n) PROVE Valid(o, c, m)
  BY <1>2, <1>4, <1>5, <1>6, <1>8, Zenon DEF Valid, h
<1>9. ASSUME NEW c \in SubstreamCounts, Invalid(o, c, n) PROVE Invalid(o, c, m)
  <2>1. m - o >= MinAuLen
    BY <1>1, <1>4, <1>5
  <2>2. CASE h.len < MinAuLen \/ h.sync
    BY <1>7, <1>9, <2>1, <2>2, Zenon DEF Invalid, h
  <2>3. CASE ~h.sync /\ ~(h.len < MinAuLen)
    <3>1. IF n - o >= h.dir[c] THEN c \notin h.pass ELSE n - o >= h.len
      BY <1>9, <2>3, Zenon DEF Invalid, h
    <3>2. c \in h.pass => n - o >= h.dir[c] \/ ~(n - o >= h.len)
      BY <1>2, <1>3, SMT
    <3>3. c \notin h.pass
      BY <3>1, <3>2, Zenon
    <3>4. n - o >= h.dir[c] \/ n - o >= h.len
      BY <3>1, Zenon
    <3>5. m - o >= h.dir[c] \/ m - o >= h.len
      BY <1>2, <1>5, <3>4, Zenon
    <3>6. QED BY <2>1, <2>3, <3>3, <3>5, Zenon DEF Invalid, h
  <2>4. QED BY <2>2, <2>3
<1>10. QED BY <1>6, <1>7, <1>8, <1>9

LEMMA Exclusive ==
    ASSUME NEW o, NEW n
    PROVE  /\ ~(Proven(o, n) /\ Refuted(o, n) /\ Header(o).len \in Nat)
           /\ \A c : Header(o).len \in Nat => ~(Valid(o, c, n) /\ Invalid(o, c, n))
<1>1. ASSUME Header(o).len \in Nat PROVE ~(Header(o).len > MsiEnd /\ Header(o).len <= MsiEnd)
  BY <1>1, FramerConstants
<1>2. ASSUME Header(o).len \in Nat PROVE ~(Proven(o, n) /\ Refuted(o, n))
  BY <1>1, <1>2, Zenon DEF Proven, Refuted
<1>3. ASSUME Header(o).len \in Nat PROVE ~(Header(o).len >= MinAuLen /\ Header(o).len < MinAuLen)
  BY <1>3, FramerConstants
<1>4. ASSUME NEW c, Header(o).len \in Nat PROVE ~(Valid(o, c, n) /\ Invalid(o, c, n))
  BY <1>2, <1>3, <1>4, Zenon DEF Valid, Invalid
<1>5. QED BY <1>2, <1>4

-----------------------------------------------------------------------------
(* What a search in the buffer looks at, seen from the outcome behind it.  *)

LEMMA OutcomeParts ==
    ASSUME NEW s \in Outcomes
    PROVE  /\ s.at \in Nat /\ s.number \in Nat /\ s.subs \in SubstreamCounts
           /\ s.waiting \subseteq Nat /\ s.flagged \in BOOLEAN
           /\ s.aus \in Nat /\ s.bytes \in Nat /\ s.errors \in Nat /\ s.gone \in Nat
           /\ Begun(s) \in BOOLEAN /\ From(s) \in Nat /\ Errors(s) \in Nat
  BY DEF Outcomes, Begun, From, Errors

LEMMA SearchIs ==
    ASSUME IInv, NEW s \in Outcomes, Behind(s), Searching
    PROVE  /\ Damaged = Begun(s) /\ ErrorsNow = Errors(s)
           /\ Searches(s, pushed)
           /\ From(s) <= drained + SearchFrom
           /\ \A o \in From(s)..drained + SearchFrom - 1 : ~Header(o).sync \/ Refuted(o, pushed)
<1>1. CASE state = "Seeking"
  <2>1. Searched(s)
    BY <1>1, Zenon DEF Behind
  <2>2. Damaged = afterDamage /\ ErrorsNow = syncErrors /\ SearchFrom = scan
    BY <1>1 DEF Damaged, ErrorsNow, SearchFrom
  <2>3. QED BY <2>1, <2>2, Zenon DEF Searched
<1>2. CASE state # "Seeking"
  <2>1. state = "Locked" /\ AuInvalid(cursor) /\ queued = {}
    BY <1>2 DEF IInv, TypeOK, Searching
  <2>2. Begun(s) /\ syncErrors = s.errors /\ consumed = s.at /\ substreams = s.subs /\ queued = s.waiting
    BY <2>1, Zenon DEF Behind, Reached
  <2>3. Damaged = Begun(s) /\ ErrorsNow = Errors(s)
    BY <1>2, <2>2 DEF Damaged, ErrorsNow, Errors
  <2>4. SearchFrom = cursor + 1 /\ From(s) = s.at + 1
    BY <1>2, <2>2 DEF SearchFrom, From
  <2>5. drained + cursor = s.at /\ cursor \in Nat /\ drained \in Nat
    BY <2>2, Places
  <2>6. Invalid(s.at, s.subs, pushed)
    BY <2>1, <2>2, <2>5, SameChecks, Zenon
  <2>7. From(s) <= drained + SearchFrom /\ From(s)..drained + SearchFrom - 1 = {}
    BY <2>4, <2>5, SMT
  <2>8. QED BY <2>1, <2>2, <2>3, <2>6, <2>7, Zenon DEF Searches
<1>3. QED BY <1>1, <1>2

LEMMA CandidatesSought ==
    ASSUME IInv, NEW s \in Outcomes, Behind(s), Searching
    PROVE  /\ \A c \in SyncCandidates : c \in Nat /\ drained + c \in Sought(From(s), pushed)
           /\ \A o \in Sought(From(s), pushed) :
                  o - drained \in SyncCandidates /\ drained + (o - drained) = o /\ o \in Nat
<1>1. /\ SearchFrom \in Nat /\ BufLen \in Nat /\ drained \in Nat /\ pushed \in Nat
      /\ BufLen = pushed - drained /\ From(s) \in Nat /\ MinAuLen \in Nat
  BY SearchStart, Places, OutcomeParts, FramerConstants DEF BufLen
<1>2. /\ From(s) <= drained + SearchFrom
      /\ \A o \in From(s)..drained + SearchFrom - 1 : ~Header(o).sync \/ Refuted(o, pushed)
  BY SearchIs, Zenon
<1>3. ASSUME NEW c \in SyncCandidates
      PROVE  c \in Nat /\ drained + c \in Sought(From(s), pushed)
  <2>1. c \in SearchFrom..BufLen - MinAuLen /\ At(c).sync /\ ~SyncRefuted(c)
    BY <1>3, Zenon DEF SyncCandidates
  <2>2. c \in Nat /\ drained + c \in From(s)..pushed - MinAuLen
    BY <1>1, <1>2, <2>1
  <2>3. Header(drained + c).sync /\ ~Refuted(drained + c, pushed)
    BY <2>1, <2>2, SameChecks, Zenon DEF At
  <2>4. QED BY <2>2, <2>3, Zenon DEF Sought
<1>4. ASSUME NEW o \in Sought(From(s), pushed)
      PROVE  o - drained \in SyncCandidates /\ drained + (o - drained) = o /\ o \in Nat
  <2>1. o \in From(s)..pushed - MinAuLen /\ Header(o).sync /\ ~Refuted(o, pushed)
    BY <1>4, Zenon DEF Sought
  <2>2. o \notin From(s)..drained + SearchFrom - 1
    BY <1>2, <2>1, Zenon
  <2>3. /\ o - drained \in SearchFrom..BufLen - MinAuLen /\ o - drained \in Nat
        /\ drained + (o - drained) = o /\ o \in Nat
    BY <1>1, <2>1, <2>2
  <2>4. At(o - drained).sync /\ ~SyncRefuted(o - drained)
    BY <2>1, <2>3, SameChecks, Zenon DEF At
  <2>5. QED BY <2>3, <2>4, Zenon DEF SyncCandidates
<1>5. QED BY <1>3, <1>4, Zenon

LEMMA LeastSought ==
    ASSUME IInv, NEW s \in Outcomes, Behind(s), Searching,
           NEW c, IsLeast(c, SyncCandidates)
    PROVE  /\ c \in Nat /\ IsLeast(drained + c, Sought(From(s), pushed))
           /\ SyncProven(c) <=> Proven(drained + c, pushed)
<1>1. c \in SyncCandidates /\ \A d \in SyncCandidates : c <= d
  BY Zenon DEF IsLeast
<1>2. c \in Nat /\ drained + c \in Sought(From(s), pushed)
  BY <1>1, CandidatesSought, Zenon
<1>3. ASSUME NEW o \in Sought(From(s), pushed) PROVE drained + c <= o
  <2>1. o - drained \in SyncCandidates /\ o \in Nat
    BY CandidatesSought, Zenon
  <2>2. c <= o - drained /\ drained \in Nat
    BY <1>1, <2>1, Places
  <2>3. QED BY <1>2, <2>1, <2>2
<1>4. QED BY <1>2, <1>3, SameChecks, Zenon DEF IsLeast

-----------------------------------------------------------------------------
(* A call that reports something reports what the outcome behind it        *)
(* replies, and leaves the framer behind the new outcome.                  *)

LEMMA Arrived ==
    ASSUME NEW t, t = Outcome', state' = "Locked", last'.kind \in {"Au", "Skipped"}
    PROVE  Behind(t)'
<1>1. t.reply = last' /\ last' # Fresh
  BY DEF Outcome, Fresh
<1>2. Reached(t)' /\ syncErrors' = t.errors
  BY Zenon DEF Reached, Outcome
<1>3. Begun(t)' /\ state' # "Seeking"
  BY <1>1, Zenon DEF Begun
<1>4. QED BY <1>2, <1>3, Zenon DEF Behind

LEMMA QueuedReplies ==
    ASSUME IInv, NEW s \in Outcomes, Behind(s), NEW t, t = Outcome', NextQueued
    PROVE  RepliesQueued(s, t) /\ Behind(t)'
<1>1. PICK end \in queued :
          /\ IsLeast(end, queued)
          /\ Report("Skipped", consumed, end - consumed, ordinal, FALSE, 0)
          /\ queued' = queued \ {end}
  BY DEF NextQueued
<1>2. state = "Locked" /\ queued # {} /\ state' = state
  BY <1>1 DEF IInv, TypeOK, SearchKnowsDamage, NextQueued
<1>3. /\ Begun(s) /\ syncErrors = s.errors
      /\ consumed = s.at /\ ordinal = s.number /\ substreams = s.subs /\ queued = s.waiting
      /\ estimated = s.flagged /\ framedAus = s.aus /\ framedBytes = s.bytes /\ skippedBytes = s.gone
  BY <1>2, Zenon DEF Behind, Reached
<1>4. s.gone + 0 = s.gone
  BY OutcomeParts
<1>5. /\ last' = [kind |-> "Skipped", offset |-> s.at, len |-> end - s.at,
                  ordinal |-> s.number, major |-> FALSE]
      /\ ordinal' = s.number + 1 /\ framedAus' = s.aus + 1
      /\ framedBytes' = s.bytes + (end - s.at) /\ consumed' = s.at + 0 + (end - s.at)
  BY <1>1, <1>3, Zenon DEF Report
<1>6. /\ substreams' = s.subs /\ queued' = s.waiting \ {end} /\ estimated' = s.flagged
      /\ syncErrors' = s.errors /\ skippedBytes' = s.gone + 0
  BY <1>1, <1>3, <1>4 DEF NextQueued
<1>7. t = Told(s, "Skipped", s.at, end - s.at, s.number, FALSE, 0, s.subs,
               s.waiting \ {end}, s.flagged, s.errors)
  BY <1>5, <1>6, Zenon DEF Outcome, Told
<1>8. last'.kind \in {"Au", "Skipped"}
  BY <1>5
<1>9. QED BY <1>1, <1>2, <1>3, <1>7, <1>8, Arrived, Zenon DEF RepliesQueued

LEMMA LockedReplies ==
    ASSUME IInv, NEW s \in Outcomes, Behind(s), NEW t, t = Outcome', NextLocked
    PROVE  RepliesLocked(s, pushed, t) /\ Behind(t)'
<1> DEFINE h == Header(s.at)
<1>1. /\ queued = {} /\ state = "Locked" /\ AuValid(cursor) /\ state' = "Locked"
      /\ Report("Au", consumed, At(cursor).len, ordinal, At(cursor).sync, 0)
  BY DEF NextLocked
<1>2. /\ Begun(s) /\ syncErrors = s.errors
      /\ consumed = s.at /\ ordinal = s.number /\ substreams = s.subs /\ queued = s.waiting
      /\ estimated = s.flagged /\ framedAus = s.aus /\ framedBytes = s.bytes /\ skippedBytes = s.gone
  BY <1>1, Zenon DEF Behind, Reached
<1>3. drained + cursor = s.at /\ cursor \in Nat
  BY <1>2, Places
<1>4. At(cursor) = h
  BY <1>3 DEF At
<1>5. Valid(s.at, s.subs, pushed)
  BY <1>1, <1>2, <1>3, SameChecks, Zenon
<1> HIDE DEF h
<1>6. s.gone + 0 = s.gone
  BY OutcomeParts
<1>7. /\ last' = [kind |-> "Au", offset |-> s.at, len |-> h.len,
                  ordinal |-> s.number, major |-> h.sync]
      /\ ordinal' = s.number + 1 /\ framedAus' = s.aus + 1
      /\ framedBytes' = s.bytes + h.len /\ consumed' = s.at + 0 + h.len
  BY <1>1, <1>2, <1>4, Zenon DEF Report
<1>8. /\ substreams' = IF h.sync THEN h.subs ELSE s.subs
      /\ queued' = s.waiting /\ estimated' = s.flagged
      /\ syncErrors' = s.errors /\ skippedBytes' = s.gone + 0
  BY <1>1, <1>2, <1>4, <1>6 DEF NextLocked
<1>9. t = Told(s, "Au", s.at, h.len, s.number, h.sync, 0,
               IF h.sync THEN h.subs ELSE s.subs, s.waiting, s.flagged, s.errors)
  BY <1>7, <1>8, Zenon DEF Outcome, Told
<1>10. last'.kind \in {"Au", "Skipped"}
  BY <1>7
<1>11. QED BY <1>1, <1>2, <1>5, <1>9, <1>10, Arrived, Zenon DEF RepliesLocked, h

LEMMA ResyncRecovers ==
    ASSUME IInv, NEW s \in Outcomes, Behind(s), NEW t, t = Outcome', Searching,
           NEW c \in Nat, Resync(c)
    PROVE  Recovered(s, drained + c, t) /\ last'.kind \in {"Au", "Skipped"}
<1> DEFINE sync            == drained + c
           fragment(first) == first - s.at
           lead(first)     == HopsFrom(s.at, first)
           whole(first)    == fragment(first) > 0 /\ first \in lead(first)
           lost(first)     == IF whole(first) THEN 0 ELSE fragment(first)
           guess(first)    == lost(first) > 0 /\ (Begun(s) \/ lost(first) > MaxAuLen)
           from(first)     == s.at + lost(first)
           ends(first)     == ((IF whole(first) THEN lead(first) ELSE {}) \cup HopsFrom(first, sync))
                                  \ {from(first)}
           number(first)   == s.number + IF guess(first) THEN Larger(1, Guess(s, lost(first))) ELSE 0
           flagged(first)  == s.flagged \/ whole(first) \/ guess(first)
           errors(first)   == Errors(s) + IF whole(first) /\ ~Begun(s) THEN 1 ELSE 0
           subs            == Header(sync).subs
<1>1. /\ consumed = s.at /\ ordinal = s.number /\ substreams = s.subs /\ queued = s.waiting
      /\ estimated = s.flagged /\ framedAus = s.aus /\ framedBytes = s.bytes /\ skippedBytes = s.gone
  BY Zenon DEF Behind, Reached
<1>2. Damaged = Begun(s) /\ ErrorsNow = Errors(s)
  BY SearchIs
<1>3. \A b : Estimate(b) = Guess(s, b)
  BY <1>1, Zenon DEF Estimate, Guess
<1>4. At(c) = Header(sync)
  BY DEF At
<1>5. PICK first \in consumed..drained + c :
          LET mark   == first - consumed
              hops   == HopsFrom(consumed, first)
              tail   == mark > 0 /\ first \in hops
              gap    == IF tail THEN 0 ELSE mark
              vague  == gap > 0 /\ (Damaged \/ gap > MaxAuLen)
              start  == consumed + gap
              stops  == ((IF tail THEN hops ELSE {}) \cup HopsFrom(first, drained + c)) \ {start}
              num    == ordinal + IF vague THEN Larger(1, Estimate(gap)) ELSE 0
          IN  /\ IsLeast(first, ChainStarts(consumed, drained + c, At(c).subs) \cup {drained + c})
              /\ substreams' = At(c).subs
              /\ syncErrors' = ErrorsNow + IF tail /\ ~Damaged THEN 1 ELSE 0
              /\ estimated' = (estimated \/ tail \/ vague)
              /\ skippedBytes' = skippedBytes + gap
              /\ \/ /\ start = drained + c
                    /\ Report("Au", start, At(c).len, num, TRUE, gap)
                    /\ queued' = {}
                 \/ \E end \in stops :
                       /\ start < drained + c /\ IsLeast(end, stops)
                       /\ Report("Skipped", start, end - start, num, FALSE, gap)
                       /\ queued' = stops \ {end}
  BY Zenon DEF Resync
<1> DEFINE tail  == first - consumed > 0 /\ first \in HopsFrom(consumed, first)
           gap   == IF tail THEN 0 ELSE first - consumed
           vague == gap > 0 /\ (Damaged \/ gap > MaxAuLen)
           stops == ((IF tail THEN HopsFrom(consumed, first) ELSE {}) \cup HopsFrom(first, sync))
                        \ {consumed + gap}
           num   == ordinal + IF vague THEN Larger(1, Estimate(gap)) ELSE 0
<1>6. tail = whole(first)
  BY <1>1, Zenon
<1>7. gap = lost(first) /\ consumed + gap = from(first)
  BY <1>1, <1>6, Zenon
<1>8. vague = guess(first)
  BY <1>2, <1>7, Zenon
<1>9. stops = ends(first)
  BY <1>1, <1>6, <1>7, Zenon
<1>10. num = number(first)
  BY <1>1, <1>3, <1>7, <1>8, Zenon
<1>11. /\ first \in s.at..sync
       /\ IsLeast(first, ChainStarts(s.at, sync, subs) \cup {sync})
       /\ substreams' = subs
       /\ syncErrors' = errors(first)
       /\ estimated' = flagged(first)
       /\ skippedBytes' = s.gone + lost(first)
  <2>1. /\ IsLeast(first, ChainStarts(consumed, sync, subs) \cup {sync})
        /\ substreams' = subs
        /\ syncErrors' = ErrorsNow + IF tail /\ ~Damaged THEN 1 ELSE 0
        /\ estimated' = (estimated \/ tail \/ vague)
        /\ skippedBytes' = skippedBytes + gap
    BY <1>4, <1>5, Zenon
  <2> HIDE DEF tail, gap, vague, stops, num
  <2>2. estimated' = flagged(first)
    <3>1. estimated' = (s.flagged \/ whole(first) \/ guess(first))
      BY <1>1, <1>6, <1>8, <2>1, Zenon
    <3>2. QED BY <3>1, Zenon
  <2>3. first \in s.at..sync
    BY <1>1, Zenon
  <2>4. QED BY <1>1, <1>2, <1>6, <1>7, <2>1, <2>2, <2>3, Zenon
<1>12. \/ /\ from(first) = sync
          /\ Report("Au", from(first), Header(sync).len, number(first), TRUE, lost(first))
          /\ queued' = {}
       \/ \E end \in ends(first) :
             /\ from(first) < sync /\ IsLeast(end, ends(first))
             /\ Report("Skipped", from(first), end - from(first), number(first), FALSE, lost(first))
             /\ queued' = ends(first) \ {end}
  <2>1. \/ /\ consumed + gap = sync
           /\ Report("Au", consumed + gap, At(c).len, num, TRUE, gap)
           /\ queued' = {}
        \/ \E end \in stops :
              /\ consumed + gap < sync /\ IsLeast(end, stops)
              /\ Report("Skipped", consumed + gap, end - (consumed + gap), num, FALSE, gap)
              /\ queued' = stops \ {end}
    BY <1>5, Zenon
  <2> HIDE DEF tail, gap, vague, stops, num, from, lost, number, ends
  <2>2. QED BY <1>4, <1>7, <1>9, <1>10, <2>1, Zenon
<1> DEFINE f == Found(s, sync, first, t)
<1> HIDE DEF tail, gap, vague, stops, num, sync, fragment, lead, whole, lost, guess, from, ends, number, flagged, errors, subs
<1>13. ASSUME NEW kind, NEW offset, NEW len, NEW count, NEW major, NEW let, NEW rest,
             Report(kind, offset, len, count, major, let), queued' = rest,
             let = lost(first)
      PROVE  /\ t = Told(s, kind, offset, len, count, major, lost(first), subs, rest,
                         flagged(first), errors(first))
             /\ last'.kind = kind
  <2>1. /\ last' = [kind |-> kind, offset |-> offset, len |-> len, ordinal |-> count, major |-> major]
        /\ ordinal' = count + 1 /\ framedAus' = s.aus + 1
        /\ framedBytes' = s.bytes + len /\ consumed' = s.at + lost(first) + len
    BY <1>1, <1>13, Zenon DEF Report
  <2>2. last'.kind = kind
    BY <2>1
  <2>3. QED BY <1>11, <1>13, <2>1, <2>2, Zenon DEF Outcome, Told
<1>14. CASE /\ from(first) = sync
           /\ Report("Au", from(first), Header(sync).len, number(first), TRUE, lost(first))
           /\ queued' = {}
  <2>1. /\ t = Told(s, "Au", from(first), Header(sync).len, number(first), TRUE, lost(first),
                    subs, {}, flagged(first), errors(first))
        /\ last'.kind = "Au"
    BY <1>13, <1>14, Zenon
  <2>2. f
    BY <1>14, <2>1, Zenon
       DEF Found, sync, fragment, lead, whole, lost, guess, from, ends, number, flagged, errors, subs
  <2>3. QED BY <1>11, <2>1, <2>2, Zenon DEF Recovered, sync, subs
<1>15. CASE \E end \in ends(first) :
               /\ from(first) < sync /\ IsLeast(end, ends(first))
               /\ Report("Skipped", from(first), end - from(first), number(first), FALSE, lost(first))
               /\ queued' = ends(first) \ {end}
  <2>1. PICK end \in ends(first) :
            /\ from(first) < sync /\ IsLeast(end, ends(first))
            /\ Report("Skipped", from(first), end - from(first), number(first), FALSE, lost(first))
            /\ queued' = ends(first) \ {end}
    BY <1>15
  <2>2. /\ t = Told(s, "Skipped", from(first), end - from(first), number(first), FALSE, lost(first),
                    subs, ends(first) \ {end}, flagged(first), errors(first))
        /\ last'.kind = "Skipped"
    BY <1>13, <2>1, Zenon
  <2>3. f
    BY <2>1, <2>2, Zenon
       DEF Found, sync, fragment, lead, whole, lost, guess, from, ends, number, flagged, errors, subs
  <2>4. QED BY <1>11, <2>2, <2>3, Zenon DEF Recovered, sync, subs
<1>16. QED BY <1>12, <1>14, <1>15

LEMMA FoundReplies ==
    ASSUME IInv, NEW s \in Outcomes, Behind(s), NEW t, t = Outcome', SeekFound
    PROVE  RepliesFound(s, pushed, t) /\ Behind(t)'
<1>1. Searching /\ state' = "Locked"
  BY DEF SeekFound
<1>2. PICK c \in SyncCandidates : IsLeast(c, SyncCandidates) /\ SyncProven(c) /\ Resync(c)
  BY DEF SeekFound
<1>3. c \in Nat /\ IsLeast(drained + c, Sought(From(s), pushed)) /\ Proven(drained + c, pushed)
  BY <1>1, <1>2, LeastSought, Zenon
<1>4. drained + c \in Sought(From(s), pushed)
  BY <1>3, Zenon DEF IsLeast
<1>5. Recovered(s, drained + c, t) /\ last'.kind \in {"Au", "Skipped"}
  BY <1>1, <1>2, <1>3, ResyncRecovers, Zenon
<1>6. Searches(s, pushed)
  BY <1>1, SearchIs
<1>7. RepliesFound(s, pushed, t)
  BY <1>3, <1>4, <1>5, <1>6, Zenon DEF RepliesFound
<1>8. Behind(t)'
  BY <1>1, <1>5, Arrived, Zenon
<1>9. QED BY <1>7, <1>8

-----------------------------------------------------------------------------
(* A call that reports nothing has nothing to report, and searches on.     *)

LEMMA HeaderSame == stream' = stream => \A o : Header(o)' = Header(o)
  BY DEF Header

LEMMA ChecksSame ==
    ASSUME stream' = stream, NEW o, NEW n, NEW c
    PROVE  /\ Refuted(o, n)' <=> Refuted(o, n)
           /\ Invalid(o, c, n)' <=> Invalid(o, c, n)
<1>1. Header(o)' = Header(o)
  BY HeaderSame
<1>2. Refuted(o, n)' <=> Refuted(o, n)
  BY <1>1, Zenon DEF Refuted
<1>3. QED BY <1>1, <1>2, Zenon DEF Invalid

\* The framer has searched as far as `scan'`, and nothing it looked at on the
\* way can be the major sync it searches for.
LEMMA SearchedOn ==
    ASSUME IInv, NEW s \in Outcomes, Behind(s), Searching,
           UNCHANGED <<stream, pushed, drained, cursor, consumed, queued, substreams, ordinal,
                       estimated, framedAus, framedBytes, skippedBytes>>,
           state' = "Seeking", afterDamage' = Damaged, syncErrors' = ErrorsNow,
           scan' \in Nat, SearchFrom <= scan',
           \A o \in Sought(From(s), pushed) : drained + scan' <= o,
           drained + scan' - 1 <= pushed - MinAuLen \/ scan' = SearchFrom
    PROVE  Behind(s)'
<1>1. Reached(s)'
  BY Zenon DEF Reached, Behind
<1>2. /\ Damaged = Begun(s) /\ ErrorsNow = Errors(s)
      /\ Searches(s, pushed)
      /\ From(s) <= drained + SearchFrom
      /\ \A o \in From(s)..drained + SearchFrom - 1 : ~Header(o).sync \/ Refuted(o, pushed)
  BY SearchIs, Zenon
<1>3. queued = {}
  BY SearchStart
<1>4. /\ From(s) \in Nat /\ drained \in Nat /\ SearchFrom \in Nat /\ pushed \in Nat
      /\ MinAuLen \in Nat
  BY OutcomeParts, Places, SearchStart, FramerConstants
<1>5. From(s) <= drained + scan'
  BY <1>2, <1>4
<1>6. ASSUME NEW o \in From(s)..drained + scan' - 1
      PROVE  ~Header(o).sync \/ Refuted(o, pushed)
  <2>1. CASE o \in From(s)..drained + SearchFrom - 1
    BY <1>2, <2>1
  <2>2. CASE o \notin From(s)..drained + SearchFrom - 1
    <3>1. scan' # SearchFrom
      BY <1>6, <2>2
    <3>2. \A f, d, z, p, m \in Nat :
              o \in f..d + z - 1 /\ d + z - 1 <= p - m => o \in f..p - m /\ ~(d + z <= o)
      OBVIOUS
    <3>3. o \in From(s)..pushed - MinAuLen /\ ~(drained + scan' <= o)
      BY <1>4, <1>6, <3>1, <3>2, Zenon
    <3>4. QED BY <3>3, Zenon DEF Sought
  <2>3. QED BY <2>1, <2>2
<1>7. Searches(s, pushed)'
  <2>1. pushed' = pushed
    OBVIOUS
  <2>2. Invalid(s.at, s.subs, pushed)' <=> Invalid(s.at, s.subs, pushed)
    BY ChecksSame, <2>1, Zenon DEF Invalid, Refuted, Header
  <2>3. QED BY <1>2, <2>2, Zenon DEF Searches, Begun
<1>8. \A o \in From(s)..drained' + scan' - 1 : (~Header(o).sync \/ Refuted(o, pushed))'
  <2>1. \A o : Header(o)' = Header(o) /\ (Refuted(o, pushed)' <=> Refuted(o, pushed))
    BY Zenon DEF Header, Refuted
  <2>2. QED BY <1>6, <2>1, Zenon
<1>9. Searched(s)'
  BY <1>2, <1>3, <1>5, <1>7, <1>8, Zenon DEF Searched, From, Begun, Errors
<1>10. QED BY <1>1, <1>9, Zenon DEF Behind

LEMMA UndecidedBehind ==
    ASSUME IInv, NEW s \in Outcomes, Behind(s), SeekUndecided
    PROVE  Behind(s)' /\ pushed' = pushed /\ stream' = stream
<1>1. Searching
  BY DEF SeekUndecided
<1>2. PICK c \in SyncCandidates : IsLeast(c, SyncCandidates) /\ ~SyncProven(c) /\ scan' = c
  BY DEF SeekUndecided
<1>3. c \in Nat /\ IsLeast(drained + c, Sought(From(s), pushed))
  BY <1>1, <1>2, LeastSought, Zenon
<1>4. \A o \in Sought(From(s), pushed) : drained + c <= o
  BY <1>3, Zenon DEF IsLeast
<1>5. c \in SearchFrom..BufLen - MinAuLen
  BY <1>2, Zenon DEF SyncCandidates
<1>6. SearchFrom <= c /\ drained + c - 1 <= pushed - MinAuLen
  BY <1>3, <1>5, SearchStart, <1>1, Places, FramerConstants DEF BufLen
<1>7. /\ UNCHANGED <<stream, pushed, drained, cursor, consumed, queued, substreams, ordinal,
                     estimated, framedAus, framedBytes, skippedBytes>>
      /\ state' = "Seeking" /\ afterDamage' = Damaged /\ syncErrors' = ErrorsNow
  BY Zenon DEF SeekUndecided
<1>8. scan' \in Nat /\ SearchFrom <= scan' /\ drained + scan' - 1 <= pushed - MinAuLen
  BY <1>2, <1>3, <1>6, Zenon
<1>9. \A o \in Sought(From(s), pushed) : drained + scan' <= o
  BY <1>2, <1>4, Zenon
<1>10. Behind(s)'
  BY <1>1, <1>7, <1>8, <1>9, SearchedOn, Zenon
<1>11. QED BY <1>7, <1>10

LEMMA NothingBehind ==
    ASSUME IInv, NEW s \in Outcomes, Behind(s), SeekNothing, skippedBytes' = skippedBytes
    PROVE  Behind(s)' /\ pushed' = pushed /\ stream' = stream
<1> DEFINE resume == Larger(BufLen - ScanKeep, SearchFrom)
           idle   == resume - cursor
<1>1. /\ Searching /\ SyncCandidates = {}
      /\ scan' = resume
      /\ IF idle > MaxRetained
         THEN skippedBytes' = skippedBytes + idle
         ELSE UNCHANGED <<ordinal, estimated, skippedBytes, cursor, consumed>>
      /\ state' = "Seeking" /\ afterDamage' = Damaged /\ syncErrors' = ErrorsNow
      /\ UNCHANGED <<stream, pushed, drained, queued, substreams, framedAus, framedBytes>>
  BY Zenon DEF SeekNothing
<1>2. /\ SearchFrom \in Nat /\ BufLen \in Nat /\ ScanKeep \in Int /\ ScanKeep = MinAuLen - 1
      /\ BufLen = pushed - drained /\ pushed \in Nat /\ drained \in Nat /\ cursor \in Nat
      /\ MinAuLen \in Nat /\ MaxRetained \in Nat /\ skippedBytes \in Nat
  BY <1>1, SearchStart, Places, FramerConstants DEF BufLen, IInv, TypeOK
<1>3. /\ resume \in Nat /\ SearchFrom <= resume /\ idle \in Int
      /\ resume = SearchFrom \/ resume = BufLen - ScanKeep
  BY <1>2 DEF Larger
<1> HIDE DEF resume, idle
<1>4. ~(idle > MaxRetained)
  <2>1. ASSUME idle > MaxRetained PROVE FALSE
    <3>1. skippedBytes = skippedBytes + idle
      BY <1>1, <2>1
    <3>2. QED BY <1>2, <1>3, <2>1, <3>1
  <2>2. QED BY <2>1
<1>5. UNCHANGED <<ordinal, estimated, skippedBytes, cursor, consumed>>
  BY <1>1, <1>4, Zenon
<1>6. drained + resume - 1 <= pushed - MinAuLen \/ resume = SearchFrom
  BY <1>2, <1>3
<1>7. Sought(From(s), pushed) = {}
  BY <1>1, CandidatesSought, Zenon
<1>8. /\ scan' \in Nat /\ SearchFrom <= scan'
      /\ drained + scan' - 1 <= pushed - MinAuLen \/ scan' = SearchFrom
      /\ \A o \in Sought(From(s), pushed) : drained + scan' <= o
  BY <1>1, <1>3, <1>6, <1>7, Zenon
<1>9. Behind(s)'
  BY <1>1, <1>5, <1>8, SearchedOn, Zenon
<1>10. QED BY <1>1, <1>9

LEMMA BehindSame ==
    ASSUME NEW s, UNCHANGED <<stream, pushed, drained, cursor, consumed, state, scan,
                              afterDamage, queued, substreams, ordinal, estimated,
                              framedAus, framedBytes, syncErrors, skippedBytes>>
    PROVE  Behind(s)' <=> Behind(s)
<1>1. \A o : Header(o)' = Header(o)
  BY HeaderSame
<1>2. QED BY <1>1, Zenon
            DEF Behind, Reached, Searched, Searches, Invalid, Refuted, From, Begun, Errors

LEMMA StarvedBehind ==
    ASSUME NEW s, Behind(s), NextStarved
    PROVE  Behind(s)' /\ pushed' = pushed /\ stream' = stream
<1>1. UNCHANGED <<stream, pushed, drained, cursor, consumed, state, scan,
                  afterDamage, queued, substreams, ordinal, estimated,
                  framedAus, framedBytes, syncErrors, skippedBytes>>
  BY Zenon DEF NextStarved
<1>2. QED BY <1>1, BehindSame, Zenon

\* What makes a call report nothing.
LEMMA SearchFindsAll ==
    ASSUME IInv, NEW s \in Outcomes, Behind(s), Searching,
           \A c : IsLeast(c, SyncCandidates) => ~SyncProven(c)
    PROVE  \A t : ~Replies(s, pushed, t)
<1> SUFFICES ASSUME NEW t, Replies(s, pushed, t) PROVE FALSE OBVIOUS
<1>1. Searches(s, pushed)
  BY SearchIs
<1>2. s.waiting = {}
  BY <1>1, Zenon DEF Searches
<1>3. CASE RepliesQueued(s, t)
  BY <1>2, <1>3, Zenon DEF RepliesQueued
<1>4. CASE RepliesLocked(s, pushed, t)
  <2>1. Begun(s) /\ Valid(s.at, s.subs, pushed)
    BY <1>4, Zenon DEF RepliesLocked
  <2>2. Invalid(s.at, s.subs, pushed)
    BY <1>1, <2>1, Zenon DEF Searches
  <2>3. pushed - s.at >= MinAuLen
    BY <2>1, Zenon DEF Valid
  <2>4. Header(s.at).len \in Nat
    BY <2>3, Places, OutcomeParts, ReadingAt
  <2>5. QED BY <2>1, <2>2, <2>4, Exclusive, Zenon
<1>5. CASE RepliesFound(s, pushed, t)
  <2>1. PICK o \in Sought(From(s), pushed) :
            IsLeast(o, Sought(From(s), pushed)) /\ Proven(o, pushed)
    BY <1>5, Zenon DEF RepliesFound
  <2>2. o - drained \in SyncCandidates /\ drained + (o - drained) = o
    BY CandidatesSought, Zenon
  <2>3. o - drained \in Nat
    BY <2>2, CandidatesSought, Zenon
  <2>4. ASSUME NEW d \in SyncCandidates PROVE o - drained <= d
    <3>1. d \in Nat /\ drained + d \in Sought(From(s), pushed)
      BY CandidatesSought, Zenon
    <3>2. o <= drained + d
      BY <2>1, <3>1, Zenon DEF IsLeast
    <3>3. o \in Nat /\ drained \in Nat
      BY CandidatesSought, Places
    <3>4. QED BY <3>1, <3>2, <3>3
  <2>5. IsLeast(o - drained, SyncCandidates)
    BY <2>2, <2>4, Zenon DEF IsLeast
  <2>6. SyncProven(o - drained)
    BY <2>1, <2>2, <2>3, SameChecks, Zenon
  <2>7. QED BY <2>5, <2>6
<1>6. QED BY <1>3, <1>4, <1>5, Zenon DEF Replies

LEMMA StarvedReplies ==
    ASSUME IInv, NEW s \in Outcomes, Behind(s), NextStarved
    PROVE  \A t : ~Replies(s, pushed, t)
<1> SUFFICES ASSUME NEW t, Replies(s, pushed, t) PROVE FALSE OBVIOUS
<1>1. queued = {} /\ state = "Locked" /\ ~AuValid(cursor) /\ ~AuInvalid(cursor)
  BY DEF NextStarved
<1>2. Begun(s) /\ consumed = s.at /\ substreams = s.subs /\ queued = s.waiting
  BY <1>1, Zenon DEF Behind, Reached
<1>3. drained + cursor = s.at /\ cursor \in Nat
  BY <1>2, Places
<1>4. ~Valid(s.at, s.subs, pushed) /\ ~Invalid(s.at, s.subs, pushed)
  BY <1>1, <1>2, <1>3, SameChecks, Zenon
<1>5. QED BY <1>1, <1>2, <1>4, Zenon DEF Replies, RepliesQueued, RepliesLocked, RepliesFound, Searches

\* Every call of next() that lets nothing go.
LEMMA CallsReply ==
    ASSUME IInv, NEW s \in Outcomes, Behind(s), NextCall,
           last'.kind = "NeedData" => skippedBytes' = skippedBytes
    PROVE  /\ pushed' = pushed /\ stream' = stream
           /\ last'.kind = "NeedData" => Behind(s)' /\ \A t : ~Replies(s, pushed, t)
           /\ last'.kind # "NeedData" => \A t : t = Outcome' => Replies(s, pushed, t) /\ Behind(t)'
<1> DEFINE kind == last'.kind
<1>2. CASE NextQueued
  <2>1. kind # "NeedData" /\ pushed' = pushed /\ stream' = stream
    BY <1>2 DEF NextQueued, Report
  <2>2. QED BY <1>2, <2>1, QueuedReplies, Zenon DEF Replies
<1>3. CASE NextLocked
  <2>1. kind # "NeedData" /\ pushed' = pushed /\ stream' = stream
    BY <1>3 DEF NextLocked, Report
  <2>2. QED BY <1>3, <2>1, LockedReplies, Zenon DEF Replies
<1>4. CASE NextStarved
  <2>1. kind = "NeedData"
    BY <1>4 DEF NextStarved, NeedData
  <2>2. QED BY <1>4, <2>1, StarvedBehind, StarvedReplies, Zenon
<1>5. CASE SeekNothing
  <2>1. kind = "NeedData" /\ Searching /\ SyncCandidates = {}
    BY <1>5 DEF SeekNothing, NeedData
  <2>2. \A c : IsLeast(c, SyncCandidates) => ~SyncProven(c)
    BY <2>1, Zenon DEF IsLeast
  <2>3. skippedBytes' = skippedBytes
    BY <2>1
  <2>4. QED BY <1>5, <2>1, <2>2, <2>3, NothingBehind, SearchFindsAll, Zenon
<1>6. CASE SeekUndecided
  <2>1. kind = "NeedData" /\ Searching
    BY <1>6 DEF SeekUndecided, NeedData
  <2>2. PICK d \in SyncCandidates : IsLeast(d, SyncCandidates) /\ ~SyncProven(d)
    BY <1>6, Zenon DEF SeekUndecided
  <2>3. \A c : IsLeast(c, SyncCandidates) => c = d
    <3>1. \A c \in SyncCandidates : c \in Nat
      BY <2>1, CandidatesSought, Zenon
    <3>2. ASSUME NEW c, IsLeast(c, SyncCandidates) PROVE c = d
      <4>1. c \in Nat /\ d \in Nat /\ c <= d /\ d <= c
        BY <2>2, <3>1, <3>2, Zenon DEF IsLeast
      <4>2. QED BY <4>1
    <3>3. QED BY <3>2
  <2>4. \A c : IsLeast(c, SyncCandidates) => ~SyncProven(c)
    BY <2>2, <2>3, Zenon
  <2>5. QED BY <1>6, <2>1, <2>4, UndecidedBehind, SearchFindsAll, Zenon
<1>7. CASE SeekFound
  <2>1. pushed' = pushed /\ stream' = stream
    BY <1>7 DEF SeekFound
  <2>2. PICK c \in SyncCandidates : Resync(c)
    BY <1>7 DEF SeekFound
  <2>3. kind # "NeedData"
    <3>1. Searching
      BY <1>7 DEF SeekFound
    <3>2. c \in Nat
      BY <2>2, <3>1, CandidatesSought, Zenon
    <3>3. kind \in {"Au", "Skipped"}
      BY <2>2, <3>1, <3>2, ResyncRecovers, Zenon
    <3>4. QED BY <3>3
  <2>4. QED BY <1>7, <2>1, <2>3, FoundReplies, Zenon DEF Replies
<1>8. QED BY <1>2, <1>3, <1>4, <1>5, <1>6, <1>7, Zenon DEF NextCall

-----------------------------------------------------------------------------
(* More bytes change no reply, and what has been searched stays searched.  *)

LEMMA RefutedPeeks ==
    ASSUME NEW o \in Nat, NEW n \in Nat, Refuted(o, n)
    PROVE  n - o >= MinAuLen
  BY FramerConstants DEF Refuted

LEMMA MoreSearches ==
    ASSUME Contained, stream \in Streams, NEW s \in Outcomes,
           NEW n \in Nat, NEW m \in Nat, n <= m, m <= Total, Searches(s, n)
    PROVE  Searches(s, m)
  BY OutcomeParts, MoreBytes, Zenon DEF Searches

LEMMA PushBehind ==
    ASSUME IInv, Contained, NEW s \in Outcomes, Behind(s), NEW n \in Nat, Push(n)
    PROVE  Behind(s)'
<1>1. /\ pushed' = pushed + n /\ pushed + n <= Total
      /\ UNCHANGED <<stream, consumed, state, afterDamage, queued, substreams, ordinal,
                     estimated, framedAus, framedBytes, syncErrors, skippedBytes>>
  BY Zenon DEF Push, Total
<1>2. PICK d, c, z \in Nat :
          /\ drained' = d /\ cursor' = c /\ scan' = z
          /\ d + c = drained + cursor
          /\ state = "Seeking" => c <= z /\ z + d = scan + drained
  BY CompactKeeps, Zenon DEF Push, IInv
<1>3. /\ pushed \in Nat /\ stream \in Streams /\ pushed + n \in Nat /\ pushed <= pushed + n
      /\ drained \in Nat /\ scan \in Nat
  BY Places
<1>4. Reached(s)'
  BY <1>1, Zenon DEF Reached, Behind
<1>5. ASSUME state = "Seeking" PROVE Searched(s)'
  <2>1. Searched(s)
    BY <1>5, Zenon DEF Behind
  <2>2. Searches(s, pushed + n)
    BY <1>1, <1>3, <2>1, MoreSearches, Zenon DEF Searched
  <2>3. drained' + scan' = drained + scan
    BY <1>2, <1>3, <1>5
  <2>4. ASSUME NEW o \in From(s)..drained + scan - 1
        PROVE  ~Header(o).sync \/ Refuted(o, pushed + n)
    <3>1. ~Header(o).sync \/ Refuted(o, pushed)
      BY <2>1, Zenon DEF Searched
    <3>2. o \in Nat
      BY OutcomeParts
    <3>3. QED BY <1>1, <1>3, <3>1, <3>2, RefutedPeeks, MoreBytes, Zenon
  <2>5. \A o : Header(o)' = Header(o)
    BY <1>1, HeaderSame
  <2>6. Searches(s, pushed)'
    BY <1>1, <2>2, <2>5, Zenon DEF Searches, Invalid, Refuted, Begun
  <2>7. \A o \in From(s)..drained' + scan' - 1 : (~Header(o).sync \/ Refuted(o, pushed))'
    <3>1. \A o : Refuted(o, pushed)' <=> Refuted(o, pushed + n)
      BY <1>1, <2>5, Zenon DEF Refuted
    <3>2. From(s)..drained' + scan' - 1 = From(s)..drained + scan - 1
      BY <1>2, <1>3, <2>3
    <3>3. \A o : Header(o)'.sync = Header(o).sync
      BY <2>5, Zenon
    <3>4. ASSUME NEW o \in From(s)..drained' + scan' - 1
          PROVE  ~Header(o)'.sync \/ Refuted(o, pushed)'
      BY <2>4, <3>1, <3>2, <3>3, Zenon
    <3>5. QED BY <3>4, Zenon
  <2>8. From(s) <= drained' + scan'
    BY <2>1, <2>3, Zenon DEF Searched
  <2>9. QED BY <1>1, <2>1, <2>6, <2>7, <2>8, Zenon DEF Searched, From, Begun, Errors
<1>6. QED BY <1>1, <1>4, <1>5, Zenon DEF Behind

LEMMA MoreReplies ==
    ASSUME Contained, stream \in Streams, NEW s \in Outcomes, NEW t,
           NEW n \in Nat, NEW m \in Nat, n <= m, m <= Total, Replies(s, n, t)
    PROVE  Replies(s, m, t)
<1>1. s.at \in Nat /\ s.subs \in SubstreamCounts /\ From(s) \in Nat
  BY OutcomeParts
<1>2. CASE RepliesQueued(s, t)
  BY <1>2, Zenon DEF Replies
<1>3. CASE RepliesLocked(s, n, t)
  BY <1>1, <1>3, MoreBytes, Zenon DEF Replies, RepliesLocked
<1>4. CASE RepliesFound(s, n, t)
  <2>1. PICK c \in Sought(From(s), n) :
            IsLeast(c, Sought(From(s), n)) /\ Proven(c, n) /\ Recovered(s, c, t)
    BY <1>4, Zenon DEF RepliesFound
  <2>2. c \in From(s)..n - MinAuLen /\ Header(c).sync
    BY Zenon DEF Sought
  <2>3. c \in Nat /\ n - c >= MinAuLen /\ c \in From(s)..m - MinAuLen
    BY <1>1, <2>2, FramerConstants
  <2>4. Proven(c, m)
    BY <2>1, <2>3, MoreBytes, Zenon
  <2>5. Header(c).len \in Nat
    <3>1. n <= Total
      BY TotalNat
    <3>2. QED BY <2>3, <3>1, ReadingAt, Zenon
  <2>6. c \in Sought(From(s), m)
    BY <2>2, <2>3, <2>4, <2>5, Exclusive, Zenon DEF Sought
  <2>7. ASSUME NEW o \in Sought(From(s), m) PROVE c <= o
    <3>1. o \in From(s)..m - MinAuLen /\ Header(o).sync /\ ~Refuted(o, m)
      BY Zenon DEF Sought
    <3>2. SUFFICES ASSUME ~(c <= o) PROVE FALSE OBVIOUS
    <3>3. o \in Nat /\ n - o >= MinAuLen /\ o \in From(s)..n - MinAuLen
      BY <1>1, <2>2, <3>1, <3>2, FramerConstants
    <3>4. ~Refuted(o, n)
      BY <3>1, <3>3, MoreBytes, Zenon
    <3>5. o \in Sought(From(s), n)
      BY <3>1, <3>3, <3>4, Zenon DEF Sought
    <3>6. QED BY <2>1, <3>2, <3>5, Zenon DEF IsLeast
  <2>8. Searches(s, m)
    BY <1>4, MoreSearches, Zenon DEF RepliesFound
  <2>9. QED BY <2>1, <2>4, <2>6, <2>7, <2>8, Zenon DEF Replies, RepliesFound, IsLeast
<1>5. QED BY <1>2, <1>3, <1>4, Zenon DEF Replies

LEMMA LeastUnique ==
    ASSUME NEW S \in SUBSET Nat, NEW x, NEW y, IsLeast(x, S), IsLeast(y, S)
    PROVE  x = y
<1>1. x \in Nat /\ y \in Nat /\ x <= y /\ y <= x
  BY Zenon DEF IsLeast
<1>2. QED BY <1>1

\* What an outcome replies is settled.
LEMMA FoundUnique ==
    ASSUME NEW s \in Outcomes, NEW c \in Nat, NEW first \in s.at..c,
           NEW t, NEW u, Found(s, c, first, t), Found(s, c, first, u)
    PROVE  t = u
<1> DEFINE fragment == first - s.at
           lead     == HopsFrom(s.at, first)
           whole    == fragment > 0 /\ first \in lead
           lost     == IF whole THEN 0 ELSE fragment
           guess    == lost > 0 /\ (Begun(s) \/ lost > MaxAuLen)
           from     == s.at + lost
           ends     == ((IF whole THEN lead ELSE {}) \cup HopsFrom(first, c)) \ {from}
           number   == s.number + IF guess THEN Larger(1, Guess(s, lost)) ELSE 0
           flagged  == s.flagged \/ whole \/ guess
           errors   == Errors(s) + IF whole /\ ~Begun(s) THEN 1 ELSE 0
           subs     == Header(c).subs
           ThisAu(x)   == /\ from = c
                          /\ x = Told(s, "Au", from, Header(c).len, number, TRUE, lost, subs, {},
                                      flagged, errors)
           Skip(x)     == \E end \in ends :
                              /\ from < c /\ IsLeast(end, ends)
                              /\ x = Told(s, "Skipped", from, end - from, number, FALSE, lost, subs,
                                          ends \ {end}, flagged, errors)
<1>1. (ThisAu(t) \/ Skip(t)) /\ (ThisAu(u) \/ Skip(u))
  BY Zenon DEF Found
<1>2. ends \subseteq Nat
  <2>1. ends \subseteq lead \cup HopsFrom(first, c)
    OBVIOUS
  <2>2. lead \subseteq s.at..first /\ HopsFrom(first, c) \subseteq first..c
    BY HopsWithin
  <2>3. s.at..first \subseteq Nat /\ first..c \subseteq Nat
    BY OutcomeParts
  <2>4. QED BY <2>1, <2>2, <2>3, Zenon
<1>3. from = c => ~(from < c)
  BY SMT
<1> HIDE DEF from, ends, number, flagged, errors, subs, lost
<1>4. CASE from = c
  BY <1>1, <1>3, <1>4, Zenon
<1>5. CASE from # c
  <2>1. PICK d \in ends : /\ IsLeast(d, ends)
                          /\ t = Told(s, "Skipped", from, d - from, number, FALSE, lost, subs,
                                      ends \ {d}, flagged, errors)
    BY <1>1, <1>5, Zenon
  <2>2. PICK e \in ends : /\ IsLeast(e, ends)
                          /\ u = Told(s, "Skipped", from, e - from, number, FALSE, lost, subs,
                                      ends \ {e}, flagged, errors)
    BY <1>1, <1>5, Zenon
  <2>3. d = e
    BY <1>2, <2>1, <2>2, LeastUnique, Zenon
  <2>4. QED BY <2>1, <2>2, <2>3, Zenon
<1>6. QED BY <1>4, <1>5

LEMMA OneReply ==
    ASSUME stream \in Streams, NEW s \in Outcomes, NEW n \in Nat, n <= Total,
           NEW t, NEW u, Replies(s, n, t), Replies(s, n, u)
    PROVE  t = u
<1>1. s.at \in Nat /\ s.waiting \in SUBSET Nat /\ From(s) \in Nat
  BY OutcomeParts
<1>2. \A x : RepliesQueued(s, x) => s.waiting # {}
  BY Zenon DEF RepliesQueued
<1>3. \A x : RepliesLocked(s, n, x) \/ RepliesFound(s, n, x) => s.waiting = {}
  BY Zenon DEF RepliesLocked, RepliesFound, Searches
<1>4. \A x, y : ~(RepliesLocked(s, n, x) /\ RepliesFound(s, n, y))
  <2> SUFFICES ASSUME NEW x, NEW y, RepliesLocked(s, n, x), RepliesFound(s, n, y) PROVE FALSE
    OBVIOUS
  <2>1. Begun(s) /\ Valid(s.at, s.subs, n)
    BY Zenon DEF RepliesLocked
  <2>2. Invalid(s.at, s.subs, n) /\ n - s.at >= MinAuLen
    BY <2>1, Zenon DEF RepliesFound, Searches, Valid
  <2>3. Header(s.at).len \in Nat
    BY <1>1, <2>2, ReadingAt, Zenon
  <2>4. QED BY <2>1, <2>2, <2>3, Exclusive, Zenon
<1>5. CASE RepliesQueued(s, t) /\ RepliesQueued(s, u)
  <2>1. PICK d \in s.waiting : /\ IsLeast(d, s.waiting)
                               /\ t = Told(s, "Skipped", s.at, d - s.at, s.number, FALSE, 0, s.subs,
                                           s.waiting \ {d}, s.flagged, s.errors)
    BY <1>5, Zenon DEF RepliesQueued
  <2>2. PICK e \in s.waiting : /\ IsLeast(e, s.waiting)
                               /\ u = Told(s, "Skipped", s.at, e - s.at, s.number, FALSE, 0, s.subs,
                                           s.waiting \ {e}, s.flagged, s.errors)
    BY <1>5, Zenon DEF RepliesQueued
  <2>3. d = e
    BY <1>1, <2>1, <2>2, LeastUnique, Zenon
  <2>4. QED BY <2>1, <2>2, <2>3, Zenon
<1>6. CASE RepliesLocked(s, n, t) /\ RepliesLocked(s, n, u)
  BY <1>6, Zenon DEF RepliesLocked
<1>7. CASE RepliesFound(s, n, t) /\ RepliesFound(s, n, u)
  <2>1. PICK c \in Sought(From(s), n) : IsLeast(c, Sought(From(s), n)) /\ Recovered(s, c, t)
    BY <1>7, Zenon DEF RepliesFound
  <2>2. PICK d \in Sought(From(s), n) : IsLeast(d, Sought(From(s), n)) /\ Recovered(s, d, u)
    BY <1>7, Zenon DEF RepliesFound
  <2>3. Sought(From(s), n) \subseteq From(s)..n - MinAuLen
    BY Zenon DEF Sought
  <2>4. From(s)..n - MinAuLen \subseteq Nat
    BY <1>1, FramerConstants
  <2>5. c = d /\ c \in Nat
    BY <2>1, <2>2, <2>3, <2>4, LeastUnique, Zenon
  <2> DEFINE starts == ChainStarts(s.at, c, Header(c).subs) \cup {c}
  <2>6. starts \in SUBSET Nat
    <3>1. ChainStarts(s.at, c, Header(c).subs) \subseteq s.at..c - 1
      BY ChainWithin
    <3>2. s.at..c - 1 \subseteq Nat
      BY <1>1, <2>5
    <3>3. QED BY <2>5, <3>1, <3>2, Zenon
  <2>7. PICK first \in s.at..c : IsLeast(first, starts) /\ Found(s, c, first, t)
    BY <2>1, Zenon DEF Recovered
  <2>8. PICK other \in s.at..c : IsLeast(other, starts) /\ Found(s, c, other, u)
    BY <2>2, <2>5, Zenon DEF Recovered
  <2>9. first = other
    BY <2>6, <2>7, <2>8, LeastUnique, Zenon
  <2>10. QED BY <2>5, <2>7, <2>8, <2>9, FoundUnique, Zenon
<1>8. QED BY <1>2, <1>3, <1>4, <1>5, <1>6, <1>7, Zenon DEF Replies

-----------------------------------------------------------------------------
(* The two runs.                                                           *)

LEMMA ReplySame ==
    ASSUME stream' = stream, NEW s, NEW t
    PROVE  Follows(s, t)' <=> Follows(s, t)
  BY SMT DEF Follows, Total, Replies, RepliesQueued, RepliesLocked, RepliesFound, Searches,
             Invalid, Valid, Refuted, Proven, Sought, Found, Recovered, HopsFrom, ChainStarts,
             Header

LEMMA FirstRunKept ==
    ASSUME FirstRun, UNCHANGED <<stream, expected>>, run' # "whole" => run # "whole"
    PROVE  FirstRun'
<1>1. \A s, t : Follows(s, t)' <=> Follows(s, t)
  BY ReplySame
<1>2. \A s, m : IsSettled(s, m)' <=> IsSettled(s, m)
  BY Zenon DEF IsSettled
<1>3. expected' = expected /\ Len(expected)' = Len(expected)
  OBVIOUS
<1>4. expected' \in Seq(Outcomes)
  BY <1>3, Zenon DEF FirstRun
<1>5. ASSUME NEW m \in 0..Len(expected') - 1, NEW s \in Outcomes, NEW t \in Outcomes,
             IsSettled(s, m)', t = expected'[m + 1]
      PROVE  Follows(s, t)'
  BY <1>1, <1>2, <1>3, <1>5, Zenon DEF FirstRun
<1>6. ASSUME NEW s \in Outcomes, IsSettled(s, Len(expected))', run' # "whole"
      PROVE  \A t : ~Follows(s, t)'
  <2>1. IsSettled(s, Len(expected))
    BY <1>3, <1>6, Zenon DEF IsSettled
  <2>2. QED BY <1>1, <1>6, <2>1, Zenon DEF FirstRun
<1>7. QED BY <1>4, <1>5, <1>6, Zenon DEF FirstRun

LEMMA BeginningTyped == Beginning \in Outcomes
  BY PlainReplies, FramerConstants DEF Beginning, Outcomes

LEMMA OneSettled ==
    ASSUME FirstRun, NEW m \in 0..Len(expected)
    PROVE  \E s \in Outcomes : IsSettled(s, m)
<1>1. expected \in Seq(Outcomes) /\ Len(expected) \in Nat
  BY LenProperties DEF FirstRun
<1>2. CASE m = 0
  BY <1>2, BeginningTyped, Zenon DEF IsSettled
<1>3. CASE m # 0
  <2>1. expected[m] \in Outcomes
    BY <1>1, <1>3, ElementOfSeq
  <2>2. QED BY <1>3, <2>1, Zenon DEF IsSettled
<1>4. QED BY <1>2, <1>3

AtBeginning ==
    /\ consumed = 0 /\ ordinal = 0 /\ substreams = 0 /\ queued = {} /\ estimated = FALSE
    /\ framedAus = 0 /\ framedBytes = 0 /\ skippedBytes = 0 /\ syncErrors = 0
    /\ state = "Seeking" /\ afterDamage = FALSE /\ drained = 0 /\ scan = 0

LEMMA BeginningBehind == AtBeginning => Behind(Beginning)
<1> SUFFICES ASSUME AtBeginning PROVE Behind(Beginning) OBVIOUS
<1> USE DEF AtBeginning
<1>1. /\ Beginning.reply = Fresh /\ Beginning.at = 0 /\ Beginning.number = 0 /\ Beginning.subs = 0
      /\ Beginning.waiting = {} /\ Beginning.flagged = FALSE /\ Beginning.aus = 0
      /\ Beginning.bytes = 0 /\ Beginning.errors = 0 /\ Beginning.gone = 0
  BY DEF Beginning
<1>2. ~Begun(Beginning) /\ From(Beginning) = 0 /\ Errors(Beginning) = 0
  BY <1>1 DEF Begun, From, Errors
<1>3. Reached(Beginning)
  BY <1>1, Zenon DEF Reached
<1>4. Searches(Beginning, pushed)
  BY <1>1, <1>2, Zenon DEF Searches
<1>5. From(Beginning) <= drained + scan /\ From(Beginning)..drained + scan - 1 = {}
  BY <1>2
<1>6. Begun(Beginning) \in BOOLEAN
  BY DEF Begun
<1>7. afterDamage = Begun(Beginning)
  BY <1>2, <1>6
<1>8. Searched(Beginning)
  BY <1>2, <1>4, <1>5, <1>7, Zenon DEF Searched
<1>9. QED BY <1>3, <1>8 DEF Behind

LEMMA InitChunksHolds == InitChunks => ChunkInv
<1> SUFFICES ASSUME InitChunks PROVE ChunkInv OBVIOUS
<1>1. Init /\ run = "whole" /\ expected = <<>> /\ matched = 0 /\ differs = FALSE
  BY DEF InitChunks
<1>2. IInv /\ pushed = 0
  BY <1>1, InitHolds DEF Init
<1>3. expected \in Seq(Outcomes) /\ Len(expected) = 0
  BY <1>1
<1>4. FirstRun
  BY <1>1, <1>3 DEF FirstRun
<1>5. Beginning \in Outcomes /\ Behind(Beginning)
  BY <1>1, BeginningTyped, BeginningBehind DEF Init, AtBeginning
<1>6. ComeTo(Len(expected))
  BY <1>3, <1>5, Zenon DEF ComeTo, IsSettled
<1>7. QED BY <1>1, <1>2, <1>3, <1>4, <1>6 DEF ChunkInv, ChunkingIrrelevant

LEMMA OutcomeTyped == TypeOK => Outcome \in Outcomes
  BY DEF TypeOK, Outcome, Outcomes

LEMMA NextCallHolds == IInv /\ NextCall => IInv'
  BY StepKept, Zenon DEF Next

LEMMA PushWholeStep ==
    ASSUME Contained, ChunkInv, PushWhole
    PROVE  ChunkInv'
<1>1. /\ run = "whole" /\ pushed = 0 /\ Push(Total)
      /\ UNCHANGED <<run, expected, matched, differs>>
  BY Zenon DEF PushWhole, Total
<1>2. /\ IInv /\ FirstRun /\ matched \in 0..Len(expected) /\ matched = 0
      /\ ComeTo(Len(expected)) /\ ChunkingIrrelevant
  BY <1>1, Zenon DEF ChunkInv
<1>3. Total \in Nat /\ pushed' = Total /\ stream' = stream
  BY <1>1, <1>2, Places DEF Push
<1>4. IInv'
  BY <1>1, <1>2, <1>3, PushKeeps
<1>5. FirstRun'
  BY <1>1, <1>2, <1>3, FirstRunKept
<1>6. PICK s \in Outcomes : IsSettled(s, Len(expected)) /\ Behind(s)
  BY <1>2, Zenon DEF ComeTo
<1>7. Behind(s)'
  BY <1>1, <1>2, <1>3, <1>6, PushBehind
<1>8. ComeTo(Len(expected))'
  BY <1>1, <1>6, <1>7, Zenon DEF ComeTo, IsSettled
<1>9. pushed' = Total'
  BY <1>3 DEF Total
<1>10. QED BY <1>1, <1>2, <1>4, <1>5, <1>8, <1>9 DEF ChunkInv, ChunkingIrrelevant

LEMMA AgainStep ==
    ASSUME ChunkInv, Again
    PROVE  ChunkInv'
<1>1. /\ run = "drained" /\ run' = "pieces" /\ ClearBuffer
      /\ substreams' = 0 /\ framedAus' = 0 /\ framedBytes' = 0
      /\ UNCHANGED <<stream, resets, expected, matched, differs>>
  BY Zenon DEF Again
<1>2. IInv /\ FirstRun /\ matched = 0 /\ matched \in 0..Len(expected) /\ ChunkingIrrelevant
  BY <1>1, Zenon DEF ChunkInv
<1>3. IInv'
  <2>1. Total \in Nat /\ stream \in Streams /\ resets \in 0..MaxResets
    BY <1>2, Places DEF IInv, TypeOK
  <2>2. TypeOK'
    <3>1. afterDamage' \in BOOLEAN /\ estimated' \in BOOLEAN
      BY <1>1, Zenon DEF ClearBuffer
    <3>2. QED BY <1>1, <2>1, <3>1, FramerConstants, PlainReplies DEF ClearBuffer, TypeOK
  <2>3. InBounds'
    BY <1>1, <2>1 DEF ClearBuffer, InBounds, BufLen, Total
  <2>4. SearchKnowsDamage'
    BY <1>1 DEF ClearBuffer, SearchKnowsDamage
  <2>5. QED BY <2>2, <2>3, <2>4 DEF IInv
<1>4. FirstRun'
  BY <1>1, <1>2, FirstRunKept
<1>5. Beginning \in Outcomes /\ Behind(Beginning)'
  <2>1. AtBeginning'
    BY <1>1, Zenon DEF ClearBuffer, AtBeginning
  <2>2. Behind(Beginning)'
    BY <2>1, BeginningBehind, PTL
  <2>3. QED BY <2>2, BeginningTyped
<1>6. ComeTo(matched)'
  BY <1>1, <1>2, <1>5, Zenon DEF ComeTo, IsSettled
<1>7. QED BY <1>1, <1>2, <1>3, <1>4, <1>6 DEF ChunkInv, ChunkingIrrelevant

LEMMA PushPieceStep ==
    ASSUME Contained, ChunkInv, PushPiece
    PROVE  ChunkInv'
<1>1. PICK n \in 1..Len(stream.bytes) : Push(n)
  BY Zenon DEF PushPiece
<1>2. n \in Nat /\ run = "pieces" /\ UNCHANGED <<run, expected, matched, differs>>
  BY DEF PushPiece
<1>3. IInv /\ FirstRun /\ matched \in 0..Len(expected) /\ ComeTo(matched) /\ ChunkingIrrelevant
  BY <1>2, Zenon DEF ChunkInv
<1>4. stream' = stream
  BY <1>1 DEF Push
<1>5. IInv' /\ FirstRun'
  BY <1>1, <1>2, <1>3, <1>4, PushKeeps, FirstRunKept, Zenon
<1>6. PICK s \in Outcomes : IsSettled(s, matched) /\ Behind(s)
  BY <1>3, Zenon DEF ComeTo
<1>7. Behind(s)'
  BY <1>1, <1>2, <1>3, <1>6, PushBehind
<1>8. ComeTo(matched)'
  BY <1>2, <1>6, <1>7, Zenon DEF ComeTo, IsSettled
<1>9. QED BY <1>2, <1>3, <1>5, <1>8 DEF ChunkInv, ChunkingIrrelevant

LEMMA PullWholeStep ==
    ASSUME ChunkInv, PullWhole, last'.kind = "NeedData" => skippedBytes' = skippedBytes
    PROVE  ChunkInv'
<1>1. run = "whole" /\ pushed > 0 /\ NextCall /\ UNCHANGED <<matched, differs>>
  BY Zenon DEF PullWhole
<1>2. /\ IInv /\ FirstRun /\ matched = 0 /\ pushed \in {0, Total} /\ ComeTo(Len(expected))
      /\ ChunkingIrrelevant
  BY <1>1, Zenon DEF ChunkInv
<1>3. pushed = Total
  BY <1>1, <1>2
<1>4. IInv'
  BY <1>1, <1>2, NextCallHolds
<1>5. PICK s \in Outcomes : IsSettled(s, Len(expected)) /\ Behind(s)
  BY <1>2, Zenon DEF ComeTo
<1>6. /\ pushed' = pushed /\ stream' = stream
      /\ last'.kind = "NeedData" => Behind(s)' /\ \A t : ~Replies(s, pushed, t)
      /\ last'.kind # "NeedData" => \A t : t = Outcome' => Replies(s, pushed, t) /\ Behind(t)'
  BY <1>1, <1>2, <1>5, CallsReply
<1>7. expected \in Seq(Outcomes) /\ Len(expected) \in Nat
  BY <1>2, LenProperties DEF FirstRun
<1>8. CASE last'.kind = "NeedData"
  <2>1. run' = "drained" /\ expected' = expected
    BY <1>8 DEF PullWhole
  <2>2. \A t : ~Follows(s, t)
    BY <1>3, <1>6, <1>8, Zenon DEF Follows
  <2>3. \A z, m : IsSettled(z, m)' <=> IsSettled(z, m)
    BY <2>1, Zenon DEF IsSettled
  <2>4. \A z \in Outcomes : IsSettled(z, Len(expected)) => z = s
    BY <1>5, Zenon DEF IsSettled
  <2>5. FirstRun'
    <3>1. \A z, t : Follows(z, t)' <=> Follows(z, t)
      BY <1>6, ReplySame
    <3>2. expected' \in Seq(Outcomes) /\ Len(expected') = Len(expected)
      BY <1>7, <2>1
    <3>3. ASSUME NEW m \in 0..Len(expected') - 1, NEW y \in Outcomes, NEW t \in Outcomes,
                 IsSettled(y, m)', t = expected'[m + 1]
          PROVE  Follows(y, t)'
      BY <1>2, <2>1, <2>3, <3>1, <3>2, <3>3, Zenon DEF FirstRun
    <3>4. ASSUME NEW y \in Outcomes, IsSettled(y, Len(expected))'
          PROVE  \A t : ~Follows(y, t)'
      <4>1. y = s
        BY <2>1, <2>4, <3>4, Zenon DEF IsSettled
      <4>2. QED BY <2>2, <3>1, <4>1, Zenon
    <3>5. QED BY <3>2, <3>3, <3>4, Zenon DEF FirstRun
  <2>6. matched' \in 0..Len(expected')
    BY <1>1, <1>2, <1>7, <2>1
  <2>7. QED BY <1>1, <1>2, <1>4, <2>1, <2>5, <2>6 DEF ChunkInv, ChunkingIrrelevant
<1>9. CASE last'.kind # "NeedData"
  <2>1. PICK t : t = Outcome'
    OBVIOUS
  <2>2. run' = run /\ expected' = Append(expected, t)
    BY <1>9, <2>1 DEF PullWhole
  <2>3. Replies(s, pushed, t) /\ Behind(t)'
    BY <1>6, <1>9, <2>1, Zenon
  <2>4. t \in Outcomes
    <3>1. TypeOK'
      BY <1>4 DEF IInv
    <3>2. (Outcome \in Outcomes)'
      BY <3>1, OutcomeTyped, PTL
    <3>3. QED BY <2>1, <3>2
  <2>5. /\ expected' \in Seq(Outcomes) /\ Len(expected') = Len(expected) + 1
        /\ \A m \in 1..Len(expected) : expected'[m] = expected[m]
        /\ expected'[Len(expected) + 1] = t
    BY <1>7, <2>2, <2>4, AppendProperties
  <2>6. \A z, u : Follows(z, u)' <=> Follows(z, u)
    BY <1>6, ReplySame
  <2>7. FirstRun'
    <3>1. ASSUME NEW m \in 0..Len(expected') - 1, NEW y \in Outcomes, NEW u \in Outcomes,
                 IsSettled(y, m)', u = expected'[m + 1]
          PROVE  Follows(y, u)'
      <4>1. m \in 0..Len(expected) /\ m \in Nat
        BY <1>7, <2>5
      <4>2. IsSettled(y, m)
        <5>1. m # 0 => expected'[m] = expected[m]
          BY <1>7, <2>5, <4>1
        <5>2. y = IF m = 0 THEN Beginning ELSE expected'[m]
          BY <3>1, Zenon DEF IsSettled
        <5>3. QED BY <5>1, <5>2, Zenon DEF IsSettled
      <4>3. CASE m = Len(expected)
        <5>1. y = s /\ u = t
          BY <1>5, <2>5, <3>1, <4>2, <4>3, Zenon DEF IsSettled
        <5>2. Follows(s, t)
          BY <1>3, <2>3, Zenon DEF Follows
        <5>3. QED BY <2>6, <5>1, <5>2, Zenon
      <4>4. CASE m # Len(expected)
        <5>1. m \in 0..Len(expected) - 1 /\ m + 1 \in 1..Len(expected)
          BY <1>7, <4>1, <4>4
        <5>2. u = expected[m + 1]
          BY <2>5, <3>1, <5>1, Zenon
        <5>3. QED BY <1>2, <2>6, <4>2, <5>1, <5>2, Zenon DEF FirstRun
      <4>5. QED BY <4>3, <4>4
    <3>2. run' = "whole"
      BY <1>1, <2>2
    <3>3. QED BY <2>5, <3>1, <3>2, Zenon DEF FirstRun
  <2>8. ComeTo(Len(expected))'
    <3>1. IsSettled(t, Len(expected))'
      BY <1>7, <2>5 DEF IsSettled
    <3>2. QED BY <2>3, <2>4, <3>1, Zenon DEF ComeTo
  <2>9. pushed' = Total' /\ matched' \in 0..Len(expected')
    BY <1>1, <1>2, <1>3, <1>6, <1>7, <2>5 DEF Total
  <2>10. QED BY <1>1, <1>2, <1>4, <2>2, <2>7, <2>8, <2>9 DEF ChunkInv, ChunkingIrrelevant
<1>10. QED BY <1>8, <1>9

LEMMA PullPieceStep ==
    ASSUME Contained, ChunkInv, PullPiece,
           last'.kind = "NeedData" => skippedBytes' = skippedBytes
    PROVE  ChunkInv'
<1>1. run = "pieces" /\ NextCall /\ expected' = expected
  BY Zenon DEF PullPiece
<1>2. /\ IInv /\ FirstRun /\ matched \in 0..Len(expected) /\ ComeTo(matched)
      /\ ~differs
  BY <1>1, Zenon DEF ChunkInv, ChunkingIrrelevant
<1>3. IInv'
  BY <1>1, <1>2, NextCallHolds
<1>4. PICK s \in Outcomes : IsSettled(s, matched) /\ Behind(s)
  BY <1>2, Zenon DEF ComeTo
<1>5. /\ pushed' = pushed /\ stream' = stream
      /\ last'.kind = "NeedData" => Behind(s)' /\ \A t : ~Replies(s, pushed, t)
      /\ last'.kind # "NeedData" => \A t : t = Outcome' => Replies(s, pushed, t) /\ Behind(t)'
  BY <1>1, <1>2, <1>4, CallsReply
<1>6. expected \in Seq(Outcomes) /\ Len(expected) \in Nat
  BY <1>2, LenProperties DEF FirstRun
<1>7. FirstRun'
  BY <1>1, <1>2, <1>5, FirstRunKept
<1>8. /\ pushed \in Nat /\ Total \in Nat /\ pushed <= Total /\ Total <= Total
      /\ stream \in Streams
  BY <1>2, Places
\* While the first run goes on from here, so does the reply to come.
<1>9. ASSUME matched < Len(expected)
      PROVE  /\ matched + 1 \in 1..Len(expected)
             /\ expected[matched + 1] \in Outcomes
             /\ Replies(s, Total, expected[matched + 1])
  <2>1. matched \in 0..Len(expected) - 1 /\ matched + 1 \in 1..Len(expected)
    BY <1>2, <1>6, <1>9
  <2>2. expected[matched + 1] \in Outcomes
    BY <1>6, <2>1, ElementOfSeq
  <2>3. QED BY <1>2, <1>4, <2>1, <2>2, Zenon DEF FirstRun, Follows
<1>10. ASSUME matched = Len(expected)
       PROVE  \A t : ~Replies(s, Total, t)
  BY <1>1, <1>2, <1>4, <1>10, Zenon DEF FirstRun, Follows
<1>11. CASE last'.kind = "NeedData"
  <2>1. /\ run' = IF pushed = Total THEN "done" ELSE "pieces"
        /\ matched' = matched /\ differs' = differs
    BY <1>11 DEF PullPiece, Total
  <2>2. ComeTo(matched)'
    BY <1>1, <1>4, <1>5, <1>11, <2>1, Zenon DEF ComeTo, IsSettled
  <2>3. run' = "done" => matched' = Len(expected')
    <3>1. SUFFICES ASSUME pushed = Total, matched # Len(expected) PROVE FALSE
      BY <1>1, <2>1
    <3>2. matched < Len(expected)
      BY <1>2, <1>6, <3>1
    <3>3. QED BY <1>5, <1>9, <1>11, <3>1, <3>2, Zenon
  <2>4. QED BY <1>1, <1>2, <1>3, <1>7, <2>1, <2>2, <2>3 DEF ChunkInv, ChunkingIrrelevant
<1>12. CASE last'.kind # "NeedData"
  <2>1. PICK t : t = Outcome'
    OBVIOUS
  <2>2. /\ run' = run /\ matched' = matched + 1
        /\ differs' = (differs \/ matched >= Len(expected) \/ expected[matched + 1] # t)
    BY <1>12, <2>1, Zenon DEF PullPiece
  <2>3. Replies(s, Total, t) /\ Behind(t)'
    BY <1>5, <1>8, <1>12, <2>1, MoreReplies, Zenon
  <2>4. matched < Len(expected)
    <3>1. matched # Len(expected)
      BY <1>10, <2>3, Zenon
    <3>2. QED BY <1>2, <1>6, <3>1
  <2>5. expected[matched + 1] = t
    BY <1>8, <1>9, <2>3, <2>4, OneReply, Zenon
  <2>6. ~differs'
    <3>1. ~(matched >= Len(expected))
      BY <1>2, <1>6, <2>4
    <3>2. QED BY <1>2, <2>2, <2>5, <3>1, Zenon
  <2>7. ComeTo(matched)'
    <3>1. matched' # 0 /\ expected'[matched'] = t
      BY <1>1, <1>2, <2>2, <2>5
    <3>2. IsSettled(t, matched)' /\ t \in Outcomes
      BY <1>9, <2>4, <2>5, <3>1, Zenon DEF IsSettled
    <3>3. QED BY <2>3, <3>2, Zenon DEF ComeTo
  <2>8. matched' \in 0..Len(expected')
    BY <1>1, <1>2, <1>6, <2>2, <2>4
  <2>9. QED BY <1>1, <1>3, <1>7, <2>2, <2>6, <2>7, <2>8 DEF ChunkInv, ChunkingIrrelevant
<1>13. QED BY <1>11, <1>12

-----------------------------------------------------------------------------
\* A call that needs data lets nothing go: what the framer holds never grows past
\* MaxRetained without a sync word in it.
NothingLetGo == [][last'.kind = "NeedData" => UNCHANGED skippedBytes]_chunkVars

LEMMA ChunkStep ==
    ASSUME Contained, ChunkInv, [NextChunks]_chunkVars,
           [last'.kind = "NeedData" => UNCHANGED skippedBytes]_chunkVars
    PROVE  ChunkInv'
<1>1. CASE UNCHANGED chunkVars
  <2>1. UNCHANGED <<run, expected, matched, differs>> /\ UNCHANGED vars
    BY <1>1 DEF chunkVars
  <2>2. stream' = stream /\ pushed' = pushed
    BY <2>1 DEF vars
  <2>3. IInv /\ FirstRun
    BY Zenon DEF ChunkInv
  <2>4. IInv'
    BY <2>1, <2>3, StepKept
  <2>5. FirstRun'
    BY <2>1, <2>2, <2>3, FirstRunKept
  <2>6. \A s : Behind(s)' <=> Behind(s)
    <3>1. UNCHANGED <<stream, pushed, drained, cursor, consumed, state, scan, afterDamage,
                      queued, substreams, ordinal, estimated, framedAus, framedBytes,
                      syncErrors, skippedBytes>>
      BY <2>1 DEF vars
    <3>2. QED BY <3>1, BehindSame, Zenon
  <2>8. (ComeTo(matched))' <=> ComeTo(matched)
    BY <2>1, <2>6, Zenon DEF ComeTo, IsSettled
  <2>9. (ComeTo(Len(expected)))' <=> ComeTo(Len(expected))
    BY <2>1, <2>6, Zenon DEF ComeTo, IsSettled
  <2>10. Total' = Total
    BY <2>2 DEF Total
  <2>11. QED BY <2>1, <2>2, <2>4, <2>5, <2>8, <2>9, <2>10, Zenon DEF ChunkInv, ChunkingIrrelevant
<1>2. CASE /\ NextChunks
           /\ last'.kind = "NeedData" => UNCHANGED skippedBytes
  BY <1>2, PushWholeStep, PullWholeStep, AgainStep, PushPieceStep, PullPieceStep, Zenon
     DEF NextChunks
<1>3. QED BY <1>1, <1>2, Zenon

\* However the bytes are cut into pushes, next() reports the same access units with
\* the same numbers, flags and counters, and all of them (framer.rs:124-227), on
\* streams whose substream directories end inside their access units, as long as
\* no bytes are let go for want of a sync word.
THEOREM ChunkingChangesNothing ==
    Contained /\ SpecChunks /\ NothingLetGo => []ChunkingIrrelevant
<1> SUFFICES ASSUME Contained PROVE SpecChunks /\ NothingLetGo => []ChunkingIrrelevant
  OBVIOUS
<1>1. InitChunks => ChunkInv
  BY InitChunksHolds
<1>2. /\ ChunkInv /\ [NextChunks]_chunkVars
      /\ [last'.kind = "NeedData" => UNCHANGED skippedBytes]_chunkVars
      => ChunkInv'
  BY ChunkStep
<1>3. ChunkInv => ChunkingIrrelevant
  BY DEF ChunkInv
<1>4. QED BY <1>1, <1>2, <1>3, PTL DEF SpecChunks, NothingLetGo

LEMMA ShortKept ==
    ASSUME Short, ChunkInv, NextChunks
    PROVE  last'.kind = "NeedData" => UNCHANGED skippedBytes
<1>1. IInv
  BY DEF ChunkInv
<1>2. CASE PullWhole \/ PullPiece
  <2> NextCall
    BY <1>2 DEF PullWhole, PullPiece
  <2>1. CASE NextQueued
    BY <2>1 DEF NextQueued
  <2>2. CASE NextLocked
    BY <2>2 DEF NextLocked
  <2>3. CASE NextStarved
    BY <2>3 DEF NextStarved
  <2>4. CASE SeekNothing
    <3> DEFINE resume == Larger(BufLen - ScanKeep, SearchFrom)
               idle   == resume - cursor
    <3>1. /\ Searching
          /\ IF idle > MaxRetained
             THEN skippedBytes' = skippedBytes + idle
             ELSE UNCHANGED <<ordinal, estimated, skippedBytes, cursor, consumed>>
      BY <2>4, Zenon DEF SeekNothing
    <3>2. /\ SearchFrom \in Nat /\ SearchFrom <= BufLen /\ BufLen \in Nat
          /\ ScanKeep = MinAuLen - 1 /\ MinAuLen \in Nat \ {0} /\ MaxRetained \in Nat
          /\ BufLen = pushed - drained /\ pushed \in Nat /\ drained \in Nat /\ cursor \in Nat
          /\ pushed <= Total /\ Total \in Nat
      BY <1>1, <3>1, SearchStart, Places, FramerConstants DEF BufLen
    <3>3. Total <= MaxRetained
      BY <1>1, Places, Zenon DEF Short, Total
    <3>4. resume <= BufLen /\ resume \in Nat
      BY <3>2 DEF Larger
    <3> HIDE DEF resume
    <3>5. ~(idle > MaxRetained)
      BY <3>2, <3>3, <3>4
    <3>6. QED BY <3>1, <3>5
  <2>5. CASE SeekUndecided
    BY <2>5 DEF SeekUndecided
  <2>6. CASE SeekFound
    <3>1. run = "whole" \/ run = "pieces"
      BY <1>2 DEF PullWhole, PullPiece
    <3>2. PICK s \in Outcomes : Behind(s)
      BY <3>1, Zenon DEF ChunkInv, ComeTo
    <3>3. Searching
      BY <2>6, Zenon DEF SeekFound
    <3>4. PICK c \in SyncCandidates : Resync(c)
      BY <2>6, Zenon DEF SeekFound
    <3>5. c \in Nat
      BY <1>1, <3>2, <3>3, CandidatesSought, Zenon
    <3>6. last'.kind \in {"Au", "Skipped"}
      BY <1>1, <3>2, <3>3, <3>4, <3>5, ResyncRecovers, Zenon
    <3>7. QED BY <3>6
  <2>7. QED BY <2>1, <2>2, <2>3, <2>4, <2>5, <2>6, Zenon DEF NextCall
<1>3. CASE PushWhole \/ Again \/ PushPiece
  <2>1. last' = Fresh
    BY <1>3 DEF PushWhole, Again, PushPiece, Push, ClearBuffer
  <2>2. QED BY <2>1 DEF Fresh
<1>4. QED BY <1>2, <1>3 DEF NextChunks

\* On streams no longer than what is retained, nothing more need be assumed.
THEOREM ShortStreamsAnyChunking ==
    Contained /\ Short /\ SpecChunks => []ChunkingIrrelevant
<1> SUFFICES ASSUME Contained, Short PROVE SpecChunks => []ChunkingIrrelevant
  OBVIOUS
<1>1. ChunkInv /\ [NextChunks]_chunkVars => ChunkInv'
  <2> SUFFICES ASSUME ChunkInv, [NextChunks]_chunkVars PROVE ChunkInv' OBVIOUS
  <2>1. [last'.kind = "NeedData" => UNCHANGED skippedBytes]_chunkVars
    BY ShortKept, Zenon
  <2>2. QED BY <2>1, ChunkStep
<1>2. QED BY <1>1, InitChunksHolds, PTL DEF SpecChunks, ChunkInv
=============================================================================
