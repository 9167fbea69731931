------------------------------ MODULE AuFramer ------------------------------
(***************************************************************************)
(* The access-unit framer (src/src/framer.rs) as its caller drives it:     *)
(* bytes are pushed in arbitrary pieces, and every call of next() reports  *)
(* an access unit to decode, an access unit that can only be counted, or   *)
(* that more bytes are needed.                                             *)
(*                                                                         *)
(* The data is abstracted to what the framer reads of it.  A byte stream   *)
(* is a sequence of "readings", one for each byte offset: what the header  *)
(* checks would find if an access unit started there.                      *)
(*   len   the length field, au_len()                                      *)
(*   sync  a major sync word stands four bytes in                          *)
(*   subs  the substream count a major sync at this offset declares        *)
(*   pass  the substream counts for which the header checks succeed:       *)
(*         nibble parity, and for a major sync also the CRC                *)
(*   dir   bytes from here to the end of the substream directory, for each *)
(*         substream count                                                 *)
(* Every offset has a reading, the ones inside an access unit as well:     *)
(* payload bytes may look like a header.                                   *)
(*                                                                         *)
(* The buffer is a window of the stream: buf[i] is the byte at offset      *)
(* drained + i, and the window ends at pushed.                             *)
(***************************************************************************)
EXTENDS Integers, Sequences, FiniteSets

CONSTANTS
    Streams,          \* what callers push: records [bytes, starts]
    Seekable,         \* those of them a seek may go to
    SubstreamCounts,  \* substream counts a major sync can declare, and 0
    MinAuLen,         \* MIN_AU_LEN: a header and a sync word
    MaxAuLen,         \* MAX_AU_LEN: the most the 12-bit length field states
    AuAlign,          \* access units are whole 16-bit words
    MsiPeek,          \* bytes needed to know the major sync info's length
    MsiEnd,           \* a major sync access unit is longer than this
    ScanKeep,         \* SCAN_KEEP
    MaxRetained,      \* MAX_RETAINED
    DefaultAuLen,     \* the average assumed before anything was framed
    CompactAt,        \* a consumed prefix this long is always drained
    MaxPending,       \* MAX_PENDING_INPUT of the engine's push()
    MaxResets         \* bound on the number of seeks in a behaviour

Reading == [len : 0..MaxAuLen, sync : BOOLEAN, subs : SubstreamCounts,
            pass : SUBSET SubstreamCounts, dir : [SubstreamCounts -> Nat]]

ASSUME FramerConstants ==
    /\ MinAuLen \in Nat \ {0}
    /\ MaxAuLen \in Nat /\ MinAuLen <= MaxAuLen
    /\ AuAlign \in Nat \ {0}
    /\ MsiPeek \in Nat /\ MsiEnd \in Nat
    /\ MinAuLen <= MsiPeek /\ MsiPeek <= MsiEnd
    /\ ScanKeep = MinAuLen - 1
    /\ MaxRetained \in Nat /\ CompactAt \in Nat /\ MaxPending \in Nat
    /\ DefaultAuLen \in Nat \ {0}
    /\ MaxResets \in Nat
    /\ 0 \in SubstreamCounts /\ SubstreamCounts \subseteq Nat

\* starts: the offsets at which the encoder began an access unit.  The
\* framer never sees them; the properties compare its reports with them.
ASSUME StreamsAreReadings ==
    /\ \A s \in Streams : s.bytes \in Seq(Reading) /\ s.starts \subseteq Nat
    /\ Seekable \subseteq Streams

VARIABLES
    stream,       \* the stream being pushed, fixed until the next seek
    pushed,       \* bytes of it pushed so far
    drained,      \* bytes removed from the front of buf
    cursor,       \* index into buf of the first unconsumed byte
    consumed,     \* stream offset of buf[cursor], as the framer counts it
    state,        \* "Locked" or "Seeking"
    scan,         \* Seeking: index the search continues from
    afterDamage,  \* Seeking: the cursor is an access unit that failed
    queued,       \* end offsets of the counted access units still to report
    substreams,   \* declared by the last accepted major sync
    ordinal,      \* number of the next access unit
    estimated,    \* an ordinal handed out rests on an estimate
    framedAus,    \* access units framed since creation
    framedBytes,  \* and their bytes
    syncErrors,
    skippedBytes,
    last,         \* what next() just returned, Fresh after another operation
    resets        \* seeks so far (bound only)

vars == <<stream, pushed, drained, cursor, consumed, state, scan, afterDamage,
          queued, substreams, ordinal, estimated, framedAus, framedBytes,
          syncErrors, skippedBytes, last, resets>>

BufLen  == pushed - drained
Pending == BufLen - cursor

NeedData == [kind |-> "NeedData"]
Fresh    == [kind |-> "None"]

IsLeast(x, S) == x \in S /\ \A y \in S : x <= y
Larger(a, b)  == IF a >= b THEN a ELSE b

-----------------------------------------------------------------------------
(* What the checks find at a stream offset or a buffer index.              *)

Header(offset) == stream.bytes[offset + 1]
At(i)          == Header(drained + i)
Left(i)        == BufLen - i

\* major_sync_at: Some(Some(_)), Some(None), and None when neither holds.
SyncProven(i) ==
    /\ At(i).len > MsiEnd
    /\ Left(i) >= At(i).len
    /\ At(i).subs \in At(i).pass
\* Mutants: one that never rejects a complete access unit, one that rejects an
\* incomplete one.
SyncRefuted_LengthOnly(i) == Left(i) >= MsiPeek /\ At(i).len <= MsiEnd
SyncRefuted_Incomplete(i) ==
    /\ Left(i) >= MsiPeek
    /\ At(i).len <= MsiEnd \/ Left(i) < At(i).len \/ At(i).subs \notin At(i).pass
SyncRefuted(i) ==
    /\ Left(i) >= MsiPeek
    /\ \/ At(i).len <= MsiEnd
       \/ Left(i) >= At(i).len /\ At(i).subs \notin At(i).pass

\* check_at: Valid, Invalid, and NeedData when neither holds.
AuValid(i) ==
    /\ Left(i) >= MinAuLen
    /\ At(i).len >= MinAuLen
    /\ IF At(i).sync
       THEN SyncProven(i)
       ELSE /\ Left(i) >= At(i).dir[substreams] /\ substreams \in At(i).pass
            /\ Left(i) >= At(i).len
AuInvalid(i) ==
    /\ Left(i) >= MinAuLen
    /\ \/ At(i).len < MinAuLen
       \/ At(i).sync /\ SyncRefuted(i)
       \/ /\ ~At(i).sync
          /\ IF Left(i) >= At(i).dir[substreams]
             THEN substreams \notin At(i).pass
             ELSE Left(i) >= At(i).len

\* (bytes / average_au_len()).round()
Estimate(bytes) ==
    IF framedAus = 0
    THEN (2 * bytes + DefaultAuLen) \div (2 * DefaultAuLen)
    ELSE (2 * bytes * framedAus + framedBytes) \div (2 * framedBytes)

-----------------------------------------------------------------------------
(* Chaining back from a major sync: offsets are stream offsets.            *)

\* Mutant: a chain may end anywhere before the major sync.
ChainStarts_AnyEnd(from, sync, subs) ==
    {p \in from..sync - 1 :
        LET h == Header(p) IN
        /\ h.len >= MinAuLen /\ p + h.len <= sync
        /\ ~h.sync /\ h.dir[subs] <= h.len /\ subs \in h.pass}

\* The offsets from `from` on whose length fields lead, hop by hop and with
\* valid parity, exactly onto the major sync at `sync`.
ChainStarts(from, sync, subs) ==
    LET onChain[p \in from..sync - 1] ==
            LET h == Header(p) IN
            /\ (sync - p) % AuAlign = 0
            /\ h.len >= MinAuLen /\ p + h.len <= sync
            /\ ~h.sync
            /\ h.dir[subs] <= h.len /\ subs \in h.pass
            /\ p + h.len < sync => onChain[p + h.len]
    IN  {p \in from..sync - 1 : onChain[p]}

\* The offsets reached from `from` by following length fields, up to `to`.
HopsFrom(from, to) ==
    LET reached[p \in from..to] ==
            \/ p = from
            \/ \E q \in from..p - 1 :
                   /\ Header(q).len >= MinAuLen
                   /\ q + Header(q).len = p
                   /\ reached[q]
    IN  {p \in from..to : reached[p]}

-----------------------------------------------------------------------------
(* The caller's operations.                                                *)

\* Mutants: the search position is left where it was, or moved in any state.
Compact_ScanKept ==
    IF cursor > 0
    THEN drained' = drained + cursor /\ cursor' = 0 /\ UNCHANGED scan
    ELSE UNCHANGED <<drained, cursor, scan>>
Compact_ScanMoved ==
    drained' = drained + cursor /\ cursor' = 0 /\ scan' = scan - cursor

\* compact(): drains the consumed prefix; whether the vector is short of
\* room for what comes in is left open.
Compact ==
    \E needsRoom \in BOOLEAN :
        IF /\ cursor > 0
           /\ \/ cursor = BufLen \/ needsRoom
              \/ cursor >= CompactAt \/ 2 * cursor >= BufLen
        THEN /\ drained' = drained + cursor
             /\ cursor' = 0
             /\ scan' = IF state = "Seeking" THEN scan - cursor ELSE scan
        ELSE UNCHANGED <<drained, cursor, scan>>

\* Mutant: bytes already consumed count against the limit.
MayPush_WholeBuffer(n) == BufLen + n <= MaxPending

\* Engine::push accepts n more bytes; beyond the limit it refuses them and
\* changes nothing.
MayPush(n) == Pending + n <= MaxPending

Push(n) ==
    /\ MayPush(n)
    /\ pushed + n <= Len(stream.bytes)
    /\ Compact
    /\ pushed' = pushed + n
    /\ last' = Fresh
    /\ UNCHANGED <<stream, consumed, state, afterDamage, queued, substreams,
                   ordinal, estimated, framedAus, framedBytes, syncErrors,
                   skippedBytes, resets>>

\* Framer::reset(): everything buffered is dropped and counting restarts.
ClearBuffer ==
    /\ pushed' = 0 /\ drained' = 0 /\ cursor' = 0 /\ consumed' = 0
    /\ state' = "Seeking" /\ scan' = 0 /\ afterDamage' = FALSE
    /\ queued' = {}
    /\ ordinal' = 0 /\ estimated' = FALSE
    /\ syncErrors' = 0 /\ skippedBytes' = 0
    /\ last' = Fresh

\* A seek, also into another stream.  The substream count and the averages survive.
Reset ==
    /\ resets < MaxResets /\ resets' = resets + 1
    /\ stream' \in Seekable
    /\ ClearBuffer
    /\ UNCHANGED <<substreams, framedAus, framedBytes>>

-----------------------------------------------------------------------------
(* One call of next().                                                     *)

\* Mutant: the stream offset does not advance over the bytes let go.
Report_LostKept(kind, offset, len, number, major, lost) ==
    /\ last' = [kind |-> kind, offset |-> offset, len |-> len,
                ordinal |-> number, major |-> major]
    /\ ordinal' = number + 1
    /\ framedAus' = framedAus + 1
    /\ framedBytes' = framedBytes + len
    /\ cursor' = cursor + lost + len
    /\ consumed' = consumed + len

\* An access unit of `len` bytes at stream offset `offset` is handed out
\* with number `number`, after `lost` bytes in front of it were let go.
Report(kind, offset, len, number, major, lost) ==
    /\ last' = [kind |-> kind, offset |-> offset, len |-> len,
                ordinal |-> number, major |-> major]
    /\ ordinal' = number + 1
    /\ framedAus' = framedAus + 1
    /\ framedBytes' = framedBytes + len
    /\ cursor' = cursor + lost + len
    /\ consumed' = consumed + lost + len

\* The next access unit recovered by chaining back.
NextQueued ==
    /\ \E end \in queued :
           /\ IsLeast(end, queued)
           /\ Report("Skipped", consumed, end - consumed, ordinal, FALSE, 0)
           /\ queued' = queued \ {end}
    /\ UNCHANGED <<stream, pushed, drained, state, scan, afterDamage,
                   substreams, estimated, syncErrors, skippedBytes, resets>>

\* In the chain: the access unit at the cursor passes its checks.
NextLocked ==
    /\ queued = {} /\ state = "Locked" /\ AuValid(cursor)
    /\ Report("Au", consumed, At(cursor).len, ordinal, At(cursor).sync, 0)
    /\ substreams' = IF At(cursor).sync THEN At(cursor).subs ELSE substreams
    /\ UNCHANGED <<stream, pushed, drained, state, scan, afterDamage, queued,
                   estimated, syncErrors, skippedBytes, resets>>

NextStarved ==
    /\ queued = {} /\ state = "Locked"
    /\ ~AuValid(cursor) /\ ~AuInvalid(cursor)
    /\ last' = NeedData
    /\ UNCHANGED <<stream, pushed, drained, cursor, consumed, state, scan,
                   afterDamage, queued, substreams, ordinal, estimated,
                   framedAus, framedBytes, syncErrors, skippedBytes, resets>>

\* The call searches for a major sync: it was seeking already, or the access
\* unit at the cursor has just failed its checks.
Searching  == queued = {} /\ (state = "Seeking" \/ AuInvalid(cursor))
SearchFrom == IF state = "Seeking" THEN scan ELSE cursor + 1
\* Mutant: the failure that has just started the search is forgotten.
Damaged_Stale == state = "Seeking" /\ afterDamage
Damaged    == IF state = "Seeking" THEN afterDamage ELSE TRUE
\* Mutant: a failed check is only counted when its search ends.
ErrorsNow_Late == syncErrors
ErrorsNow  == IF state = "Seeking" THEN syncErrors ELSE syncErrors + 1

\* Sync words in the buffer that have not turned out to be spurious.
SyncCandidates ==
    {c \in SearchFrom..BufLen - MinAuLen : At(c).sync /\ ~SyncRefuted(c)}

\* No sync word: all is kept, until it has grown past what is retained.
SeekNothing ==
    /\ Searching /\ SyncCandidates = {}
    /\ LET resume == Larger(BufLen - ScanKeep, SearchFrom)
           idle   == resume - cursor
       IN  /\ scan' = resume
           /\ IF idle > MaxRetained
              THEN /\ ordinal' = ordinal + Estimate(idle)
                   /\ estimated' = TRUE
                   /\ skippedBytes' = skippedBytes + idle
                   /\ cursor' = cursor + idle
                   /\ consumed' = consumed + idle
              ELSE UNCHANGED <<ordinal, estimated, skippedBytes, cursor, consumed>>
    /\ state' = "Seeking" /\ afterDamage' = Damaged
    /\ syncErrors' = ErrorsNow
    /\ last' = NeedData
    /\ UNCHANGED <<stream, pushed, drained, queued, substreams, framedAus,
                   framedBytes, resets>>

\* A sync word whose access unit is not yet complete.
SeekUndecided ==
    /\ Searching
    /\ \E c \in SyncCandidates :
           IsLeast(c, SyncCandidates) /\ ~SyncProven(c) /\ scan' = c
    /\ state' = "Seeking" /\ afterDamage' = Damaged
    /\ syncErrors' = ErrorsNow
    /\ last' = NeedData
    /\ UNCHANGED <<stream, pushed, drained, cursor, consumed, queued,
                   substreams, ordinal, estimated, framedAus, framedBytes,
                   skippedBytes, resets>>

\* A major sync: the access units before it are recovered (chain_back), the
\* fragment in front of them is counted, estimated or left out, and the first
\* of what is left is reported.
Resync(c) ==
    \E first \in consumed..drained + c :
        LET sync     == drained + c
            subs     == At(c).subs
            fragment == first - consumed
            lead     == HopsFrom(consumed, first)
            whole    == fragment > 0 /\ first \in lead
            lost     == IF whole THEN 0 ELSE fragment
            guess    == lost > 0 /\ (Damaged \/ lost > MaxAuLen)
            from     == consumed + lost
            ends     == ((IF whole THEN lead ELSE {}) \cup HopsFrom(first, sync))
                            \ {from}
            number   == ordinal + IF guess THEN Larger(1, Estimate(lost)) ELSE 0
        IN  /\ IsLeast(first, ChainStarts(consumed, sync, subs) \cup {sync})
            /\ substreams' = subs
            /\ syncErrors' = ErrorsNow + IF whole /\ ~Damaged THEN 1 ELSE 0
            /\ estimated' = (estimated \/ whole \/ guess)
            /\ skippedBytes' = skippedBytes + lost
            /\ \/ /\ from = sync
                  /\ Report("Au", from, At(c).len, number, TRUE, lost)
                  /\ queued' = {}
               \/ \E end \in ends :
                     /\ from < sync /\ IsLeast(end, ends)
                     /\ Report("Skipped", from, end - from, number, FALSE, lost)
                     /\ queued' = ends \ {end}

SeekFound ==
    /\ Searching
    /\ \E c \in SyncCandidates :
           IsLeast(c, SyncCandidates) /\ SyncProven(c) /\ Resync(c)
    /\ state' = "Locked" /\ scan' = 0 /\ afterDamage' = FALSE
    /\ UNCHANGED <<stream, pushed, drained, resets>>

NextCall ==
    \/ NextQueued \/ NextLocked \/ NextStarved
    \/ SeekNothing \/ SeekUndecided \/ SeekFound

-----------------------------------------------------------------------------
Init ==
    /\ stream \in Streams
    /\ pushed = 0 /\ drained = 0 /\ cursor = 0 /\ consumed = 0
    /\ state = "Seeking" /\ scan = 0 /\ afterDamage = FALSE
    /\ queued = {}
    /\ substreams = 0
    /\ ordinal = 0 /\ estimated = FALSE
    /\ framedAus = 0 /\ framedBytes = 0
    /\ syncErrors = 0 /\ skippedBytes = 0
    /\ last = Fresh
    /\ resets = 0

Next ==
    \/ \E n \in 1..Len(stream.bytes) : Push(n)
    \/ NextCall
    \/ Reset

Spec == Init /\ [][Next]_vars

\* The caller keeps pushing and pulling; nothing obliges it to seek.
Fairness == WF_vars(NextCall) /\ WF_vars(\E n \in 1..Len(stream.bytes) : Push(n))
FairSpec == Spec /\ Fairness

-----------------------------------------------------------------------------
(* Properties.                                                             *)

Reply == [kind : {"Au", "Skipped"}, offset : Nat, len : Nat, ordinal : Nat,
          major : BOOLEAN] \cup {NeedData, Fresh}

Reported == last.kind \in {"Au", "Skipped"}

\* Every variable stays in its type.
TypeOK ==
    /\ stream \in Streams
    /\ pushed \in Nat /\ drained \in Nat /\ cursor \in Nat /\ consumed \in Nat
    /\ state \in {"Locked", "Seeking"} /\ scan \in Nat /\ afterDamage \in BOOLEAN
    /\ queued \in SUBSET Nat
    /\ substreams \in SubstreamCounts
    /\ ordinal \in Nat /\ estimated \in BOOLEAN
    /\ framedAus \in Nat /\ framedBytes \in Nat
    /\ syncErrors \in Nat /\ skippedBytes \in Nat
    /\ last \in Reply
    /\ resets \in 0..MaxResets

\* Nothing next() indexes lies outside the bytes held: the cursor, the search
\* position (whatever compact() moved) and the access units queued by chaining
\* back stay inside the buffer, and the stream offset counted along with the
\* cursor is that of the byte under it (a slice out of range panics).  The
\* averages an estimate divides by are those of real access units.
InBounds ==
    /\ pushed <= Len(stream.bytes)
    /\ consumed = drained + cursor
    /\ consumed <= pushed
    /\ state = "Seeking" => cursor <= scan /\ scan <= BufLen
    /\ queued \subseteq consumed + 1..pushed
    /\ framedAus > 0 => framedBytes > 0

\* A search takes the bytes in front of it for the tail of an access unit that
\* began before the first byte pushed only when nothing was ever numbered, or
\* the numbers are flagged already: bytes behind an access unit reported with an
\* exact number are never left out of the count in silence.  Nor does a search
\* begin while recovered access units wait to be reported.
SearchKnowsDamage ==
    state = "Seeking" =>
        /\ queued = {}
        /\ ~afterDamage => ordinal = 0 \/ estimated

\* The access units recovered by chaining back are what the length fields
\* say, and they lead onto a major sync: a queue never ends in mid-stream, and
\* when the last unit of it has been reported the next one is a major sync
\* that passes its checks.
SkipsLeadToSync ==
    LET stops == {consumed} \cup queued
    IN  (queued # {} \/ last.kind = "Skipped") =>
            \A p \in stops :
                LET later == {e \in queued : e > p}
                IN  IF later = {}
                    THEN SyncProven(p - drained) /\ Header(p).subs = substreams
                    ELSE IsLeast(p + Header(p).len, later)

\* Unless it is flagged, the number of an access unit is the number of access
\* units that really start before it in the bytes pushed since the seek.
OrdinalsExact ==
    Reported /\ ~estimated =>
        /\ last.offset \in stream.starts
        /\ last.ordinal = Cardinality({s \in stream.starts : s < last.offset})

\* Pull and push never both refuse: when next() needs more data, push() takes
\* some.  (Else the caller is told to pull before pushing more, and to push
\* before pulling more.)
NeverBothRefuse == last = NeedData => MayPush(1)

\* However the bytes were cut, and whatever was damaged or skipped on the way,
\* everything pushed has in the end been framed or let go: on streams whose last
\* major sync and what follows it are sound, nothing is left waiting.
EventuallyCaughtUp == <>[](consumed = Len(stream.bytes))

\* The framer implements the abstract log: see AuLog.
Log == INSTANCE AuLog WITH
           at <- consumed, count <- ordinal, guessed <- estimated,
           gone <- skippedBytes,
           entry <- IF Reported
                    THEN [reported |-> TRUE, offset |-> last.offset,
                          len |-> last.len, ordinal |-> last.ordinal]
                    ELSE [reported |-> FALSE, offset |-> 0, len |-> 0, ordinal |-> 0]

ImplementsLog == Log!LogSpec

=============================================================================
