--------------------------- MODULE PtsAttribution ---------------------------
(***************************************************************************)
(* Which push an access unit came from: Engine::push and Engine::attribute *)
(* (src/src/engine.rs).  Every push leaves a record of where its bytes     *)
(* begin and of the caller's timestamp; an access unit reports the pts of  *)
(* the push that holds its first byte, and how many access units began     *)
(* earlier in that push.  Only so many records are kept: then further      *)
(* pushes join the newest one.                                             *)
(*                                                                         *)
(* The framer is present as far as its caller sees it, which is what AuLog *)
(* promises: access units are reported in stream order, without overlap,   *)
(* from bytes that have been pushed.                                       *)
(***************************************************************************)
EXTENDS Integers, Sequences, FiniteSets

CONSTANTS
    Timestamps,        \* what callers pass to push()
    NoPts,             \* NO_PTS
    MaxPendingInput,   \* MAX_PENDING_INPUT
    MaxPendingChunks,  \* MAX_PENDING_CHUNKS
    MaxBytes,          \* bound on the bytes pushed between two seeks
    MaxResets          \* bound on the number of seeks

ASSUME AttributionConstants ==
    /\ NoPts \in Timestamps
    /\ MaxPendingInput \in Nat
    /\ MaxPendingChunks \in Nat \ {0}
    /\ MaxBytes \in Nat /\ MaxResets \in Nat

VARIABLES
    chunks,       \* records of pushes: [start, pts, serial]
    chunkSerial,  \* serial of the next record, never reset
    pushed,       \* bytes pushed since the seek
    auChunk,      \* serial of the record the last access unit began in
    auInChunk,    \* and how many began in it before
    at,           \* the framer has consumed every byte before this offset
    last,         \* the access unit just attributed, or None
    origin,       \* history: for each byte pushed, its push and that push's pts
    begun,        \* history: offsets of the access units reported
    shared,       \* history: pushes whose record stands for several pushes
    resets        \* seeks so far (bound only)

engineVars == <<chunks, chunkSerial, pushed, auChunk, auInChunk>>
vars == <<engineVars, at, last, origin, begun, shared, resets>>

NoChunk == -1
None    == [offset |-> -1, pts |-> NoPts, index |-> 0]
NoBytes == [o \in 0..-1 |-> [push |-> 0, pts |-> NoPts]]

-----------------------------------------------------------------------------
(* Engine::push                                                            *)

\* Mutant: the newest record keeps its pts when another push joins it.
JoinNewest_KeepsPts(pts) == UNCHANGED <<chunks, chunkSerial>>

\* A push with another timestamp than the record it joins leaves none.
JoinNewest(pts) ==
    /\ LET newest == chunks[Len(chunks)]
       IN  chunks' = [chunks EXCEPT ![Len(chunks)] =
                         [start  |-> newest.start,
                          pts    |-> IF newest.pts = pts THEN pts ELSE NoPts,
                          serial |-> newest.serial]]
    /\ UNCHANGED chunkSerial

AddChunk(pts) ==
    /\ chunks' = Append(chunks, [start |-> pushed, pts |-> pts, serial |-> chunkSerial])
    /\ chunkSerial' = chunkSerial + 1

\* Mutant: one record more than the limit.
RoomForChunk_OneMore == Len(chunks) <= MaxPendingChunks
RoomForChunk == Len(chunks) < MaxPendingChunks

\* The pushes the newest record stands for.
InNewest == {origin[o].push : o \in chunks[Len(chunks)].start..pushed - 1}

\* n more bytes; beyond the limit push() refuses them and changes nothing.
Push(n, pts) ==
    /\ pushed + n <= MaxBytes
    /\ (pushed - at) + n <= MaxPendingInput
    /\ \/ RoomForChunk /\ AddChunk(pts) /\ UNCHANGED shared
       \/ ~RoomForChunk /\ JoinNewest(pts) /\ shared' = shared \cup InNewest \cup {pushed}
    /\ pushed' = pushed + n
    /\ origin' = [o \in 0..pushed + n - 1 |->
                     IF o < pushed THEN origin[o] ELSE [push |-> pushed, pts |-> pts]]
    /\ last' = None
    /\ UNCHANGED <<auChunk, auInChunk, at, begun, resets>>

-----------------------------------------------------------------------------
(* Engine::attribute                                                       *)

\* Mutant: a record is dropped one byte late.
FirstKept_Strict(k, offset) ==
    /\ \A i \in 2..k : chunks[i].start < offset
    /\ k < Len(chunks) => chunks[k + 1].start >= offset

\* Records are dropped from the front while the one behind begins no later
\* than the access unit does.
FirstKept(k, offset) ==
    /\ \A i \in 2..k : chunks[i].start <= offset
    /\ k < Len(chunks) => chunks[k + 1].start > offset

\* The access unit at `offset` began in `chunk`.
BeganIn(chunk, offset) ==
    LET index == IF auChunk = chunk.serial THEN auInChunk + 1 ELSE 0
    IN  /\ auChunk' = chunk.serial /\ auInChunk' = index
        /\ last' = [offset |-> offset, pts |-> chunk.pts, index |-> index]

BeganNowhere(offset) ==
    /\ last' = [offset |-> offset, pts |-> NoPts, index |-> 0]
    /\ UNCHANGED <<auChunk, auInChunk>>

Attribute(offset) ==
    IF chunks = <<>>
    THEN BeganNowhere(offset) /\ UNCHANGED chunks
    ELSE \E k \in 1..Len(chunks) :
            /\ FirstKept(k, offset)
            /\ chunks' = SubSeq(chunks, k, Len(chunks))
            /\ IF chunks[k].start <= offset
               THEN BeganIn(chunks[k], offset) ELSE BeganNowhere(offset)

\* The framer reports an access unit of len bytes after letting go of gap bytes.
AccessUnit(gap, len) ==
    /\ at + gap + len <= pushed
    /\ at' = at + gap + len
    /\ Attribute(at + gap)
    /\ begun' = begun \cup {at + gap}
    /\ UNCHANGED <<chunkSerial, pushed, origin, shared, resets>>

\* The framer lets go of bytes and finds nothing to report.
LetGo(n) ==
    /\ at + n <= pushed
    /\ at' = at + n
    /\ last' = None
    /\ UNCHANGED <<engineVars, origin, begun, shared, resets>>

\* Engine::reset.  Serials run on, so a record of the new input is never taken
\* for one of the old.
Reset ==
    /\ resets < MaxResets /\ resets' = resets + 1
    /\ chunks' = <<>> /\ pushed' = 0 /\ auChunk' = NoChunk /\ auInChunk' = 0
    /\ at' = 0 /\ last' = None
    /\ origin' = NoBytes /\ begun' = {} /\ shared' = {}
    /\ UNCHANGED chunkSerial

Init ==
    /\ chunks = <<>> /\ chunkSerial = 0 /\ pushed = 0
    /\ auChunk = NoChunk /\ auInChunk = 0
    /\ at = 0 /\ last = None
    /\ origin = NoBytes /\ begun = {} /\ shared = {}
    /\ resets = 0

Next ==
    \/ \E n \in 1..MaxBytes, pts \in Timestamps : Push(n, pts)
    \/ \E gap \in 0..MaxBytes, len \in 1..MaxBytes : AccessUnit(gap, len)
    \/ \E n \in 1..MaxBytes : LetGo(n)
    \/ Reset

Spec == Init /\ [][Next]_vars

-----------------------------------------------------------------------------
(* Properties.                                                             *)

Chunk   == [start : Nat, pts : Timestamps, serial : Nat]
Origins == [push : Nat, pts : Timestamps]

\* Every variable stays in its type, and the records within their limit.
TypeOK ==
    /\ chunks \in Seq(Chunk) /\ Len(chunks) <= MaxPendingChunks
    /\ chunkSerial \in Nat /\ pushed \in Nat
    /\ auChunk \in Nat \cup {NoChunk} /\ auInChunk \in Nat
    /\ at \in 0..pushed
    /\ last \in [offset : Nat \cup {-1}, pts : Timestamps, index : Nat]
    /\ origin \in [0..pushed - 1 -> Origins]
    /\ begun \subseteq Nat /\ shared \subseteq Nat
    /\ resets \in 0..MaxResets

Attributed == last.offset >= 0

\* "Unknown rather than wrong" (engine.rs:173-176): a pts reported with an access
\* unit is that of the push holding its first byte, however many pushes wait and
\* whatever records were joined or dropped on the way.
NeverWrongPts == Attributed => last.pts \in {origin[last.offset].pts, NoPts}

\* An access unit that begins in a push with a record of its own gets that
\* push's pts, and its index counts exactly the access units reported before it
\* from that push: one that began in an earlier push and ended in this one, or
\* one of the same record before a seek, does not count.
AttributionExact ==
    Attributed /\ origin[last.offset].push \notin shared =>
        /\ last.pts = origin[last.offset].pts
        /\ last.index = Cardinality({b \in begun : /\ b < last.offset
                                                   /\ origin[b].push = origin[last.offset].push})
=============================================================================
