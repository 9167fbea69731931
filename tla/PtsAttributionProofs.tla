------------------------ MODULE PtsAttributionProofs ------------------------
(***************************************************************************)
(* Proofs about PtsAttribution: type correctness, that a reported pts is   *)
(* never that of another push, and that pts and index are exact for every  *)
(* access unit that begins in a push with a record of its own.             *)
(***************************************************************************)
EXTENDS PtsAttribution, SequenceTheorems, FiniteSetTheorems, TLAPS

USE DEF None, NoBytes, NoChunk

\* Record i of cs is the record of byte o: the last that begins at or before it.
Holds(cs, i, o) ==
    /\ cs[i].start <= o
    /\ i < Len(cs) => o < cs[i + 1].start

\* The records cs of p bytes are in stream order, and the first one holds the
\* framer's position a.
Ordered(cs, p, a) ==
    /\ p > 0 => Len(cs) > 0 /\ cs[1].start <= a
    /\ \A i \in 1..Len(cs) : cs[i].start < p
    /\ \A i \in 1..Len(cs) : i < Len(cs) => cs[i].start < cs[i + 1].start

\* A record's pts is that of every byte it holds, or none.
Faithful(cs, org, p) ==
    \A i \in 1..Len(cs), o \in 0..p - 1 :
        Holds(cs, i, o) => cs[i].pts \in {org[o].pts, NoPts}

RecordsCover == Ordered(chunks, pushed, at) /\ Faithful(chunks, origin, pushed)

IInv ==
    /\ TypeOK
    /\ RecordsCover
    /\ NeverWrongPts
    /\ last.offset < pushed

-----------------------------------------------------------------------------
LEMMA ChunkFields ==
    ASSUME NEW cs \in Seq(Chunk)
    PROVE  /\ Len(cs) \in Nat
           /\ \A i \in 1..Len(cs) : /\ cs[i] \in Chunk
                                    /\ cs[i].start \in Nat
                                    /\ cs[i].pts \in Timestamps
                                    /\ cs[i].serial \in Nat
<1>1. \A i \in 1..Len(cs) : cs[i] \in Chunk
    BY ElementOfSeq
<1>2. \A c \in Chunk : c.start \in Nat /\ c.pts \in Timestamps /\ c.serial \in Nat
    BY DEF Chunk
<1> QED BY <1>1, <1>2, LenProperties

LEMMA InitInv == Init => IInv
<1> SUFFICES ASSUME Init PROVE IInv
    OBVIOUS
<1> USE AttributionConstants DEF Init
<1>0. Len(chunks) = 0 /\ chunks \in Seq(Chunk)
    BY EmptySeq
<1>1. TypeOK
    BY <1>0 DEF TypeOK
<1>2. RecordsCover
    BY <1>0 DEF RecordsCover, Ordered, Faithful
<1>3. NeverWrongPts /\ last.offset < pushed
    BY DEF NeverWrongPts, Attributed
<1> QED BY <1>1, <1>2, <1>3 DEF IInv

\* What a push does to the records: one more of them, or the last with its pts
\* kept or forgotten.
LEMMA PushRecords ==
    ASSUME IInv, NEW n \in 1..MaxBytes, NEW pts \in Timestamps, Push(n, pts)
    PROVE  /\ chunks' \in Seq(Chunk) /\ chunkSerial' \in Nat
           /\ Len(chunks') <= MaxPendingChunks
           /\ \/ /\ Len(chunks') = Len(chunks) + 1
                 /\ \A i \in 1..Len(chunks) : chunks'[i] = chunks[i]
                 /\ chunks'[Len(chunks) + 1].start = pushed
                 /\ chunks'[Len(chunks) + 1].pts = pts
              \/ /\ Len(chunks) > 0 /\ Len(chunks') = Len(chunks)
                 /\ \A i \in 1..Len(chunks) : chunks'[i].start = chunks[i].start
                 /\ \A i \in 1..Len(chunks) - 1 : chunks'[i].pts = chunks[i].pts
                 /\ chunks'[Len(chunks)].pts \in {chunks[Len(chunks)].pts, NoPts}
                 /\ chunks'[Len(chunks)].pts \in {pts, NoPts}
<1> USE AttributionConstants DEF IInv, TypeOK
<1>1. CASE RoomForChunk /\ AddChunk(pts)
    <2> DEFINE c == [start |-> pushed, pts |-> pts, serial |-> chunkSerial]
    <2>1. c \in Chunk /\ chunks' = Append(chunks, c) /\ chunkSerial' \in Nat
        BY <1>1 DEF AddChunk, Chunk
    <2>2. /\ chunks' \in Seq(Chunk) /\ Len(chunks') = Len(chunks) + 1
          /\ \A i \in 1..Len(chunks) : chunks'[i] = chunks[i]
          /\ chunks'[Len(chunks) + 1] = c
        BY <2>1, AppendProperties
    <2>3. Len(chunks) \in Nat /\ Len(chunks) < MaxPendingChunks
        BY <1>1, LenProperties DEF RoomForChunk
    <2> QED BY <2>1, <2>2, <2>3
<1>2. CASE ~RoomForChunk /\ JoinNewest(pts)
    <2>1. Len(chunks) \in Nat /\ Len(chunks) > 0
        BY <1>2, LenProperties DEF RoomForChunk
    <2> DEFINE m == Len(chunks)
               old == chunks[m]
               c == [start |-> old.start, pts |-> IF old.pts = pts THEN pts ELSE NoPts,
                     serial |-> old.serial]
    <2>2. m \in 1..Len(chunks) /\ old \in Chunk
        BY <2>1, ChunkFields
    <2>3. c \in Chunk /\ c.start = old.start /\ c.pts \in {old.pts, NoPts} /\ c.pts \in {pts, NoPts}
        BY <2>2 DEF Chunk
    <2>4. chunks' = [chunks EXCEPT ![m] = c] /\ chunkSerial' = chunkSerial
        BY <1>2 DEF JoinNewest
    <2>5. /\ chunks' \in Seq(Chunk) /\ Len(chunks') = Len(chunks)
          /\ \A j \in 1..Len(chunks) : chunks'[j] = IF j = m THEN c ELSE chunks[j]
        BY <2>2, <2>3, <2>4, ExceptSeq, SMTT(30)
    <2>6. \A j \in 1..Len(chunks) : chunks'[j].start = chunks[j].start
        BY <2>3, <2>5
    <2>7. \A j \in 1..Len(chunks) - 1 : chunks'[j].pts = chunks[j].pts
        BY <2>1, <2>5
    <2>8. chunks'[m].pts \in {old.pts, NoPts} /\ chunks'[m].pts \in {pts, NoPts}
        BY <2>2, <2>3, <2>5
    <2> QED BY <2>1, <2>4, <2>5, <2>6, <2>7, <2>8
<1> QED BY <1>1, <1>2 DEF Push

\* Records of p bytes stay in order when one is added for n bytes more, and
\* their start is all that matters.
LEMMA OrderedExtended ==
    ASSUME NEW cs \in Seq(Chunk), NEW cs2 \in Seq(Chunk),
           NEW p \in Nat, NEW n \in Nat \ {0}, NEW a \in 0..p, Ordered(cs, p, a),
           Len(cs2) = Len(cs) + 1, \A i \in 1..Len(cs) : cs2[i] = cs[i],
           cs2[Len(cs) + 1].start = p
    PROVE  Ordered(cs2, p + n, a)
<1>1. Len(cs) \in Nat /\ \A i \in 1..Len(cs) : cs[i].start \in Nat
    BY ChunkFields
<1>2. Len(cs2) > 0 /\ cs2[1].start <= a
    BY <1>1 DEF Ordered
<1>3. ASSUME NEW i \in 1..Len(cs2)
      PROVE  cs2[i].start < p + n /\ (i < Len(cs2) => cs2[i].start < cs2[i + 1].start)
    <2>1. CASE i = Len(cs) + 1
        BY <1>1, <2>1
    <2>2. CASE i = Len(cs)
        BY <1>1, <2>2 DEF Ordered
    <2>3. CASE i + 1 \in 1..Len(cs)
        BY <1>1, <2>3, SMTT(30) DEF Ordered
    <2> QED BY <1>1, <2>1, <2>2, <2>3
<1> QED BY <1>2, <1>3 DEF Ordered

LEMMA OrderedJoined ==
    ASSUME NEW cs \in Seq(Chunk), NEW cs2 \in Seq(Chunk),
           NEW p \in Nat, NEW n \in Nat \ {0}, NEW a \in 0..p, Ordered(cs, p, a),
           Len(cs) > 0, Len(cs2) = Len(cs),
           \A i \in 1..Len(cs) : cs2[i].start = cs[i].start
    PROVE  Ordered(cs2, p + n, a)
<1>1. Len(cs) \in Nat /\ \A i \in 1..Len(cs) : cs[i].start \in Nat
    BY ChunkFields
<1>2. Len(cs2) > 0 /\ cs2[1].start <= a
    BY <1>1 DEF Ordered
<1>3. ASSUME NEW i \in 1..Len(cs2)
      PROVE  cs2[i].start < p + n /\ (i < Len(cs2) => cs2[i].start < cs2[i + 1].start)
    BY <1>1 DEF Ordered
<1> QED BY <1>2, <1>3 DEF Ordered

\* Nor does a record come to hold a byte of another timestamp.
LEMMA FaithfulExtended ==
    ASSUME NEW cs \in Seq(Chunk), NEW cs2 \in Seq(Chunk), NEW pts \in Timestamps,
           NEW p \in Nat, NEW n \in Nat \ {0}, NEW a \in 0..p, Ordered(cs, p, a),
           NEW org, NEW org2, Faithful(cs, org, p),
           \A o \in 0..p + n - 1 : org2[o].pts = IF o < p THEN org[o].pts ELSE pts,
           Len(cs2) = Len(cs) + 1, \A i \in 1..Len(cs) : cs2[i] = cs[i],
           cs2[Len(cs) + 1].start = p, cs2[Len(cs) + 1].pts = pts
    PROVE  Faithful(cs2, org2, p + n)
<1> SUFFICES ASSUME NEW i \in 1..Len(cs2), NEW o \in 0..p + n - 1, Holds(cs2, i, o)
             PROVE  cs2[i].pts \in {org2[o].pts, NoPts}
    BY DEF Faithful
<1>1. Len(cs) \in Nat /\ \A j \in 1..Len(cs) : cs[j].start \in Nat /\ cs[j].start < p
    BY ChunkFields DEF Ordered
<1>2. CASE i = Len(cs) + 1
    <2>1. o >= p
        BY <1>2 DEF Holds
    <2> QED BY <1>2, <2>1
<1>3. CASE i \in 1..Len(cs)
    <2>1. i < Len(cs2) /\ o < cs2[i + 1].start
        BY <1>1, <1>3 DEF Holds
    <2>2. cs2[i + 1].start \in Nat /\ cs2[i + 1].start <= p
        <3>1. CASE i = Len(cs)
            BY <3>1
        <3>2. CASE i + 1 \in 1..Len(cs)
            BY <1>1, <3>2
        <3> QED BY <1>1, <1>3, <3>1, <3>2
    <2>3. o \in 0..p - 1 /\ o < p
        BY <2>1, <2>2
    <2>4. Holds(cs, i, o)
        BY <1>1, <1>3, <2>1 DEF Holds
    <2>5. cs[i].pts \in {org[o].pts, NoPts}
        BY <1>3, <2>3, <2>4 DEF Faithful
    <2> QED BY <1>3, <2>3, <2>5
<1> QED BY <1>1, <1>2, <1>3

LEMMA FaithfulJoined ==
    ASSUME NEW cs \in Seq(Chunk), NEW cs2 \in Seq(Chunk), NEW pts \in Timestamps,
           NEW p \in Nat, NEW n \in Nat \ {0}, NEW a \in 0..p, Ordered(cs, p, a),
           NEW org, NEW org2, Faithful(cs, org, p),
           \A o \in 0..p + n - 1 : org2[o].pts = IF o < p THEN org[o].pts ELSE pts,
           Len(cs) > 0, Len(cs2) = Len(cs),
           \A i \in 1..Len(cs) : cs2[i].start = cs[i].start,
           \A i \in 1..Len(cs) - 1 : cs2[i].pts = cs[i].pts,
           cs2[Len(cs)].pts \in {cs[Len(cs)].pts, NoPts}, cs2[Len(cs)].pts \in {pts, NoPts}
    PROVE  Faithful(cs2, org2, p + n)
<1> SUFFICES ASSUME NEW i \in 1..Len(cs2), NEW o \in 0..p + n - 1, Holds(cs2, i, o)
             PROVE  cs2[i].pts \in {org2[o].pts, NoPts}
    BY DEF Faithful
<1>1. Len(cs) \in Nat /\ \A j \in 1..Len(cs) : cs[j].start \in Nat /\ cs[j].start < p
    BY ChunkFields DEF Ordered
<1>2. cs2[i].pts \in {cs[i].pts, NoPts}
    <2>1. CASE i = Len(cs)
        BY <2>1
    <2>2. CASE i \in 1..Len(cs) - 1
        BY <2>2
    <2> QED BY <1>1, <2>1, <2>2
<1>3. CASE o < p
    <2>1. Holds(cs, i, o)
        BY <1>1 DEF Holds
    <2>2. cs[i].pts \in {org[o].pts, NoPts}
        BY <1>3, <2>1 DEF Faithful
    <2> QED BY <1>2, <1>3, <2>2
<1>4. CASE ~(o < p)
    <2>1. i = Len(cs)
        <3>1. CASE i < Len(cs)
            <4>1. o < cs[i + 1].start /\ i + 1 \in 1..Len(cs)
                BY <1>1, <3>1 DEF Holds
            <4> QED BY <4>1, <1>1, <1>4
        <3> QED BY <1>1, <3>1
    <2> QED BY <2>1, <1>4
<1> QED BY <1>3, <1>4

LEMMA PushKeeps ==
    ASSUME IInv, NEW n \in 1..MaxBytes, NEW pts \in Timestamps, Push(n, pts)
    PROVE  IInv'
<1>1. PICK p \in Nat, q \in Nat : p = pushed /\ q = p + n /\ pushed' = q /\ n \in Nat \ {0}
    BY AttributionConstants DEF IInv, TypeOK, Push
<1>2. /\ origin' \in [0..q - 1 -> Origins]
      /\ \A o \in 0..q - 1 : origin'[o].pts = IF o < p THEN origin[o].pts ELSE pts
    <2> DEFINE new == [push |-> p, pts |-> pts]
    <2>1. origin' = [o \in 0..q - 1 |-> IF o < p THEN origin[o] ELSE new]
        BY <1>1 DEF Push
    <2>2. new \in Origins /\ new.pts = pts
        BY <1>1 DEF Origins
    <2>3. \A o \in 0..q - 1 : o < p => origin[o] \in Origins
        BY <1>1 DEF IInv, TypeOK
    <2> HIDE DEF new
    <2> QED BY <2>1, <2>2, <2>3
<1>3. /\ at' = at /\ last' = None /\ auChunk' = auChunk /\ auInChunk' = auInChunk
      /\ begun' = begun /\ resets' = resets
    BY DEF Push
<1>4. shared' \subseteq Nat
    <2>1. CASE UNCHANGED shared
        BY <2>1 DEF IInv, TypeOK
    <2>2. CASE ~RoomForChunk /\ shared' = shared \cup InNewest \cup {pushed}
        <3>1. Len(chunks) \in 1..Len(chunks)
            BY <2>2, LenProperties, AttributionConstants DEF IInv, TypeOK, RoomForChunk
        <3>2. chunks[Len(chunks)].start \in Nat
            BY <3>1, ChunkFields DEF IInv, TypeOK
        <3>3. InNewest \subseteq Nat
            <4>1. \A o \in 0..pushed - 1 : origin[o].push \in Nat
                BY DEF IInv, TypeOK, Origins
            <4> QED BY <3>2, <4>1 DEF IInv, TypeOK, InNewest
        <3> QED BY <2>2, <3>3 DEF IInv, TypeOK
    <2> QED BY <2>1, <2>2 DEF Push
<1>5. TypeOK'
    <2>1. pushed' \in Nat /\ at' \in 0..pushed' /\ resets' \in 0..MaxResets
        BY <1>1, <1>3 DEF IInv, TypeOK
    <2>2. origin' \in [0..pushed' - 1 -> Origins]
        BY <1>1, <1>2
    <2>3. last' \in [offset : Nat \cup {-1}, pts : Timestamps, index : Nat]
        BY <1>3, AttributionConstants
    <2> QED BY <2>1, <2>2, <2>3, <1>3, <1>4, PushRecords DEF IInv, TypeOK
<1>6. RecordsCover'
    <2>1. /\ chunks \in Seq(Chunk) /\ at \in 0..p /\ origin \in [0..p - 1 -> Origins]
          /\ Ordered(chunks, p, at) /\ Faithful(chunks, origin, p)
        BY <1>1 DEF IInv, TypeOK, RecordsCover
    <2>2. Ordered(chunks', q, at)
        BY <1>1, <2>1, PushRecords, OrderedExtended, OrderedJoined
    <2>3. /\ q = p + n /\ n \in Nat \ {0} /\ chunks' \in Seq(Chunk)
          /\ \A o \in 0..p + n - 1 : origin'[o].pts = IF o < p THEN origin[o].pts ELSE pts
        BY <1>1, <1>2, PushRecords
    <2>4. Faithful(chunks', origin', p + n)
        <3>1. CASE /\ Len(chunks') = Len(chunks) + 1
                   /\ \A i \in 1..Len(chunks) : chunks'[i] = chunks[i]
                   /\ chunks'[Len(chunks) + 1].start = pushed
                   /\ chunks'[Len(chunks) + 1].pts = pts
            BY <1>1, <2>3, <2>1, <3>1, FaithfulExtended
        <3>2. CASE /\ Len(chunks) > 0 /\ Len(chunks') = Len(chunks)
                   /\ \A i \in 1..Len(chunks) : chunks'[i].start = chunks[i].start
                   /\ \A i \in 1..Len(chunks) - 1 : chunks'[i].pts = chunks[i].pts
                   /\ chunks'[Len(chunks)].pts \in {chunks[Len(chunks)].pts, NoPts}
                   /\ chunks'[Len(chunks)].pts \in {pts, NoPts}
            BY <1>1, <2>3, <2>1, <3>2, FaithfulJoined
        <3> QED BY <3>1, <3>2, PushRecords
    <2> QED BY <1>1, <1>3, <2>3, <2>2, <2>4 DEF RecordsCover
<1>7. (NeverWrongPts /\ last.offset < pushed)'
    BY <1>1, <1>3 DEF NeverWrongPts, Attributed
<1> QED BY <1>5, <1>6, <1>7 DEF IInv
\* Dropping the records in front of record k, which holds or precedes the offset
\* o2 that the framer has come to.
LEMMA Dropped ==
    ASSUME NEW cs \in Seq(Chunk), NEW k \in 1..Len(cs), NEW p \in Nat, NEW org,
           NEW o1 \in Nat, NEW o2 \in Nat, o1 <= o2, Ordered(cs, p, o1), Faithful(cs, org, p),
           \A i \in 2..k : cs[i].start <= o1
    PROVE  LET ds == SubSeq(cs, k, Len(cs))
           IN  /\ ds \in Seq(Chunk) /\ Len(ds) \in 1..Len(cs) /\ ds[1] = cs[k]
               /\ Ordered(ds, p, o2) /\ Faithful(ds, org, p)
<1> DEFINE ds == SubSeq(cs, k, Len(cs))
           m == Len(cs)
<1>1. m \in Nat /\ \A i \in 1..m : cs[i] \in Chunk /\ cs[i].start \in Nat /\ cs[i].start < p
    BY ChunkFields DEF Ordered
<1>2. /\ ds \in Seq(Chunk) /\ Len(ds) = m - k + 1
      /\ \A i \in 1..m - k + 1 : ds[i] = cs[k + i - 1]
    <2>1. k \in Int /\ m \in Int /\ k <= m /\ \A i \in k..m : cs[i] \in Chunk
        BY <1>1
    <2>2. \A i \in 1..m - k + 1 : ds[i] = cs[k + i - 1]
        BY <2>1, SubSeqProperties
    <2>3. ds \in Seq(Chunk) /\ Len(ds) = m - k + 1
        BY <2>1, SubSeqProperties
    <2> QED BY <2>2, <2>3
<1> HIDE DEF ds, m
<1>3. Len(ds) \in 1..m /\ ds[1] = cs[k]
    <2>1. k \in Nat /\ 1 \in 1..m - k + 1 /\ k + 1 - 1 = k
        BY <1>1 DEF m
    <2>2. ds[1] = cs[k + 1 - 1]
        BY <2>1, <1>2
    <2>3. m - k + 1 \in 1..m
        BY <1>1, <2>1 DEF m
    <2> QED BY <2>1, <2>2, <2>3, <1>2
<1>4. cs[k].start <= o2
    <2>1. k \in Nat /\ cs[k].start \in Nat /\ cs[k].start < p /\ k >= 1
        BY <1>1 DEF m
    <2>2. CASE k = 1
        BY <2>1, <2>2 DEF Ordered
    <2>3. CASE k # 1
        BY <2>1, <2>3
    <2> QED BY <2>2, <2>3
<1>5. \A i \in 1..Len(ds) : k + i - 1 \in 1..m /\ ds[i] = cs[k + i - 1]
    BY <1>1, <1>2 DEF m
<1>6. Ordered(ds, p, o2)
    <2>1. ASSUME NEW i \in 1..Len(ds), i < Len(ds) PROVE ds[i].start < ds[i + 1].start
        <3>1. i + 1 \in 1..Len(ds) /\ k + i - 1 \in 1..m /\ k + i - 1 < m
            BY <2>1, <1>1, <1>2 DEF m
        <3>2. ds[i + 1] = cs[k + i] /\ ds[i] = cs[k + i - 1] /\ k + i - 1 + 1 = k + i
            BY <3>1, <1>1, <1>2, <1>5 DEF m
        <3> QED BY <3>1, <3>2 DEF Ordered, m
    <2>2. \A i \in 1..Len(ds) : ds[i].start < p
        BY <1>1, <1>5
    <2> QED BY <2>1, <2>2, <1>3, <1>4 DEF Ordered
<1>7. Faithful(ds, org, p)
    <2> SUFFICES ASSUME NEW i \in 1..Len(ds), NEW o \in 0..p - 1, Holds(ds, i, o)
                 PROVE  ds[i].pts \in {org[o].pts, NoPts}
        BY DEF Faithful
    <2> DEFINE j == k + i - 1
    <2>1. j \in 1..m /\ ds[i] = cs[j]
        BY <1>5
    <2>2. j < m => i < Len(ds) /\ ds[i + 1] = cs[j + 1]
        BY <1>1, <1>2 DEF m
    <2>3. Holds(cs, j, o)
        BY <2>1, <2>2 DEF Holds, m
    <2> HIDE DEF j
    <2> QED BY <2>1, <2>3 DEF Faithful, m
<1> QED BY <1>2, <1>3, <1>6, <1>7 DEF ds, m

LEMMA AccessUnitKeeps ==
    ASSUME IInv, NEW gap \in 0..MaxBytes, NEW len \in 1..MaxBytes, AccessUnit(gap, len)
    PROVE  IInv'
<1>1. PICK p \in Nat, a1 \in Nat, o \in Nat, a2 \in Nat :
          /\ p = pushed /\ a1 = at /\ o = at + gap /\ a2 = at + gap + len
          /\ at' = a2 /\ a1 <= o /\ o < a2 /\ a2 <= p
    BY AttributionConstants DEF IInv, TypeOK, AccessUnit
<1>2. /\ UNCHANGED <<chunkSerial, pushed, origin, shared, resets>>
      /\ Attribute(o) /\ begun' = begun \cup {o}
    BY <1>1 DEF AccessUnit
<1>3. chunks # <<>> /\ Len(chunks) \in Nat
    BY <1>1, ChunkFields, EmptySeq DEF IInv, TypeOK, RecordsCover, Ordered
<1>4. PICK k \in 1..Len(chunks) :
          /\ FirstKept(k, o)
          /\ chunks' = SubSeq(chunks, k, Len(chunks))
          /\ IF chunks[k].start <= o THEN BeganIn(chunks[k], o) ELSE BeganNowhere(o)
    BY <1>2, <1>3 DEF Attribute
<1>5. /\ chunks[k] \in Chunk /\ chunks[k].start \in Nat /\ chunks[k].pts \in Timestamps
      /\ chunks[k].serial \in Nat
    BY ChunkFields DEF IInv, TypeOK
<1>6. /\ chunks' \in Seq(Chunk) /\ Len(chunks') \in 1..Len(chunks)
      /\ Ordered(chunks', p, a2) /\ Faithful(chunks', origin, p)
    <2>1. Ordered(chunks, p, o) /\ Faithful(chunks, origin, p) /\ chunks \in Seq(Chunk)
        <3>1. Ordered(chunks, p, a1) /\ Faithful(chunks, origin, p) /\ chunks \in Seq(Chunk)
            BY <1>1 DEF IInv, TypeOK, RecordsCover
        <3>2. p > 0 => Len(chunks) > 0 /\ chunks[1].start \in Nat /\ chunks[1].start <= o
            BY <3>1, <1>1, <1>3, ChunkFields DEF Ordered
        <3> QED BY <3>1, <3>2 DEF Ordered
    <2>2. \A i \in 2..k : chunks[i].start <= o
        BY <1>4 DEF FirstKept
    <2>3. o <= a2
        BY <1>1
    <2> QED BY <1>4, <2>1, <2>2, <2>3, Dropped
<1>7. chunks[k].start <= o
    BY <1>1, <1>3, <1>4, <1>5 DEF IInv, RecordsCover, Ordered, FirstKept
<1>8. BeganIn(chunks[k], o)
    BY <1>4, <1>7
<1>9. Holds(chunks, k, o)
    BY <1>4, <1>5, <1>7 DEF FirstKept, Holds
<1>10. last'.offset = o /\ last'.pts = chunks[k].pts /\ last' \in [offset : Nat \cup {-1}, pts : Timestamps, index : Nat]
       /\ auChunk' \in Nat /\ auInChunk' \in Nat
    BY <1>5, <1>8 DEF BeganIn, IInv, TypeOK
<1>11. TypeOK'
    <2>1. Len(chunks') <= MaxPendingChunks
        BY <1>3, <1>6, AttributionConstants DEF IInv, TypeOK
    <2>2. at' \in 0..pushed'
        BY <1>1, <1>2
    <2> QED BY <1>1, <1>2, <1>6, <1>10, <2>1, <2>2 DEF IInv, TypeOK
<1>12. RecordsCover'
    BY <1>1, <1>2, <1>6 DEF RecordsCover
<1>13. NeverWrongPts' /\ last'.offset < pushed'
    <2>1. chunks[k].pts \in {origin[o].pts, NoPts}
        BY <1>1, <1>9 DEF IInv, RecordsCover, Faithful
    <2>2. last'.pts \in {origin'[last'.offset].pts, NoPts}
        BY <1>2, <1>10, <2>1
    <2> QED BY <1>1, <1>2, <1>10, <2>2 DEF NeverWrongPts
<1> QED BY <1>11, <1>12, <1>13 DEF IInv

LEMMA LetGoKeeps ==
    ASSUME IInv, NEW n \in 1..MaxBytes, LetGo(n)
    PROVE  IInv'
<1>1. PICK p \in Nat, a \in Nat, b \in Nat :
          p = pushed /\ a = at /\ b = at + n /\ at' = b /\ a <= b /\ b <= p
    BY AttributionConstants DEF IInv, TypeOK, LetGo
<1>2. UNCHANGED <<engineVars, origin, begun, shared, resets>> /\ last' = None
    BY DEF LetGo
<1>3. TypeOK'
    BY <1>1, <1>2, AttributionConstants DEF IInv, TypeOK, engineVars
<1>4. Ordered(chunks, p, b)
    <2>1. Ordered(chunks, p, a) /\ chunks \in Seq(Chunk)
        BY <1>1 DEF IInv, TypeOK, RecordsCover
    <2>2. Len(chunks) \in Nat /\ (Len(chunks) > 0 => chunks[1].start \in Nat)
        BY <2>1, ChunkFields
    <2> QED BY <1>1, <2>1, <2>2 DEF Ordered
<1>5. RecordsCover'
    BY <1>1, <1>2, <1>4 DEF IInv, RecordsCover, engineVars
<1>6. NeverWrongPts' /\ last'.offset < pushed'
    BY <1>1, <1>2 DEF NeverWrongPts, Attributed, engineVars
<1> QED BY <1>3, <1>5, <1>6 DEF IInv

LEMMA ResetKeeps == IInv /\ Reset => IInv'
<1> SUFFICES ASSUME IInv, Reset PROVE IInv'
    OBVIOUS
<1> USE AttributionConstants DEF Reset, IInv, TypeOK
<1>1. Len(chunks') = 0 /\ chunks' \in Seq(Chunk)
    BY EmptySeq
<1>2. TypeOK'
    BY <1>1
<1>3. RecordsCover'
    BY <1>1 DEF RecordsCover, Ordered, Faithful
<1>4. NeverWrongPts' /\ last'.offset < pushed'
    BY DEF NeverWrongPts, Attributed
<1> QED BY <1>2, <1>3, <1>4

LEMMA StutterKeeps == IInv /\ UNCHANGED vars => IInv'
BY DEF IInv, TypeOK, RecordsCover, NeverWrongPts, Attributed, vars, engineVars

\* IInv is inductive.
LEMMA Inductive == Spec => []IInv
<1>1. IInv /\ [Next]_vars => IInv'
    BY PushKeeps, AccessUnitKeeps, LetGoKeeps, ResetKeeps, StutterKeeps DEF Next
<1> QED BY <1>1, InitInv, PTL DEF Spec

-----------------------------------------------------------------------------
\* Every variable keeps its type, and never more than MaxPendingChunks records are
\* kept, whatever is pushed.
THEOREM RecordsTyped == Spec => []TypeOK
BY Inductive, PTL DEF IInv

\* Engine::attribute never reports the pts of a push that does not hold the access
\* unit's first byte, whatever pushes were joined into one record before.
THEOREM PtsNeverWrong == Spec => []NeverWrongPts
BY Inductive, PTL DEF IInv

-----------------------------------------------------------------------------
(* Exactness, for every number of pushes and records.                      *)

\* A record that holds a byte of an unshared push holds bytes of no other push,
\* from that push's first byte on, and has its pts.
OfOnePush(cs, org, sh, p) ==
    \A i \in 1..Len(cs), o, o2 \in 0..p - 1 :
        Holds(cs, i, o) /\ Holds(cs, i, o2) /\ org[o].push \notin sh =>
            org[o2].push = cs[i].start /\ org[o2].pts = cs[i].pts

\* Records are in stream order and numbered in it.
Numbered(cs, next) ==
    /\ \A i \in 1..Len(cs) : cs[i].serial < next
    /\ \A i, j \in 1..Len(cs) : i < j => /\ cs[i].serial < cs[j].serial
                                         /\ cs[i].start < cs[j].start

\* A push is known by its first byte.
FirstByte(org, p) == \A o \in 0..p - 1 : org[o].push <= o

\* The access units that began in the first record.
BegunInFirst(cs, bs) == {b \in bs : b >= cs[1].start}

\* The framer is behind the access units reported, which began in the first record
\* or before it; those of the first record are counted in `index` under `serial`.
Counts(cs, bs, a, serial, index) ==
    /\ \A b \in bs : b < a
    /\ \A i \in 2..Len(cs), b \in bs : b < cs[i].start
    /\ Len(cs) > 0 =>
           /\ serial <= cs[1].serial
           /\ Cardinality(BegunInFirst(cs, bs)) = IF serial = cs[1].serial THEN index + 1 ELSE 0

Exact ==
    /\ OfOnePush(chunks, origin, shared, pushed)
    /\ Numbered(chunks, chunkSerial) /\ auChunk < chunkSerial
    /\ FirstByte(origin, pushed)
    /\ Counts(chunks, begun, at, auChunk, auInChunk)

EInv == IInv /\ Exact /\ AttributionExact

-----------------------------------------------------------------------------
LEMMA FiniteBelow ==
    ASSUME NEW a \in Nat, NEW S \in SUBSET Nat, \A b \in S : b < a
    PROVE  IsFiniteSet(S) /\ Cardinality(S) \in Nat
<1>1. S \subseteq 0..a
    OBVIOUS
<1>2. IsFiniteSet(0..a)
    BY FS_Interval
<1> QED BY <1>1, <1>2, FS_Subset, FS_CardinalityType

LEMMA ExactInit == Init => EInv
<1> SUFFICES ASSUME Init PROVE EInv
    OBVIOUS
<1>1. IInv
    BY InitInv
<1>2. Len(chunks) = 0
    BY DEF Init
<1>3. Exact
    BY <1>2 DEF Init, Exact, OfOnePush, Numbered, FirstByte, Counts
<1>4. AttributionExact
    BY DEF Init, AttributionExact, Attributed
<1> QED BY <1>1, <1>3, <1>4 DEF EInv

-----------------------------------------------------------------------------
(* A push.                                                                 *)

\* n bytes more, pushed with pts, have their origins behind those of p bytes.
Grows(org, org2, p, n, pts) ==
    \A o \in 0..p + n - 1 : /\ o < p => org2[o] = org[o] /\ o \in 0..p - 1
                            /\ o >= p => org2[o].push = p /\ org2[o].pts = pts

LEMMA PushedBytes ==
    ASSUME IInv, NEW n \in 1..MaxBytes, NEW pts \in Timestamps, Push(n, pts)
    PROVE  Grows(origin, origin', pushed, n, pts)
<1> DEFINE new == [push |-> pushed, pts |-> pts]
<1>1. origin' = [o \in 0..pushed + n - 1 |-> IF o < pushed THEN origin[o] ELSE new]
    BY DEF Push
<1>2. new.push = pushed /\ new.pts = pts /\ pushed \in Nat
    BY DEF IInv, TypeOK
<1> HIDE DEF new
<1> QED BY <1>1, <1>2 DEF Grows

\* A new record is of the push alone.
LEMMA AddedOfOnePush ==
    ASSUME NEW cs \in Seq(Chunk), NEW cs2 \in Seq(Chunk), NEW pts,
           NEW p \in Nat, NEW n \in Nat \ {0}, NEW a \in 0..p, Ordered(cs, p, a),
           NEW sh, NEW org, NEW org2, OfOnePush(cs, org, sh, p),
           Grows(org, org2, p, n, pts),
           Len(cs2) = Len(cs) + 1,
           \A i \in 1..Len(cs) : cs2[i].start = cs[i].start,
           \A i \in 1..Len(cs) : cs2[i].pts = cs[i].pts,
           \A i \in 1..Len(cs2) : i > Len(cs) => cs2[i].start = p /\ cs2[i].pts = pts
    PROVE  OfOnePush(cs2, org2, sh, p + n)
<1> SUFFICES ASSUME NEW i \in 1..Len(cs2), NEW o \in 0..p + n - 1, NEW o2 \in 0..p + n - 1,
                    Holds(cs2, i, o), Holds(cs2, i, o2), org2[o].push \notin sh
             PROVE  org2[o2].push = cs2[i].start /\ org2[o2].pts = cs2[i].pts
    BY DEF OfOnePush
<1> USE DEF Grows
<1>1. Len(cs) \in Nat /\ \A j \in 1..Len(cs) : cs[j].start \in Nat /\ cs[j].start < p
    BY ChunkFields DEF Ordered
<1>2. CASE i = Len(cs) + 1
    <2>1. o2 >= p
        BY <1>2 DEF Holds
    <2> QED BY <1>2, <2>1
<1>3. CASE i \in 1..Len(cs)
    <2>1. i < Len(cs2) /\ o < cs2[i + 1].start /\ o2 < cs2[i + 1].start
        BY <1>1, <1>3 DEF Holds
    <2>2. cs2[i + 1].start \in Nat /\ cs2[i + 1].start <= p
        <3>1. CASE i = Len(cs)
            BY <3>1
        <3>2. CASE i + 1 \in 1..Len(cs)
            BY <1>1, <3>2, SMTT(30)
        <3> QED BY <1>1, <1>3, <3>1, <3>2
    <2>3. o < p /\ o2 < p
        BY <2>1, <2>2
    <2>4. Holds(cs, i, o) /\ Holds(cs, i, o2)
        BY <1>1, <1>3, <2>1, SMTT(30) DEF Holds
    <2>5. org[o].push \notin sh /\ o \in 0..p - 1 /\ o2 \in 0..p - 1
        BY <2>3
    <2>6. org[o2].push = cs[i].start /\ org[o2].pts = cs[i].pts
        BY <1>3, <2>4, <2>5 DEF OfOnePush
    <2> QED BY <1>3, <2>3, <2>6
<1> QED BY <1>1, <1>2, <1>3

\* In a record that was joined all pushes are shared.
LEMMA JoinedOfOnePush ==
    ASSUME NEW cs \in Seq(Chunk), NEW cs2 \in Seq(Chunk), NEW pts,
           NEW p \in Nat, NEW n \in Nat \ {0}, NEW a \in 0..p, Ordered(cs, p, a),
           NEW sh, NEW sh2, NEW org, NEW org2, OfOnePush(cs, org, sh, p),
           Grows(org, org2, p, n, pts),
           Len(cs) > 0, Len(cs2) = Len(cs),
           \A i \in 1..Len(cs) : cs2[i].start = cs[i].start,
           \A i \in 1..Len(cs) - 1 : cs2[i].pts = cs[i].pts,
           \A x \in sh : x \in sh2, p \in sh2,
           \A o \in cs[Len(cs)].start..p - 1 : org[o].push \in sh2
    PROVE  OfOnePush(cs2, org2, sh2, p + n)
<1> SUFFICES ASSUME NEW i \in 1..Len(cs2), NEW o \in 0..p + n - 1, NEW o2 \in 0..p + n - 1,
                    Holds(cs2, i, o), Holds(cs2, i, o2), org2[o].push \notin sh2
             PROVE  org2[o2].push = cs2[i].start /\ org2[o2].pts = cs2[i].pts
    BY DEF OfOnePush
<1> USE DEF Grows
<1>1. Len(cs) \in Nat /\ \A j \in 1..Len(cs) : cs[j].start \in Nat /\ cs[j].start < p
    BY ChunkFields DEF Ordered
<1>2. o < p /\ org2[o] = org[o] /\ o \in 0..p - 1
    <2>1. CASE o >= p
        BY <2>1
    <2> QED BY <2>1
<1>3. i \in 1..Len(cs) - 1
    <2>1. CASE i = Len(cs)
        <3>1. o \in cs[Len(cs)].start..p - 1
            BY <1>1, <1>2, <2>1 DEF Holds
        <3> QED BY <1>2, <3>1
    <2> QED BY <1>1, <2>1
<1>4. i + 1 \in 1..Len(cs) /\ o2 < cs[i + 1].start
    BY <1>1, <1>3 DEF Holds
<1>5. o2 < p /\ o2 \in 0..p - 1 /\ org2[o2] = org[o2]
    BY <1>1, <1>4
<1>6. Holds(cs, i, o) /\ Holds(cs, i, o2)
    BY <1>1, <1>3 DEF Holds
<1>7. org[o2].push = cs[i].start /\ org[o2].pts = cs[i].pts
    BY <1>2, <1>3, <1>5, <1>6 DEF OfOnePush
<1> QED BY <1>1, <1>3, <1>5, <1>7

\* What a push does to the records, with what it shares.
LEMMA PushSerials ==
    ASSUME IInv, NEW n \in 1..MaxBytes, NEW pts \in Timestamps, Push(n, pts)
    PROVE  \/ /\ Len(chunks') = Len(chunks) + 1
              /\ \A i \in 1..Len(chunks) : chunks'[i] = chunks[i]
              /\ chunks'[Len(chunks) + 1].start = pushed
              /\ chunks'[Len(chunks) + 1].pts = pts
              /\ chunks'[Len(chunks) + 1].serial = chunkSerial
              /\ chunkSerial' = chunkSerial + 1 /\ shared' = shared
           \/ /\ Len(chunks) > 0 /\ Len(chunks') = Len(chunks)
              /\ \A i \in 1..Len(chunks) : /\ chunks'[i].start = chunks[i].start
                                           /\ chunks'[i].serial = chunks[i].serial
              /\ \A i \in 1..Len(chunks) - 1 : chunks'[i].pts = chunks[i].pts
              /\ chunkSerial' = chunkSerial
              /\ shared' = shared \cup InNewest \cup {pushed}
<1> USE AttributionConstants DEF IInv, TypeOK
<1>1. CASE RoomForChunk /\ AddChunk(pts) /\ UNCHANGED shared
    <2> DEFINE c == [start |-> pushed, pts |-> pts, serial |-> chunkSerial]
    <2>1. c \in Chunk /\ chunks' = Append(chunks, c) /\ chunkSerial' = chunkSerial + 1
        BY <1>1 DEF AddChunk, Chunk
    <2>2. /\ Len(chunks') = Len(chunks) + 1
          /\ \A i \in 1..Len(chunks) : chunks'[i] = chunks[i]
          /\ chunks'[Len(chunks) + 1] = c
        BY <2>1, AppendProperties
    <2> QED BY <1>1, <2>1, <2>2
<1>2. CASE ~RoomForChunk /\ JoinNewest(pts) /\ shared' = shared \cup InNewest \cup {pushed}
    <2>1. Len(chunks) \in Nat /\ Len(chunks) > 0
        BY <1>2, LenProperties DEF RoomForChunk
    <2> DEFINE m == Len(chunks)
               old == chunks[m]
               c == [start |-> old.start, pts |-> IF old.pts = pts THEN pts ELSE NoPts,
                     serial |-> old.serial]
    <2>2. m \in 1..Len(chunks) /\ old \in Chunk
        BY <2>1, ChunkFields
    <2>3. c \in Chunk /\ c.start = old.start /\ c.serial = old.serial
        BY <2>2 DEF Chunk
    <2>4. chunks' = [chunks EXCEPT ![m] = c] /\ chunkSerial' = chunkSerial
        BY <1>2 DEF JoinNewest
    <2>5. /\ Len(chunks') = Len(chunks)
          /\ \A j \in 1..Len(chunks) : chunks'[j] = IF j = m THEN c ELSE chunks[j]
        BY <2>2, <2>3, <2>4, ExceptSeq, SMTT(30)
    <2>6. \A j \in 1..Len(chunks) : /\ chunks'[j].start = chunks[j].start
                                    /\ chunks'[j].serial = chunks[j].serial
        BY <2>3, <2>5
    <2>7. \A j \in 1..Len(chunks) - 1 : chunks'[j].pts = chunks[j].pts
        BY <2>1, <2>5
    <2> QED BY <1>2, <2>1, <2>4, <2>5, <2>6, <2>7
<1> QED BY <1>1, <1>2 DEF Push

\* A push leaves the count alone: its record, if it has one, is the last.
LEMMA PushCounts ==
    ASSUME NEW cs \in Seq(Chunk), NEW cs2 \in Seq(Chunk), NEW p \in Nat, NEW a \in 0..p,
           NEW next \in Nat, Ordered(cs, p, a), NEW bs \in SUBSET Nat,
           NEW serial \in Nat \cup {-1}, NEW index \in Nat, serial < next,
           Counts(cs, bs, a, serial, index),
           \A i \in 1..Len(cs) : cs2[i].start = cs[i].start /\ cs2[i].serial = cs[i].serial,
           \/ Len(cs) > 0 /\ Len(cs2) = Len(cs)
           \/ /\ Len(cs2) = Len(cs) + 1 /\ cs2[Len(cs) + 1].start = p
              /\ cs2[Len(cs) + 1].serial = next
    PROVE  Counts(cs2, bs, a, serial, index)
<1>1. Len(cs) \in Nat /\ \A b \in bs : b \in Nat /\ b < a /\ b < p
    BY ChunkFields DEF Counts
<1>2. ASSUME NEW i \in 2..Len(cs2), NEW b \in bs PROVE b < cs2[i].start
    <2>1. CASE i \in 2..Len(cs)
        BY <2>1 DEF Counts
    <2>2. CASE i = Len(cs) + 1 /\ Len(cs2) = Len(cs) + 1
        BY <1>1, <2>2
    <2> QED BY <1>1, <2>1, <2>2
<1>3. CASE Len(cs) > 0
    <2>1. 1 \in 1..Len(cs)
        BY <1>1, <1>3
    <2>2. cs2[1].start = cs[1].start /\ cs2[1].serial = cs[1].serial
        BY <2>1
    <2>3. BegunInFirst(cs2, bs) = BegunInFirst(cs, bs)
        BY <2>2 DEF BegunInFirst
    <2> QED BY <1>2, <1>3, <2>2, <2>3, Zenon DEF Counts
<1>4. CASE Len(cs) = 0
    <2>1. p = 0
        BY <1>4 DEF Ordered
    <2>2. bs = {}
        BY <1>1, <2>1
    <2>3. Len(cs2) = 1 /\ cs2[1].serial = next
        BY <1>4
    <2>4. BegunInFirst(cs2, bs) = {}
        BY <2>2 DEF BegunInFirst
    <2>5. Cardinality(BegunInFirst(cs2, bs)) = 0
        BY <2>4, FS_EmptySet
    <2> QED BY <2>2, <2>3, <2>5 DEF Counts
<1> QED BY <1>1, <1>3, <1>4

LEMMA PushExact ==
    ASSUME IInv, Exact, NEW n \in 1..MaxBytes, NEW pts \in Timestamps, Push(n, pts)
    PROVE  Exact'
<1>1. PICK p \in Nat, q \in Nat, m \in Nat \ {0} :
          p = pushed /\ m = n /\ q = p + m /\ pushed' = q
    BY AttributionConstants DEF IInv, TypeOK, Push
<1>2. /\ chunks \in Seq(Chunk) /\ chunks' \in Seq(Chunk) /\ Ordered(chunks, p, at)
      /\ at \in 0..p /\ Len(chunks) \in Nat
    BY <1>1, PushRecords, LenProperties DEF IInv, TypeOK, RecordsCover
<1>3. UNCHANGED <<auChunk, auInChunk, at, begun>>
    BY DEF Push
<1>4. Grows(origin, origin', p, m, pts)
    BY <1>1, PushedBytes
<1>5. FirstByte(origin', q)
    BY <1>1, <1>4 DEF Exact, FirstByte, Grows
<1>6. Counts(chunks, begun, at, auChunk, auInChunk) /\ OfOnePush(chunks, origin, shared, p)
    BY <1>1 DEF Exact
<1>7. /\ chunkSerial \in Nat /\ begun \in SUBSET Nat /\ auChunk \in Nat \cup {-1}
      /\ auInChunk \in Nat /\ auChunk < chunkSerial
    BY DEF IInv, TypeOK, Exact
<1>8. \A i \in 1..Len(chunks) : chunks[i].serial \in Nat /\ chunks[i].serial < chunkSerial
    BY <1>2, ChunkFields DEF Exact, Numbered
<1>9. CASE /\ Len(chunks') = Len(chunks) + 1
           /\ \A i \in 1..Len(chunks) : chunks'[i] = chunks[i]
           /\ chunks'[Len(chunks) + 1].start = pushed
           /\ chunks'[Len(chunks) + 1].pts = pts
           /\ chunks'[Len(chunks) + 1].serial = chunkSerial
           /\ chunkSerial' = chunkSerial + 1 /\ shared' = shared
    <2>0. /\ \A i \in 1..Len(chunks) : chunks'[i] = chunks[i]
          /\ Len(chunks') = Len(chunks) + 1
          /\ chunks'[Len(chunks) + 1].start = p /\ chunks'[Len(chunks) + 1].pts = pts
          /\ chunks'[Len(chunks) + 1].serial = chunkSerial
        BY <1>1, <1>9, Zenon
    <2>5. /\ \A i \in 1..Len(chunks) : chunks'[i].start = chunks[i].start
          /\ \A i \in 1..Len(chunks) : chunks'[i].pts = chunks[i].pts
          /\ Len(chunks') = Len(chunks) + 1
          /\ \A i \in 1..Len(chunks') :
                 i > Len(chunks) => chunks'[i].start = p /\ chunks'[i].pts = pts
        BY <1>2, <2>0
    <2>1. OfOnePush(chunks', origin', shared, p + m)
        BY <1>2, <1>4, <1>6, <2>5, AddedOfOnePush
    <2>2. Numbered(chunks', chunkSerial')
        <3>1. \A i \in 1..Len(chunks') :
                  \/ i \in 1..Len(chunks) /\ chunks'[i] = chunks[i]
                  \/ i = Len(chunks) + 1 /\ chunks'[i].serial = chunkSerial
            BY <1>2, <2>0
        <3>2. \A i \in 1..Len(chunks') : chunks'[i].serial < chunkSerial'
            BY <1>7, <1>8, <1>9, <3>1
        <3>3. \A i, j \in 1..Len(chunks) : i < j => /\ chunks[i].serial < chunks[j].serial
                                                    /\ chunks[i].start < chunks[j].start
            BY DEF Exact, Numbered
        <3>4. ASSUME NEW i \in 1..Len(chunks'), NEW j \in 1..Len(chunks'), i < j
              PROVE  chunks'[i].serial < chunks'[j].serial /\ chunks'[i].start < chunks'[j].start
            <4>1. i \in 1..Len(chunks) /\ chunks'[i] = chunks[i]
                BY <1>2, <2>0, <3>4
            <4>2. chunks[i].start < p
                BY <1>2, <4>1 DEF Ordered
            <4> QED BY <1>8, <2>0, <3>1, <3>3, <3>4, <4>1, <4>2
        <3> QED BY <3>2, <3>4 DEF Numbered
    <2>3. Counts(chunks', begun, at, auChunk, auInChunk)
        BY <1>2, <1>6, <1>7, <2>0, PushCounts, SMTT(30)
    <2>4. auChunk < chunkSerial + 1
        BY <1>7
    <2> QED BY <1>1, <1>3, <1>5, <1>9, <2>1, <2>2, <2>3, <2>4, Zenon DEF Exact
<1>10. CASE /\ Len(chunks) > 0 /\ Len(chunks') = Len(chunks)
            /\ \A i \in 1..Len(chunks) : /\ chunks'[i].start = chunks[i].start
                                         /\ chunks'[i].serial = chunks[i].serial
            /\ \A i \in 1..Len(chunks) - 1 : chunks'[i].pts = chunks[i].pts
            /\ chunkSerial' = chunkSerial
            /\ shared' = shared \cup InNewest \cup {pushed}
    <2>1. OfOnePush(chunks', origin', shared', p + m)
        <3>1. /\ \A x \in shared : x \in shared'
              /\ p \in shared'
              /\ \A o \in chunks[Len(chunks)].start..p - 1 : origin[o].push \in shared'
            BY <1>1, <1>10 DEF InNewest
        <3> QED BY <1>2, <1>4, <1>6, <1>10, <3>1, JoinedOfOnePush
    <2>2. Numbered(chunks', chunkSerial')
        BY <1>2, <1>8, <1>10 DEF Exact, Numbered
    <2>3. Counts(chunks', begun, at, auChunk, auInChunk)
        BY <1>1, <1>2, <1>6, <1>7, <1>10, PushCounts
    <2>4. auChunk' < chunkSerial'
        BY <1>3, <1>7, <1>10
    <2>5. OfOnePush(chunks', origin', shared', pushed') /\ FirstByte(origin', pushed')
        BY <1>1, <1>5, <2>1
    <2>6. Counts(chunks', begun', at', auChunk', auInChunk')
        BY <1>3, <2>3
    <2> QED BY <2>2, <2>4, <2>5, <2>6 DEF Exact
<1> QED BY <1>9, <1>10, PushSerials

-----------------------------------------------------------------------------
(* An access unit.                                                         *)

\* What is left of the records when those in front of record k are dropped.
LEMMA RecordsLeft ==
    ASSUME NEW cs \in Seq(Chunk), NEW k \in 1..Len(cs)
    PROVE  LET ds == SubSeq(cs, k, Len(cs))
           IN  /\ Len(ds) = Len(cs) - k + 1 /\ Len(cs) \in Nat
               /\ \A i \in 1..Len(ds) : /\ k + i - 1 \in 1..Len(cs)
                                        /\ ds[i] = cs[k + i - 1]
<1>1. Len(cs) \in Nat /\ \A i \in k..Len(cs) : cs[i] \in Chunk
    BY ChunkFields
<1>2. k \in Int /\ Len(cs) \in Int /\ k <= Len(cs)
    BY <1>1
<1>3. /\ Len(SubSeq(cs, k, Len(cs))) = Len(cs) - k + 1
      /\ \A i \in 1..Len(cs) - k + 1 : SubSeq(cs, k, Len(cs))[i] = cs[k + i - 1]
    BY <1>1, <1>2, SubSeqProperties
<1>4. \A i \in 1..Len(cs) - k + 1 : k + i - 1 \in 1..Len(cs)
    BY <1>1
<1> QED BY <1>1, <1>3, <1>4

LEMMA LeftOfOnePush ==
    ASSUME NEW cs \in Seq(Chunk), NEW k \in 1..Len(cs), NEW p \in Nat, NEW org, NEW sh,
           NEW next, OfOnePush(cs, org, sh, p), Numbered(cs, next)
    PROVE  LET ds == SubSeq(cs, k, Len(cs))
           IN  OfOnePush(ds, org, sh, p) /\ Numbered(ds, next)
<1> DEFINE ds == SubSeq(cs, k, Len(cs))
<1>1. /\ Len(ds) = Len(cs) - k + 1 /\ Len(cs) \in Nat
      /\ \A i \in 1..Len(ds) : k + i - 1 \in 1..Len(cs) /\ ds[i] = cs[k + i - 1]
    BY RecordsLeft
<1> HIDE DEF ds
<1>2. ASSUME NEW i \in 1..Len(ds), NEW o \in 0..p - 1, NEW o2 \in 0..p - 1,
             Holds(ds, i, o), Holds(ds, i, o2), org[o].push \notin sh
      PROVE  org[o2].push = ds[i].start /\ org[o2].pts = ds[i].pts
    <2> DEFINE j == k + i - 1
    <2>1. j \in 1..Len(cs) /\ ds[i] = cs[j]
        BY <1>1
    <2>2. j < Len(cs) => i < Len(ds) /\ ds[i + 1] = cs[j + 1]
        BY <1>1
    <2>3. Holds(cs, j, o) /\ Holds(cs, j, o2)
        BY <1>2, <2>1, <2>2 DEF Holds
    <2> HIDE DEF j
    <2> QED BY <1>2, <2>1, <2>3 DEF OfOnePush
<1>3. \A i \in 1..Len(ds) : ds[i].serial < next
    BY <1>1 DEF Numbered
<1>4. ASSUME NEW i \in 1..Len(ds), NEW j \in 1..Len(ds), i < j
      PROVE  ds[i].serial < ds[j].serial /\ ds[i].start < ds[j].start
    <2>1. /\ k + i - 1 \in 1..Len(cs) /\ k + j - 1 \in 1..Len(cs)
          /\ ds[i] = cs[k + i - 1] /\ ds[j] = cs[k + j - 1]
        BY <1>1
    <2>2. k + i - 1 < k + j - 1
        BY <1>1, <1>4
    <2> QED BY <2>1, <2>2 DEF Numbered
<1>5. OfOnePush(ds, org, sh, p)
    BY <1>2 DEF OfOnePush
<1>6. Numbered(ds, next)
    BY <1>3, <1>4 DEF Numbered
<1> QED BY <1>5, <1>6 DEF ds

\* How many access units began before in the record of the one at o, which is the
\* k-th: as many as were counted under its number, or none when it is another than
\* the last one's.
LEMMA BegunBefore ==
    ASSUME NEW cs \in Seq(Chunk), NEW k \in 1..Len(cs), NEW bs \in SUBSET Nat,
           NEW a \in Nat, NEW o \in Nat, a <= o, NEW next, Numbered(cs, next),
           NEW serial \in Nat \cup {-1}, NEW index \in Nat,
           Counts(cs, bs, a, serial, index)
    PROVE  /\ Cardinality({b \in bs : b >= cs[k].start}) =
                  IF serial = cs[k].serial THEN index + 1 ELSE 0
           /\ \A b \in bs : b < o
<1>1. \A b \in bs : b \in Nat /\ b < o
    BY DEF Counts
<1>2. /\ Len(cs) \in Nat
      /\ \A i \in 1..Len(cs) : cs[i].serial \in Nat /\ cs[i].start \in Nat
    BY ChunkFields
<1>3. CASE k = 1
    BY <1>1, <1>3 DEF Counts, BegunInFirst
<1>4. CASE k # 1
    <2>1. k \in 2..Len(cs) /\ 1 \in 1..Len(cs) /\ 1 < k
        BY <1>2, <1>4
    <2>2. \A b \in bs : b < cs[k].start
        BY <2>1 DEF Counts
    <2>3. {b \in bs : b >= cs[k].start} = {}
        <3>1. cs[k].start \in Nat
            BY <1>2
        <3>2. \A b \in bs : ~(b >= cs[k].start)
            BY <1>1, <2>2, <3>1
        <3> QED BY <3>2
    <2>4. cs[1].serial < cs[k].serial /\ serial <= cs[1].serial
        BY <1>2, <2>1 DEF Numbered, Counts
    <2>5. serial # cs[k].serial
        BY <1>2, <2>4
    <2>6. Cardinality({b \in bs : b >= cs[k].start}) = 0
        BY <2>3, FS_EmptySet
    <2> QED BY <1>1, <2>5, <2>6
<1> QED BY <1>3, <1>4

\* In a record of one push the access units that began from its start on are those
\* that began in the push.
LEMMA BegunInPush ==
    ASSUME NEW cs \in Seq(Chunk), NEW i \in 1..Len(cs), NEW p \in Nat, NEW org, NEW sh,
           NEW bs \in SUBSET Nat, NEW o \in 0..p - 1, \A b \in bs : b < o, Holds(cs, i, o),
           OfOnePush(cs, org, sh, p), FirstByte(org, p), org[o].push \notin sh
    PROVE  /\ org[o].pts = cs[i].pts
           /\ {b \in bs \cup {o} : b < o /\ org[b].push = org[o].push}
                  = {b \in bs : b >= cs[i].start}
<1>1. org[o].push = cs[i].start /\ org[o].pts = cs[i].pts
    BY DEF OfOnePush
<1>2. /\ cs[i].start \in Nat /\ i \in Nat
      /\ i < Len(cs) => i + 1 \in 1..Len(cs) /\ cs[i + 1].start \in Nat
    BY ChunkFields
<1>3. ASSUME NEW b \in bs PROVE org[b].push = org[o].push <=> b >= cs[i].start
    <2>0. b \in Nat /\ b < o
        OBVIOUS
    <2>1. b \in 0..p - 1 /\ b < o /\ org[b].push <= b
        BY <2>0 DEF FirstByte
    <2>2. CASE b >= cs[i].start
        <3>1. Holds(cs, i, b)
            BY <1>2, <2>1, <2>2 DEF Holds
        <3> QED BY <1>1, <2>1, <2>2, <3>1 DEF OfOnePush
    <2>3. CASE ~(b >= cs[i].start)
        BY <1>1, <1>2, <2>1, <2>3
    <2> QED BY <2>2, <2>3
<1>4. ~(o < o)
    OBVIOUS
<1> QED BY <1>1, <1>3, <1>4

LEMMA AccessUnitExact ==
    ASSUME IInv, Exact, NEW gap \in 0..MaxBytes, NEW len \in 1..MaxBytes,
           AccessUnit(gap, len)
    PROVE  Exact' /\ AttributionExact'
<1>1. PICK p \in Nat, a1 \in Nat, o \in Nat, a2 \in Nat :
          /\ p = pushed /\ a1 = at /\ o = at + gap /\ a2 = at + gap + len
          /\ at' = a2 /\ a1 <= o /\ o < a2 /\ a2 <= p
    BY AttributionConstants DEF IInv, TypeOK, AccessUnit
<1>2. /\ UNCHANGED <<chunkSerial, pushed, origin, shared, resets>>
      /\ Attribute(o) /\ begun' = begun \cup {o}
    BY <1>1 DEF AccessUnit
<1>3. /\ chunks # <<>> /\ chunks \in Seq(Chunk) /\ Len(chunks) \in Nat
      /\ Ordered(chunks, p, a1)
    BY <1>1, ChunkFields, EmptySeq DEF IInv, TypeOK, RecordsCover, Ordered
<1>4. PICK k \in 1..Len(chunks) :
          /\ FirstKept(k, o)
          /\ chunks' = SubSeq(chunks, k, Len(chunks))
          /\ IF chunks[k].start <= o THEN BeganIn(chunks[k], o) ELSE BeganNowhere(o)
    BY <1>2, <1>3 DEF Attribute
<1>5. chunks[k].start \in Nat /\ chunks[k].serial \in Nat
    BY <1>3, ChunkFields
<1>6. chunks[k].start <= o
    BY <1>1, <1>3, <1>4, <1>5 DEF Ordered, FirstKept
<1>7. Holds(chunks, k, o)
    BY <1>4, <1>5, <1>6 DEF FirstKept, Holds
<1> DEFINE before == IF auChunk = chunks[k].serial THEN auInChunk + 1 ELSE 0
<1>8. /\ auChunk' = chunks[k].serial /\ auInChunk' = before
      /\ last' = [offset |-> o, pts |-> chunks[k].pts, index |-> before]
    BY <1>4, <1>6 DEF BeganIn
<1>9. /\ begun \in SUBSET Nat /\ auChunk \in Nat \cup {-1} /\ auInChunk \in Nat
      /\ Counts(chunks, begun, a1, auChunk, auInChunk) /\ Numbered(chunks, chunkSerial)
    BY <1>1 DEF IInv, TypeOK, Exact
<1>10. /\ Cardinality({b \in begun : b >= chunks[k].start}) = before
       /\ \A b \in begun : b < o
    BY <1>1, <1>3, <1>9, BegunBefore, ZenonT(30)
<1>11. OfOnePush(chunks, origin, shared, p) /\ FirstByte(origin, p)
    BY <1>1 DEF Exact
<1>12. /\ chunks' \in Seq(Chunk) /\ Len(chunks') \in Nat /\ Len(chunks') > 0
       /\ \A i \in 1..Len(chunks') : k + i - 1 \in 1..Len(chunks) /\ chunks'[i] = chunks[k + i - 1]
    <2>1. chunks' \in Seq(Chunk) /\ Len(chunks') \in Nat
        BY <1>1, AccessUnitKeeps, LenProperties DEF IInv, TypeOK
    <2>2. /\ Len(chunks') = Len(chunks) - k + 1
          /\ \A i \in 1..Len(chunks') : k + i - 1 \in 1..Len(chunks) /\ chunks'[i] = chunks[k + i - 1]
        BY <1>3, <1>4, RecordsLeft
    <2> QED BY <1>3, <2>1, <2>2
<1>13. chunks'[1] = chunks[k]
    BY <1>12
<1> HIDE DEF before
<1>14. Counts(chunks', begun \cup {o}, a2, auChunk', auInChunk')
    <2>1. \A b \in begun \cup {o} : b < a2
        BY <1>1, <1>9, <1>10
    <2>2. ASSUME NEW i \in 2..Len(chunks'), NEW b \in begun \cup {o}
          PROVE  b < chunks'[i].start
        <3>1. k + i - 1 \in 2..Len(chunks) /\ k + 1 \in 1..Len(chunks) /\ k < Len(chunks)
            BY <1>3, <1>12
        <3>2. chunks'[i] = chunks[k + i - 1] /\ chunks[k + i - 1].start \in Nat
            <4>1. i \in 1..Len(chunks') /\ k + i - 1 \in 1..Len(chunks)
                BY <1>12, <3>1
            <4>2. \A j \in 1..Len(chunks) : chunks[j].start \in Nat
                BY <1>3, ChunkFields
            <4>3. QED BY <1>12, <4>1, <4>2, Zenon
        <3>3. CASE b \in begun
            BY <1>9, <3>1, <3>2, <3>3 DEF Counts
        <3>4. CASE b = o
            <4>1. o < chunks[k + 1].start /\ chunks[k + 1].start \in Nat
                BY <1>3, <1>4, <3>1, ChunkFields DEF FirstKept
            <4>2. k + 1 = k + i - 1 \/ chunks[k + 1].start < chunks[k + i - 1].start
                <5>1. /\ k + 1 \in 1..Len(chunks) /\ k + i - 1 \in 1..Len(chunks)
                      /\ k + 1 = k + i - 1 \/ k + 1 < k + i - 1
                    <6>1. i \in Nat /\ 2 <= i /\ k \in Nat /\ Len(chunks) \in Nat
                        BY <1>3, <1>9, <1>12, LenProperties
                    <6>2. QED BY <3>1, <6>1
                <5>2. QED BY <1>9, <5>1, Zenon DEF Numbered
            <4> QED BY <1>1, <3>2, <3>4, <4>1, <4>2
        <3> QED BY <3>3, <3>4
    <2>3. Cardinality(BegunInFirst(chunks', begun \cup {o})) = before + 1
        <3> DEFINE S == {b \in begun : b >= chunks[k].start}
        <3>1. BegunInFirst(chunks', begun \cup {o}) = S \cup {o}
            BY <1>6, <1>13 DEF BegunInFirst
        <3>2. o \notin S
            BY <1>10
        <3>3. IsFiniteSet(S)
            <4>1. S \in SUBSET Nat /\ \A b \in S : b < o
                BY <1>9, <1>10
            <4> QED BY <1>1, <4>1, FiniteBelow
        <3>4. Cardinality(S) = before
            BY <1>10
        <3> HIDE DEF S
        <3> QED BY <3>1, <3>2, <3>3, <3>4, FS_AddElement
    <2> QED BY <1>5, <1>8, <1>13, <2>1, <2>2, <2>3 DEF Counts
<1>15. Exact'
    <2>1. OfOnePush(chunks', origin, shared, p) /\ Numbered(chunks', chunkSerial)
        BY <1>3, <1>4, <1>9, <1>11, LeftOfOnePush
    <2>2. auChunk' < chunkSerial
        BY <1>8, <1>9 DEF Numbered
    <2> QED BY <1>1, <1>2, <1>11, <1>14, <2>1, <2>2 DEF Exact
<1>16. ASSUME origin[o].push \notin shared
       PROVE  /\ last'.pts = origin[o].pts
              /\ last'.index = Cardinality({b \in begun \cup {o} : /\ b < o
                                                  /\ origin[b].push = origin[o].push})
    <2>1. /\ origin[o].pts = chunks[k].pts
          /\ {b \in begun \cup {o} : b < o /\ origin[b].push = origin[o].push}
                 = {b \in begun : b >= chunks[k].start}
        BY <1>1, <1>3, <1>7, <1>9, <1>10, <1>11, <1>16, BegunInPush
    <2> QED BY <1>8, <1>10, <2>1
<1>17. AttributionExact'
    BY <1>2, <1>8, <1>16 DEF AttributionExact, Attributed
<1> QED BY <1>15, <1>17

-----------------------------------------------------------------------------
(* The rest.                                                               *)

LEMMA LetGoExact ==
    ASSUME IInv, Exact, NEW n \in 1..MaxBytes, LetGo(n)
    PROVE  Exact'
<1>1. at \in Nat /\ at' \in Nat /\ at <= at' /\ begun \subseteq Nat
    BY AttributionConstants DEF IInv, TypeOK, LetGo
<1>2. UNCHANGED <<engineVars, origin, begun, shared, resets>>
    BY DEF LetGo
<1>3. Counts(chunks, begun, at', auChunk, auInChunk)
    <2>1. ASSUME NEW b \in begun PROVE b < at'
        <3>1. b < at /\ b \in Nat
            BY <1>1, Zenon DEF Exact, Counts
        <3>2. QED BY <1>1, <3>1
    <2> QED BY <2>1 DEF Exact, Counts
<1> QED BY <1>2, <1>3, Zenon DEF Exact, engineVars

LEMMA ResetExact ==
    ASSUME IInv, Exact, Reset
    PROVE  Exact'
<1>1. Len(chunks') = 0 /\ pushed' = 0 /\ begun' = {} /\ chunkSerial' \in Nat /\ auChunk' = -1
    BY EmptySeq DEF IInv, TypeOK, Reset
<1> QED BY <1>1 DEF Exact, OfOnePush, Numbered, FirstByte, Counts

LEMMA ExactKept == EInv /\ [Next]_vars => EInv'
<1> SUFFICES ASSUME EInv, [Next]_vars PROVE EInv'
    OBVIOUS
<1>1. ASSUME last' = None PROVE AttributionExact'
    BY <1>1 DEF AttributionExact, Attributed
<1>2. ASSUME NEW n \in 1..MaxBytes, NEW pts \in Timestamps, Push(n, pts) PROVE EInv'
    <2>1. last' = None
        BY <1>2 DEF Push
    <2> QED BY <1>1, <1>2, <2>1, PushKeeps, PushExact DEF EInv
<1>3. ASSUME NEW gap \in 0..MaxBytes, NEW len \in 1..MaxBytes, AccessUnit(gap, len)
      PROVE  EInv'
    BY <1>3, AccessUnitKeeps, AccessUnitExact DEF EInv
<1>4. ASSUME NEW n \in 1..MaxBytes, LetGo(n) PROVE EInv'
    <2>1. last' = None
        BY <1>4 DEF LetGo
    <2> QED BY <1>1, <1>4, <2>1, LetGoKeeps, LetGoExact DEF EInv
<1>5. ASSUME Reset PROVE EInv'
    <2>1. last' = None
        BY <1>5 DEF Reset
    <2> QED BY <1>1, <1>5, <2>1, ResetKeeps, ResetExact DEF EInv
<1>6. ASSUME UNCHANGED vars PROVE EInv'
    <2>1. IInv'
        BY <1>6, StutterKeeps DEF EInv
    <2>2. Exact' /\ AttributionExact'
        BY <1>6, Zenon DEF EInv, Exact, AttributionExact, Attributed, vars, engineVars
    <2> QED BY <2>1, <2>2 DEF EInv
<1> QED BY <1>2, <1>3, <1>4, <1>5, <1>6 DEF Next

\* An access unit that begins in a push with a record of its own is given that
\* push's pts and the number of access units reported from it before, however many
\* pushes wait, whatever was joined or dropped, and over seeks (engine.rs:166-210).
THEOREM AttributionsExact == Spec => []AttributionExact
BY ExactInit, ExactKept, PTL DEF Spec, EInv
=============================================================================
