----------------------------- MODULE MCAuFramer -----------------------------
(***************************************************************************)
(* The streams on which TLC checks AuFramer.  Lengths are scaled down: an  *)
(* access unit has 2 or 3 bytes, one with a major sync 4; the order of the *)
(* constants is that of the code's (MIN_AU_LEN <= what a major sync needs  *)
(* <= its shortest access unit).                                           *)
(***************************************************************************)
EXTENDS AuFramer, SequencesExt

\* What a byte in the middle of a payload usually looks like as a header.
Noise == [len |-> 0, sync |-> FALSE, subs |-> 0, pass |-> {},
          dir |-> [k \in SubstreamCounts |-> 1]]

\* The bytes of an access unit coded with k substreams.
Minor(n, k) ==
    <<[Noise EXCEPT !.len = n, !.pass = {k}]>> \o [i \in 1..n - 1 |-> Noise]
MajorLen == MsiEnd + 1
Major(k) ==
    <<[Noise EXCEPT !.len = MajorLen, !.sync = TRUE, !.subs = k, !.pass = {k}]>>
        \o [i \in 1..MajorLen - 1 |-> Noise]

\* Damage to an access unit: a header that fails its parity (or, for a major
\* sync, its CRC), one whose length field is wrong as well, a sync word lost.
BadParity(u) == [u EXCEPT ![1].pass = {}]
BadLength(u) == {[u EXCEPT ![1].pass = {}, ![1].len = n] : n \in 0..MaxAuLen}
SyncLost(u)  == [u EXCEPT ![1].pass = {}, ![1].sync = FALSE]
DamagedForms(u) ==
    {BadParity(u)} \cup BadLength(u) \cup (IF u[1].sync THEN {SyncLost(u)} ELSE {})

\* The stream of these access units, its first `cut` bytes missing.
StreamOf(units, cut) ==
    LET startOf(i) == Len(FlattenSeq(SubSeq(units, 1, i - 1))) - cut
        bytes      == FlattenSeq(units)
    IN  [bytes  |-> SubSeq(bytes, cut + 1, Len(bytes)),
         starts |-> {startOf(i) : i \in 1..Len(units)} \cap 0..Len(bytes)]

\* Payload that looks like something else: a sound minor header, or a sync
\* word whose access unit does not check.
Impostors ==
    {[Noise EXCEPT !.len = n, !.pass = {1}] : n \in MinAuLen..MajorLen}
        \cup {[Noise EXCEPT !.len = MajorLen, !.sync = TRUE, !.subs = 1]}

\* Stream s with an impostor at one offset that starts no access unit.  In front
\* of the first start it does not lead onto one: a fragment that reads like
\* access units up to the chain cannot be told from them.
WithImpostor(s) ==
    LET first == CHOOSE x \in s.starts : \A y \in s.starts : x <= y
    IN  {s} \cup
        {[s EXCEPT !.bytes[x[1] + 1] = x[2]] :
            x \in {y \in ((0..Len(s.bytes) - MajorLen) \ s.starts) \X Impostors :
                     y[1] < first => y[1] + y[2].len \notin s.starts}}

\* Undamaged streams: from the start of an access unit or from the middle of
\* one, with access units before the first major sync and a change of the
\* substream count at a later one.
CleanStreams ==
    UNION {WithImpostor(StreamOf(u, cut)) :
        u \in {<<Minor(2, 1), Minor(3, 1), Major(1), Minor(2, 1), Major(2), Minor(2, 2)>>,
               <<Major(1), Minor(3, 1), Minor(2, 1), Major(1)>>},
        cut \in {0, 1, 3}}

\* Streams with one damaged access unit: any damage behind the first major sync
\* and to it, and a failed check that leaves the length alone in front of it.
Sound == <<Minor(2, 1), Major(1), Minor(2, 1), Minor(3, 1), Major(2), Minor(2, 2),
           Major(1), Minor(2, 1)>>
DamagedAt(i) ==
    {[Sound EXCEPT ![i] = u] :
        u \in IF i > 2 THEN DamagedForms(Sound[i]) ELSE {BadParity(Sound[i])}}

\* Streams with foreign bytes in front of an access unit: at the beginning, or
\* behind the first major sync.
Junk(n) == [i \in 1..n |-> Noise]
JunkBefore(i, n) ==
    LET s     == StreamOf([Sound EXCEPT ![i] = Junk(n) \o Sound[i]], 0)
        start == Len(FlattenSeq(SubSeq(Sound, 1, i - 1)))
    IN  [s EXCEPT !.starts = (@ \ {start}) \cup {start + n}]

DamagedStreams ==
    {StreamOf(units, 0) : units \in UNION {DamagedAt(i) : i \in 1..6}}
    \cup {JunkBefore(i, n) : i \in {1} \cup 3..6, n \in {1, 4, 8}}

AllStreams == CleanStreams \cup DamagedStreams \cup {StreamOf(Sound, 1)}

\* Streams from which some bytes are missing.
Without(s, from, n) ==
    [bytes  |-> SubSeq(s.bytes, 1, from) \o SubSeq(s.bytes, from + n + 1, Len(s.bytes)),
     starts |-> {}]
LossyStreams ==
    {Without(StreamOf(Sound, 0), from, n) : from \in 0..12, n \in 1..3}

\* Streams to seek into: one whose first access unit is damaged, one that begins
\* in the middle of an access unit.
SeekTargets == {StreamOf([Sound EXCEPT ![1] = BadParity(Sound[1])], 0), StreamOf(Sound, 1)}

\* Streams whose first major sync comes late.
LateSync == {JunkBefore(1, n) : n \in 4..8}

\* Streams whose first access unit is damaged in any way.
FirstDamaged == {StreamOf([Sound EXCEPT ![1] = u], 0) : u \in DamagedForms(Sound[1])}

\* A stream with an access unit whose substream directory reaches beyond its
\* own end, into the next one.
Overhanging ==
    {StreamOf(<<Major(1), [Minor(2, 1) EXCEPT ![1].dir[1] = 3], Minor(2, 1), Major(1)>>, 0)}
=============================================================================
