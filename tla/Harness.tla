------------------------------- MODULE Harness -------------------------------
(***************************************************************************)
(* The verification harness (src/harness/harness.c), the client program    *)
(* whose verdict the library is released on.                               *)
(*                                                                         *)
(* It cuts a stream into packets and decodes it twice.                     *)
(*   Pass A  decodes it whole, compares samples and object positions with  *)
(*           the reference decoder's, and learns which reference frame     *)
(*           and which access unit each packet begins with.                *)
(*   Pass B  decodes up to a point, resets, resumes at a packet further on *)
(*           or back, and judges every block by what pass A learnt.        *)
(*                                                                         *)
(* The decoder is present through what src/include/truehd_atmos.h promises *)
(* of it. A sound one keeps the promises; the model also lets it break     *)
(* those about metadata, to refuse in pass A, or to return any block at    *)
(* all once it has been reset, since the question is what a verdict is     *)
(* worth. Samples of different access units differ, so that a block tells  *)
(* which one it holds.                                                     *)
(***************************************************************************)
EXTENDS Integers, Sequences, FiniteSets

CONSTANTS
    Options,        \* the command lines tried, each with its input
    ChunkLengths,   \* lengths of the pieces a raw stream is cut into
    MaxAus,         \* bound on the access units of a demuxed packet
    Objects,        \* the elements that are objects
    BedCount,       \* the elements in front of them
    Positions,      \* where an object can be
    Nowhere         \* not a position

AuFrames      == 40     \* access_unit_frames at 48 kHz
Window        == 64     \* how far apart in time events are looked for
BlockOffset   == 32     \* what the reference leaves out of the time of an event
FirstObjectId == 10     \* in the reference's numbering

\* An access unit: its bytes are start + 1 .. end, counted from the beginning of
\* the stream. A duplicate gives no block. Times of updates are relative to the
\* block; `lag` is by how much the reference puts the update too early.
Update == [offset : 0..(AuFrames - 1), lag : {0, BlockOffset},
           positions : [Objects -> Positions]]
Au     == [start : Nat, end : Nat, kind : {"sync", "plain", "duplicate"},
           layout : Nat, updates : Seq(Update)]
Event  == [id : Nat, time : Nat, position : Positions \cup {Nowhere}]
Stream == [aus : Seq(Au), tail : 1..AuFrames, events : Seq(Event)]

\* -1: no --reset-at. The metadata of a decoder may be wrong, it may refuse in
\* pass A, or return anything after a reset.
Option == [stream : Stream, container : BOOLEAN, refAudio : BOOLEAN, refMetadata : BOOLEAN,
           resetAt : Int, resumeAt : Nat, faulty : {"no", "metadata", "refuses", "reset"}]

ASSUME HarnessConstants ==
    /\ Options \subseteq Option
    /\ \A o \in Options :
           LET aus == o.stream.aus
           IN  /\ aus # <<>>
               /\ \A n \in 1..Len(aus) : aus[n].start < aus[n].end
               /\ \A n \in 1..(Len(aus) - 1) : aus[n].end = aus[n + 1].start
               /\ \A u \in 1..Len(aus[Len(aus)].updates) :
                      aus[Len(aus)].updates[u].offset < o.stream.tail
    /\ ChunkLengths \subseteq Nat \ {0} /\ MaxAus \in Nat \ {0}
    /\ IsFiniteSet(Objects) /\ Objects \subseteq Nat /\ BedCount \in Nat
    /\ Nowhere \notin Positions

VARIABLES
    options,
    stream,
    input,          \* in: where each packet ends
    phase,
    k,              \* packets pushed in this pass
    dec,            \* the decoder
    map,            \* per packet: what its first access unit is
    cmp,            \* pass A: what compare_block found
    serials,        \* pass A: layout_serial of the blocks so far
    updates,        \* updates of the block at hand, its sample_position, its length
    target,         \* last_target, have_target
    ours,           \* our position events
    i, j,           \* the reference event compared, and the first of ours near
    unmatched,
    resume,         \* resume_packet
    resetDone, firstAfter, before, after, ordinalMismatch, afterBlocks,
    failed,
    shown,          \* history: positions a renderer has that obeys CHANGED
    stated,         \* history: positions the last update stated
    deviated        \* history: a block after the reset broke a promise

fixedVars == <<options, stream, input>>
passAVars == <<map, cmp, serials>>
metaVars  == <<updates, target, ours, shown, stated>>
matchVars == <<i, j, unmatched>>
passBVars == <<resume, resetDone, firstAfter, before, after, ordinalMismatch,
               afterBlocks, deviated>>
vars == <<fixedVars, phase, k, dec, passAVars, metaVars, matchVars, passBVars, failed>>

Unmapped == [ref |-> -1, ordinal |-> -1]
NoPts    == -1
Silent   == [pending |-> <<>>, position |-> 0, frames |-> 0]

-----------------------------------------------------------------------------
(* The stream, and the reference decode of it.                             *)

AuIndices  == 1..Len(stream.aus)
Size       == stream.aus[Len(stream.aus)].end
Frames(n)  == IF n = Len(stream.aus) THEN stream.tail ELSE AuFrames

\* External: truehdd decodes from the first major sync on and drops duplicates.
InReference(n) ==
    /\ n \in AuIndices /\ stream.aus[n].kind # "duplicate"
    /\ \E s \in 1..n : stream.aus[s].kind = "sync"
RefPosition(n)  == AuFrames * Cardinality({m \in 1..(n - 1) : InReference(m)})
RefFrames ==
    IF \E n \in AuIndices : InReference(n)
    THEN LET last == CHOOSE n \in AuIndices :
                         InReference(n) /\ \A m \in (n + 1)..Len(stream.aus) : ~InReference(m)
         IN  RefPosition(last) + Frames(last)
    ELSE 0

\* Packet p holds the bytes PacketStart(p) + 1 .. input[p].
PacketStart(p) == IF p = 1 THEN 0 ELSE input[p - 1]
Packets        == 1..Len(input)
PacketOf(n)    == CHOOSE p \in Packets :
                      PacketStart(p) <= stream.aus[n].start /\ stream.aus[n].start < input[p]

-----------------------------------------------------------------------------
(* The decoder, as the header promises it: external to the harness.        *)

\* The first access unit that begins at or after a byte.
FirstFrom(byte) ==
    CHOOSE n \in 1..(Len(stream.aus) + 1) :
        /\ \A m \in 1..(n - 1) : stream.aus[m].start < byte
        /\ n \in AuIndices => stream.aus[n].start >= byte

\* Created or reset, and fed from this byte on.
FedFrom(byte) ==
    [first |-> FirstFrom(byte), next |-> FirstFrom(byte), upTo |-> byte,
     live |-> FALSE, frames |-> 0, fresh |-> TRUE]

\* The access units a pull may return: whole, not a duplicate, behind a major sync.
Ready ==
    {n \in dec.next..Len(stream.aus) :
        /\ stream.aus[n].end <= dec.upTo /\ stream.aus[n].kind # "duplicate"
        /\ dec.live \/ \E s \in dec.next..n : stream.aus[s].kind = "sync"}

\* input_access_unit is the ordinal, input_frame_offset the offset.
Block(n) ==
    [au |-> n, frames |-> Frames(n), auFrames |-> AuFrames, pts |-> PacketOf(n),
     index |-> Cardinality({m \in dec.first..(n - 1) : PacketOf(m) = PacketOf(n)}),
     ordinal |-> n - dec.first, offset |-> (n - dec.first) * AuFrames,
     position |-> dec.frames, discontinuity |-> dec.fresh, estimated |-> FALSE]

Pulled(n) == n \in Ready /\ \A m \in Ready : n <= m
After(n)  == [dec EXCEPT !.next = n + 1, !.live = TRUE, !.fresh = FALSE,
                         !.frames = dec.frames + Frames(n)]

NeedMoreData == Ready = {}

\* The updates of a block with the marks they should have.
Marked(us) ==
    LET was(u) == IF u = 1 THEN stated ELSE us[u - 1].positions
    IN  [u \in DOMAIN us |->
            [offset |-> us[u].offset, positions |-> us[u].positions,
             changed |-> {e \in Objects : was(u)[e] # us[u].positions[e]}]]

\* What a decoder that gets metadata wrong makes of them: another position, a
\* time outside the block, marks left out, or nothing at all.
Garbled(us) ==
    {<<>>}
    \cup {[us EXCEPT ![u].positions[e] = p] :
              u \in DOMAIN us, e \in Objects, p \in Positions}
    \cup {[us EXCEPT ![u].offset = AuFrames] : u \in DOMAIN us}
    \cup {[us EXCEPT ![u].changed = c] : u \in DOMAIN us, c \in SUBSET Objects}

-----------------------------------------------------------------------------
(* load_input                                                              *)

\* Mutant: a piece that reaches the end is taken at its full length.
Cut_Unclamped(end) == end
Cut(end) == IF end > Size THEN Size ELSE end

Loaded == IF input = <<>> THEN 0 ELSE input[Len(input)]

\* A raw file is cut anywhere; a demuxer gives whole access units.
LoadChunk(length) ==
    /\ phase = "load" /\ ~options.container /\ Loaded < Size
    /\ input' = Append(input, Cut(Loaded + length))
    /\ UNCHANGED <<options, stream, phase, k, dec, passAVars, metaVars, matchVars,
                   passBVars, failed>>

LoadPacket(n) ==
    /\ phase = "load" /\ options.container /\ Loaded < Size
    /\ LET last == FirstFrom(Loaded) + n - 1
       IN  /\ last \in AuIndices
           /\ input' = Append(input, stream.aus[last].end)
    /\ UNCHANGED <<options, stream, phase, k, dec, passAVars, metaVars, matchVars,
                   passBVars, failed>>

StartPassA ==
    /\ phase = "load" /\ Loaded >= Size
    /\ phase' = "push A" /\ k' = 0
    /\ map' = [p \in Packets |-> Unmapped]
    /\ UNCHANGED <<fixedVars, dec, cmp, serials, metaVars, matchVars, passBVars, failed>>

-----------------------------------------------------------------------------
(* Pass A.                                                                 *)

NothingCompared == [frames |-> 0, mismatch |-> FALSE]

\* The samples of the block are those of the reference from this frame on.
Holds(b, at) ==
    InReference(b.au) /\ at = RefPosition(b.au) /\ b.frames <= Frames(b.au)

\* compare_block: nothing is compared without a reference. A block without frames
\* has no sample that could differ, wherever it is.
CompareBlock(c, b, at) ==
    IF ~options.refAudio THEN c
    ELSE IF at + b.frames > RefFrames THEN [c EXCEPT !.mismatch = c.mismatch \/ b.frames > 0]
    ELSE [frames |-> c.frames + b.frames,
          mismatch |-> c.mismatch \/ (b.frames > 0 /\ ~Holds(b, at))]

PushA ==
    /\ phase = "push A" /\ k < Len(input)
    /\ k' = k + 1 /\ dec' = [dec EXCEPT !.upTo = input[k + 1]]
    /\ phase' = "pull A"
    /\ UNCHANGED <<fixedVars, passAVars, metaVars, matchVars, passBVars, failed>>

\* An error in pass A ends the program, without a verdict but not with a pass.
GiveUp ==
    /\ options.faulty = "refuses" /\ phase' = "stopped" /\ failed' = TRUE
    /\ UNCHANGED <<fixedVars, k, dec, passAVars, metaVars, matchVars, passBVars>>

PushRefused == phase = "push A" /\ k < Len(input) /\ GiveUp
PullFails   == phase = "pull A" /\ GiveUp

PulledDryA ==
    /\ phase = "pull A" /\ NeedMoreData
    /\ phase' = "push A"
    /\ UNCHANGED <<fixedVars, k, dec, passAVars, metaVars, matchVars, passBVars, failed>>

\* Mutant: the packet is taken to begin with the block.
MapEntry_OfBlock(b) == [ref |-> b.position, ordinal |-> b.ordinal]
\* Where the first access unit of the packet lies, counted back from the block.
MapEntry(b) ==
    [ref |-> b.position - b.index * b.auFrames, ordinal |-> b.ordinal - b.index]

\* The first block that gives a place decides.
Learn(b) ==
    IF map[b.pts].ref < 0 THEN [map EXCEPT ![b.pts] = MapEntry(b)] ELSE map

PullA(n) ==
    /\ phase = "pull A" /\ Pulled(n) /\ dec' = After(n)
    /\ map' = Learn(Block(n))
    /\ cmp' = CompareBlock(cmp, Block(n), dec.frames)
    /\ serials' = serials \cup {stream.aus[n].layout}
    /\ LET due == Marked(stream.aus[n].updates)
       IN  \E us \in {due} \cup (IF options.faulty = "metadata" THEN Garbled(due) ELSE {}) :
               updates' = [pending |-> us, position |-> dec.frames, frames |-> Frames(n)]
    /\ phase' = "updates"
    /\ UNCHANGED <<fixedVars, k, target, ours, shown, stated, matchVars, passBVars, failed>>

\* Mutant: an object only counts as moved when it is marked so.
Moved_Marked(u) == {e \in u.changed : target[e] # u.positions[e]}
\* The objects of an update that are not where they last were.
Moved(u) == {e \in Objects : target[e] # u.positions[e]}

\* The events of an update, in the order of the elements.
EventsOf(u, moved) ==
    LET time == updates.position + u.offset
        at[n \in 0..Cardinality(moved)] ==
            IF n = 0 THEN <<>>
            ELSE LET e == CHOOSE e \in moved :
                              Cardinality({f \in moved : f < e}) = n - 1
                 IN  Append(at[n - 1], [id |-> e, time |-> time, position |-> u.positions[e]])
    IN  at[Cardinality(moved)]

TakeUpdate ==
    /\ phase = "updates" /\ updates.pending # <<>>
    /\ LET u == Head(updates.pending)
       IN  /\ failed' = (failed \/ u.offset >= updates.frames \/ ~(Moved(u) \subseteq u.changed))
           /\ ours' = ours \o EventsOf(u, Moved(u))
           /\ target' = [e \in Objects |-> IF e \in Moved(u) THEN u.positions[e] ELSE target[e]]
           /\ shown' = [e \in Objects |-> IF e \in u.changed THEN u.positions[e] ELSE shown[e]]
           /\ stated' = u.positions
    /\ updates' = [updates EXCEPT !.pending = Tail(updates.pending)]
    /\ UNCHANGED <<fixedVars, phase, k, dec, passAVars, matchVars, passBVars>>

UpdatesTaken ==
    /\ phase = "updates" /\ updates.pending = <<>>
    /\ phase' = "pull A" /\ updates' = Silent
    /\ UNCHANGED <<fixedVars, k, dec, passAVars, target, ours, shown, stated, matchVars,
                   passBVars, failed>>

BitExact == ~cmp.mismatch /\ cmp.frames = RefFrames

FinishPassA ==
    /\ phase = "push A" /\ k = Len(input)
    /\ failed' = (failed \/ Cardinality(serials) > 1 \/ (options.refAudio /\ ~BitExact))
    /\ phase' = IF options.refMetadata THEN "match" ELSE "seek"
    /\ i' = 1 /\ j' = 1
    /\ UNCHANGED <<fixedVars, k, dec, passAVars, metaVars, unmatched, passBVars>>

-----------------------------------------------------------------------------
(* Matching of the reference's position events with ours.                  *)

\* load_damf_events: an event that states no position is left out.
KeptEvents(events) ==
    LET kept[n \in 0..Len(events)] ==
            IF n = 0 THEN <<>>
            ELSE IF events[n].position = Nowhere THEN kept[n - 1]
            ELSE Append(kept[n - 1], events[n])
    IN  kept[Len(events)]
CliEvents == KeptEvents(stream.events)

\* Mutant: later events are taken to be later in time.
Passed_NoSlack(o, c) == o.time < c.time
\* Too early for this event, and for every later one.
Passed(o, c) == o.time + Window < c.time

SameEvent(o, c) ==
    /\ o.id = c.id - FirstObjectId + BedCount
    /\ o.time - c.time \in {0, BlockOffset}
    /\ o.position = c.position

\* The first of ours from j on that is not too early for c.
SkippedTo(c) ==
    CHOOSE m \in j..(Len(ours) + 1) :
        /\ \A n \in j..(m - 1) : Passed(ours[n], c)
        /\ m <= Len(ours) => ~Passed(ours[m], c)

\* The first of ours from there on that is too late for c.
Beyond(c, from) ==
    CHOOSE m \in from..(Len(ours) + 1) :
        /\ \A n \in from..(m - 1) : ours[n].time <= c.time + Window
        /\ m <= Len(ours) => ours[m].time > c.time + Window

MatchBed ==
    /\ phase = "match" /\ i <= Len(CliEvents)
    /\ CliEvents[i].id < FirstObjectId
    /\ i' = i + 1
    /\ UNCHANGED <<fixedVars, phase, k, dec, passAVars, metaVars, j, unmatched,
                   passBVars, failed>>

MatchEvent ==
    /\ phase = "match" /\ i <= Len(CliEvents)
    /\ LET c    == CliEvents[i]
           from == SkippedTo(c)
           found == \E n \in from..(Beyond(c, from) - 1) : SameEvent(ours[n], c)
       IN  /\ c.id >= FirstObjectId
           /\ j' = from
           /\ unmatched' = (unmatched \/ ~found)
    /\ i' = i + 1
    /\ UNCHANGED <<fixedVars, phase, k, dec, passAVars, metaVars, passBVars, failed>>

ObjectEvents == {n \in 1..Len(CliEvents) : CliEvents[n].id >= FirstObjectId}
AllMatched == ~unmatched /\ Cardinality(ObjectEvents) = Len(ours)

FinishMatch ==
    /\ phase = "match" /\ i > Len(CliEvents)
    /\ failed' = (failed \/ ~AllMatched)
    /\ phase' = "seek"
    /\ UNCHANGED <<fixedVars, k, dec, passAVars, metaVars, matchVars, passBVars>>

-----------------------------------------------------------------------------
(* Pass B.                                                                 *)

Reaches(p) == map[p].ref >= 0 /\ map[p].ref >= options.resumeAt

\* The first packet known to begin at or after the point; the first of all if
\* there is none.
ResumePacket ==
    IF \E p \in Packets : Reaches(p)
    THEN CHOOSE p \in Packets : Reaches(p) /\ \A q \in 1..(p - 1) : ~Reaches(q)
    ELSE 1

\* Without a block in pass A there is no rate, and no pass B.
NoPassB ==
    /\ phase = "seek" /\ (options.resetAt < 0 \/ serials = {})
    /\ phase' = "done"
    /\ UNCHANGED <<fixedVars, k, dec, passAVars, metaVars, matchVars, passBVars, failed>>

StartPassB ==
    /\ phase = "seek" /\ options.resetAt >= 0 /\ serials # {}
    /\ resume' = ResumePacket
    /\ dec' = FedFrom(0) /\ k' = 0
    /\ phase' = "push B"
    /\ UNCHANGED <<fixedVars, passAVars, metaVars, matchVars, resetDone, firstAfter,
                   before, after, ordinalMismatch, afterBlocks, deviated, failed>>

\* What push returns is not looked at.
PushB ==
    /\ phase = "push B" /\ k < Len(input)
    /\ k' = k + 1 /\ dec' = [dec EXCEPT !.upTo = input[k + 1]]
    /\ phase' = "pull B"
    /\ UNCHANGED <<fixedVars, passAVars, metaVars, matchVars, passBVars, failed>>

AfterFaultyReset == resetDone /\ options.faulty = "reset"

\* Anything but a block ends the pulling.
PulledDryB ==
    /\ phase = "pull B" /\ (NeedMoreData \/ AfterFaultyReset)
    /\ phase' = "push B"
    /\ UNCHANGED <<fixedVars, k, dec, passAVars, metaVars, matchVars, passBVars, failed>>

IsMapped(b) == b.pts # NoPts /\ map[b.pts].ref >= 0

\* The reference frame a block claims to hold.
At(b) == map[b.pts].ref + b.index * b.auFrames

\* Mutant: as counted in the uninterrupted pass.
ExpectedOrdinal_Absolute(b) == map[b.pts].ordinal + b.index
ExpectedOrdinal(b) == map[b.pts].ordinal + b.index - map[resume].ordinal

FirstIsMarked(b) == b.discontinuity /\ b.position = 0

\* Mutant: the offset is not looked at.
OnTimeline_NumberOnly(b) == b.estimated \/ b.ordinal = ExpectedOrdinal(b)
OnTimeline(b) ==
    b.estimated \/ /\ b.ordinal = ExpectedOrdinal(b)
                   /\ map[resume].ref + b.offset = At(b)

\* What a block after the reset should be. Its samples, as many as it has, are
\* those of the place its pts and index state, counted in the access unit length
\* it states; unless flagged, its offset from the resume packet leads to the same
\* place and its number counts the access units since that packet; and the first
\* one is marked and starts the positions.
KeepsPromise(b) ==
    LET first(p) == FirstFrom(PacketStart(p))
        place    == RefPosition(first(b.pts)) + b.index * b.auFrames
    IN  /\ b.pts # NoPts
        /\ b.frames > 0 => place = RefPosition(b.au) /\ b.frames <= Frames(b.au)
        /\ b.estimated \/ /\ b.ordinal = first(b.pts) + b.index - first(resume)
                          /\ RefPosition(first(resume)) + b.offset = place
        /\ firstAfter => b.discontinuity /\ b.position = 0

\* Mutant: each time its frame is passed.
ResetDue_Again(b) == b.position + b.frames >= options.resetAt
ResetDue(b) == ~resetDone /\ b.position + b.frames >= options.resetAt

\* A block no packet is known for fails the run and is not looked at further.
Lost(b) ==
    /\ ~IsMapped(b)
    /\ failed' = TRUE
    /\ UNCHANGED <<firstAfter, before, after, ordinalMismatch, afterBlocks, deviated>>

JudgeBefore(b) ==
    /\ IsMapped(b) /\ ~resetDone
    /\ before' = (before \/ CompareBlock(NothingCompared, b, At(b)).mismatch)
    /\ UNCHANGED <<firstAfter, after, ordinalMismatch, afterBlocks, deviated, failed>>

JudgeAfter(b) ==
    /\ IsMapped(b) /\ resetDone
    /\ failed' = (failed \/ (firstAfter /\ ~FirstIsMarked(b)))
    /\ firstAfter' = FALSE
    /\ ordinalMismatch' = (ordinalMismatch \/ ~OnTimeline(b))
    /\ after' = (after \/ CompareBlock(NothingCompared, b, At(b)).mismatch)
    /\ afterBlocks' = TRUE
    /\ deviated' = (deviated \/ ~KeepsPromise(b))
    /\ UNCHANGED before

Judge(b) == Lost(b) \/ JudgeBefore(b) \/ JudgeAfter(b)

\* The seek: what is left in the decoder is dropped, pushing resumes elsewhere.
Seek ==
    /\ resetDone' = TRUE
    /\ dec' = FedFrom(PacketStart(resume)) /\ k' = resume - 1
    /\ phase' = "push B"

PullB(n) ==
    /\ phase = "pull B" /\ ~AfterFaultyReset /\ Pulled(n)
    /\ Judge(Block(n))
    /\ IF IsMapped(Block(n)) /\ ResetDue(Block(n)) THEN Seek
       ELSE dec' = After(n) /\ UNCHANGED <<k, phase, resetDone>>
    /\ UNCHANGED <<fixedVars, passAVars, metaVars, matchVars, resume>>

\* Every field of it is the decoder's to choose: an empty or a short block too,
\* access units of no length, an offset and a number that have nothing to do with
\* each other or with the samples.
AnyBlock == [au : AuIndices, frames : {0, stream.tail, AuFrames}, auFrames : {0, AuFrames},
             pts : Packets \cup {NoPts}, index : 0..(MaxAus - 1),
             ordinal : 0..(Len(stream.aus) - 1),
             offset : {AuFrames * n : n \in 0..(Len(stream.aus) - 1)} \cup {1},
             position : {0, AuFrames}, discontinuity : BOOLEAN, estimated : BOOLEAN]

PullFaultyB(b) ==
    /\ phase = "pull B" /\ AfterFaultyReset
    /\ Judge(b)
    /\ UNCHANGED <<fixedVars, phase, k, dec, passAVars, metaVars, matchVars, resume,
                   resetDone>>

PassBOk == afterBlocks /\ ~after /\ ~before /\ ~ordinalMismatch

FinishPassB ==
    /\ phase = "push B" /\ k = Len(input)
    /\ failed' = (failed \/ ~PassBOk)
    /\ phase' = "done"
    /\ UNCHANGED <<fixedVars, k, dec, passAVars, metaVars, matchVars, passBVars>>

-----------------------------------------------------------------------------
Init ==
    /\ options \in Options /\ stream = options.stream
    /\ input = <<>> /\ phase = "load" /\ k = 0
    /\ dec = FedFrom(0)
    /\ map = <<>> /\ cmp = NothingCompared /\ serials = {}
    /\ updates = Silent /\ ours = <<>>
    /\ target = [e \in Objects |-> Nowhere]
    /\ shown = target /\ stated = target
    /\ i = 1 /\ j = 1 /\ unmatched = FALSE
    /\ resume = 1
    /\ resetDone = FALSE /\ firstAfter = TRUE /\ before = FALSE /\ after = FALSE
    /\ ordinalMismatch = FALSE /\ afterBlocks = FALSE
    /\ failed = FALSE /\ deviated = FALSE

Next ==
    \/ \E length \in ChunkLengths : LoadChunk(length)
    \/ \E n \in 1..MaxAus : LoadPacket(n)
    \/ StartPassA \/ PushA \/ PushRefused \/ PulledDryA \/ PullFails
    \/ \E n \in AuIndices : PullA(n) \/ PullB(n)
    \/ TakeUpdate \/ UpdatesTaken \/ FinishPassA
    \/ MatchBed \/ MatchEvent \/ FinishMatch
    \/ NoPassB \/ StartPassB \/ PushB \/ PulledDryB
    \/ AfterFaultyReset /\ \E b \in AnyBlock : PullFaultyB(b)
    \/ FinishPassB

\* A sequential program: it goes on as long as it can.
Spec == Init /\ [][Next]_vars /\ WF_vars(Next)

-----------------------------------------------------------------------------
(* Properties.                                                             *)

Passes == phase = "done" /\ ~failed

OneLayout == \A n \in AuIndices : stream.aus[n].layout = stream.aus[1].layout

\* Every access unit of the stream gives a block, and all have one layout.
Plain == OneLayout /\ \A n \in AuIndices : InReference(n)

\* Every variable stays in its type; in particular the packets are pieces of the
\* stream in order that make it up, whichever way it was cut.
TypeOK ==
    /\ options \in Options /\ stream = options.stream
    /\ \A p \in Packets : PacketStart(p) < input[p] /\ input[p] <= Size
    /\ phase # "load" => Loaded = Size
    /\ k \in 0..Len(input) /\ resume \in 1..(Len(input) + 1)
    /\ phase # "load" => DOMAIN map = Packets
    /\ dec.upTo = IF k = 0 THEN 0 ELSE input[k]
    /\ {cmp.mismatch, unmatched, resetDone, firstAfter, before, after, ordinalMismatch,
        afterBlocks, failed, deviated} \subseteq BOOLEAN
    /\ target \in [Objects -> Positions \cup {Nowhere}]
    /\ i \in 1..(Len(CliEvents) + 1) /\ j \in 1..(Len(ours) + 1)

\* However the file was cut: what pass A learns of a packet is the number of the
\* first access unit that begins in it, also when that one gave no block; and
\* where all give one, it learns the reference frame too, of every packet in
\* which one begins, and nothing of the others.
MapTrue ==
    phase \in {"seek", "push B", "pull B", "done"} =>
        \A p \in Packets :
            LET first  == FirstFrom(PacketStart(p))
                begins == first \in AuIndices /\ stream.aus[first].start < input[p]
            IN  /\ map[p] # Unmapped => begins /\ map[p].ordinal = first - 1
                /\ Plain =>
                    map[p].ref = IF begins THEN RefPosition(first) ELSE Unmapped.ref

\* The point of the reset lies in the stream, the packet resumed at is one that
\* pass A knows of, and a major sync follows it.
Testable ==
    /\ options.resetAt <= RefFrames /\ IsMapped([pts |-> resume])
    /\ \E n \in AuIndices : n >= FirstFrom(PacketStart(resume)) /\ stream.aus[n].kind = "sync"

\* A decoder that keeps its promises is never failed: not by pass A, on any
\* stream of one layout, and not by pass B where every access unit gives a block.
NoFalseAlarm ==
    options.faulty = "no" =>
        /\ phase = "seek" /\ OneLayout => ~failed
        /\ phase = "done" /\ Plain /\ Testable => ~failed

\* With a reference and a resume packet that pass A knows, a run only passes if
\* every block after the reset was what it should be, whatever else the decoder
\* returned: no sample out of its place, no number or offset off by any amount
\* unless flagged, and the first one marked. What it does not show is that there
\* were samples at all: an empty block passes wherever it says it is.
PassMeansResetKept ==
    Passes /\ options.refAudio /\ Plain /\ IsMapped([pts |-> resume]) => ~deviated

\* What a reference event needs is one of ours, wherever it stands.
HasOurs(c) == \E m \in 1..Len(ours) : SameEvent(ours[m], c)

\* In order of time but for as much as the window puts up with.
EventsInOrder ==
    \A m, n \in ObjectEvents : m < n => CliEvents[m].time <= CliEvents[n].time + Window
OursInOrder ==
    \A m, n \in 1..Len(ours) :
        m < n => ours[m].time <= ours[n].time + (Window - BlockOffset)

\* The window that only moves forward finds what a search of all our events finds
\* for every event of the reference: none is skipped for an event that a later
\* one of the reference needs.
CursorMissesNothing ==
    /\ phase \in {"seek", "push B", "pull B", "done"} /\ options.refMetadata
    /\ EventsInOrder /\ OursInOrder
    => (unmatched <=> \E n \in ObjectEvents : ~HasOurs(CliEvents[n]))

\* As long as nothing has failed, a renderer that moves only the objects marked
\* CHANGED has them where the last update states them.
RendererInStep == ~failed => shown = stated

\* The harness comes to an end, unless the decoder never stops returning blocks.
Terminates == options.faulty # "reset" ~> phase \in {"done", "stopped"}
=============================================================================
