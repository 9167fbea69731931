--------------------------- MODULE ObjectSchedule ---------------------------
(***************************************************************************)
(* The schedule of object metadata (src/src/objects.rs) as Engine::emit    *)
(* drives it: the payloads that arrive with an access unit queue updates,  *)
(* each due at a stream frame, and every block takes the updates that      *)
(* start inside it.                                                        *)
(*                                                                         *)
(* One call of emit is several steps here, Payload and Schedule for every  *)
(* payload of the access unit and then BeginBlock; `open` keeps any other  *)
(* operation out in between.                                               *)
(*                                                                         *)
(* An element's fields are one value, compared as a whole (same_values);   *)
(* a payload is what ingest() reads of it:                                 *)
(*   trim     the warp mode it signals, or NotSignalled                    *)
(*   object   it has object data                                           *)
(*   sound    its counts agree with each other and with the presentation   *)
(*   layout   the element configuration it states                          *)
(*   updates  how far behind the access unit's start each update is due    *)
(*            (evo offset + sample offset + 32 * block offset), and the    *)
(*            elements it states                                           *)
(***************************************************************************)
EXTENDS Integers, Sequences, FiniteSets

CONSTANTS
    Channels,            \* channels of a block, element slots of an update
    Layouts,             \* element configurations: records with a count
    Values,              \* what an element can state
    Empty,               \* what Element::EMPTY states
    Unknown,             \* what a caller knows of an element before an update
    WarpModes, NotSignalled,
    Payloads,            \* the payloads that may arrive
    FrameCounts,         \* frames a block may have
    MaxPending,          \* MAX_PENDING
    MaxUpdatesPerBlock,  \* MAX_UPDATES_PER_BLOCK
    MaxPosition,         \* bound on the frames output
    MaxArrivals          \* bound on the updates queued between two clears

Elements == [1..Channels -> Values]
Update   == [delay : Nat, elements : Elements]
Payload  == [trim : WarpModes \cup {NotSignalled}, object : BOOLEAN,
             sound : BOOLEAN, layout : Layouts, updates : Seq(Update)]

ASSUME ScheduleConstants ==
    /\ Channels \in Nat
    /\ \A l \in Layouts : l.count \in 0..Channels
    /\ Empty \in Values /\ Unknown \notin Values
    /\ Payloads \subseteq Payload
    /\ FrameCounts \subseteq Nat
    /\ MaxPending \in Nat \ {0} /\ MaxUpdatesPerBlock \in Nat \ {0}
    /\ MaxPosition \in Nat /\ MaxArrivals \in Nat

VARIABLES
    position,   \* Engine::sample_position: frames output so far
    pending,    \* updates waiting: [due, layout, elements, id]
    current,    \* elements of the newest update that has started
    layout,     \* its layout, or NoLayout
    haveState,  \* an update has started since the last clear
    warp,       \* warp mode last signalled
    arriving,   \* updates of the payload being ingested still to be queued
    open,       \* payloads were ingested for a block that has not begun
    block,      \* what the last block carries, or NoBlock
    accepted,   \* history: the updates queued since the last clear
    renderer,   \* history: element values of a caller following the updates
    folded,     \* history: an update was folded since the last clear
    signalled   \* history: warp mode last signalled since the last reset

vars == <<position, pending, current, layout, haveState, warp, arriving, open,
          block, accepted, renderer, folded, signalled>>
schedule == <<pending, current, layout, haveState>>

NoLayout == [count |-> 0, roles |-> "none"]
NoBlock  == [start |-> 0, frames |-> 0, updates |-> <<>>, shown |-> FALSE,
             layout |-> NoLayout, elements |-> [e \in 1..Channels |-> Unknown],
             warp |-> NotSignalled]

-----------------------------------------------------------------------------
(* ObjectState::ingest                                                     *)

\* A payload arrives with the access unit that starts at `position`: its trims
\* count even if the rest of it is then rejected.
PayloadArrives(p) ==
    /\ arriving = <<>>
    /\ open' = TRUE
    /\ warp' = IF p.trim # NotSignalled THEN p.trim ELSE warp
    /\ arriving' = IF p.object /\ p.sound
                   THEN [i \in 1..Len(p.updates) |->
                            [due      |-> position + p.updates[i].delay,
                             layout   |-> p.layout,
                             elements |-> p.updates[i].elements]]
                   ELSE <<>>
    /\ signalled' = IF p.trim # NotSignalled THEN p.trim ELSE signalled
    /\ UNCHANGED <<position, schedule, block, accepted, renderer, folded>>

\* Mutant: in front of those due at the same frame.
QueueAt_BeforeTies(due, k) ==
    /\ \A i \in 1..k : pending[i].due < due
    /\ k < Len(pending) => pending[k + 1].due >= due

\* partition_point: k updates are due no later than this one.
QueueAt(due, k) ==
    /\ \A i \in 1..k : pending[i].due <= due
    /\ k < Len(pending) => pending[k + 1].due > due

\* Mutant: one update more than the limit.
Full_OneMore == Len(pending) > MaxPending
Full == Len(pending) >= MaxPending

\* The next update of the payload is queued; when there is no room, the rest of
\* the payload is rejected.
Schedule ==
    /\ arriving # <<>>
    /\ Cardinality(accepted) < MaxArrivals
    /\ LET u == [due |-> Head(arriving).due, layout |-> Head(arriving).layout,
                 elements |-> Head(arriving).elements, id |-> Cardinality(accepted)]
       IN  \/ /\ ~Full
              /\ \E k \in 0..Len(pending) :
                     /\ QueueAt(u.due, k)
                     /\ pending' = SubSeq(pending, 1, k) \o <<u>>
                                       \o SubSeq(pending, k + 1, Len(pending))
              /\ arriving' = Tail(arriving)
              /\ accepted' = accepted \cup {u}
           \/ Full /\ arriving' = <<>> /\ UNCHANGED <<pending, accepted>>
    /\ UNCHANGED <<position, current, layout, haveState, warp, open, block,
                   renderer, folded, signalled>>

-----------------------------------------------------------------------------
(* ObjectState::begin_block                                                *)

\* Mutant: an update due at the first frame behind the block is taken as well.
DueBefore_End(end, k) ==
    /\ \A i \in 1..k : pending[i].due <= end
    /\ k < Len(pending) => pending[k + 1].due > end

\* The k updates in front are those the block takes.
DueBefore(end, k) ==
    /\ \A i \in 1..k : pending[i].due < end
    /\ k < Len(pending) => pending[k + 1].due >= end

\* The update that the i-th of this block is compared with.
Before(i) ==
    IF i = 1 THEN [have |-> haveState, layout |-> layout, elements |-> current]
    ELSE [have |-> TRUE, layout |-> pending[i - 1].layout,
          elements |-> pending[i - 1].elements]

\* Mutant: only the values are compared.
Changed_ValuesOnly(i) ==
    {e \in 1..pending[i].layout.count : pending[i].elements[e] # Before(i).elements[e]}

\* Elements that carry EL_CHANGED in the i-th update of this block.
Changed(i) ==
    {e \in 1..pending[i].layout.count :
        \/ ~Before(i).have
        \/ Before(i).layout # pending[i].layout
        \/ pending[i].elements[e] # Before(i).elements[e]}

\* The caller's rule: an update sets the elements it marks as changed.
Rendered(updates, e) ==
    LET sets == {i \in 1..Len(updates) : e \in updates[i].changed}
    IN  IF sets = {} THEN renderer[e]
        ELSE updates[CHOOSE i \in sets : \A j \in sets : j <= i].elements[e]

BeginBlock(frames) ==
    /\ arriving = <<>>
    /\ position + frames <= MaxPosition
    /\ \E k \in 0..Len(pending) :
        LET own     == IF k <= MaxUpdatesPerBlock THEN k ELSE MaxUpdatesPerBlock
            updates == [i \in 1..own |->
                           [offset   |-> pending[i].due - position,
                            id       |-> pending[i].id,
                            elements |-> pending[i].elements,
                            changed  |-> Changed(i)]]
        IN  /\ DueBefore(position + frames, k)
            /\ pending' = SubSeq(pending, k + 1, Len(pending))
            /\ current' = IF k = 0 THEN current ELSE pending[k].elements
            /\ layout' = IF k = 0 THEN layout ELSE pending[own].layout
            /\ haveState' = (haveState \/ k > 0)
            /\ block' = [start |-> position, frames |-> frames, updates |-> updates,
                         shown |-> haveState', layout |-> layout',
                         elements |-> current', warp |-> warp]
            /\ renderer' = [e \in 1..Channels |-> Rendered(updates, e)]
            /\ folded' = (folded \/ k > own)
    /\ position' = position + frames
    /\ open' = FALSE
    /\ UNCHANGED <<warp, arriving, accepted, signalled>>

-----------------------------------------------------------------------------
\* Mutant: updates scheduled before a seek stay.
Cleared_PendingKept ==
    /\ haveState' = FALSE /\ layout' = NoLayout /\ warp' = NotSignalled
    /\ UNCHANGED pending

\* ObjectState::clear; the elements stay in memory.
Cleared ==
    /\ haveState' = FALSE /\ layout' = NoLayout /\ warp' = NotSignalled
    /\ pending' = <<>>

\* Whenever decoding restarts.
Clear ==
    /\ ~open
    /\ Cleared
    /\ block' = NoBlock
    /\ accepted' = {} /\ folded' = FALSE
    /\ renderer' = [e \in 1..Channels |-> Unknown]
    /\ UNCHANGED <<current, arriving, open>>

\* Decoding restarts after damage, or from the beginning of other input.
Restart == Clear /\ UNCHANGED <<position, signalled>>
Reset   == Clear /\ position' = 0 /\ signalled' = NotSignalled

Init ==
    /\ position = 0
    /\ pending = <<>> /\ current = [e \in 1..Channels |-> Empty] /\ layout = NoLayout
    /\ haveState = FALSE /\ warp = NotSignalled
    /\ arriving = <<>> /\ open = FALSE /\ block = NoBlock
    /\ accepted = {} /\ folded = FALSE /\ signalled = NotSignalled
    /\ renderer = [e \in 1..Channels |-> Unknown]

Next ==
    \/ \E p \in Payloads : PayloadArrives(p)
    \/ Schedule
    \/ \E frames \in FrameCounts : BeginBlock(frames)
    \/ Restart
    \/ Reset

Spec == Init /\ [][Next]_vars

-----------------------------------------------------------------------------
(* Properties.                                                             *)

Ids(updates) == {updates[i].id : i \in 1..Len(updates)}

Waiting == [due : Nat, layout : Layouts, elements : Elements, id : Nat]

\* Every variable stays in its type, and the queue within its limit.
TypeOK ==
    /\ position \in 0..MaxPosition
    /\ pending \in Seq(Waiting) /\ Len(pending) <= MaxPending
    /\ current \in Elements /\ layout \in Layouts \cup {NoLayout}
    /\ haveState \in BOOLEAN
    /\ warp \in WarpModes \cup {NotSignalled}
    /\ signalled \in WarpModes \cup {NotSignalled}
    /\ arriving \in Seq([due : Nat, layout : Layouts, elements : Elements])
    /\ open \in BOOLEAN /\ folded \in BOOLEAN
    /\ accepted \subseteq Waiting
    /\ renderer \in [1..Channels -> Values \cup {Unknown}]

\* The accepted updates that start in block b.
StartIn(b) == {u \in accepted : u.due >= b.start /\ u.due < b.start + b.frames}

\* What is queued is what starts behind the last block, each update once.
QueueExact ==
    /\ Ids(pending) = {u.id : u \in {v \in accepted : v.due >= position}}
    /\ Cardinality(Ids(pending)) = Len(pending)

\* The last block carries the updates that start in it, in order, at their frame.
BlockExact ==
    block # NoBlock =>
        /\ ~folded => Ids(block.updates) = {u.id : u \in StartIn(block)}
        /\ \A i \in 1..Len(block.updates) :
               /\ \E u \in StartIn(block) :
                      /\ u.id = block.updates[i].id
                      /\ u.due = block.start + block.updates[i].offset
               /\ i > 1 => block.updates[i - 1].offset <= block.updates[i].offset

\* "The decoder delivers each update in the block that contains its start frame"
\* (truehd_atmos.h TIMING): a block's updates are, in order, those that start in
\* it, at their own frame; none is lost, repeated, early or late, and the ones
\* still queued start behind it.
DeliveredOnTime == ~open => QueueExact /\ BlockExact

\* The update that is in force at a frame: the last to start before it, and of
\* several starting together the last to arrive.
InForce(frame) ==
    LET started == {u \in accepted : u.due < frame}
    IN  {u \in started : \A v \in started :
            v.due < u.due \/ (v.due = u.due /\ v.id <= u.id)}

\* The snapshot a block carries is that of the update in force at its end, there
\* is one as soon as an update has started, and without folding its layout is
\* that update's as well.
SnapshotInForce ==
    block # NoBlock =>
        LET end == block.start + block.frames
        IN  /\ block.shown <=> InForce(end) # {}
            /\ \A u \in InForce(end) : /\ block.elements = u.elements
                                       /\ ~folded => block.layout = u.layout

\* A caller that applies only the elements marked CHANGED, from nothing after a
\* discontinuity, holds the snapshot's values after every block.
FollowingChangedIsEnough ==
    block.shown /\ ~folded =>
        \A e \in 1..block.layout.count : renderer[e] = block.elements[e]

\* Seen by block layouts alone, the schedule does what Engine::emit relies on: a
\* layout comes into force only by an update queued since the last clear, and no
\* block brings back one that was waiting before it.
Seen == INSTANCE ScheduleContract WITH
            scheduled <- {pending[i].layout : i \in 1..Len(pending)},
            layout    <- IF haveState THEN layout ELSE NoLayout

MeetsContract ==
    [][\/ Seen!Drops(NoLayout)
       \/ \E l \in Layouts : Seen!Takes({l}, {}, {})
       \/ \E started \in SUBSET Layouts : \E left \in SUBSET started :
              Seen!Takes({}, started, left)
      ]_<<pending, haveState, layout>>

\* The same of every block: more updates than a block has room for make no
\* difference to a caller that follows them.
FollowingAlwaysIsEnough ==
    block.shown => \A e \in 1..block.layout.count : renderer[e] = block.elements[e]

\* "warp_mode; the last value signalled since reset" (truehd_atmos.h:238): what a
\* block with metadata states is what the last payload to signal one since the
\* last reset said, whatever was lost or changed in between.
WarpIsLastSinceReset == ~open /\ block.shown => block.warp = signalled
=============================================================================
