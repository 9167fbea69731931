------------------------ MODULE ObjectScheduleProofs ------------------------
(***************************************************************************)
(* Proofs about ObjectSchedule, for every number of channels, every set of *)
(* payloads and block lengths, and every limit of the queue.               *)
(***************************************************************************)
EXTENDS ObjectSchedule, FiniteSetTheorems, SequenceTheorems,
        WellFoundedInduction, TLAPS

-----------------------------------------------------------------------------
(* Sets of positions and sequences.                                        *)

\* Of some numbers one is the least.
LEMMA LeastOf ==
    ASSUME NEW T, T \subseteq Nat, T # {}
    PROVE  \E x \in T : \A y \in T : x <= y
<1>1. \E x \in T : \A y \in T : ~(<<y, x>> \in OpToRel(<, Nat))
  BY NatLessThanWellFounded, WFMin
<1>2. PICK x \in T : \A y \in T : ~(<<y, x>> \in OpToRel(<, Nat))
  BY <1>1
<1>3. ASSUME NEW y \in T PROVE x <= y
  <2>0. x \in Nat /\ y \in Nat
    OBVIOUS
  <2>1. ~(<<y, x>> \in OpToRel(<, Nat))
    BY <1>2, Zenon
  <2>2. <<y, x>> \in Nat \X Nat /\ <<y, x>>[1] = y /\ <<y, x>>[2] = x
    BY <2>0
  <2>3. ~(y < x)
    BY <2>1, <2>2, Zenon DEF OpToRel
  <2>4. QED BY <2>0, <2>3, SMT
<1>4. QED BY <1>3

\* Of some positions in a sequence one is the last.
LEMMA LastOf ==
    ASSUME NEW n \in Nat, NEW S \in SUBSET (1..n), S # {}
    PROVE  \E i \in S : \A j \in S : j <= i
<1>1. \A i \in S : n - i \in Nat
  BY SMT
<1>2. {n - i : i \in S} \subseteq Nat /\ {n - i : i \in S} # {}
  BY <1>1, Zenon
<1>3. PICK x \in {n - i : i \in S} : \A y \in {n - i : i \in S} : x <= y
  BY <1>2, LeastOf, Zenon
<1>4. PICK i \in S : x = n - i
  BY <1>3, Zenon
<1>5. ASSUME NEW j \in S PROVE j <= i
  <2>1. n - i <= n - j
    BY <1>3, <1>4, Zenon
  <2>2. QED BY <2>1, SMT
<1>6. QED BY <1>5

\* What is in a sequence once an element was put behind the k-th.
Insertion(q, u, k) == SubSeq(q, 1, k) \o <<u>> \o SubSeq(q, k + 1, Len(q))

LEMMA Inserted ==
    ASSUME NEW W, NEW q \in Seq(W), NEW u \in W, NEW k \in 0..Len(q)
    PROVE  /\ Insertion(q, u, k) \in Seq(W)
           /\ Len(Insertion(q, u, k)) = Len(q) + 1
           /\ \A i \in 1..(Len(q) + 1) :
                  Insertion(q, u, k)[i] = IF i <= k THEN q[i]
                                          ELSE IF i = k + 1 THEN u ELSE q[i - 1]
<1> DEFINE r == Insertion(q, u, k)
<1> DEFINE a == SubSeq(q, 1, k)
           c == SubSeq(q, k + 1, Len(q))
           ab == a \o <<u>>
<1>0. Len(q) \in Nat /\ \A i \in 1..Len(q) : q[i] \in W
  BY LenProperties, ElementOfSeq
<1>1. a \in Seq(W) /\ Len(a) = k /\ \A i \in 1..k : a[i] = q[i]
  BY <1>0, SubSeqProperties
<1>2. c \in Seq(W) /\ Len(c) = Len(q) - k /\ \A i \in 1..(Len(q) - k) : c[i] = q[k + i]
  BY <1>0, SubSeqProperties
<1>3. <<u>> \in Seq(W) /\ Len(<<u>>) = 1 /\ <<u>>[1] = u
  OBVIOUS
<1> HIDE DEF a, c
<1>4. /\ ab \in Seq(W) /\ Len(ab) = k + 1
      /\ \A i \in 1..(k + 1) : ab[i] = IF i <= k THEN a[i] ELSE <<u>>[i - k]
  BY <1>1, <1>3, ConcatProperties
<1> HIDE DEF ab
<1>5. /\ ab \o c \in Seq(W) /\ Len(ab \o c) = Len(q) + 1
      /\ \A i \in 1..(Len(q) + 1) : (ab \o c)[i] = IF i <= k + 1 THEN ab[i] ELSE c[i - (k + 1)]
  <2>1. Len(ab) + Len(c) = Len(q) + 1
    BY <1>0, <1>2, <1>4
  <2>2. /\ ab \o c \in Seq(W) /\ Len(ab \o c) = Len(ab) + Len(c)
        /\ \A i \in 1..(Len(ab) + Len(c)) :
               (ab \o c)[i] = IF i <= Len(ab) THEN ab[i] ELSE c[i - Len(ab)]
    BY <1>2, <1>4, ConcatProperties, Zenon
  <2>3. Len(ab) = k + 1
    BY <1>4
  <2>4. QED BY <2>1, <2>2, <2>3, Zenon
<1>6. r = ab \o c
  BY DEF ab, a, c, Insertion
<1> HIDE DEF r
<1>7. ASSUME NEW i \in 1..(Len(q) + 1)
      PROVE  r[i] = IF i <= k THEN q[i] ELSE IF i = k + 1 THEN u ELSE q[i - 1]
  <2>0. i \in Nat /\ k \in Nat /\ k <= Len(q) /\ 1 <= i /\ i <= Len(q) + 1
    BY <1>0
  <2>1. r[i] = IF i <= k + 1 THEN ab[i] ELSE c[i - (k + 1)]
    BY <1>5, <1>6, Zenon
  <2>2. CASE i <= k
    <3>1. i \in 1..k /\ i \in 1..(k + 1) /\ i <= k + 1
      BY <2>0, <2>2
    <3>2. QED BY <3>1, <2>1, <2>2, <1>1, <1>4, Zenon
  <2>3. CASE i = k + 1
    <3>1. i \in 1..(k + 1) /\ i <= k + 1 /\ ~(i <= k) /\ i - k = 1
      BY <2>0, <2>3
    <3>2. ab[i] = u
      BY <3>1, <1>3, <1>4, Zenon
    <3>3. QED BY <3>1, <3>2, <2>1, <2>3, Zenon
  <2>4. CASE i > k + 1
    <3>1. /\ i - (k + 1) \in 1..(Len(q) - k) /\ k + (i - (k + 1)) = i - 1
          /\ ~(i <= k + 1) /\ ~(i <= k) /\ i # k + 1
      BY <2>0, <2>4, <1>0
    <3>2. QED BY <3>1, <2>1, <1>2, Zenon
  <2>5. i <= k \/ i = k + 1 \/ i > k + 1
    BY <2>0
  <2>6. QED BY <2>2, <2>3, <2>4, <2>5, Zenon
<1>8. QED BY <1>5, <1>6, <1>7, Zenon DEF r

\* What is left of a sequence without its first k elements.
LEMMA Behind ==
    ASSUME NEW W, NEW q \in Seq(W), NEW k \in 0..Len(q), NEW r,
           r = SubSeq(q, k + 1, Len(q))
    PROVE  /\ r \in Seq(W)
           /\ Len(r) = Len(q) - k
           /\ \A i \in 1..Len(r) : r[i] = q[k + i]
<1>1. Len(q) \in Nat /\ \A i \in 1..Len(q) : q[i] \in W
  BY LenProperties, ElementOfSeq
<1>2. QED BY <1>1, SubSeqProperties

-----------------------------------------------------------------------------
(* The steps, in the terms the invariants are stated in.                   *)

\* The update u goes into the queue behind the k-th.
Queues(u, k) ==
    /\ k \in 0..Len(pending) /\ QueueAt(u.due, k)
    /\ u.id = Cardinality(accepted)
    /\ \E i \in 1..Len(arriving) : arriving[i].due = u.due
    /\ pending' \in Seq(Waiting) /\ Len(pending') = Len(pending) + 1
    /\ \A i \in 1..Len(pending') :
           pending'[i] = IF i <= k THEN pending[i] ELSE IF i = k + 1 THEN u ELSE pending[i - 1]
    /\ accepted' = accepted \cup {u}

\* What happens to the updates that arrive while there is room for them.
Arrives ==
    /\ arriving' \in Seq([due : Nat, layout : Layouts, elements : Elements])
    /\ \A i \in 1..Len(arriving') : \E j \in 1..Len(arriving) : arriving'[i] = arriving[j]

LEMMA ScheduleQueues ==
    ASSUME TypeOK, IsFiniteSet(accepted), Schedule
    PROVE  /\ Arrives
           /\ \/ Len(pending) < MaxPending /\ \E u \in Waiting, k \in Nat : Queues(u, k)
              \/ UNCHANGED <<pending, accepted>>
<1> DEFINE U == [due : Nat, layout : Layouts, elements : Elements]
           u == [due |-> Head(arriving).due, layout |-> Head(arriving).layout,
                 elements |-> Head(arriving).elements, id |-> Cardinality(accepted)]
<1>1. arriving \in Seq(U) /\ arriving # <<>> /\ pending \in Seq(Waiting)
  BY Zenon DEF TypeOK, Schedule
<1>2. /\ Head(arriving) = arriving[1] /\ Head(arriving) \in U /\ Len(arriving) \in Nat \ {0}
      /\ Tail(arriving) \in Seq(U) /\ Len(Tail(arriving)) = Len(arriving) - 1
      /\ \A i \in 1..Len(Tail(arriving)) : Tail(arriving)[i] = arriving[i + 1]
  <2>1. Len(arriving) \in Nat \ {0} /\ Head(arriving) = arriving[1]
    BY <1>1, EmptySeq
  <2>2. QED BY <2>1, <1>1, HeadTailProperties, Zenon
<1>3. Cardinality(accepted) \in Nat
  BY FS_CardinalityType
<1>4. u \in Waiting /\ u.due = arriving[1].due /\ u.id = Cardinality(accepted)
  BY <1>2, <1>3, SMT DEF Waiting
<1>5. Len(pending) \in Nat /\ MaxPending \in Nat
  BY <1>1, ScheduleConstants
<1>6. Arrives
  <2>1. CASE arriving' = Tail(arriving)
    BY <2>1, <1>1, <1>2, SMT DEF Arrives
  <2>2. CASE arriving' = <<>>
    BY <2>2, SMT DEF Arrives
  <2>3. QED BY <2>1, <2>2, Zenon DEF Schedule
<1> HIDE DEF u
<1>7. CASE Full /\ arriving' = <<>> /\ UNCHANGED <<pending, accepted>>
  BY <1>6, <1>7, Zenon
<1>8. CASE ~(Full /\ arriving' = <<>> /\ UNCHANGED <<pending, accepted>>)
  <2>1. PICK k \in 0..Len(pending) :
             /\ QueueAt(u.due, k)
             /\ pending' = SubSeq(pending, 1, k) \o <<u>> \o SubSeq(pending, k + 1, Len(pending))
    BY <1>8, Zenon DEF Schedule, u
  <2>2. accepted' = accepted \cup {u} /\ ~Full
    BY <1>8, Zenon DEF Schedule, u
  <2>3. /\ pending' \in Seq(Waiting) /\ Len(pending') = Len(pending) + 1
        /\ \A i \in 1..Len(pending') :
               pending'[i] = IF i <= k THEN pending[i]
                             ELSE IF i = k + 1 THEN u ELSE pending[i - 1]
    <3>1. pending \in Seq(Waiting) /\ u \in Waiting
      BY <1>1, <1>4, Zenon
    <3>2. pending' = Insertion(pending, u, k)
      BY <2>1, Zenon DEF Insertion
    <3>3. /\ Insertion(pending, u, k) \in Seq(Waiting)
          /\ Len(Insertion(pending, u, k)) = Len(pending) + 1
          /\ \A i \in 1..(Len(pending) + 1) :
                 Insertion(pending, u, k)[i] = IF i <= k THEN pending[i]
                                               ELSE IF i = k + 1 THEN u ELSE pending[i - 1]
      BY <3>1, Inserted
    <3>4. QED BY <3>2, <3>3, Zenon
  <2>4. Len(pending) < MaxPending
    BY <2>2, <1>5, SMT DEF Full
  <2>5. \E i \in 1..Len(arriving) : arriving[i].due = u.due
    BY <1>2, <1>4
  <2>6. Queues(u, k) /\ k \in Nat
    <3>1. k \in Nat
      BY <1>5
    <3>2. QED BY <3>1, <2>1, <2>2, <2>3, <2>5, <1>4, Zenon DEF Queues
  <2>7. QED BY <2>4, <2>6, <1>4, <1>6, Zenon
<1>9. QED BY <1>7, <1>8, Zenon

\* A block takes k updates, `own` of which are updates of its own.
Begins(frames, k, own) ==
    /\ k \in 0..Len(pending) /\ DueBefore(position + frames, k)
    /\ own \in 0..k /\ (k > 0 => own > 0)
    /\ pending' \in Seq(Waiting) /\ Len(pending') = Len(pending) - k
    /\ \A i \in 1..Len(pending') : pending'[i] = pending[k + i]
    /\ current' = IF k = 0 THEN current ELSE pending[k].elements
    /\ layout' = IF k = 0 THEN layout ELSE pending[own].layout
    /\ haveState' = (haveState \/ k > 0)
    /\ folded' = (folded \/ k > own)
    /\ block'.start = position /\ block'.frames = frames
    /\ block'.shown = haveState' /\ block'.layout = layout'
    /\ block'.elements = current' /\ block'.warp = warp
    /\ Len(block'.updates) = own
    /\ \A i \in 1..own :
           /\ block'.updates[i].offset = pending[i].due - position
           /\ block'.updates[i].id = pending[i].id
           /\ block'.updates[i].elements = pending[i].elements
           /\ block'.updates[i].changed = Changed(i)
    /\ renderer' = [e \in 1..Channels |-> Rendered(block'.updates, e)]

LEMMA BlockBegins ==
    ASSUME TypeOK, NEW frames \in FrameCounts, BeginBlock(frames)
    PROVE  \E k, own \in Nat : Begins(frames, k, own)
<1>1. pending \in Seq(Waiting) /\ Len(pending) \in Nat /\ MaxUpdatesPerBlock \in Nat \ {0}
  BY ScheduleConstants DEF TypeOK
<1> DEFINE owned(k) == IF k <= MaxUpdatesPerBlock THEN k ELSE MaxUpdatesPerBlock
           updates(k) == [i \in 1..owned(k) |->
                             [offset   |-> pending[i].due - position,
                              id       |-> pending[i].id,
                              elements |-> pending[i].elements,
                              changed  |-> Changed(i)]]
<1>2. PICK k \in 0..Len(pending) :
         /\ DueBefore(position + frames, k)
         /\ pending' = SubSeq(pending, k + 1, Len(pending))
         /\ current' = IF k = 0 THEN current ELSE pending[k].elements
         /\ layout' = IF k = 0 THEN layout ELSE pending[owned(k)].layout
         /\ haveState' = (haveState \/ k > 0)
         /\ block' = [start |-> position, frames |-> frames, updates |-> updates(k),
                      shown |-> haveState', layout |-> layout',
                      elements |-> current', warp |-> warp]
         /\ renderer' = [e \in 1..Channels |-> Rendered(updates(k), e)]
         /\ folded' = (folded \/ k > owned(k))
  BY Zenon DEF BeginBlock
<1> DEFINE own == owned(k)
<1>3. k \in Nat /\ own \in Nat /\ own \in 0..k /\ (k > 0 => own > 0)
  BY <1>1, SMT
<1>4. /\ pending' \in Seq(Waiting) /\ Len(pending') = Len(pending) - k
      /\ \A i \in 1..Len(pending') : pending'[i] = pending[k + i]
  BY <1>1, <1>2, Behind
<1>5. /\ Len(updates(k)) = own
      /\ \A i \in 1..own :
             /\ updates(k)[i].offset = pending[i].due - position
             /\ updates(k)[i].id = pending[i].id
             /\ updates(k)[i].elements = pending[i].elements
             /\ updates(k)[i].changed = Changed(i)
  BY <1>3, SMT
<1> HIDE DEF updates
<1>6. /\ block'.start = position /\ block'.frames = frames /\ block'.updates = updates(k)
      /\ block'.shown = haveState' /\ block'.layout = layout'
      /\ block'.elements = current' /\ block'.warp = warp
  BY <1>2, SMT
<1> HIDE DEF owned
<1>7. Begins(frames, k, own)
  BY <1>2, <1>3, <1>4, <1>5, <1>6, Zenon DEF Begins
<1>8. QED BY <1>3, <1>7, Zenon

-----------------------------------------------------------------------------
(* Types, and the numbers updates are told apart by.                       *)

Counted ==
    /\ IsFiniteSet(accepted)
    /\ \A u \in accepted : u.id < Cardinality(accepted)
    /\ \A u, v \in accepted : u.id = v.id => u = v

Typed == TypeOK /\ Counted

LEMMA TypedInit == Init => Typed
<1> SUFFICES ASSUME Init PROVE Typed
  OBVIOUS
<1>1. Counted
  BY FS_EmptySet, Zenon DEF Init, Counted
<1>2. TypeOK
  <2>1. Empty \in Values /\ Channels \in Nat /\ MaxPosition \in Nat /\ MaxPending \in Nat
    BY ScheduleConstants, Zenon
  <2>2. current \in Elements
    BY <2>1, Zenon DEF Init, Elements
  <2>3. /\ pending \in Seq(Waiting) /\ Len(pending) <= MaxPending
        /\ arriving \in Seq([due : Nat, layout : Layouts, elements : Elements])
    BY <2>1, SMT DEF Init
  <2>4. position \in 0..MaxPosition
    BY <2>1, SMT DEF Init
  <2>5. QED BY <2>2, <2>3, <2>4, Zenon DEF Init, TypeOK
<1>3. QED BY <1>1, <1>2 DEF Typed

\* An element a caller follows has a value one of the updates stated.
LEMMA RenderedType ==
    ASSUME TypeOK, NEW frames \in FrameCounts, NEW k \in Nat, NEW own \in Nat,
           Begins(frames, k, own), NEW e \in 1..Channels
    PROVE  Rendered(block'.updates, e) \in Values \cup {Unknown}
<1> DEFINE us == block'.updates
           sets == {i \in 1..Len(us) : e \in us[i].changed}
<1>1. CASE sets = {}
  <2>1. renderer[e] \in Values \cup {Unknown}
    BY DEF TypeOK
  <2>2. QED BY <1>1, <2>1, Zenon DEF Rendered
<1>2. CASE sets # {}
  <2>1. Len(us) = own /\ \A i \in 1..own : us[i].elements = pending[i].elements
    BY Zenon DEF Begins
  <2>2. \E i \in sets : \A j \in sets : j <= i
    <3>1. sets \in SUBSET (1..own)
      BY <2>1, Zenon
    <3>2. QED BY <3>1, <1>2, LastOf, Zenon
  <2> DEFINE last == CHOOSE i \in sets : \A j \in sets : j <= i
  <2>3. last \in sets
    <3> HIDE DEF sets
    <3>1. QED BY <2>2, Zenon
  <2>4. Rendered(us, e) = us[last].elements[e]
    BY <1>2, Zenon DEF Rendered
  <2>5. last \in 1..own
    BY <2>1, <2>3, Zenon
  <2> HIDE DEF last
  <2>6. pending[last].elements \in Elements
    <3>1. own \in 0..Len(pending) /\ pending \in Seq(Waiting)
      BY SMT DEF Begins, TypeOK
    <3>2. last \in 1..Len(pending)
      BY <3>1, <2>5, SMT
    <3>3. pending[last] \in Waiting
      BY <3>1, <3>2, ElementOfSeq, Zenon
    <3>4. QED BY <3>3 DEF Waiting
  <2>7. pending[last].elements[e] \in Values
    BY <2>6 DEF Elements
  <2>8. QED BY <2>1, <2>4, <2>5, <2>7, Zenon
<1>3. QED BY <1>1, <1>2, Zenon

LEMMA TypedKept == Typed /\ [Next]_vars => Typed'
<1> SUFFICES ASSUME Typed, [Next]_vars PROVE Typed'
  OBVIOUS
<1>0. TypeOK /\ Counted
  BY DEF Typed
<1>1. ASSUME NEW p \in Payloads, PayloadArrives(p) PROVE Typed'
  <2>1. Counted'
    BY <1>0, <1>1, Zenon DEF Counted, PayloadArrives
  <2>2. p \in Payload
    BY ScheduleConstants, Zenon
  <2>3. arriving' \in Seq([due : Nat, layout : Layouts, elements : Elements])
    <3>1. position \in Nat
      BY <1>0, ScheduleConstants, SMT DEF TypeOK
    <3>2. CASE p.object /\ p.sound
      <4>1. /\ p.layout \in Layouts /\ Len(p.updates) \in Nat
            /\ \A i \in 1..Len(p.updates) : /\ p.updates[i].delay \in Nat
                                            /\ p.updates[i].elements \in Elements
        <5>1. p.layout \in Layouts /\ p.updates \in Seq(Update)
          BY <2>2, Zenon DEF Payload
        <5>2. \A i \in 1..Len(p.updates) : p.updates[i] \in Update
          BY <5>1, ElementOfSeq, Zenon
        <5>3. QED BY <5>1, <5>2, LenProperties, SMT DEF Update
      <4>2. arriving' = [i \in 1..Len(p.updates) |->
                            [due      |-> position + p.updates[i].delay,
                             layout   |-> p.layout,
                             elements |-> p.updates[i].elements]]
        BY <1>1, <3>2, Zenon DEF PayloadArrives
      <4>3. QED BY <4>1, <4>2, <3>1, SMT
    <3>3. CASE ~(p.object /\ p.sound)
      BY <1>1, <3>3, SMT DEF PayloadArrives
    <3>4. QED BY <3>2, <3>3, Zenon
  <2>4. warp' \in WarpModes \cup {NotSignalled} /\ signalled' \in WarpModes \cup {NotSignalled}
    <3>1. p.trim \in WarpModes \cup {NotSignalled}
      BY <2>2, SMT DEF Payload
    <3>2. QED BY <1>0, <1>1, <3>1, Zenon DEF PayloadArrives, TypeOK
  <2>5. TypeOK'
    BY <1>0, <1>1, <2>3, <2>4, Zenon DEF TypeOK, PayloadArrives, schedule
  <2>6. QED BY <2>1, <2>5 DEF Typed
<1>2. CASE Schedule
  <2>1. /\ Arrives
        /\ \/ Len(pending) < MaxPending /\ \E u \in Waiting, k \in Nat : Queues(u, k)
           \/ UNCHANGED <<pending, accepted>>
    BY <1>0, <1>2, ScheduleQueues, Zenon DEF Counted
  <2>2. /\ UNCHANGED <<position, current, layout, haveState, warp, open, block,
                       renderer, folded, signalled>>
    BY <1>2, Zenon DEF Schedule
  <2>3. CASE UNCHANGED <<pending, accepted>>
    <3>1. Counted'
      BY <1>0, <2>3, Zenon DEF Counted
    <3>2. TypeOK'
      BY <1>0, <2>1, <2>2, <2>3, Zenon DEF TypeOK, Arrives
    <3>3. QED BY <3>1, <3>2 DEF Typed
  <2>4. ASSUME NEW u \in Waiting, NEW k \in Nat, Queues(u, k), Len(pending) < MaxPending
        PROVE  Typed'
    <3>1. Counted'
      <4>1. u.id = Cardinality(accepted) /\ Cardinality(accepted) \in Nat
        BY <1>0, <2>4, FS_CardinalityType, Zenon DEF Queues, Counted
      <4>2. u \notin accepted
        BY <1>0, <4>1, SMT DEF Counted
      <4>3. accepted' = accepted \cup {u}
        BY <2>4, Zenon DEF Queues
      <4>4. IsFiniteSet(accepted') /\ Cardinality(accepted') = Cardinality(accepted) + 1
        BY <1>0, <4>2, <4>3, FS_AddElement, Zenon DEF Counted
      <4>5. \A v \in accepted : v.id \in Nat /\ v.id < Cardinality(accepted)
        BY <1>0, SMT DEF Counted, TypeOK, Waiting
      <4>6. \A v \in accepted' : v.id < Cardinality(accepted')
        BY <4>1, <4>3, <4>4, <4>5, SMT
      <4>7. \A v, w \in accepted' : v.id = w.id => v = w
        BY <1>0, <4>1, <4>3, <4>5, SMT DEF Counted
      <4>8. QED BY <4>4, <4>6, <4>7, Zenon DEF Counted
    <3>2. accepted' \subseteq Waiting /\ pending' \in Seq(Waiting) /\ Len(pending') <= MaxPending
      <4>1. Len(pending) \in Nat /\ MaxPending \in Nat
        BY <1>0, ScheduleConstants DEF TypeOK
      <4>2. QED BY <1>0, <2>4, <4>1, SMT DEF Queues, TypeOK
    <3>3. TypeOK'
      BY <1>0, <2>1, <2>2, <3>2, Zenon DEF TypeOK, Arrives
    <3>4. QED BY <3>1, <3>3 DEF Typed
  <2>5. QED BY <2>1, <2>3, <2>4, Zenon
<1>3. ASSUME NEW frames \in FrameCounts, BeginBlock(frames) PROVE Typed'
  <2>1. PICK k, own \in Nat : Begins(frames, k, own)
    BY <1>0, <1>3, BlockBegins, Zenon
  <2>2. UNCHANGED <<warp, arriving, accepted, signalled>> /\ open' = FALSE
    BY <1>3, Zenon DEF BeginBlock
  <2>3. Counted'
    BY <1>0, <2>2, Zenon DEF Counted
  <2>4. position' \in 0..MaxPosition
    <3>1. frames \in Nat /\ MaxPosition \in Nat
      BY ScheduleConstants, Zenon
    <3>2. position' = position + frames /\ position + frames <= MaxPosition
      BY <1>3, Zenon DEF BeginBlock
    <3>3. QED BY <1>0, <3>1, <3>2, SMT DEF TypeOK
  <2>5. pending' \in Seq(Waiting) /\ Len(pending') <= MaxPending
    BY <1>0, <2>1, ScheduleConstants DEF TypeOK, Begins
  <2>6. \A i \in 1..k : pending[i].elements \in Elements /\ pending[i].layout \in Layouts
    <3>1. k \in 0..Len(pending) /\ pending \in Seq(Waiting)
      BY <1>0, <2>1, Zenon DEF TypeOK, Begins
    <3>2. \A i \in 1..k : pending[i] \in Waiting
      BY <3>1, SMT
    <3>3. QED BY <3>2, SMT DEF Waiting
  <2>7. current' \in Elements /\ layout' \in Layouts \cup {NoLayout}
    <3>1. CASE k = 0
      BY <1>0, <2>1, <3>1, Zenon DEF TypeOK, Begins
    <3>2. CASE k # 0
      <4>1. k \in 1..k /\ own \in 1..k
        BY <2>1, <3>2, SMT DEF Begins
      <4>2. QED BY <2>1, <2>6, <3>2, <4>1, Zenon DEF Begins
    <3>3. QED BY <3>1, <3>2, Zenon
  <2>8. haveState' \in BOOLEAN /\ folded' \in BOOLEAN
    BY <2>1, Zenon DEF Begins
  <2>9. renderer' \in [1..Channels -> Values \cup {Unknown}]
    <3>1. \A e \in 1..Channels : Rendered(block'.updates, e) \in Values \cup {Unknown}
      BY <1>0, <2>1, RenderedType, Zenon
    <3>2. QED BY <2>1, <3>1, Zenon DEF Begins
  <2>10. TypeOK'
    BY <1>0, <2>2, <2>4, <2>5, <2>7, <2>8, <2>9, Zenon DEF TypeOK
  <2>11. QED BY <2>3, <2>10 DEF Typed
<1>4. ASSUME Clear, UNCHANGED position \/ position' = 0,
             signalled' \in {signalled, NotSignalled}
      PROVE  Typed'
  <2>1. Counted'
    BY <1>4, FS_EmptySet, Zenon DEF Counted, Clear
  <2>2. MaxPosition \in Nat /\ MaxPending \in Nat
    BY ScheduleConstants, Zenon
  <2>3. /\ pending' \in Seq(Waiting) /\ Len(pending') <= MaxPending
        /\ arriving' = arriving /\ current' = current /\ open' = open
        /\ position' \in 0..MaxPosition
        /\ signalled' \in WarpModes \cup {NotSignalled}
    BY <1>0, <1>4, <2>2, SMT DEF TypeOK, Clear, Cleared
  <2>4. TypeOK'
    BY <1>0, <1>4, <2>3, Zenon DEF TypeOK, Clear, Cleared
  <2>5. QED BY <2>1, <2>4 DEF Typed
<1>5. CASE UNCHANGED vars
  BY <1>0, <1>5, Zenon DEF vars, Typed, TypeOK, Counted
<1>6. QED
  BY <1>1, <1>2, <1>3, <1>4, <1>5, Zenon DEF Next, Restart, Reset

\* The queue never holds more than MAX_PENDING updates, however many a payload
\* still has to add, and queue, state in force and caller hold updates of the
\* presentation's width and known layouts (objects.rs:159-173, 221-252).
THEOREM ScheduleTypeCorrect == Spec => []TypeOK
<1>1. Typed => TypeOK
  BY DEF Typed
<1>2. QED BY <1>1, TypedInit, TypedKept, PTL DEF Spec

-----------------------------------------------------------------------------
(* The queue: what starts behind the last block, in the order it starts.   *)

Earlier(u, v) == u.due < v.due \/ (u.due = v.due /\ u.id < v.id)

Queued ==
    /\ \A i \in 1..Len(pending) : pending[i] \in accepted /\ pending[i].due >= position
    /\ \A v \in accepted : v.due >= position => \E i \in 1..Len(pending) : pending[i] = v
    /\ \A i, j \in 1..Len(pending) : i < j => Earlier(pending[i], pending[j])
    /\ \A i \in 1..Len(arriving) : arriving[i].due >= position
    /\ ~open => arriving = <<>>

LEMMA QueuedInit == Init => Queued
  BY SMT DEF Init, Queued

\* What the types say of the elements of the queue.
LEMMA QueueTypes ==
    ASSUME Typed
    PROVE  /\ position \in Nat /\ Len(pending) \in Nat /\ Cardinality(accepted) \in Nat
           /\ pending \in Seq(Waiting)
           /\ \A i \in 1..Len(pending) : /\ pending[i] \in Waiting
                                         /\ pending[i].due \in Nat /\ pending[i].id \in Nat
           /\ \A v \in accepted : v.due \in Nat /\ v.id \in Nat /\ v.id < Cardinality(accepted)
           /\ \A i \in 1..Len(arriving) : arriving[i].due \in Nat
<1>1. position \in Nat /\ pending \in Seq(Waiting) /\ accepted \subseteq Waiting
  BY ScheduleConstants, SMT DEF Typed, TypeOK
<1>2. Len(pending) \in Nat /\ \A i \in 1..Len(pending) : pending[i] \in Waiting
  BY <1>1, LenProperties, ElementOfSeq, Zenon
<1>3. Cardinality(accepted) \in Nat
  BY FS_CardinalityType, Zenon DEF Typed, Counted
<1>4. \A v \in Waiting : v.due \in Nat /\ v.id \in Nat
  BY DEF Waiting
<1>5. \A i \in 1..Len(arriving) : arriving[i].due \in Nat
  <2> DEFINE U == [due : Nat, layout : Layouts, elements : Elements]
  <2>1. arriving \in Seq(U)
    BY Zenon DEF Typed, TypeOK
  <2>2. \A u \in U : u.due \in Nat
    OBVIOUS
  <2>3. QED BY <2>1, <2>2, ElementOfSeq, Zenon
<1>6. QED BY <1>1, <1>2, <1>3, <1>4, <1>5, Zenon DEF Typed, Counted

LEMMA QueuedSchedule ==
    ASSUME Typed, Queued, NEW u \in Waiting, NEW k \in Nat, Queues(u, k)
    PROVE  /\ \A i \in 1..Len(pending') : pending'[i] \in accepted' /\ pending'[i].due >= position
           /\ \A v \in accepted' : v.due >= position => \E i \in 1..Len(pending') : pending'[i] = v
           /\ \A i, j \in 1..Len(pending') : i < j => Earlier(pending'[i], pending'[j])
<1>1. /\ position \in Nat /\ Len(pending) \in Nat /\ u.due \in Nat /\ u.id \in Nat
      /\ \A i \in 1..Len(pending) : pending[i].due \in Nat /\ pending[i].id \in Nat
  BY QueueTypes DEF Waiting
<1>2. /\ k \in 0..Len(pending) /\ Len(pending') = Len(pending) + 1
      /\ \A i \in 1..Len(pending') :
             pending'[i] = IF i <= k THEN pending[i] ELSE IF i = k + 1 THEN u ELSE pending[i - 1]
      /\ accepted' = accepted \cup {u}
  BY Zenon DEF Queues
<1>3. u.due >= position
  BY Zenon DEF Queues, Queued
<1>4. /\ \A i \in 1..k : pending'[i] = pending[i] /\ i \in 1..Len(pending)
      /\ k + 1 \in 1..Len(pending') /\ pending'[k + 1] = u
      /\ \A i \in (k + 2)..Len(pending') : pending'[i] = pending[i - 1] /\ i - 1 \in 1..Len(pending)
      /\ \A i \in 1..Len(pending') : i \in 1..k \/ i = k + 1 \/ i \in (k + 2)..Len(pending')
  BY <1>1, <1>2, SMTT(30)
<1>5. ASSUME NEW i \in 1..Len(pending') PROVE pending'[i] \in accepted' /\ pending'[i].due >= position
  BY <1>2, <1>3, <1>4, Zenon DEF Queued
<1>6. ASSUME NEW v \in accepted', v.due >= position
      PROVE  \E i \in 1..Len(pending') : pending'[i] = v
  <2>1. CASE v = u
    BY <1>4, <2>1, Zenon
  <2>2. CASE v # u
    <3>1. PICK i \in 1..Len(pending) : pending[i] = v
      BY <1>2, <1>6, <2>2, Zenon DEF Queued
    <3>2. CASE i <= k
      BY <1>1, <1>2, <3>1, <3>2
    <3>3. CASE i > k
      <4>1. i + 1 \in 1..Len(pending') /\ ~(i + 1 <= k) /\ i + 1 # k + 1 /\ (i + 1) - 1 = i
        BY <1>1, <1>2, <3>3
      <4>2. pending'[i + 1] = pending[(i + 1) - 1]
        BY <1>2, <4>1, Zenon
      <4>3. QED BY <3>1, <4>1, <4>2, Zenon
    <3>4. QED BY <1>1, <3>2, <3>3
  <2>3. QED BY <2>1, <2>2, Zenon
<1>7. ASSUME NEW i \in 1..Len(pending'), NEW j \in 1..Len(pending'), i < j
      PROVE  Earlier(pending'[i], pending'[j])
  <2>1. \A m \in 1..k : pending[m].due <= u.due
    BY Zenon DEF Queues, QueueAt
  <2>2. ASSUME NEW m \in 1..Len(pending), m > k PROVE u.due < pending[m].due
    <3>1. k + 1 \in 1..Len(pending) /\ k < Len(pending)
      BY <1>1, <2>2
    <3>2. pending[k + 1].due > u.due
      BY <3>1, Zenon DEF Queues, QueueAt
    <3>3. CASE m = k + 1
      BY <1>1, <3>1, <3>2, <3>3
    <3>4. CASE m # k + 1
      <4>1. k + 1 < m
        BY <2>2, <3>4
      <4>2. Earlier(pending[k + 1], pending[m])
        BY <3>1, <4>1, Zenon DEF Queued
      <4>3. QED BY <1>1, <3>1, <3>2, <4>2, SMTT(30) DEF Earlier
    <3>5. QED BY <3>3, <3>4, Zenon
  <2>3. \A m \in 1..k : pending[m].id < u.id
    BY <1>4, QueueTypes DEF Queued, Queues
  <2>4. CASE i \in 1..k /\ j \in 1..k
    BY <1>4, <1>7, <2>4, Zenon DEF Queued
  <2>5. CASE i \in 1..k /\ j = k + 1
    <3>1. pending[i].due <= u.due /\ pending[i].id < u.id /\ pending[i].due \in Nat
      BY <1>1, <1>4, <2>1, <2>3, <2>5, Zenon
    <3>2. Earlier(pending[i], u)
      BY <1>1, <3>1, SMT DEF Earlier
    <3>3. QED BY <1>4, <2>5, <3>2, Zenon
  <2>6. CASE i \in 1..k /\ j \in (k + 2)..Len(pending')
    <3>1. i < j - 1
      BY <1>1, <1>2, <2>6
    <3>2. QED BY <1>4, <2>6, <3>1, Zenon DEF Queued
  <2>7. CASE i = k + 1 /\ j \in (k + 2)..Len(pending')
    <3>1. j - 1 > k
      BY <1>1, <1>2, <2>7
    <3>2. u.due < pending[j - 1].due
      BY <1>4, <2>2, <2>7, <3>1, Zenon
    <3>3. QED BY <1>4, <2>7, <3>2, Zenon DEF Earlier
  <2>8. CASE i \in (k + 2)..Len(pending') /\ j \in (k + 2)..Len(pending')
    <3>1. i - 1 < j - 1
      BY <1>1, <1>2, <1>7
    <3>2. QED BY <1>4, <2>8, <3>1, Zenon DEF Queued
  <2>9. QED BY <1>1, <1>2, <1>7, <2>4, <2>5, <2>6, <2>7, <2>8
<1>8. QED BY <1>5, <1>6, <1>7, Zenon

\* The updates a block takes are those that start before its end, and those that
\* are left start behind it.
LEMMA TakenByBlock ==
    ASSUME Typed, Queued, NEW frames \in FrameCounts, NEW k \in Nat, NEW own \in Nat,
           Begins(frames, k, own), NEW i \in 1..Len(pending)
    PROVE  IF i <= k THEN pending[i].due < position + frames
                     ELSE pending[i].due >= position + frames
<1>1. /\ position \in Nat /\ Len(pending) \in Nat /\ frames \in Nat
      /\ \A m \in 1..Len(pending) : pending[m].due \in Nat /\ pending[m].id \in Nat
  BY QueueTypes, ScheduleConstants
<1>2. /\ \A m \in 1..k : pending[m].due < position + frames
      /\ k < Len(pending) => pending[k + 1].due >= position + frames
  BY Zenon DEF Begins, DueBefore
<1>3. CASE i <= k
  BY <1>2, <1>3
<1>4. CASE i = k + 1
  BY <1>1, <1>2, <1>4
<1>5. CASE i > k + 1
  <2>1. k + 1 \in 1..Len(pending) /\ k < Len(pending) /\ ~(i <= k)
    BY <1>1, <1>5
  <2>2. Earlier(pending[k + 1], pending[i])
    BY <1>5, <2>1, Zenon DEF Queued
  <2>3. QED BY <1>1, <1>2, <2>1, <2>2, SMT DEF Earlier
<1>6. QED BY <1>1, <1>3, <1>4, <1>5

LEMMA QueuedKept == Typed /\ Queued /\ [Next]_vars => Queued'
<1> SUFFICES ASSUME Typed, Queued, [Next]_vars PROVE Queued'
  OBVIOUS
<1>0. /\ position \in Nat /\ Len(pending) \in Nat
      /\ \A i \in 1..Len(pending) : pending[i].due \in Nat /\ pending[i].id \in Nat
      /\ \A v \in accepted : v.due \in Nat
      /\ \A i \in 1..Len(arriving) : arriving[i].due \in Nat
  BY QueueTypes, Zenon
<1>1. ASSUME NEW p \in Payloads, PayloadArrives(p) PROVE Queued'
  <2>1. p \in Payload
    BY ScheduleConstants, Zenon
  <2>2. \A i \in 1..Len(arriving') : arriving'[i].due >= position
    <3>1. CASE p.object /\ p.sound
      <4>1. p.updates \in Seq(Update)
        BY <2>1, Zenon DEF Payload
      <4>2. Len(p.updates) \in Nat /\ \A i \in 1..Len(p.updates) : p.updates[i].delay \in Nat
        <5>1. \A u \in Update : u.delay \in Nat
          BY DEF Update
        <5>2. QED BY <4>1, <5>1, LenProperties, ElementOfSeq, Zenon
      <4>3. arriving' = [i \in 1..Len(p.updates) |->
                            [due      |-> position + p.updates[i].delay,
                             layout   |-> p.layout,
                             elements |-> p.updates[i].elements]]
        BY <1>1, <3>1, Zenon DEF PayloadArrives
      <4>4. QED BY <4>2, <4>3, <1>0, SMT
    <3>2. CASE ~(p.object /\ p.sound)
      BY <1>1, <3>2, SMT DEF PayloadArrives
    <3>3. QED BY <3>1, <3>2, Zenon
  <2>3. QED BY <1>1, <2>2, Zenon DEF Queued, PayloadArrives, schedule
<1>2. CASE Schedule
  <2>1. /\ Arrives
        /\ \/ \E u \in Waiting, k \in Nat : Queues(u, k)
           \/ UNCHANGED <<pending, accepted>>
    BY <1>2, ScheduleQueues, Zenon DEF Typed, Counted
  <2>2. position' = position /\ open' = open /\ arriving # <<>>
    BY <1>2, Zenon DEF Schedule
  <2>3. \A i \in 1..Len(arriving') : arriving'[i].due >= position
    BY <2>1, Zenon DEF Arrives, Queued
  <2>4. CASE UNCHANGED <<pending, accepted>>
    BY <2>2, <2>3, <2>4, Zenon DEF Queued
  <2>5. ASSUME NEW u \in Waiting, NEW k \in Nat, Queues(u, k) PROVE Queued'
    BY <2>2, <2>3, <2>5, QueuedSchedule, Zenon DEF Queued
  <2>6. QED BY <2>1, <2>4, <2>5, Zenon
<1>3. ASSUME NEW frames \in FrameCounts, BeginBlock(frames) PROVE Queued'
  <2>1. PICK k, own \in Nat : Begins(frames, k, own)
    BY <1>3, BlockBegins, Zenon DEF Typed
  <2>2. /\ arriving = <<>> /\ arriving' = <<>> /\ accepted' = accepted
        /\ position' = position + frames /\ open' = FALSE /\ frames \in Nat
    BY <1>3, ScheduleConstants, Zenon DEF BeginBlock
  <2>3. /\ k \in 0..Len(pending) /\ Len(pending') = Len(pending) - k
        /\ \A i \in 1..Len(pending') : pending'[i] = pending[k + i]
    BY <2>1, Zenon DEF Begins
  <2>4. \A i \in 1..Len(pending') : k + i \in 1..Len(pending) /\ ~(k + i <= k)
    BY <2>3, <1>0
  <2>5. ASSUME NEW i \in 1..Len(pending')
        PROVE  pending'[i] \in accepted' /\ pending'[i].due >= position'
    <3>1. k + i \in 1..Len(pending) /\ ~(k + i <= k) /\ pending'[i] = pending[k + i]
      BY <2>3, <2>4, Zenon
    <3>2. pending[k + i].due >= position + frames
      BY <2>1, <3>1, TakenByBlock, Zenon
    <3>3. pending[k + i] \in accepted
      BY <3>1, Zenon DEF Queued
    <3>4. QED BY <2>2, <3>1, <3>2, <3>3, Zenon
  <2>6. ASSUME NEW v \in accepted', v.due >= position'
        PROVE  \E i \in 1..Len(pending') : pending'[i] = v
    <3>1. v.due >= position /\ v \in accepted
      BY <1>0, <2>2, <2>6
    <3>2. PICK i \in 1..Len(pending) : pending[i] = v
      BY <3>1, Zenon DEF Queued
    <3>3. i > k
      <4>1. ~(pending[i].due < position + frames)
        BY <1>0, <2>2, <2>6, <3>1, <3>2
      <4>2. ~(i <= k)
        BY <2>1, <4>1, TakenByBlock, Zenon
      <4>3. QED BY <4>2
    <3>4. i - k \in 1..Len(pending') /\ k + (i - k) = i
      BY <1>0, <2>3, <3>3
    <3>5. QED BY <2>3, <3>2, <3>4, Zenon
  <2>7. ASSUME NEW i \in 1..Len(pending'), NEW j \in 1..Len(pending'), i < j
        PROVE  Earlier(pending'[i], pending'[j])
    <3>1. k + i < k + j
      BY <2>7
    <3>2. QED BY <2>3, <2>4, <3>1, Zenon DEF Queued
  <2>8. \A i \in 1..Len(arriving') : arriving'[i].due >= position'
    BY <2>2, SMT
  <2>9. QED BY <2>2, <2>5, <2>6, <2>7, <2>8, Zenon DEF Queued
<1>4. CASE Clear
  <2>1. arriving' = <<>> /\ pending' = <<>> /\ accepted' = {} /\ open' = open
    BY <1>4, Zenon DEF Clear, Cleared, Queued
  <2>2. QED BY <2>1, SMT DEF Queued
<1>5. CASE UNCHANGED vars
  BY <1>5, Zenon DEF vars, schedule, Queued
<1>6. QED
  BY <1>1, <1>2, <1>3, <1>4, <1>5, Zenon DEF Next, Restart, Reset

-----------------------------------------------------------------------------
(* Delivery.                                                               *)

\* The updates that start in the block are the k the block takes.
LEMMA StartsInBlock ==
    ASSUME Typed, Queued, NEW frames \in FrameCounts, NEW k \in Nat, NEW own \in Nat,
           Begins(frames, k, own)
    PROVE  /\ \A v \in accepted : v.due >= position /\ v.due < position + frames
                                  => \E i \in 1..k : pending[i] = v
           /\ \A i \in 1..k : /\ i \in 1..Len(pending) /\ pending[i] \in accepted
                             /\ pending[i].due >= position
                             /\ pending[i].due < position + frames
<1>1. Len(pending) \in Nat /\ position \in Nat /\ frames \in Nat /\ k <= Len(pending)
  BY QueueTypes, ScheduleConstants DEF Begins
<1>2. ASSUME NEW v \in accepted, v.due >= position, v.due < position + frames
      PROVE  \E i \in 1..k : pending[i] = v
  <2>1. PICK i \in 1..Len(pending) : pending[i] = v
    BY <1>2, Zenon DEF Queued
  <2>2. v.due \in Nat
    BY QueueTypes, Zenon
  <2>3. ~(v.due >= position + frames)
    BY <1>1, <1>2, <2>2
  <2>4. i <= k
    BY <2>1, <2>3, TakenByBlock, Zenon
  <2>5. QED BY <2>1, <2>4
<1>3. ASSUME NEW i \in 1..k
      PROVE  /\ i \in 1..Len(pending) /\ pending[i] \in accepted
             /\ pending[i].due >= position /\ pending[i].due < position + frames
  <2>1. i \in 1..Len(pending) /\ i <= k
    BY <1>1
  <2>2. QED BY <2>1, TakenByBlock, Zenon DEF Queued
<1>4. QED BY <1>2, <1>3, Zenon

Delivered ==
    /\ block # NoBlock => /\ block.start \in Nat /\ block.frames \in Nat
                          /\ block.start + block.frames = position
    /\ BlockExact

LEMMA DeliveredInit == Init => Delivered
  BY Zenon DEF Init, Delivered, BlockExact

LEMMA DeliveredKept == Typed /\ Queued /\ Delivered /\ [Next]_vars => Delivered'
<1> SUFFICES ASSUME Typed, Queued, Delivered, [Next]_vars PROVE Delivered'
  OBVIOUS
<1>1. ASSUME NEW p \in Payloads, PayloadArrives(p) PROVE Delivered'
  BY <1>1, Zenon DEF PayloadArrives, Delivered, BlockExact, StartIn
<1>2. CASE Schedule
  <2>1. UNCHANGED <<pending, accepted>> \/ \E u \in Waiting, k \in Nat : Queues(u, k)
    BY <1>2, ScheduleQueues, Zenon DEF Typed, Counted
  <2>2. position' = position /\ block' = block /\ folded' = folded
    BY <1>2, Zenon DEF Schedule
  <2>3. CASE UNCHANGED <<pending, accepted>>
    BY <2>2, <2>3, Zenon DEF Delivered, BlockExact, StartIn
  <2>4. ASSUME NEW u \in Waiting, NEW k \in Nat, Queues(u, k), block # NoBlock
        PROVE  StartIn(block)' = StartIn(block)
    <3>1. u.due >= position /\ u.due \in Nat /\ position \in Nat /\ accepted' = accepted \cup {u}
      BY <2>4, QueueTypes, Zenon DEF Queues, Queued
    <3>2. ~(u.due < block.start + block.frames)
      BY <2>4, <3>1, SMT DEF Delivered
    <3>3. QED BY <2>2, <3>1, <3>2, Zenon DEF StartIn
  <2>5. CASE \E u \in Waiting, k \in Nat : Queues(u, k)
    BY <2>2, <2>4, <2>5, Zenon DEF Delivered, BlockExact
  <2>6. QED BY <2>1, <2>3, <2>5, Zenon
<1>3. ASSUME NEW frames \in FrameCounts, BeginBlock(frames) PROVE Delivered'
  <2>1. PICK k, own \in Nat : Begins(frames, k, own)
    BY <1>3, BlockBegins, Zenon DEF Typed
  <2>2. /\ accepted' = accepted /\ position' = position + frames
        /\ frames \in Nat /\ position \in Nat
    BY <1>3, ScheduleConstants, QueueTypes, Zenon DEF BeginBlock
  <2>3. block'.start = position /\ block'.frames = frames
    BY <2>1, Zenon DEF Begins
  <2>4. StartIn(block)' = {u \in accepted : u.due >= position /\ u.due < position + frames}
    BY <2>2, <2>3, Zenon DEF StartIn
  <2>5. /\ own \in 0..k /\ (folded' <=> folded \/ k > own)
        /\ Len(block'.updates) = own
        /\ \A i \in 1..own :
               /\ block'.updates[i].offset = pending[i].due - position
               /\ block'.updates[i].id = pending[i].id
    BY <2>1, Zenon DEF Begins
  <2>6. /\ \A v \in StartIn(block)' : \E i \in 1..k : pending[i] = v
        /\ \A i \in 1..k : pending[i] \in StartIn(block)' /\ i \in 1..Len(pending)
    BY <2>1, <2>4, StartsInBlock, Zenon
  <2>7. ASSUME ~folded' PROVE Ids(block.updates)' = {u.id : u \in StartIn(block)'}
    <3>1. own = k
      BY <2>5, <2>7
    <3>2. Ids(block.updates)' = {pending[i].id : i \in 1..k}
      BY <2>5, <3>1, Zenon DEF Ids
    <3>3. QED BY <2>6, <3>2, Zenon
  <2>8. ASSUME NEW i \in 1..own
        PROVE  /\ \E u \in StartIn(block)' :
                      /\ u.id = block'.updates[i].id
                      /\ u.due = block'.start + block'.updates[i].offset
               /\ i > 1 => block'.updates[i - 1].offset <= block'.updates[i].offset
    <3>1. i \in 1..k /\ (i > 1 => i - 1 \in 1..k /\ i - 1 \in 1..own /\ i - 1 < i)
      BY <2>5
    <3>2. \A j \in 1..k : pending[j].due \in Nat /\ pending[j].id \in Nat
      BY <2>6, QueueTypes, Zenon
    <3>3. pending[i].due = block'.start + block'.updates[i].offset
      BY <2>2, <2>3, <2>5, <3>1, <3>2
    <3>4. ASSUME i > 1 PROVE block'.updates[i - 1].offset <= block'.updates[i].offset
      <4>1. Earlier(pending[i - 1], pending[i])
        BY <2>6, <3>1, <3>4, Zenon DEF Queued
      <4>2. pending[i - 1].due <= pending[i].due
        BY <3>1, <3>2, <3>4, <4>1, SMT DEF Earlier
      <4>3. QED BY <2>2, <2>5, <3>1, <3>2, <3>4, <4>2, SMTT(30)
    <3>5. QED BY <2>5, <2>6, <3>1, <3>3, <3>4, Zenon
  <2>9. BlockExact'
    BY <2>5, <2>7, <2>8, Zenon DEF BlockExact
  <2>10. QED BY <2>2, <2>3, <2>9, Zenon DEF Delivered
<1>4. CASE Clear
  BY <1>4, Zenon DEF Clear, Delivered, BlockExact
<1>5. CASE UNCHANGED vars
  BY <1>5, Zenon DEF vars, schedule, Delivered, BlockExact, StartIn
<1>6. QED
  BY <1>1, <1>2, <1>3, <1>4, <1>5, Zenon DEF Next, Restart, Reset

\* The queue holds each update that starts behind the last block, once.
LEMMA QueueIsExact == Typed /\ Queued => QueueExact
<1> SUFFICES ASSUME Typed, Queued PROVE QueueExact
  OBVIOUS
<1> DEFINE n == Len(pending)
           f == [i \in 1..n |-> pending[i].id]
<1>1. n \in Nat /\ \A i \in 1..n : pending[i].due \in Nat /\ pending[i].id \in Nat
  BY QueueTypes, Zenon
<1>2. Ids(pending) = {u.id : u \in {v \in accepted : v.due >= position}}
  BY Zenon DEF Ids, Queued
<1>3. ASSUME NEW i \in 1..n, NEW j \in 1..n, f[i] = f[j] PROVE i = j
  <2>1. pending[i] = pending[j]
    BY <1>3, Zenon DEF Queued, Typed, Counted
  <2>2. ~Earlier(pending[i], pending[j]) /\ ~Earlier(pending[j], pending[i])
    BY <1>1, <2>1, SMT DEF Earlier
  <2>3. ~(i < j) /\ ~(j < i)
    BY <2>2, Zenon DEF Queued
  <2>4. QED BY <1>1, <2>3
<1>4. f \in Surjection(1..n, Ids(pending))
  BY Zenon DEF Surjection, Ids
<1>5. f \in Injection(1..n, Ids(pending))
  BY <1>3, <1>4, Zenon DEF Surjection, Injection, IsInjective
<1>6. IsFiniteSet(1..n) /\ Cardinality(1..n) = n
  <2> HIDE DEF n
  <2>1. n \in Int /\ 1 \in Int
    BY <1>1
  <2>2. IsFiniteSet(1..n)
    BY <2>1, FS_Interval, Zenon
  <2>3. Cardinality(1..n) = IF 1 > n THEN 0 ELSE n - 1 + 1
    BY <2>1, FS_Interval, Zenon
  <2>4. QED BY <1>1, <2>2, <2>3
<1>7. Cardinality(Ids(pending)) = Cardinality(1..n)
  <2> HIDE DEF f, n
  <2>1. QED BY <1>4, <1>5, <1>6, FS_Surjection, Zenon
<1>8. QED BY <1>2, <1>6, <1>7, Zenon DEF QueueExact

Scheduled == Typed /\ Queued /\ Delivered

LEMMA ScheduledInit == Init => Scheduled
  BY TypedInit, QueuedInit, DeliveredInit, Zenon DEF Scheduled

LEMMA ScheduledKept == Scheduled /\ [Next]_vars => Scheduled'
  BY TypedKept, QueuedKept, DeliveredKept, Zenon DEF Scheduled

\* Every update is delivered in the block it starts in, at its frame and in
\* order, none lost, repeated, early or late (objects.rs:221-252, 258-301).
THEOREM UpdatesDeliveredOnTime == Spec => []DeliveredOnTime
<1>1. Scheduled => DeliveredOnTime
  BY QueueIsExact, Zenon DEF Scheduled, Delivered, DeliveredOnTime
<1>2. QED BY <1>1, ScheduledInit, ScheduledKept, PTL DEF Spec

-----------------------------------------------------------------------------
(* The update in force.                                                    *)

\* Of the updates that have started one at most is in force.
LEMMA OneInForce ==
    ASSUME Typed, NEW frame, NEW u \in InForce(frame), NEW v \in InForce(frame)
    PROVE  u = v
<1>1. u \in accepted /\ v \in accepted
  BY Zenon DEF InForce
<1>2. /\ v.due < u.due \/ (v.due = u.due /\ v.id <= u.id)
      /\ u.due < v.due \/ (u.due = v.due /\ u.id <= v.id)
  BY Zenon DEF InForce
<1>3. u.due \in Nat /\ u.id \in Nat /\ v.due \in Nat /\ v.id \in Nat
  BY <1>1, QueueTypes, Zenon
<1>4. u.id = v.id
  BY <1>2, <1>3
<1>5. QED BY <1>1, <1>4, Zenon DEF Typed, Counted

Current ==
    /\ haveState <=> InForce(position) # {}
    /\ \A u \in InForce(position) : current = u.elements /\ (~folded => layout = u.layout)
    /\ block # NoBlock => block.shown = haveState /\ block.elements = current /\ block.layout = layout

LEMMA CurrentInit == Init => Current
  BY Zenon DEF Init, Current, InForce

\* The last of the updates a block takes is in force at its end; without any, the
\* one before stays.
LEMMA TakesOver ==
    ASSUME Typed, Queued, NEW frames \in FrameCounts, NEW k \in Nat, NEW own \in Nat,
           Begins(frames, k, own)
    PROVE  IF k = 0 THEN InForce(position + frames) = InForce(position)
                    ELSE pending[k] \in InForce(position + frames)
<1> DEFINE started(f) == {u \in accepted : u.due < f}
<1>1. /\ position \in Nat /\ frames \in Nat /\ Len(pending) \in Nat
      /\ \A v \in accepted : v.due \in Nat /\ v.id \in Nat
  BY QueueTypes, ScheduleConstants
<1>2. /\ \A v \in accepted : v.due >= position /\ v.due < position + frames
                              => \E i \in 1..k : pending[i] = v
      /\ \A i \in 1..k : /\ i \in 1..Len(pending) /\ pending[i] \in accepted
                        /\ pending[i].due >= position
                        /\ pending[i].due < position + frames
  BY StartsInBlock, Zenon
<1>3. CASE k = 0
  <2>1. \A v \in accepted : v.due < position + frames <=> v.due < position
    <3>1. \A v \in accepted : ~(v.due >= position /\ v.due < position + frames)
      BY <1>2, <1>3
    <3>2. QED BY <1>1, <3>1
  <2>2. started(position + frames) = started(position)
    BY <2>1, Zenon
  <2>3. InForce(position + frames) = InForce(position)
    BY <2>2, Zenon DEF InForce
  <2>4. QED BY <1>3, <2>3, Zenon
<1>4. CASE k # 0
  <2>1. k \in 1..k
    BY <1>4
  <2>2. pending[k] \in started(position + frames)
    BY <1>2, <2>1, Zenon
  <2>3. ASSUME NEW v \in started(position + frames)
        PROVE  v.due < pending[k].due \/ (v.due = pending[k].due /\ v.id <= pending[k].id)
    <3>1. CASE v.due < position
      BY <1>1, <1>2, <2>1, <2>3, <3>1
    <3>2. CASE ~(v.due < position)
      <4>1. v.due >= position
        BY <1>1, <3>2
      <4>2. PICK i \in 1..k : pending[i] = v
        BY <1>2, <2>3, <4>1, Zenon
      <4>3. CASE i = k
        BY <1>1, <4>2, <4>3
      <4>4. CASE i # k
        <5>1. i < k
          BY <4>4
        <5>2. Earlier(pending[i], pending[k])
          BY <1>2, <2>1, <5>1, Zenon DEF Queued
        <5>3. QED BY <1>1, <1>2, <2>1, <4>2, <5>2, SMT DEF Earlier
      <4>5. QED BY <4>3, <4>4
    <3>3. QED BY <3>1, <3>2
  <2>4. pending[k] \in InForce(position + frames)
    BY <2>2, <2>3, Zenon DEF InForce
  <2>5. QED BY <1>4, <2>4, Zenon
<1>5. QED BY <1>3, <1>4, Zenon

LEMMA CurrentKept == Typed /\ Queued /\ Current /\ [Next]_vars => Current'
<1> SUFFICES ASSUME Typed, Queued, Current, [Next]_vars PROVE Current'
  OBVIOUS
<1>1. ASSUME NEW p \in Payloads, PayloadArrives(p) PROVE Current'
  BY <1>1, Zenon DEF PayloadArrives, schedule, Current, InForce
<1>2. CASE Schedule
  <2>1. UNCHANGED <<pending, accepted>> \/ \E u \in Waiting, k \in Nat : Queues(u, k)
    BY <1>2, ScheduleQueues, Zenon DEF Typed, Counted
  <2>2. UNCHANGED <<position, current, layout, haveState, block, folded>>
    BY <1>2, Zenon DEF Schedule
  <2>3. CASE UNCHANGED <<pending, accepted>>
    BY <2>2, <2>3, Zenon DEF Current, InForce
  <2>4. ASSUME NEW u \in Waiting, NEW k \in Nat, Queues(u, k)
        PROVE  InForce(position)' = InForce(position)
    <3>1. u.due >= position /\ u.due \in Nat /\ position \in Nat /\ accepted' = accepted \cup {u}
      BY <2>4, QueueTypes, Zenon DEF Queues, Queued
    <3>2. ~(u.due < position)
      BY <3>1
    <3>3. {v \in accepted' : v.due < position} = {v \in accepted : v.due < position}
      BY <3>1, <3>2, Zenon
    <3>4. QED BY <2>2, <3>3, Zenon DEF InForce
  <2>5. CASE \E u \in Waiting, k \in Nat : Queues(u, k)
    BY <2>2, <2>4, <2>5, Zenon DEF Current
  <2>6. QED BY <2>1, <2>3, <2>5, Zenon
<1>3. ASSUME NEW frames \in FrameCounts, BeginBlock(frames) PROVE Current'
  <2>1. PICK k, own \in Nat : Begins(frames, k, own)
    BY <1>3, BlockBegins, Zenon DEF Typed
  <2>2. accepted' = accepted /\ position' = position + frames
    BY <1>3, Zenon DEF BeginBlock
  <2>3. /\ current' = IF k = 0 THEN current ELSE pending[k].elements
        /\ layout' = IF k = 0 THEN layout ELSE pending[own].layout
        /\ (haveState' <=> haveState \/ k > 0) /\ (folded' <=> folded \/ k > own)
        /\ own \in 0..k
        /\ block'.shown = haveState' /\ block'.layout = layout' /\ block'.elements = current'
    BY <2>1, Zenon DEF Begins
  <2>4. InForce(position)' = InForce(position + frames)
    BY <2>2, Zenon DEF InForce
  <2>5. CASE k = 0
    <3>1. InForce(position)' = InForce(position)
      BY <2>1, <2>4, <2>5, TakesOver, Zenon
    <3>2. (haveState' <=> haveState) /\ (folded' <=> folded)
      BY <2>3, <2>5
    <3>3. QED BY <2>3, <2>5, <3>1, <3>2, Zenon DEF Current
  <2>6. CASE k # 0
    <3>1. pending[k] \in InForce(position)'
      BY <2>1, <2>4, <2>6, TakesOver, Zenon
    <3>2. \A u \in InForce(position)' : u = pending[k]
      BY <2>2, <2>4, <3>1, OneInForce, Zenon
    <3>3. haveState' /\ (~folded' => own = k)
      BY <2>3, <2>6
    <3>4. QED BY <2>3, <2>6, <3>1, <3>2, <3>3, Zenon DEF Current
  <2>7. QED BY <2>5, <2>6, Zenon
<1>4. ASSUME Clear PROVE Current'
  <2>1. accepted' = {} /\ haveState' = FALSE /\ block' = NoBlock
    BY <1>4, Zenon DEF Clear, Cleared
  <2>2. InForce(position)' = {}
    BY <2>1, Zenon DEF InForce
  <2>3. QED BY <2>1, <2>2, Zenon DEF Current
<1>5. CASE UNCHANGED vars
  BY <1>5, Zenon DEF vars, schedule, Current, InForce
<1>6. QED
  BY <1>1, <1>2, <1>3, <1>4, <1>5, Zenon DEF Next, Restart, Reset

\* The snapshot of a block is the update in force at its end, whichever of the
\* updates were folded (objects.rs:258-301).
THEOREM SnapshotsInForce == Spec => []SnapshotInForce
<1>1. Delivered /\ Current => SnapshotInForce
  <2> SUFFICES ASSUME Delivered, Current, block # NoBlock
               PROVE  LET end == block.start + block.frames
                      IN  /\ block.shown <=> InForce(end) # {}
                          /\ \A u \in InForce(end) : /\ block.elements = u.elements
                                                     /\ ~folded => block.layout = u.layout
    BY Zenon DEF SnapshotInForce
  <2>1. block.start + block.frames = position
    BY Zenon DEF Delivered
  <2>2. QED BY <2>1, Zenon DEF Current
<1>2. QED
  BY <1>1, ScheduledInit, ScheduledKept, CurrentInit, CurrentKept, PTL DEF Spec, Scheduled

-----------------------------------------------------------------------------
(* A caller that follows the changed elements.                             *)

Followed ==
    /\ haveState /\ ~folded => \A e \in 1..layout.count : renderer[e] = current[e]
    /\ block # NoBlock => block.shown = haveState /\ block.elements = current /\ block.layout = layout
    /\ haveState => layout \in Layouts

LEMMA FollowedInit == Init => Followed
  BY Zenon DEF Init, Followed

\* Where no update of a block from the i-th on marks an element, they all state
\* what the one before them stated, in the same layout.
LEMMA UnmarkedIsUnchanged ==
    ASSUME Typed, NEW n \in Nat, n <= Len(pending), NEW i \in 1..n,
           NEW e \in 1..pending[n].layout.count,
           \A j \in (i + 1)..n : e \notin Changed(j)
    PROVE  pending[i].layout = pending[n].layout /\ pending[i].elements[e] = pending[n].elements[e]
<1> DEFINE same(j) == /\ pending[j].layout = pending[n].layout
                      /\ pending[j].elements[e] = pending[n].elements[e]
           differ == {j \in i..n : ~same(j)}
<1>1. CASE differ = {}
  BY <1>1
<1>2. CASE differ # {}
  <2>1. differ \in SUBSET (1..n)
    BY SMT
  <2>2. PICK m \in differ : \A j \in differ : j <= m
    <3> HIDE DEF differ
    <3>1. QED BY <1>2, <2>1, LastOf, Zenon
  <2>3. m \in i..n /\ m # n
    OBVIOUS
  <2>4. m + 1 \in (i + 1)..n /\ m + 1 \in i..n /\ ~(m + 1 <= m) /\ (m + 1) - 1 = m /\ m + 1 # 1
    BY <2>3
  <2>5. same(m + 1)
    BY <2>2, <2>4, Zenon
  <2>6. e \notin Changed(m + 1)
    BY <2>4, Zenon
  <2>7. Before(m + 1) = [have |-> TRUE, layout |-> pending[m].layout,
                         elements |-> pending[m].elements]
    <3>1. ASSUME NEW j, j # 1
          PROVE  Before(j) = [have |-> TRUE, layout |-> pending[j - 1].layout,
                              elements |-> pending[j - 1].elements]
      BY <3>1, Zenon DEF Before
    <3>2. Before(m + 1) = [have |-> TRUE, layout |-> pending[(m + 1) - 1].layout,
                           elements |-> pending[(m + 1) - 1].elements]
      BY <3>1, <2>4, Zenon
    <3>3. QED BY <3>2, <2>4, Zenon
  <2>8. /\ Before(m + 1).have = TRUE /\ Before(m + 1).layout = pending[m].layout
        /\ Before(m + 1).elements = pending[m].elements
    BY <2>7, SMT
  <2>9. e \in 1..pending[m + 1].layout.count
    BY <2>5, Zenon
  <2>10. /\ pending[m].layout = pending[m + 1].layout
         /\ pending[m + 1].elements[e] = pending[m].elements[e]
    BY <2>6, <2>8, <2>9, Zenon DEF Changed
  <2>11. same(m)
    BY <2>5, <2>10, Zenon
  <2>12. QED BY <2>2, <2>11, Zenon
<1>3. QED BY <1>1, <1>2, Zenon

\* A caller that follows the updates of a block none of whose updates was folded
\* has the last one's elements behind it.
LEMMA FollowedThrough ==
    ASSUME Typed, Followed, NEW frames \in FrameCounts, NEW k \in Nat \ {0},
           Begins(frames, k, k), ~folded, NEW e \in 1..pending[k].layout.count
    PROVE  renderer'[e] = pending[k].elements[e]
<1> DEFINE us == block'.updates
           sets == {i \in 1..Len(us) : e \in us[i].changed}
<1>1. /\ Len(us) = k /\ k <= Len(pending) /\ Len(pending) \in Nat
      /\ \A i \in 1..k : us[i].elements = pending[i].elements /\ us[i].changed = Changed(i)
  BY QueueTypes DEF Begins
<1>2. pending[k].layout \in Layouts /\ pending[k].layout.count \in 0..Channels /\ Channels \in Nat
  <2>1. k \in 1..Len(pending)
    BY <1>1
  <2>2. pending[k].layout \in Layouts
    BY <2>1, QueueTypes, Zenon DEF Waiting
  <2>3. QED BY <2>2, ScheduleConstants, Zenon
<1>3. e \in 1..Channels
  BY <1>2
<1>4. renderer'[e] = Rendered(us, e)
  BY <1>3, Zenon DEF Begins
<1>5. sets = {i \in 1..k : e \in Changed(i)}
  BY <1>1, Zenon
<1>6. CASE sets = {}
  <2>1. \A i \in 1..k : e \notin Changed(i)
    BY <1>5, <1>6, Zenon
  <2>2. 1 \in 1..k /\ \A j \in 2..k : j \in 1..k
    OBVIOUS
  <2>3. pending[1].layout = pending[k].layout /\ pending[1].elements[e] = pending[k].elements[e]
    BY <1>1, <2>1, <2>2, UnmarkedIsUnchanged
  <2>4. Before(1) = [have |-> haveState, layout |-> layout, elements |-> current]
    BY SMT DEF Before
  <2>5. Before(1).have = haveState /\ Before(1).layout = layout /\ Before(1).elements = current
    BY <2>4, SMT
  <2>6. haveState /\ layout = pending[1].layout /\ current[e] = pending[1].elements[e]
    BY <2>1, <2>2, <2>3, <2>5, Zenon DEF Changed
  <2>7. renderer[e] = current[e]
    BY <2>3, <2>6, Zenon DEF Followed
  <2>8. Rendered(us, e) = renderer[e]
    BY <1>6, Zenon DEF Rendered
  <2>9. QED BY <1>4, <2>3, <2>6, <2>7, <2>8, Zenon
<1>7. CASE sets # {}
  <2> DEFINE last == CHOOSE i \in sets : \A j \in sets : j <= i
  <2>1. sets \in SUBSET (1..k)
    BY <1>5, Zenon
  <2>2. last \in sets /\ \A j \in sets : j <= last
    <3> HIDE DEF sets
    <3>1. \E i \in sets : \A j \in sets : j <= i
      BY <1>7, <2>1, LastOf, Zenon
    <3>2. QED BY <3>1, Zenon
  <2>3. Rendered(us, e) = us[last].elements[e]
    BY <1>7, Zenon DEF Rendered
  <2> HIDE DEF last, sets
  <2>4. last \in 1..k
    BY <2>1, <2>2, Zenon
  <2>5. \A j \in (last + 1)..k : e \notin Changed(j)
    <3>1. \A j \in (last + 1)..k : j \in 1..k /\ ~(j <= last)
      BY <2>4
    <3>2. QED BY <1>5, <2>2, <3>1, Zenon
  <2>6. pending[last].elements[e] = pending[k].elements[e]
    BY <1>1, <2>4, <2>5, UnmarkedIsUnchanged
  <2>7. QED BY <1>1, <1>4, <2>3, <2>4, <2>6, Zenon
<1>8. QED BY <1>6, <1>7, Zenon

LEMMA FollowedKept == Typed /\ Followed /\ [Next]_vars => Followed'
<1> SUFFICES ASSUME Typed, Followed, [Next]_vars PROVE Followed'
  OBVIOUS
<1>1. ASSUME NEW p \in Payloads, PayloadArrives(p) PROVE Followed'
  BY <1>1, Zenon DEF PayloadArrives, schedule, Followed
<1>2. CASE Schedule
  BY <1>2, Zenon DEF Schedule, Followed
<1>3. ASSUME NEW frames \in FrameCounts, BeginBlock(frames) PROVE Followed'
  <2>1. PICK k, own \in Nat : Begins(frames, k, own)
    BY <1>3, BlockBegins, Zenon DEF Typed
  <2>2. /\ current' = IF k = 0 THEN current ELSE pending[k].elements
        /\ layout' = IF k = 0 THEN layout ELSE pending[own].layout
        /\ (haveState' <=> haveState \/ k > 0) /\ (folded' <=> folded \/ k > own)
        /\ own \in 0..k /\ (k > 0 => own > 0) /\ k \in 0..Len(pending)
        /\ block'.shown = haveState' /\ block'.layout = layout' /\ block'.elements = current'
        /\ Len(block'.updates) = own
        /\ renderer' = [e \in 1..Channels |-> Rendered(block'.updates, e)]
    BY <2>1, Zenon DEF Begins
  <2>3. CASE k = 0
    <3>1. own = 0 /\ (haveState' <=> haveState) /\ (folded' <=> folded)
      BY <2>2, <2>3
    <3>2. ASSUME haveState, NEW e \in 1..layout.count PROVE renderer'[e] = renderer[e]
      <4>1. e \in 1..Channels
        <5>1. layout.count \in 0..Channels /\ Channels \in Nat
          BY <3>2, ScheduleConstants, Zenon DEF Followed
        <5>2. QED BY <5>1
      <4>2. 1..Len(block'.updates) = {}
        BY <2>2, <3>1
      <4>3. Rendered(block'.updates, e) = renderer[e]
        BY <4>2, Zenon DEF Rendered
      <4>4. QED BY <2>2, <4>1, <4>3, Zenon
    <3>3. QED BY <2>2, <2>3, <3>1, <3>2, Zenon DEF Followed
  <2>4. CASE k # 0
    <3>1. k > 0 /\ own \in 1..Len(pending) /\ k \in Nat \ {0} /\ haveState'
      BY <2>2, <2>4, QueueTypes
    <3>2. layout' \in Layouts
      BY <2>2, <2>4, <3>1, QueueTypes, Zenon DEF Waiting
    <3>3. ASSUME ~folded', NEW e \in 1..layout'.count PROVE renderer'[e] = current'[e]
      <4>1. own = k /\ ~folded
        BY <2>2, <3>3
      <4>2. Begins(frames, k, k) /\ e \in 1..pending[k].layout.count
        BY <2>1, <2>2, <2>4, <3>3, <4>1, Zenon
      <4>3. renderer'[e] = pending[k].elements[e]
        BY <3>1, <4>1, <4>2, FollowedThrough
      <4>4. QED BY <2>2, <2>4, <4>3, Zenon
    <3>4. QED BY <2>2, <3>1, <3>2, <3>3, Zenon DEF Followed
  <2>5. QED BY <2>3, <2>4, Zenon
<1>4. CASE Clear
  BY <1>4, Zenon DEF Clear, Cleared, Followed
<1>5. CASE UNCHANGED vars
  BY <1>5, Zenon DEF vars, schedule, Followed
<1>6. QED
  BY <1>1, <1>2, <1>3, <1>4, <1>5, Zenon DEF Next, Restart, Reset

\* Unless updates were folded, a caller that applies only what is marked CHANGED
\* has the values of the snapshot after every block (objects.rs:258-301,
\* truehd_atmos.h EL_CHANGED).
THEOREM FollowingChanged == Spec => []FollowingChangedIsEnough
<1>1. Followed => FollowingChangedIsEnough
  <2>1. NoBlock.shown = FALSE
    BY SMT DEF NoBlock
  <2>2. QED BY <2>1, Zenon DEF Followed, FollowingChangedIsEnough
<1>2. QED BY <1>1, TypedInit, TypedKept, FollowedInit, FollowedKept, PTL DEF Spec

-----------------------------------------------------------------------------
(* The contract Engine is built on.                                        *)

Kept ==
    \/ Seen!Drops(NoLayout)
    \/ \E l \in Layouts : Seen!Takes({l}, {}, {})
    \/ \E started \in SUBSET Layouts : \E left \in SUBSET started :
           Seen!Takes({}, started, left)

LEMMA ScheduleKeepsContract ==
    Typed /\ [Next]_vars => [Kept]_<<pending, haveState, layout>>
<1> SUFFICES ASSUME Typed, [Next]_vars PROVE Kept \/ UNCHANGED <<pending, haveState, layout>>
  BY Zenon
<1> DEFINE layouts == {pending[i].layout : i \in 1..Len(pending)}
<1>1. ASSUME NEW p \in Payloads, PayloadArrives(p)
      PROVE  UNCHANGED <<pending, haveState, layout>>
  BY <1>1, Zenon DEF PayloadArrives, schedule
<1>2. CASE Schedule
  <2>1. UNCHANGED <<pending, accepted>> \/ \E u \in Waiting, k \in Nat : Queues(u, k)
    BY <1>2, ScheduleQueues, Zenon DEF Typed, Counted
  <2>2. haveState' = haveState /\ layout' = layout
    BY <1>2, Zenon DEF Schedule
  <2>3. ASSUME NEW u \in Waiting, NEW k \in Nat, Queues(u, k) PROVE Kept
    <3>1. u.layout \in Layouts /\ Len(pending) \in Nat
      BY QueueTypes DEF Waiting
    <3>2. /\ k \in 0..Len(pending) /\ Len(pending') = Len(pending) + 1
          /\ \A i \in 1..Len(pending') :
                 pending'[i] = IF i <= k THEN pending[i]
                               ELSE IF i = k + 1 THEN u ELSE pending[i - 1]
      BY <2>3, Zenon DEF Queues
    <3>3. ASSUME NEW i \in 1..Len(pending') PROVE pending'[i].layout \in layouts \cup {u.layout}
      <4>1. CASE i <= k
        <5>1. i \in 1..Len(pending)
          BY <3>1, <3>2, <4>1
        <5>2. QED BY <3>2, <4>1, <5>1, Zenon
      <4>2. CASE i > k + 1
        <5>1. i - 1 \in 1..Len(pending) /\ ~(i <= k) /\ i # k + 1
          BY <3>1, <3>2, <4>2
        <5>2. QED BY <3>2, <5>1, Zenon
      <4>3. CASE i = k + 1
        <5>1. ~(i <= k)
          BY <3>2, <4>3
        <5>2. QED BY <3>2, <4>3, <5>1, Zenon
      <4>4. QED BY <3>2, <4>1, <4>2, <4>3
    <3>4. ASSUME NEW i \in 1..Len(pending)
          PROVE  \E j \in 1..Len(pending') : pending'[j] = pending[i]
      <4>1. CASE i <= k
        <5>1. i \in 1..Len(pending')
          BY <3>1, <3>2
        <5>2. QED BY <3>2, <4>1, <5>1, Zenon
      <4>2. CASE i > k
        <5>1. i + 1 \in 1..Len(pending') /\ ~(i + 1 <= k) /\ i + 1 # k + 1 /\ (i + 1) - 1 = i
          BY <3>1, <3>2, <4>2
        <5>2. pending'[i + 1] = pending[(i + 1) - 1]
          BY <3>2, <5>1, Zenon
        <5>3. QED BY <5>1, <5>2, Zenon
      <4>3. QED BY <3>2, <4>1, <4>2
    <3>5. k + 1 \in 1..Len(pending') /\ pending'[k + 1] = u
      <4>1. k + 1 \in 1..Len(pending') /\ ~(k + 1 <= k)
        BY <3>1, <3>2
      <4>2. QED BY <3>2, <4>1, Zenon
    <3>6. layouts' = layouts \cup {u.layout}
      <4>1. layouts' \subseteq layouts \cup {u.layout}
        BY <3>3, Zenon
      <4>2. layouts \subseteq layouts'
        BY <3>4, Zenon
      <4>3. u.layout \in layouts'
        BY <3>5, Zenon
      <4> HIDE DEF layouts
      <4>4. QED BY <4>1, <4>2, <4>3, Zenon
    <3>7. Seen!Takes({u.layout}, {}, {})
      BY <2>2, <3>6, Zenon DEF Seen!Takes
    <3>8. QED BY <3>1, <3>7, Zenon DEF Kept
  <2>4. QED BY <2>1, <2>2, <2>3, Zenon
<1>3. ASSUME NEW frames \in FrameCounts, BeginBlock(frames)
      PROVE  Kept \/ UNCHANGED <<pending, haveState, layout>>
  <2>1. PICK k, own \in Nat : Begins(frames, k, own)
    BY <1>3, BlockBegins, Zenon DEF Typed
  <2>2. /\ k \in 0..Len(pending) /\ own \in 0..k /\ (k > 0 => own > 0)
        /\ Len(pending') = Len(pending) - k
        /\ \A i \in 1..Len(pending') : pending'[i] = pending[k + i]
        /\ layout' = IF k = 0 THEN layout ELSE pending[own].layout
        /\ (haveState' <=> haveState \/ k > 0)
        /\ Len(pending) \in Nat
    BY <2>1, QueueTypes, Zenon DEF Begins
  <2>3. CASE k = 0
    <3>1. Typed' /\ pending' \in Seq(Waiting) /\ pending \in Seq(Waiting)
      BY TypedKept, QueueTypes, Zenon DEF Typed, TypeOK
    <3>2. Len(pending') = Len(pending) /\ \A i \in 1..Len(pending) : pending'[i] = pending[i]
      BY <2>2, <2>3
    <3>3. pending' = pending
      BY <3>1, <3>2, SeqEqual, Zenon
    <3>4. layout' = layout /\ (haveState' <=> haveState)
      BY <2>2, <2>3
    <3>5. haveState' = haveState
      BY <3>1, <3>4, Zenon DEF Typed, TypeOK
    <3>6. QED BY <3>3, <3>4, <3>5, Zenon
  <2>4. CASE k # 0
    <3> DEFINE started == {pending[i].layout : i \in 1..k}
               left == started \cap layouts'
    <3>1. /\ 1..k \subseteq 1..Len(pending) /\ own \in 1..k /\ k > 0
          /\ \A i \in 1..Len(pending') : k + i \in 1..Len(pending)
      BY <2>2, <2>4
    <3>2. started \subseteq layouts /\ started \subseteq Layouts
      <4>1. \A w \in Waiting : w.layout \in Layouts
        BY DEF Waiting
      <4>2. QED BY <3>1, <4>1, QueueTypes, Zenon
    <3>3. layouts' \subseteq layouts
      BY <2>2, <3>1, Zenon
    <3>4. ASSUME NEW i \in 1..Len(pending), pending[i].layout \notin started
          PROVE  pending[i].layout \in layouts'
      <4>1. ~(i \in 1..k)
        BY <3>4, Zenon
      <4>2. i - k \in 1..Len(pending') /\ k + (i - k) = i
        BY <2>2, <4>1
      <4>3. pending'[i - k] = pending[k + (i - k)]
        BY <2>2, <4>2, Zenon
      <4>4. QED BY <4>2, <4>3, Zenon
    <3>5. layouts' = ((layouts \cup {}) \ started) \cup left
      BY <3>3, <3>4, Zenon
    <3>6. layout' \in started /\ haveState'
      BY <2>2, <2>4, <3>1, Zenon
    <3>7. Seen!Takes({}, started, left)
      BY <3>2, <3>5, <3>6, Zenon DEF Seen!Takes
    <3>8. started \in SUBSET Layouts /\ left \in SUBSET started
      BY <3>2, Zenon
    <3> HIDE DEF started, left
    <3>9. QED BY <3>7, <3>8, Zenon DEF Kept, Seen!Takes
  <2>5. QED BY <2>3, <2>4, Zenon
<1>4. CASE Clear
  <2>1. pending' = <<>> /\ haveState' = FALSE
    BY <1>4, Zenon DEF Clear, Cleared
  <2>2. layouts' = {}
    BY <2>1, SMT
  <2>3. Seen!Drops(NoLayout)
    BY <2>1, <2>2, Zenon DEF Seen!Drops
  <2>4. QED BY <2>3, Zenon DEF Kept
<1>5. CASE UNCHANGED vars
  BY <1>5, Zenon DEF vars, schedule
<1>6. QED
  BY <1>1, <1>2, <1>3, <1>4, <1>5, Zenon DEF Next, Restart, Reset

\* Seen by layouts alone the schedule is what Engine takes it for: each of its
\* steps is a step of ScheduleContract or changes nothing of it
\* (objects.rs:159-173, 221-301).
THEOREM ScheduleMeetsContract == Spec => MeetsContract
<1>1. [Kept]_<<pending, haveState, layout>> =>
          [\/ Seen!Drops(NoLayout)
           \/ \E l \in Layouts : Seen!Takes({l}, {}, {})
           \/ \E started \in SUBSET Layouts : \E left \in SUBSET started :
                  Seen!Takes({}, started, left)
          ]_<<pending, haveState, layout>>
  BY Zenon DEF Kept
<1>2. QED
  BY <1>1, TypedInit, TypedKept, ScheduleKeepsContract, PTL DEF Spec, MeetsContract
=============================================================================
