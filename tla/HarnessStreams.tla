--------------------------- MODULE HarnessStreams ----------------------------
(***************************************************************************)
(* What the theorem that a sound decoder is not failed asks of the         *)
(* reference it is compared with: that it tells of every change of an      *)
(* object's position that the stream states, and of nothing else. It is a  *)
(* fact of the inputs alone, and TLC evaluates it for the streams of the   *)
(* run that checks the property.                                           *)
(***************************************************************************)
EXTENDS Harness

\* An access unit of the stream that the reference has.
Counts(s, n) ==
    /\ n \in 1..Len(s.aus) /\ s.aus[n].kind # "duplicate"
    /\ \E m \in 1..n : s.aus[m].kind = "sync"

\* Its place on the reference's timeline.
PlaceOf(s, n) == AuFrames * Cardinality({m \in 1..(n - 1) : Counts(s, m)})

\* The updates a decoder returns, each the number of an access unit and its
\* number there, and the order they come in.
Stated(s) ==
    UNION {{n} \X (1..Len(s.aus[n].updates)) : n \in {m \in 1..Len(s.aus) : Counts(s, m)}}
UpdateAt(s, p) == s.aus[p[1]].updates[p[2]]
Before(p, q)   == p[1] < q[1] \/ (p[1] = q[1] /\ p[2] < q[2])
TimeOf(s, p)   == PlaceOf(s, p[1]) + UpdateAt(s, p).offset

\* q is the last of these updates.
LastOf(S, q) == q \in S /\ \A p \in S : ~Before(q, p)

\* An update puts an object elsewhere than the one before; the first puts all.
Moves(s, p, e) ==
    \A q \in Stated(s) :
        LastOf({r \in Stated(s) : Before(r, p)}, q) =>
            UpdateAt(s, q).positions[e] # UpdateAt(s, p).positions[e]
Changes(s) == {c \in Stated(s) \X Objects : Moves(s, c[1], c[2])}

\* The reference's event is about this change.
TellsOf(s, c, event) ==
    /\ event.id = c[2] - BedCount + FirstObjectId
    /\ event.time = TimeOf(s, c[1]) - UpdateAt(s, c[1]).lag
    /\ event.position = UpdateAt(s, c[1]).positions[c[2]]

Told(s) == {n \in 1..Len(KeptEvents(s.events)) : KeptEvents(s.events)[n].id >= FirstObjectId}

\* The updates of an access unit are in order of time. What is told is a change,
\* there are as many told, and they are told in order but for the window. Nothing
\* is asked where the metadata are not compared, or the decoder is not sound.
ReferenceTells ==
    \A o \in Options :
        o.refMetadata /\ o.faulty = "no" =>
            LET s     == o.stream
                event == KeptEvents(s.events)
            IN  /\ \A p, q \in Stated(s) :
                       p[1] = q[1] /\ p[2] < q[2] => UpdateAt(s, p).offset <= UpdateAt(s, q).offset
                /\ \A n \in Told(s) : \E c \in Changes(s) : TellsOf(s, c, event[n])
                /\ Cardinality(Told(s)) = Cardinality(Changes(s))
                /\ \A m, n \in Told(s) : m < n => event[m].time <= event[n].time + Window
=============================================================================
