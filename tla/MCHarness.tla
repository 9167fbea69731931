------------------------------ MODULE MCHarness ------------------------------
EXTENDS HarnessStreams, TLC

MCObjects   == {1, 2}
MCPositions == {"front", "back"}

Unit(start, end, kind, us) ==
    [start |-> start, end |-> end, kind |-> kind, layout |-> 1, updates |-> us]
At1(offset, lag, p, q) == [offset |-> offset, lag |-> lag, positions |-> (1 :> p) @@ (2 :> q)]
Change(id, time, position) == [id |-> id, time |-> time, position |-> position]

\* It begins within an access unit that is not counted.
\* Changes at frames 0, 40 and 48, which the reference puts at 0, 40 and 16.
\* One of its events is about something other than a position, and they are in
\* order only but for the window.
Moving ==
    [aus |-> << Unit(1, 3, "sync", <<At1(0, 0, "front", "front")>>),
                Unit(3, 5, "plain", <<At1(0, 0, "back", "front"), At1(8, 32, "back", "back")>>),
                Unit(5, 8, "sync", <<At1(20, 0, "back", "back")>>),
                Unit(8, 10, "plain", <<>>) >>,
     tail |-> 24,
     events |-> << Change(0, 0, "front"), Change(10, 0, "front"), Change(10, 40, "back"),
                   Change(11, 0, "front"), Change(11, 0, Nowhere), Change(11, 16, "back") >>]

\* It begins before the first major sync.
Joined ==
    [aus |-> << Unit(0, 3, "plain", <<At1(0, 0, "front", "back")>>),
                Unit(3, 5, "sync", <<>>), Unit(5, 7, "plain", <<>>),
                Unit(7, 10, "sync", <<>>) >>,
     tail |-> 40, events |-> <<>>]

Spliced ==
    [aus |-> << Unit(0, 2, "sync", <<>>), Unit(2, 4, "duplicate", <<>>),
                Unit(4, 6, "sync", <<>>), Unit(6, 8, "plain", <<>>) >>,
     tail |-> 40, events |-> <<>>]

\* Short, since any block at all is tried behind each of its packets.
Brief ==
    [aus |-> << Unit(0, 2, "sync", <<>>), Unit(2, 4, "sync", <<>>), Unit(4, 6, "plain", <<>>) >>,
     tail |-> 24, events |-> <<>>]

TwoLayouts ==
    [aus |-> << Unit(0, 2, "sync", <<>>), [Unit(2, 5, "sync", <<>>) EXCEPT !.layout = 2] >>,
     tail |-> 40, events |-> <<>>]

\* A sound decoder is tried with every seek, one with faulty metadata in pass A
\* only, one with a faulty reset on demuxed packets without metadata, and one
\* that refuses in pass A.
MCOptions ==
    [stream : {Moving, Joined, Spliced, TwoLayouts}, container : BOOLEAN,
     refAudio : {TRUE}, refMetadata : {TRUE},
     resetAt : {60, 400}, resumeAt : {0, 70, 130}, faulty : {"no"}]
    \cup [stream : {Moving}, container : {TRUE}, refAudio : {FALSE}, refMetadata : {TRUE},
          resetAt : {-1}, resumeAt : {0}, faulty : {"metadata", "refuses"}]
    \cup [stream : {Brief}, container : {TRUE}, refAudio : {TRUE}, refMetadata : {FALSE},
          resetAt : {60}, resumeAt : {0, 40}, faulty : {"reset"}]
    \cup [stream : {Moving}, container : {TRUE}, refAudio : {FALSE}, refMetadata : {FALSE},
          resetAt : {60}, resumeAt : {0}, faulty : {"no"}]

\* The theorem that a sound decoder is not failed is about references like these.
ASSUME ReferencesTell == ReferenceTells
=============================================================================
