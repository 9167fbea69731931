----------------------------- MODULE AuStreams ------------------------------
(***************************************************************************)
(* What some theorems about the framer ask of the streams pushed.  Each is *)
(* a fact of the data alone, and TLC evaluates it for the streams of the   *)
(* run that checks the property in question.                               *)
(***************************************************************************)
EXTENDS AuFramer

\* A major sync that checks, once all of its access unit is there.
Proves(s, o) ==
    LET h == s.bytes[o + 1]
    IN  h.sync /\ h.len > MsiEnd /\ h.subs \in h.pass

-----------------------------------------------------------------------------
(* For pull and push never both to refuse.                                 *)

\* With this many bytes a sync word is decided on.
Decides == Larger(MsiPeek, MaxAuLen)

\* In any MaxPending bytes of a stream there is a major sync that checks, early
\* enough to be decided on.
SyncsInReach ==
    \A s \in Streams : \A o \in 0..Len(s.bytes) - MaxPending :
        \E c \in o..o + MaxPending - Decides : Proves(s, c)

-----------------------------------------------------------------------------
(* For chunking to be irrelevant.                                          *)

\* No access unit that passes its checks has a substream directory that reaches
\* beyond it.
Contained ==
    \A s \in Streams : \A o \in 1..Len(s.bytes) : \A c \in SubstreamCounts :
        c \in s.bytes[o].pass => s.bytes[o].dir[c] <= s.bytes[o].len

\* No stream is longer than what is retained without a sync word in it.
Short == \A s \in Streams : Len(s.bytes) <= MaxRetained

-----------------------------------------------------------------------------
(* For the numbers to be exact.                                            *)

\* The header checks succeed where k substreams are expected.
Passing(h, k) ==
    /\ h.len >= MinAuLen
    /\ IF h.sync THEN h.len > MsiEnd /\ h.subs \in h.pass ELSE k \in h.pass

\* Nothing passes at this offset that is not an access unit.
NotMistaken(s, o) ==
    o < Len(s.bytes) /\ (\E k \in SubstreamCounts : Passing(s.bytes[o + 1], k))
        => o \in s.starts

\* The next access unit starts at e, or later.
NoneBefore(s, o, e) == \A x \in s.starts : o < x => e <= x

\* The access unit at p leads onto the next.
Leads(s, p) ==
    LET e == p + s.bytes[p + 1].len
    IN  s.bytes[p + 1].len >= MinAuLen /\ e \in s.starts /\ NoneBefore(s, p, e)

\* chain_back takes what is at p for an access unit in front of the major sync.
LinkIn(s, p, sync, subs) ==
    LET h == s.bytes[p + 1]
    IN  /\ (sync - p) % AuAlign = 0
        /\ h.len >= MinAuLen /\ p + h.len <= sync
        /\ ~h.sync
        /\ h.dir[subs] <= h.len /\ subs \in h.pass

\* And what is in S leads on within S, up to the major sync.
ChainIn(s, S, sync, subs) ==
    \A p \in S : /\ LinkIn(s, p, sync, subs)
                 /\ p + s.bytes[p + 1].len < sync => p + s.bytes[p + 1].len \in S

\* The length fields in front of the first major sync that checks are right, and
\* what stands in front of the first access unit does not chain onto it. The
\* access units there are sound, or the first begins the stream and only access
\* units chain onto the major sync.
Opens(s, sync) ==
    LET subs   == s.bytes[sync + 1].subs
        before == {p \in s.starts : p < sync}
        chains == {S \in SUBSET (0..sync - 1) : ChainIn(s, S, sync, subs)}
    IN  /\ \A p \in before : Leads(s, p)
        /\ \A S \in chains : \A p \in S : \E x \in s.starts : x <= p
        /\ \/ \A p \in before : LinkIn(s, p, sync, subs)
           \/ 0 \in s.starts /\ \A S \in chains : S \subseteq s.starts

\* A major sync that checks is one; an access unit that passes its checks has the
\* length it states, and what passes where it ends is an access unit.
DamageShows ==
    \A s \in Streams :
        /\ \A o \in 0..Len(s.bytes) - 1 : Proves(s, o) => o \in s.starts
        /\ \A o \in s.starts, k \in SubstreamCounts :
               o < Len(s.bytes) /\ Passing(s.bytes[o + 1], k) =>
                   LET e == o + s.bytes[o + 1].len
                   IN  NotMistaken(s, e) /\ NoneBefore(s, o, e)
        /\ \A sync \in 0..Len(s.bytes) - 1 :
               Proves(s, sync) /\ (\A o \in 0..sync - 1 : ~Proves(s, o)) => Opens(s, sync)
=============================================================================
