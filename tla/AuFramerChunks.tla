--------------------------- MODULE AuFramerChunks ---------------------------
(***************************************************************************)
(* "push() accepts any chunking" (src/include/truehd_atmos.h:13): the same *)
(* bytes give the same access units however they are cut into pushes.      *)
(*                                                                         *)
(* The framer runs twice over one stream: first with all of it in a single *)
(* push, its replies written down, then from the start again with the      *)
(* stream cut anywhere.  The replies of the second run are compared, one   *)
(* by one, with those of the first.                                        *)
(***************************************************************************)
EXTENDS AuFramer

VARIABLES
    run,       \* "whole", "drained", "pieces" or "done"
    expected,  \* the access units the first run reported, and how it ended
    matched,   \* how many of them the second run has reported as well
    differs    \* it has reported something else

chunkVars == <<vars, run, expected, matched, differs>>

\* What a call has come to: its reply, the counters, and all that later replies
\* depend on but the bytes.
Outcome == [reply |-> last, at |-> consumed, number |-> ordinal,
            subs |-> substreams, waiting |-> queued, flagged |-> estimated,
            aus |-> framedAus, bytes |-> framedBytes,
            errors |-> syncErrors, gone |-> skippedBytes]

InitChunks ==
    /\ Init
    /\ run = "whole" /\ expected = <<>> /\ matched = 0 /\ differs = FALSE

\* The first run: one push, then next() until it needs data.
PushWhole ==
    /\ run = "whole" /\ pushed = 0 /\ Push(Len(stream.bytes))
    /\ UNCHANGED <<run, expected, matched, differs>>
PullWhole ==
    /\ run = "whole" /\ pushed > 0 /\ NextCall
    /\ IF last'.kind = "NeedData"
       THEN run' = "drained" /\ UNCHANGED expected
       ELSE expected' = Append(expected, Outcome') /\ UNCHANGED run
    /\ UNCHANGED <<matched, differs>>

\* The second framer: a new one, given the same stream.
Again ==
    /\ run = "drained" /\ run' = "pieces"
    /\ ClearBuffer
    /\ substreams' = 0 /\ framedAus' = 0 /\ framedBytes' = 0
    /\ UNCHANGED <<stream, resets, expected, matched, differs>>

PushPiece ==
    /\ run = "pieces" /\ \E n \in 1..Len(stream.bytes) : Push(n)
    /\ UNCHANGED <<run, expected, matched, differs>>
PullPiece ==
    /\ run = "pieces" /\ NextCall
    /\ IF last'.kind = "NeedData"
       THEN /\ run' = IF pushed = Len(stream.bytes) THEN "done" ELSE "pieces"
            /\ UNCHANGED <<matched, differs>>
       ELSE /\ matched' = matched + 1
            /\ differs' = (differs \/ matched >= Len(expected)
                               \/ expected[matched + 1] # Outcome')
            /\ UNCHANGED run
    /\ UNCHANGED expected

NextChunks == PushWhole \/ PullWhole \/ Again \/ PushPiece \/ PullPiece

SpecChunks == InitChunks /\ [][NextChunks]_chunkVars

\* However the bytes are cut, next() reports the same access units, with the
\* same numbers, flags, errors and skipped bytes, is left in the same place by
\* each, and has reported all of them by the time it needs more data than there is.
ChunkingIrrelevant ==
    /\ ~differs
    /\ run = "done" => matched = Len(expected)
=============================================================================
