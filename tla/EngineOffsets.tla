---------------------------- MODULE EngineOffsets ----------------------------
(***************************************************************************)
(* Engine with the length of its input beside it: input_frame_offset       *)
(* (src/src/engine.rs:448-451, 470) is compared with the frames of the     *)
(* access units before the block.                                          *)
(***************************************************************************)
EXTENDS Engine

VARIABLES
    unitFrames,   \* frames of each access unit since the last change
    inputFrames,  \* frames of the access units reported since the seek
    framesBefore  \* frames of those before the one in hand

offsets == <<unitFrames, inputFrames, framesBefore>>

\* The input starts anywhere in a stream; only a major sync changes the length,
\* and numbers passed over belong to access units in front of it.
CountFrames ==
    \/ /\ reported' = 0 /\ inputFrames' = 0 /\ framesBefore' = 0
       /\ unitFrames' \in {c.frames : c \in Configs}
    \/ /\ reported' # 0 /\ reported' = reported /\ UNCHANGED offsets
    \/ /\ reported' # 0 /\ reported' # reported
       /\ framesBefore' = inputFrames + (ordinal' - ordinal - 1) * unitFrames
       /\ unitFrames' = IF inSync' THEN stream'.frames ELSE unitFrames
       /\ inputFrames' = framesBefore' + unitFrames'

OffsetsSpec ==
    /\ Init /\ inputFrames = 0 /\ framesBefore = 0
    /\ unitFrames \in {c.frames : c \in Configs}
    /\ [][Next /\ CountFrames]_<<vars, offsets>>

\* input_frame_offset is the number of input frames before the block, unless it
\* is flagged as an estimate.
InputOffsetTrue ==
    Returned /\ ~block.estimated /\ ~blind => block.offset = framesBefore
=============================================================================
