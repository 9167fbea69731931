-------------------------- MODULE MCAuFramerChunks --------------------------
(* Instances of AuFramerChunks: clean, damaged, interrupted and padded streams. *)
EXTENDS AuFramerChunks, MCAuFramer, AuStreams

AnyStreams ==
    DamagedStreams \cup LossyStreams
        \cup {StreamOf(<<Minor(3, 1), Major(1), Minor(3, 1), Major(1)>>, cut) : cut \in 0..2}

\* The theorems about chunking are about streams like these.
ASSUME ChunkingCanBeIrrelevant == Contained /\ Short
=============================================================================
