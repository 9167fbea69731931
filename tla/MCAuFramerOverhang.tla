------------------------- MODULE MCAuFramerOverhang -------------------------
(* AuFramerChunks on a stream that is not Contained.                         *)
EXTENDS AuFramerChunks, MCAuFramer
=============================================================================
