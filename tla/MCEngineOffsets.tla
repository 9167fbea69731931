-------------------------- MODULE MCEngineOffsets --------------------------
(* EngineOffsets on the streams of MCEngine. *)
EXTENDS EngineOffsets, MCEngine
=============================================================================
