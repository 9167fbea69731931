--------------------------- MODULE MCAuFramerView ---------------------------
(* The streams of MCAuFramer for AuFramerView: those whose damage shows.      *)
EXTENDS MCAuFramer, AuFramerView, AuStreams

\* The theorems that push or pull takes something and that numbers are exact are
\* about streams like these.
ASSUME SyncsComeOften == SyncsInReach
ASSUME NumbersCanBeExact == DamageShows
=============================================================================
