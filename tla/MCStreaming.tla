---------------------------- MODULE MCStreaming ----------------------------
(* Streaming for TLC: the configurations give the actors as model values.  *)
EXTENDS StreamingProperties

\* Torrents are told apart only by their order in the array, and sessions
\* not at all.  Used by the safety runs only.
Symmetry == Permutations(Hash) \cup Permutations(Session)
=============================================================================
