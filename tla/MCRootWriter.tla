----------------------------- MODULE MCRootWriter -----------------------------
(* Two threads in writeProto, two whole contents; the dialer may save any. *)
EXTENDS RootWriter, TLC
CONSTANTS w1, w2, p1, p2
MCWriter == {w1, w2}
MCPayload == {p1, p2}
MCEdits(c) == MCPayload
Sym == Permutations(MCWriter) \cup Permutations(MCPayload)
=============================================================================
