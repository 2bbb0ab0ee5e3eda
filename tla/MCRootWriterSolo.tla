--------------------------- MODULE MCRootWriterSolo ---------------------------
(* One script beside calls and the dialer: the run whose question needs    *)
(* no second script (a longer kill loop).                                  *)
EXTENDS RootWriter
CONSTANTS w1, p1, p2
MCWriter == {w1}
MCPayload == {p1, p2}
MCEdits(c) == MCPayload
=============================================================================
