--------------------------- MODULE MCCallStateGuard ---------------------------
(* Three actions handed to runWhenIdle, calls that come and go for ever.   *)
EXTENDS CallStateGuard
CONSTANTS j1, j2, j3
MCJob == {j1, j2, j3}
MCTwoJobs == {j1, j2}
=============================================================================
