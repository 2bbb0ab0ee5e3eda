-------------------------------- MODULE Idler ---------------------------------
(***************************************************************************)
(* The interface Idler of SyncEngine.kt:4, as its caller relies on it: an  *)
(* action handed to runWhenIdle runs at once, is kept, or is refused with  *)
(* an exception, and what is kept runs some day.  It says nothing of how   *)
(* often a kept action runs.                                               *)
(***************************************************************************)
CONSTANT Job            \* the actions handed to runWhenIdle
VARIABLE stage          \* stage[j]: what became of the action

Stage == {"new", "kept", "ran", "refused"}

Init == stage = [j \in Job |-> "new"]

Move(j, from, to) == stage[j] = from /\ stage' = [stage EXCEPT ![j] = to]

RunNow(j) == Move(j, "new", "ran")
Keep(j)   == Move(j, "new", "kept")
Refuse(j) == Move(j, "new", "refused")
RunKept(j) == Move(j, "kept", "ran")

Next == \E j \in Job : RunNow(j) \/ Keep(j) \/ Refuse(j) \/ RunKept(j)

Safety == Init /\ [][Next]_stage

Spec == Safety /\ \A j \in Job : WF_stage(RunKept(j))
=============================================================================
