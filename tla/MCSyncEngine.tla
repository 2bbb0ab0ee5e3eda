----------------------------- MODULE MCSyncEngine -----------------------------
(* Two threads, the main thread, up to two writes asked for, one number.   *)
EXTENDS SyncEngine, TLC
CONSTANTS t1, t2, j1, j2, n1
MCThread == {t1, t2}
MCOneThread == {t1}
MCJob == {j1, j2}
MCOneJob == {j1}
MCNumber == {n1}
NoFaults == {}
AllFaults == {"script", "contacts", "phone", "dialer", "death", "power"}
Sym == Permutations(MCThread) \cup Permutations(MCJob)

(* The state without the copy and the histories no step depends on; `asked` *)
(* is one that only the properties on clears look at.                      *)
Bare    == <<call, alive, cache, file, pc, arg, tries, res, clash, guard, thread,
             capt, contacts, orphan>>
Present == <<Bare, asked>>
=============================================================================
