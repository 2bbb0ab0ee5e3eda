---------------------------- MODULE CallStateGuard ----------------------------
(***************************************************************************)
(* CallStateGuard.kt: runWhenIdle runs an action now, or registers a       *)
(* TelephonyCallback (PhoneStateListener before Android S, the same steps) *)
(* and runs the action on the main thread when IDLE is delivered to it.    *)
(*                                                                         *)
(* Telephony and the main looper are outside the repository.  What the     *)
(* code uses of them: a registration delivers the present state, every     *)
(* change is sent to the callbacks registered then, a delivery is posted   *)
(* to the main thread's queue and carries its state with it, and the main  *)
(* thread runs one callback at a time.  The question and the registration  *)
(* may throw.  Deliveries of any state but IDLE do nothing in              *)
(* onCallStateChanged and are left out.                                    *)
(***************************************************************************)
EXTENDS Naturals, Sequences

CONSTANTS
    Job,         \* the actions handed to runWhenIdle
    None,        \* no action
    MaxBacklog   \* bound on the main thread's queue

ASSUME NoneIsNoJob == None \notin Job
ASSUME BacklogBound == MaxBacklog \in Nat \ {0}

VARIABLES
    call,      \* isCallActive
    phase,     \* how far runWhenIdle(j) has come
    runs,      \* history: how often the action ran, 2 for more than once
    reg,       \* jobs whose callback is registered
    inflight,  \* jobs to whom telephony is sending IDLE
    mainQ,     \* IDLE deliveries posted to the main thread
    main       \* the action the main thread is in

guardVars == <<phase, runs, reg, inflight, mainQ, main>>
vars == <<call, guardVars>>

Phase  == {"new", "inline", "deferring", "waiting", "refused", "lost"}
Queued == {mainQ[i] : i \in 1..Len(mainQ)}

TypeOK ==
    /\ call \in BOOLEAN
    /\ phase \in [Job -> Phase]
    /\ runs \in [Job -> 0..2]
    /\ \A j \in Job : phase[j] \notin {"inline", "waiting"} => runs[j] = 0
    /\ reg \subseteq Job /\ inflight \subseteq Job
    /\ mainQ \in Seq(Job)
    /\ main \in Job \cup {None}

GuardInit ==
    /\ phase = [j \in Job |-> "new"]
    /\ runs = [j \in Job |-> 0]
    /\ reg = {} /\ inflight = {} /\ mainQ = <<>> /\ main = None

Init == call \in BOOLEAN /\ GuardInit

Count(j) == runs' = [runs EXCEPT ![j] = IF @ = 0 THEN 1 ELSE 2]

(* Mutant: `if (!isCallActive()) action()`, and on to the registration.    *)
RunInlineAndDefer(j) ==
    /\ phase[j] = "new" /\ ~call
    /\ phase' = [phase EXCEPT ![j] = "deferring"]
    /\ Count(j)
    /\ UNCHANGED <<call, reg, inflight, mainQ, main>>

(* The caller's thread: `if (!isCallActive()) { action(); return }`.       *)
RunInline(j) ==
    /\ phase[j] = "new" /\ ~call
    /\ phase' = [phase EXCEPT ![j] = "inline"]
    /\ Count(j)
    /\ UNCHANGED <<call, reg, inflight, mainQ, main>>

Defer(j) ==
    /\ phase[j] = "new" /\ call
    /\ phase' = [phase EXCEPT ![j] = "deferring"]
    /\ UNCHANGED <<call, runs, reg, inflight, mainQ, main>>

(* tm.callState throws without READ_PHONE_STATE, the registration without  *)
(* it or with too many listeners in the process.  Nothing is registered,   *)
(* the action is not run, and the caller gets the exception.               *)
Refuse(j, from) ==
    /\ phase[j] = from
    /\ phase' = [phase EXCEPT ![j] = "refused"]
    /\ UNCHANGED <<call, runs, reg, inflight, mainQ, main>>

(* Mutant: a listener that only hears of changes after its registration.   *)
RegisterForChanges(j) ==
    /\ phase[j] = "deferring"
    /\ phase' = [phase EXCEPT ![j] = "waiting"]
    /\ reg' = reg \cup {j}
    /\ UNCHANGED <<call, runs, inflight, mainQ, main>>

(* The call that was seen may be over by now: the registration itself      *)
(* delivers the present state.                                             *)
Register(j) ==
    /\ phase[j] = "deferring"
    /\ phase' = [phase EXCEPT ![j] = "waiting"]
    /\ reg' = reg \cup {j}
    /\ inflight' = IF call THEN inflight ELSE inflight \cup {j}
    /\ UNCHANGED <<call, runs, mainQ, main>>

(* Mutant: the handler does not unregister.                                *)
DeliverKeepingListener(j) ==
    /\ main = None /\ mainQ # <<>> /\ j = Head(mainQ)
    /\ mainQ' = Tail(mainQ) /\ main' = j /\ Count(j)
    /\ UNCHANGED <<call, phase, reg, inflight>>

(* Mutant: the handler asks again and gives the action up in a call.       *)
DeliverIfStillIdle(j) ==
    /\ main = None /\ mainQ # <<>> /\ j = Head(mainQ)
    /\ mainQ' = Tail(mainQ) /\ reg' = reg \ {j}
    /\ IF call THEN UNCHANGED <<main, runs>> ELSE main' = j /\ Count(j)
    /\ UNCHANGED <<call, phase, inflight>>

(* onCallStateChanged(IDLE) on the main thread: unregister, then run the   *)
(* action.  It does not ask whether it has been here before.               *)
Deliver(j) ==
    /\ main = None /\ mainQ # <<>> /\ j = Head(mainQ)
    /\ mainQ' = Tail(mainQ)
    /\ reg' = reg \ {j}
    /\ main' = j
    /\ Count(j)
    /\ UNCHANGED <<call, phase, inflight>>

Return ==
    /\ main # None
    /\ main' = None
    /\ UNCHANGED <<call, phase, runs, reg, inflight, mainQ>>

-----------------------------------------------------------------------------
(* Telephony and the looper.                                               *)

CallBegins == ~call /\ call' = TRUE /\ UNCHANGED guardVars

CallEnds ==
    /\ call
    /\ call' = FALSE
    /\ inflight' = inflight \cup reg
    /\ UNCHANGED <<phase, runs, reg, mainQ, main>>

Post(j) ==
    /\ j \in inflight /\ Len(mainQ) < MaxBacklog
    /\ inflight' = inflight \ {j}
    /\ mainQ' = Append(mainQ, j)
    /\ UNCHANGED <<call, phase, runs, reg, main>>

(* The process dies: registrations, queue and captured actions die too.    *)
Die ==
    /\ phase' = [j \in Job |-> IF phase[j] \in {"deferring", "waiting"}
                                  /\ runs[j] = 0 THEN "lost" ELSE phase[j]]
    /\ reg' = {} /\ inflight' = {} /\ mainQ' = <<>> /\ main' = None
    /\ UNCHANGED runs

Next ==
    \/ \E j \in Job :
          \/ RunInline(j) \/ Defer(j) \/ Register(j) \/ Deliver(j) \/ Post(j)
          \/ \E from \in {"new", "deferring"} : Refuse(j, from)
    \/ Return \/ CallBegins \/ CallEnds

Safety == Init /\ [][Next]_vars

(* Posted deliveries arrive, the main thread takes them and its actions    *)
(* return, and no call lasts for ever.                                     *)
Fairness ==
    /\ \A j \in Job : WF_vars(Post(j)) /\ WF_vars(Deliver(j))
    /\ WF_vars(Return) /\ WF_vars(CallEnds)

Spec == Safety /\ Fairness

-----------------------------------------------------------------------------
(* Properties.                                                             *)

(* No wake-up is missed: whenever no call is on, every registered action   *)
(* has an IDLE on its way, also when the call ended between the check of   *)
(* line 18 and the registration of line 36 or 49.                          *)
NoWakeupMissed ==
    \A j \in reg : ~call => j \in inflight \cup Queued

(* A registered action is one that was deferred and has not run; one that  *)
(* was deferred and has not run is registered (31-34, 43-46).              *)
RegisteredUntilRun ==
    \A j \in Job : j \in reg <=> phase[j] = "waiting" /\ runs[j] = 0

(* What SyncEngine is promised: the guard is an Idler.  An action counts   *)
(* as kept from the registration on.                                       *)
StageOf(j) == CASE runs[j] > 0 -> "ran"
                [] runs[j] = 0 /\ phase[j] \in {"new", "deferring"} -> "new"
                [] runs[j] = 0 /\ phase[j] = "refused" -> "refused"
                [] OTHER -> "kept"
stages == [j \in Job |-> StageOf(j)]
Promise == INSTANCE Idler WITH stage <- stages
IsAnIdler == Promise!Spec

(* CallStateGuard.kt:16, "else run once"; the contacts-sync design, line   *)
(* 63, "(single-shot)".                                                    *)
RunsOnce == \A j \in Job : runs[j] < 2
=============================================================================
