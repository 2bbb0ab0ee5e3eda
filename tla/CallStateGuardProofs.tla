------------------------- MODULE CallStateGuardProofs -------------------------
(* The safety of CallStateGuard, for every set of actions and every bound  *)
(* of the queue, and that it implements the safety of Idler.               *)
EXTENDS CallStateGuard, TLAPS

(* A delivery, sent or posted, is for an action that waits or has waited.  *)
EventsAreForWaiters == \A j \in inflight \cup Queued : phase[j] = "waiting"

Inv == TypeOK /\ EventsAreForWaiters /\ RegisteredUntilRun /\ NoWakeupMissed

(* What Tail and Append do to the set of queued actions.                   *)
LEMMA QueuedTail ==
    ASSUME mainQ \in Seq(Job), mainQ # <<>>, mainQ' = Tail(mainQ)
    PROVE  /\ mainQ' \in Seq(Job) /\ Head(mainQ) \in Queued
           /\ Queued' \subseteq Queued
           /\ Queued \subseteq Queued' \cup {Head(mainQ)}
<1>1. Head(mainQ) = mainQ[1] /\ Len(mainQ) \in Nat /\ Len(mainQ) >= 1
  OBVIOUS
<1>2. mainQ' \in Seq(Job) /\ Len(mainQ') = Len(mainQ) - 1
  OBVIOUS
<1>3. \A i \in 1..Len(mainQ') : mainQ'[i] = mainQ[i + 1]
  BY <1>2
<1>4. Queued' \subseteq Queued
  <2> SUFFICES ASSUME NEW i \in 1..Len(mainQ') PROVE mainQ'[i] \in Queued
    BY DEF Queued
  <2>1. i + 1 \in 1..Len(mainQ)
    BY <1>1, <1>2
  <2> QED BY <1>3, <2>1 DEF Queued
<1>5. Queued \subseteq Queued' \cup {Head(mainQ)}
  <2> SUFFICES ASSUME NEW i \in 1..Len(mainQ), i # 1 PROVE mainQ[i] \in Queued'
    BY <1>1 DEF Queued
  <2>1. i - 1 \in 1..Len(mainQ') /\ mainQ[i] = mainQ'[i - 1]
    BY <1>1, <1>2, <1>3
  <2> QED BY <2>1 DEF Queued
<1> QED BY <1>1, <1>2, <1>4, <1>5 DEF Queued

LEMMA QueuedAppend ==
    ASSUME mainQ \in Seq(Job), NEW j \in Job, mainQ' = Append(mainQ, j)
    PROVE  mainQ' \in Seq(Job) /\ Queued' = Queued \cup {j}
<1>1. mainQ' \in Seq(Job) /\ Len(mainQ') = Len(mainQ) + 1 /\ Len(mainQ) \in Nat
  OBVIOUS
<1>2. mainQ'[Len(mainQ) + 1] = j
      /\ \A i \in 1..Len(mainQ) : mainQ'[i] = mainQ[i]
  OBVIOUS
<1>3. Queued \cup {j} \subseteq Queued'
  BY <1>1, <1>2 DEF Queued
<1>4. ASSUME NEW i \in 1..Len(mainQ') PROVE mainQ'[i] \in Queued \cup {j}
  <2>1. CASE i = Len(mainQ) + 1
    BY <1>2, <2>1
  <2>2. CASE i # Len(mainQ) + 1
    BY <1>1, <1>2, <2>2 DEF Queued
  <2> QED BY <2>1, <2>2
<1>5. Queued' \subseteq Queued \cup {j}
  BY <1>4 DEF Queued
<1> QED BY <1>1, <1>3, <1>5

LEMMA GuardInitially == Init => Inv
BY DEF Init, GuardInit, Inv, TypeOK, EventsAreForWaiters, RegisteredUntilRun,
   NoWakeupMissed, Queued, Phase

LEMMA GuardStep == Inv /\ [Next]_vars => Inv'
<1> SUFFICES ASSUME Inv, [Next]_vars PROVE Inv'
  OBVIOUS
<1> USE DEF Inv, TypeOK, EventsAreForWaiters, RegisteredUntilRun, NoWakeupMissed,
        Phase, guardVars
<1>1. ASSUME NEW j \in Job, RunInline(j) PROVE Inv'
  BY <1>1 DEF RunInline, Count, Queued
<1>2. ASSUME NEW j \in Job, Defer(j) PROVE Inv'
  BY <1>2 DEF Defer, Queued
<1>3. ASSUME NEW j \in Job, Register(j) PROVE Inv'
  <2>1. Queued' = Queued
    BY <1>3 DEF Register, Queued
  <2> QED BY <1>3, <2>1 DEF Register
<1>10. ASSUME NEW j \in Job, NEW from \in {"new", "deferring"}, Refuse(j, from) PROVE Inv'
  <2>1. Queued' = Queued
    BY <1>10 DEF Refuse, Queued
  <2> QED BY <1>10, <2>1 DEF Refuse
<1>4. ASSUME NEW j \in Job, Deliver(j) PROVE Inv'
  <2>1. mainQ \in Seq(Job) /\ mainQ # <<>> /\ mainQ' = Tail(mainQ)
    BY <1>4 DEF Deliver
  <2>2. /\ mainQ' \in Seq(Job) /\ j \in Queued /\ Queued' \subseteq Queued
        /\ Queued \subseteq Queued' \cup {j}
    BY <1>4, <2>1, QueuedTail DEF Deliver
  <2>3. TypeOK'
    BY <1>4, <2>2 DEF Deliver, Count
  <2>4. EventsAreForWaiters' /\ RegisteredUntilRun'
    BY <1>4, <2>2 DEF Deliver, Count
  <2>5. NoWakeupMissed'
    BY <1>4, <2>2 DEF Deliver
  <2> QED BY <2>3, <2>4, <2>5
<1>5. ASSUME NEW j \in Job, Post(j) PROVE Inv'
  <2>1. mainQ' \in Seq(Job) /\ Queued' = Queued \cup {j}
    BY <1>5, QueuedAppend DEF Post
  <2> QED BY <1>5, <2>1 DEF Post
<1>6. CASE Return
  BY <1>6 DEF Return, Queued
<1>7. CASE CallBegins
  BY <1>7 DEF CallBegins, Queued
<1>8. CASE CallEnds
  <2>1. Queued' = Queued
    BY <1>8 DEF CallEnds, Queued
  <2>2. \A j \in reg : phase[j] = "waiting"
    OBVIOUS
  <2>3. TypeOK' /\ EventsAreForWaiters' /\ RegisteredUntilRun'
    BY <1>8, <2>1, <2>2 DEF CallEnds
  <2>4. NoWakeupMissed'
    BY <1>8, <2>1 DEF CallEnds
  <2> QED BY <2>3, <2>4
<1>9. CASE UNCHANGED vars
  BY <1>9 DEF vars, Queued
<1> QED
  BY <1>1, <1>2, <1>3, <1>4, <1>5, <1>6, <1>7, <1>8, <1>9, <1>10 DEF Next

(* A step that changes what became of one action only.                     *)
LEMMA OneMoves ==
    ASSUME NEW j \in Job, NEW from, NEW to, StageOf(j) = from, StageOf(j)' = to,
           \A k \in Job \ {j} : StageOf(k)' = StageOf(k)
    PROVE  stages[j] = from /\ stages' = [stages EXCEPT ![j] = to]
<1>1. stages' = [k \in Job |-> IF k = j THEN to ELSE stages[k]]
  BY DEF stages
<1> QED BY <1>1 DEF stages

LEMMA GuardAlways == Safety => []Inv
BY GuardInitially, GuardStep, PTL DEF Safety

(* Type correctness: the queue holds actions and nothing else, no action   *)
(* is counted past two, and none has run that was neither run at once nor  *)
(* registered (CallStateGuard.kt:16-50).                                   *)
THEOREM GuardIsTyped == Spec => []TypeOK
<1>1. Inv => TypeOK
  BY DEF Inv
<1> QED BY <1>1, GuardAlways, PTL DEF Spec

(* A call that ends between the check and the registration, or between any *)
(* two steps of the handshake, never leaves a registered action unwoken.   *)
THEOREM WakeupsArrive == Spec => []NoWakeupMissed
<1>1. Inv => NoWakeupMissed
  BY DEF Inv
<1> QED BY <1>1, GuardAlways, PTL DEF Spec

(* The registration lasts from the deferral to the run, neither less (the  *)
(* action would be forgotten) nor more (it would run at every hang-up).    *)
THEOREM RegistrationLifetime == Spec => []RegisteredUntilRun
<1>1. Inv => RegisteredUntilRun
  BY DEF Inv
<1> QED BY <1>1, GuardAlways, PTL DEF Spec

(* Every step of the guard is a step of the interface or none: an action   *)
(* runs at once, is kept or is refused, a kept one is never taken back,    *)
(* one that ran or was refused never becomes pending again.                *)
THEOREM GuardIsIdler == Safety => Promise!Safety
<1>1. Init => Promise!Init
  BY DEF Init, GuardInit, Promise!Init, stages, StageOf
<1>2. Inv /\ [Next]_vars => [Promise!Next]_stages
  <2> SUFFICES ASSUME Inv, [Next]_vars
               PROVE  [Promise!Next]_stages
    OBVIOUS
  <2> USE DEF Inv, TypeOK, EventsAreForWaiters, Phase
  <2>1. ASSUME NEW j \in Job, RunInline(j) PROVE Promise!RunNow(j)
    <3>1. runs[j] = 0 /\ runs'[j] = 1 /\ \A k \in Job \ {j} :
             runs'[k] = runs[k] /\ phase'[k] = phase[k]
      BY <2>1 DEF RunInline, Count
    <3>2. StageOf(j) = "new" /\ StageOf(j)' = "ran"
          /\ \A k \in Job \ {j} : StageOf(k)' = StageOf(k)
      BY <2>1, <3>1 DEF RunInline, StageOf
    <3> QED BY <3>2, OneMoves DEF Promise!RunNow, Promise!Move
  <2>2. ASSUME NEW j \in Job, Defer(j) PROVE UNCHANGED stages
    <3>1. runs[j] = 0 /\ \A k \in Job \ {j} : phase'[k] = phase[k]
      BY <2>2 DEF Defer
    <3> QED BY <2>2, <3>1 DEF Defer, stages, StageOf
  <2>3. ASSUME NEW j \in Job, Register(j) PROVE Promise!Keep(j)
    <3>1. runs[j] = 0 /\ \A k \in Job \ {j} : phase'[k] = phase[k]
      BY <2>3 DEF Register
    <3>2. StageOf(j) = "new" /\ StageOf(j)' = "kept"
          /\ \A k \in Job \ {j} : StageOf(k)' = StageOf(k)
      BY <2>3, <3>1 DEF Register, StageOf
    <3> QED BY <3>2, OneMoves DEF Promise!Keep, Promise!Move
  <2>7. ASSUME NEW j \in Job, NEW from \in {"new", "deferring"}, Refuse(j, from)
        PROVE  Promise!Refuse(j)
    <3>1. runs[j] = 0 /\ \A k \in Job \ {j} : phase'[k] = phase[k]
      BY <2>7 DEF Refuse
    <3>2. StageOf(j) = "new" /\ StageOf(j)' = "refused"
          /\ \A k \in Job \ {j} : StageOf(k)' = StageOf(k)
      BY <2>7, <3>1 DEF Refuse, StageOf
    <3> QED BY <3>2, OneMoves DEF Promise!Refuse, Promise!Move
  <2>4. ASSUME NEW j \in Job, Deliver(j)
        PROVE  Promise!RunKept(j) \/ UNCHANGED stages
    <3>1. j \in Queued
      BY <2>4, QueuedTail DEF Deliver
    <3>2. phase[j] = "waiting"
      BY <3>1
    <3>3. CASE runs[j] = 0
      <4>1. runs'[j] = 1 /\ phase' = phase
            /\ \A k \in Job \ {j} : runs'[k] = runs[k]
        BY <2>4, <3>3 DEF Deliver, Count
      <4>2. StageOf(j) = "kept" /\ StageOf(j)' = "ran"
            /\ \A k \in Job \ {j} : StageOf(k)' = StageOf(k)
        BY <3>2, <3>3, <4>1 DEF StageOf
      <4> QED BY <4>2, OneMoves DEF Promise!RunKept, Promise!Move
    <3>4. CASE runs[j] # 0
      <4>1. /\ runs'[j] = 2 /\ phase' = phase
            /\ \A k \in Job \ {j} : runs'[k] = runs[k]
        BY <2>4, <3>4 DEF Deliver, Count
      <4> QED BY <3>4, <4>1 DEF stages, StageOf
    <3> QED BY <3>3, <3>4
  <2>5. ASSUME NEW j \in Job, Post(j) PROVE UNCHANGED stages
    BY <2>5 DEF Post, stages, StageOf
  <2>6. CASE Return \/ CallBegins \/ CallEnds \/ UNCHANGED vars
    BY <2>6 DEF Return, CallBegins, CallEnds, vars, guardVars,
       stages, StageOf
  <2> QED
    BY <2>1, <2>2, <2>3, <2>4, <2>5, <2>6, <2>7 DEF Next, Promise!Next
<1> QED BY <1>1, <1>2, GuardAlways, PTL DEF Safety, Promise!Safety
=============================================================================
