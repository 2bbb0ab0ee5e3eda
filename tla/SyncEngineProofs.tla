--------------------------- MODULE SyncEngineProofs ---------------------------
(* The lock of Syncer, the overlap of root scripts, that the app uses them *)
(* as RootWriter has it, the types and the promise of a clear, for any     *)
(* number of threads, jobs and numbers, under every fault (the clear:      *)
(* under every fault but a saving dialer and an orphaned script).          *)
EXTENDS SyncEngine, TLAPS

-----------------------------------------------------------------------------
(* Syncer.running: where the threads are, and nothing else.                *)

LockTypes == running \in BOOLEAN /\ at \in [Thread -> At]
LockInv   == LockTypes /\ LockHasOneHolder

(* A step inside a call: one thread goes on, the flag stays.               *)
LEMMA InsideKeepsLock ==
  ASSUME LockInv, NEW t \in Thread, at[t] # "idle",
         NEW l \in At \ {"idle"}, at' = [at EXCEPT ![t] = l], running' = running
  PROVE  LockInv'
  BY DEF LockInv, LockTypes, LockHasOneHolder, Quiet

(* compareAndSet succeeds, and the finally block.                          *)
LEMMA CallTakesLock ==
  ASSUME LockInv, NEW t \in Thread, at[t] = "idle", ~running,
         NEW l \in At \ {"idle"}, at' = [at EXCEPT ![t] = l], running' = TRUE
  PROVE  LockInv'
  BY DEF LockInv, LockTypes, LockHasOneHolder, Quiet

LEMMA ReleaseGivesLock ==
  ASSUME LockInv, NEW t \in Thread, Release(t)
  PROVE  LockInv'
  BY DEF LockInv, LockTypes, LockHasOneHolder, Quiet, Release, Go, At

LEMMA RestartGivesLock ==
  ASSUME LockInv, Restart
  PROVE  LockInv'
  BY DEF LockInv, LockTypes, LockHasOneHolder, Quiet, Restart, At

LEMMA ThreadKeepsLock ==
  ASSUME LockInv, NEW t \in Thread, ThreadStep(t)
  PROVE  LockInv'
  <1>1. CASE ReadContacts(t)
    <2>1. PICK l \in {"read", "release"} : at' = [at EXCEPT ![t] = l]
      BY <1>1 DEF ReadContacts, Go
    <2>2. at[t] # "idle" /\ running' = running
      BY <1>1 DEF ReadContacts, Go
    <2> QED  BY <2>1, <2>2, InsideKeepsLock DEF At
  <1>2. CASE ReadStore(t)
    <2>1. PICK l \in {"ask", "release"} : at' = [at EXCEPT ![t] = l]
      BY <1>2 DEF ReadStore, Go
    <2>2. at[t] # "idle" /\ running' = running
      BY <1>2 DEF ReadStore
    <2> QED  BY <2>1, <2>2, InsideKeepsLock DEF At
  <1>3. CASE AskIdle(t)
    BY <1>3, InsideKeepsLock DEF AskIdle, Go, At
  <1>4. CASE AskInCall(t)
    BY <1>4, InsideKeepsLock DEF AskInCall, Go, At
  <1>5. CASE Register(t)
    BY <1>5, InsideKeepsLock DEF Register, Go, At
  <1>6. CASE Written(t)
    BY <1>6, InsideKeepsLock DEF Written, Go, At
  <1>7. CASE Answer(t)
    BY <1>7, InsideKeepsLock DEF Answer, Go, At, thread
  <1>8. CASE Release(t)
    BY <1>8, ReleaseGivesLock
  <1>9. CASE TelephonyThrows(t)
    BY <1>9, InsideKeepsLock DEF TelephonyThrows, Go, At
  <1> QED  BY <1>1, <1>2, <1>3, <1>4, <1>5, <1>6, <1>7, <1>8, <1>9 DEF ThreadStep

LEMMA LockStep == LockInv /\ [Next]_vars => LockInv'
  <1> SUFFICES ASSUME LockInv, [Next]_vars PROVE LockInv'
    OBVIOUS
  <1>1. ASSUME UNCHANGED <<at, running>> PROVE LockInv'
    BY <1>1 DEF LockInv, LockTypes, LockHasOneHolder, Quiet
  <1>2. ASSUME NEW t \in Thread, NEW o \in {"sync", "clear"}, Call(t, o)
        PROVE  LockInv'
    <2>1. ~running /\ running' = TRUE /\ at[t] = "idle"
      BY <1>2 DEF Call, Go
    <2>2. PICK l \in {"contacts", "read"} : at' = [at EXCEPT ![t] = l]
      BY <1>2 DEF Call, Go
    <2> QED  BY <2>1, <2>2, CallTakesLock DEF At
  <1>3. ASSUME NEW t \in Thread, NEW o \in {"sync", "clear"}, CallBusy(t, o)
        PROVE  UNCHANGED <<at, running>>
    BY <1>3 DEF CallBusy, thread
  <1>4. ASSUME NEW j \in Job, Deliver(j) \/ Post(j) PROVE UNCHANGED <<at, running>>
    BY <1>4 DEF Deliver, Post, mineAll, thread
  <1>5. ASSUME NEW w \in Writer, ScriptStep(w) \/ OrphanEnds(w)
        PROVE  UNCHANGED <<at, running>>
    BY <1>5 DEF ScriptStep, OrphanEnds, mineAll, thread
  <1>6. MainDone \/ CallBegins \/ CallEnds \/ Dialer \/ ContactsChange
        => UNCHANGED <<at, running>>
    BY DEF MainDone, CallBegins, CallEnds, Dialer, ContactsChange, mineAll, thread
  <1>7. ProcessDies \/ PowerLoss => Restart
    BY DEF ProcessDies, PowerLoss
  <1>8. UNCHANGED vars => UNCHANGED <<at, running>>
    BY DEF vars, thread
  <1>9. CASE Next
    BY <1>1, <1>2, <1>3, <1>4, <1>5, <1>6, <1>7, <1>9, ThreadKeepsLock, RestartGivesLock
       DEF Next
  <1> QED  BY <1>1, <1>8, <1>9

(* At most one thread is between compareAndSet and its finally block, and  *)
(* the flag says whether one is, over every early return, exception and    *)
(* restart (AndroidGlue.kt:50-67).                                         *)
THEOREM OneHolder == Safety => []LockHasOneHolder
  <1>1. Init => LockInv
    <2>1. Init => running = FALSE /\ at = [t \in Thread |-> "idle"]
      BY DEF Init
    <2> QED  BY <2>1 DEF LockInv, LockTypes, LockHasOneHolder, Quiet, At
  <1>2. LockInv => LockHasOneHolder
    BY DEF LockInv
  <1> QED  BY <1>1, <1>2, LockStep, PTL DEF Safety

-----------------------------------------------------------------------------
(* What a step of a script does to its place and to its argument.          *)

IsOn(f, S) == f = [x \in S |-> f[x]]

LEMMA ScriptBegins ==
  ASSUME NEW w, NEW p, RW!Begin(w, p)
  PROVE  pc[w] = "idle" /\ pc' = [pc EXCEPT ![w] = "root"] /\ arg' = [arg EXCEPT ![w] = p]
  BY DEF RW!Begin, RW!Goto

LEMMA ScriptSteps ==
  ASSUME NEW w, RW!Step(w)
  PROVE  /\ pc[w] # "idle" /\ arg' = arg
         /\ pc' = pc \/ \E l \in RW!Label \ {"idle"} : pc' = [pc EXCEPT ![w] = l]
  <1> USE DEF RW!Goto, RW!End, RW!Label, RW!Killing, RW!Dead, RW!script
  <1>1. CASE RW!HasRoot(w)    BY <1>1 DEF RW!HasRoot
  <1>2. CASE RW!CheckCall(w)  BY <1>2 DEF RW!CheckCall
  <1>3. CASE RW!ForceStop(w)  BY <1>3 DEF RW!ForceStop
  <1>4. CASE RW!Probe(w)      BY <1>4 DEF RW!Probe
  <1>5. CASE RW!Confirm(w)    BY <1>5 DEF RW!Confirm
  <1>6. CASE RW!Copy(w)       BY <1>6 DEF RW!Copy
  <1>7. CASE RW!Open(w)       BY <1>7 DEF RW!Open
  <1>8. CASE RW!WriteSome(w)  BY <1>8 DEF RW!WriteSome
  <1>9. CASE RW!WriteAll(w)   BY <1>9 DEF RW!WriteAll
  <1>10. CASE RW!Chown(w)     BY <1>10 DEF RW!Chown
  <1>11. CASE RW!Fail(w)      BY <1>11 DEF RW!Fail
  <1> QED  BY <1>1, <1>2, <1>3, <1>4, <1>5, <1>6, <1>7, <1>8, <1>9, <1>10, <1>11 DEF RW!Step

LEMMA ScriptEnds ==
  ASSUME NEW w, RW!Finish(w)
  PROVE  /\ pc[w] = "done"
         /\ pc' = [v \in Writer |-> IF v \in {w} THEN "idle" ELSE pc[v]]
         /\ arg' = [v \in Writer |-> IF v \in {w} THEN NoFile ELSE arg[v]]
  BY DEF RW!Finish, RW!Reset

-----------------------------------------------------------------------------
(* The strengthening: who is inside which script, and what it serves.      *)

(* Places and captures are functions; orphans have a script.               *)
Shapes ==
    /\ IsOn(pc, Writer) /\ IsOn(arg, Writer) /\ IsOn(mine, Thread)
    /\ IsOn(target, Job) /\ IsOn(phase, Job)
    /\ orphan \subseteq Writer /\ \A w \in orphan : pc[w] # "idle"
    /\ mainQ \in Seq(Job) /\ reg \subseteq Job /\ inflight \subseteq Job

(* A thread's script runs while the thread waits for it, for its own job.  *)
Waits(t) ==
    /\ pc[t] # "idle" /\ t \notin orphan => at[t] = "write"
    /\ at[t] \in {"ask", "register", "write"} => mine[t] \in Job
    /\ at[t] = "write" =>
          t \notin orphan /\ arg[t] = target[mine[t]] /\ phase[mine[t]] # "new"

(* The main thread's, while it is in a kept action.                        *)
MainWaits ==
    /\ pc[Main] # "idle" /\ Main \notin orphan => main # None
    /\ main # None => /\ main \in Job /\ phase[main] = "waiting"
                      /\ Main \notin orphan /\ arg[Main] = target[main]

(* What is registered or under way to the main thread was deferred.        *)
Kept == \A j \in reg \cup inflight \cup CG!Queued : phase[j] = "waiting"

Parts == Shapes /\ (\A t \in Thread : Waits(t)) /\ MainWaits /\ Kept

OverlapInv == LockInv /\ Parts

LEMMA OverlapInvIsEnough == OverlapInv => OverlapNeedsDeferral
  <1> SUFFICES ASSUME OverlapInv PROVE OverlapNeedsDeferral
    OBVIOUS
  <1> USE DEF OverlapInv, Parts, Waits, MainWaits, Writer
  <1>1. ASSUME NEW w \in Writer \ orphan, pc[w] # "idle"
        PROVE  Serves(w) \in Job /\ arg[w] = target[Serves(w)]
    BY <1>1, MainIsNoThread DEF Serves
  <1>2. ASSUME NEW s \in Thread \ orphan, NEW t \in Thread \ orphan,
               pc[s] # "idle", pc[t] # "idle"
        PROVE  s = t
    <2>1. at[s] = "write" /\ at[t] = "write"
      BY <1>2
    <2> QED  BY <2>1 DEF LockInv, LockHasOneHolder
  <1> QED  BY <1>1, <1>2 DEF OverlapNeedsDeferral

-----------------------------------------------------------------------------
(* Steps that leave the scripts, the captures and the kept actions alone.  *)
Scripts == <<pc, arg, orphan>>
Kepts   == <<phase, reg, inflight, mainQ, main>>

LEMMA WalksOn ==
  ASSUME OverlapInv, NEW t \in Thread, at[t] # "write",
         NEW l \in At \ {"ask", "register", "write"}, at' = [at EXCEPT ![t] = l],
         IsOn(mine', Thread), \A s \in Thread \ {t} : mine'[s] = mine[s],
         UNCHANGED <<Scripts, Kepts, target>>
  PROVE  Parts'
  <1> USE DEF OverlapInv, Parts, Scripts, Kepts
  <1>1. Shapes'
    BY DEF Shapes, IsOn
  <1>2. ASSUME NEW s \in Thread PROVE Waits(s)'
    <2>1. at'[s] = IF s = t THEN l ELSE at[s]
      BY DEF LockInv, LockTypes
    <2> QED  BY <2>1 DEF Waits
  <1>3. MainWaits'
    BY DEF MainWaits
  <1>4. Kept'
    BY DEF Kept, CG!Queued
  <1> QED  BY <1>1, <1>2, <1>3, <1>4

LEMMA ReadContactsKeeps ==
  ASSUME OverlapInv, NEW t \in Thread, ReadContacts(t)
  PROVE  Parts'
  <1>1. PICK l \in {"read", "release"} : at' = [at EXCEPT ![t] = l]
    BY DEF ReadContacts, Go
  <1>2. at[t] = "contacts" /\ UNCHANGED <<Scripts, Kepts, target, mine>>
    BY DEF ReadContacts, Go, script, guard, capt, Scripts, Kepts
  <1>3. IsOn(mine, Thread)
    BY DEF OverlapInv, Parts, Shapes
  <1> QED  BY <1>1, <1>2, <1>3, WalksOn DEF At

LEMMA AnswerKeeps ==
  ASSUME OverlapInv, NEW t \in Thread, Answer(t)
  PROVE  Parts'
  <1>1. at[t] = "answer" /\ at' = [at EXCEPT ![t] = "release"]
    BY DEF Answer, Go
  <1>2. UNCHANGED <<Scripts, Kepts, target, mine>>
    BY DEF Answer, script, guard, capt, Scripts, Kepts
  <1>3. IsOn(mine, Thread)
    BY DEF OverlapInv, Parts, Shapes
  <1> QED  BY <1>1, <1>2, <1>3, WalksOn DEF At

LEMMA ReleaseKeeps ==
  ASSUME OverlapInv, NEW t \in Thread, Release(t)
  PROVE  Parts'
  <1>1. at[t] = "release" /\ at' = [at EXCEPT ![t] = "idle"]
    BY DEF Release, Go
  <1>2. UNCHANGED <<Scripts, Kepts, target>>
    BY DEF Release, script, guard, capt, Scripts, Kepts
  <1>3. mine' = [mine EXCEPT ![t] = None]
    BY DEF Release
  <1>4. IsOn(mine', Thread) /\ \A s \in Thread \ {t} : mine'[s] = mine[s]
    BY <1>3 DEF OverlapInv, Parts, Shapes, IsOn
  <1> QED  BY <1>1, <1>2, <1>4, WalksOn DEF At

(* A new target, for a job that nobody has asked for yet.                  *)
LEMMA ReadStoreKeeps ==
  ASSUME OverlapInv, NEW t \in Thread, ReadStore(t)
  PROVE  Parts'
  <1>1. at[t] = "read" /\ UNCHANGED <<Scripts, Kepts>>
    BY DEF ReadStore, Go, script, guard, Scripts, Kepts
  <1>2. CASE at' = [at EXCEPT ![t] = "release"] /\ UNCHANGED <<mine, target>>
    <2>1. IsOn(mine, Thread)
      BY DEF OverlapInv, Parts, Shapes
    <2> QED  BY <1>1, <1>2, <2>1, WalksOn DEF At
  <1>3. ASSUME NEW j \in Job, NEW p, phase[j] = "new", at' = [at EXCEPT ![t] = "ask"],
               mine' = [mine EXCEPT ![t] = j], target' = [target EXCEPT ![j] = p]
        PROVE  Parts'
    <2> USE DEF OverlapInv, Parts, Scripts, Kepts
    <2>1. Shapes'
      BY <1>1, <1>3 DEF Shapes, IsOn
    <2>2. \A k \in Job : k # j => target'[k] = target[k]
      BY <1>3 DEF Shapes, IsOn
    <2>3. ASSUME NEW s \in Thread PROVE Waits(s)'
      <3>1. at'[s] = IF s = t THEN "ask" ELSE at[s]
        BY <1>3 DEF LockInv, LockTypes
      <3>2. mine'[s] = IF s = t THEN j ELSE mine[s]
        BY <1>3 DEF Shapes, IsOn
      <3> QED  BY <1>1, <1>3, <2>2, <3>1, <3>2 DEF Waits
    <2>4. MainWaits'
      BY <1>1, <1>3, <2>2 DEF MainWaits
    <2>5. Kept'
      BY <1>1 DEF Kept, CG!Queued
    <2> QED  BY <2>1, <2>3, <2>4, <2>5
  <1> QED  BY <1>2, <1>3 DEF ReadStore, Go

-----------------------------------------------------------------------------
(* Steps that start or end a script, or keep an action.                    *)

LEMMA AskIdleKeeps ==
  ASSUME OverlapInv, NEW t \in Thread, AskIdle(t)
  PROVE  Parts'
  <1> DEFINE j == mine[t]
  <1>1. at[t] = "ask" /\ at' = [at EXCEPT ![t] = "write"]
    BY DEF AskIdle, Go
  <1>2. UNCHANGED <<mine, target, orphan>>
    BY DEF AskIdle
  <1>3. /\ phase[j] = "new" /\ phase' = [phase EXCEPT ![j] = "inline"]
        /\ UNCHANGED <<reg, inflight, mainQ, main>>
    BY DEF AskIdle, CG!RunInline
  <1>4. pc[t] = "idle" /\ pc' = [pc EXCEPT ![t] = "root"] /\ arg' = [arg EXCEPT ![t] = target[j]]
    BY ScriptBegins DEF AskIdle
  <1> USE DEF OverlapInv, Parts
  <1>5. j \in Job /\ t \notin orphan /\ t # Main
    BY <1>1, <1>4, MainIsNoThread DEF Waits, Shapes
  <1>6. /\ \A w \in Writer : /\ pc'[w] = IF w = t THEN "root" ELSE pc[w]
                             /\ arg'[w] = IF w = t THEN target[j] ELSE arg[w]
        /\ \A k \in Job : phase'[k] = IF k = j THEN "inline" ELSE phase[k]
        /\ \A s \in Thread : at'[s] = IF s = t THEN "write" ELSE at[s]
    BY <1>1, <1>3, <1>4 DEF Shapes, IsOn, LockInv, LockTypes, Writer
  <1> HIDE DEF j
  <1>7. Shapes'
    <2>1. IsOn(pc, Writer)' /\ IsOn(arg, Writer)' /\ IsOn(phase, Job)'
      BY <1>3, <1>4 DEF Shapes, IsOn
    <2> QED  BY <1>2, <1>3, <1>6, <2>1 DEF Shapes, IsOn
  <1>8. ASSUME NEW s \in Thread PROVE Waits(s)'
    <2>1. s \in Writer
      BY DEF Writer
    <2>2. j = mine[t]
      BY DEF j
    <2> QED  BY <1>1, <1>2, <1>5, <1>6, <2>1, <2>2 DEF Waits
  <1>9. MainWaits'
    <2>1. Main \in Writer
      BY DEF Writer
    <2> QED  BY <1>2, <1>3, <1>5, <1>6, <2>1 DEF MainWaits
  <1>10. Kept'
    <2>1. reg \cup inflight \cup CG!Queued \subseteq Job
      BY DEF Shapes, CG!Queued
    <2> QED  BY <1>3, <1>6, <2>1 DEF Kept, CG!Queued
  <1> QED  BY <1>7, <1>8, <1>9, <1>10

(* The action is kept, and not yet registered.                             *)
LEMMA AskInCallKeeps ==
  ASSUME OverlapInv, NEW t \in Thread, AskInCall(t)
  PROVE  Parts'
  <1> DEFINE j == mine[t]
  <1>1. at[t] = "ask" /\ at' = [at EXCEPT ![t] = "register"]
    BY DEF AskInCall, Go
  <1>2. UNCHANGED <<mine, target, Scripts>>
    BY DEF AskInCall, script, capt, Scripts
  <1>3. /\ phase[j] = "new" /\ phase' = [phase EXCEPT ![j] = "deferring"]
        /\ UNCHANGED <<reg, inflight, mainQ, main>>
    BY DEF AskInCall, CG!Defer
  <1> USE DEF OverlapInv, Parts, Scripts
  <1>4. j \in Job
    BY <1>1 DEF Waits
  <1>5. /\ \A k \in Job : phase'[k] = IF k = j THEN "deferring" ELSE phase[k]
        /\ \A s \in Thread : at'[s] = IF s = t THEN "register" ELSE at[s]
    BY <1>1, <1>3 DEF Shapes, IsOn, LockInv, LockTypes
  <1> HIDE DEF j
  <1>6. Shapes'
    <2>1. IsOn(phase, Job)'
      BY <1>3 DEF Shapes, IsOn
    <2> QED  BY <1>2, <1>3, <2>1 DEF Shapes, IsOn
  <1>7. ASSUME NEW s \in Thread PROVE Waits(s)'
    <2>1. j = mine[t]
      BY DEF j
    <2> QED  BY <1>1, <1>2, <1>4, <1>5, <2>1 DEF Waits
  <1>8. MainWaits'
    BY <1>2, <1>3, <1>5 DEF MainWaits
  <1>9. Kept'
    <2>1. reg \cup inflight \cup CG!Queued \subseteq Job
      BY DEF Shapes, CG!Queued
    <2> QED  BY <1>3, <1>5, <2>1 DEF Kept, CG!Queued
  <1> QED  BY <1>6, <1>7, <1>8, <1>9

LEMMA RegisterKeeps ==
  ASSUME OverlapInv, NEW t \in Thread, Register(t)
  PROVE  Parts'
  <1> DEFINE j == mine[t]
  <1>1. at[t] = "register" /\ at' = [at EXCEPT ![t] = "answer"]
    BY DEF Register, Go
  <1>2. UNCHANGED <<mine, target, Scripts>>
    BY DEF Register, script, capt, Scripts
  <1>3. /\ phase[j] = "deferring" /\ phase' = [phase EXCEPT ![j] = "waiting"]
        /\ reg' = reg \cup {j} /\ inflight' \subseteq inflight \cup {j}
        /\ UNCHANGED <<mainQ, main>>
    BY DEF Register, CG!Register
  <1> USE DEF OverlapInv, Parts, Scripts
  <1>4. j \in Job
    BY <1>1 DEF Waits
  <1>5. /\ \A k \in Job : phase'[k] = IF k = j THEN "waiting" ELSE phase[k]
        /\ \A s \in Thread : at'[s] = IF s = t THEN "answer" ELSE at[s]
    BY <1>1, <1>3 DEF Shapes, IsOn, LockInv, LockTypes
  <1> HIDE DEF j
  <1>6. Shapes'
    <2>1. IsOn(phase, Job)'
      BY <1>3 DEF Shapes, IsOn
    <2> QED  BY <1>2, <1>3, <1>4, <2>1 DEF Shapes, IsOn
  <1>7. ASSUME NEW s \in Thread PROVE Waits(s)'
    BY <1>1, <1>2, <1>5 DEF Waits
  <1>8. MainWaits'
    BY <1>2, <1>3, <1>5 DEF MainWaits
  <1>9. Kept'
    <2>1. reg \cup inflight \cup CG!Queued \subseteq Job
      BY DEF Shapes, CG!Queued
    <2> QED  BY <1>3, <1>4, <1>5, <2>1 DEF Kept, CG!Queued
  <1> QED  BY <1>6, <1>7, <1>8, <1>9

(* Nothing is kept, and the thread asks no more.                           *)
LEMMA ThrowsKeeps ==
  ASSUME OverlapInv, NEW t \in Thread, TelephonyThrows(t)
  PROVE  Parts'
  <1> DEFINE j == mine[t]
  <1>1. at[t] \in {"ask", "register"} /\ at' = [at EXCEPT ![t] = "release"]
    BY DEF TelephonyThrows, Go
  <1>2. UNCHANGED <<mine, target, Scripts>>
    BY DEF TelephonyThrows, script, capt, Scripts
  <1>3. /\ phase[j] \in {"new", "deferring"} /\ phase' = [phase EXCEPT ![j] = "refused"]
        /\ UNCHANGED <<reg, inflight, mainQ, main>>
    BY DEF TelephonyThrows, CG!Refuse
  <1> USE DEF OverlapInv, Parts, Scripts
  <1>4. j \in Job
    BY <1>1 DEF Waits
  <1>5. /\ \A k \in Job : phase'[k] = IF k = j THEN "refused" ELSE phase[k]
        /\ \A s \in Thread : at'[s] = IF s = t THEN "release" ELSE at[s]
    BY <1>1, <1>3 DEF Shapes, IsOn, LockInv, LockTypes
  <1> HIDE DEF j
  <1>6. Shapes'
    <2>1. IsOn(phase, Job)'
      BY <1>3 DEF Shapes, IsOn
    <2> QED  BY <1>2, <1>3, <2>1 DEF Shapes, IsOn
  <1>7. ASSUME NEW s \in Thread PROVE Waits(s)'
    BY <1>1, <1>2, <1>5 DEF Waits
  <1>8. MainWaits'
    BY <1>2, <1>3, <1>5 DEF MainWaits
  <1>9. Kept'
    <2>1. reg \cup inflight \cup CG!Queued \subseteq Job
      BY DEF Shapes, CG!Queued
    <2> QED  BY <1>3, <1>5, <2>1 DEF Kept, CG!Queued
  <1> QED  BY <1>6, <1>7, <1>8, <1>9

(* A script of this process that ends was not an orphan, and its thread is *)
(* done with it.                                                           *)
LEMMA WrittenKeeps ==
  ASSUME OverlapInv, NEW t \in Thread, Written(t)
  PROVE  Parts'
  <1>1. at[t] = "write" /\ at' = [at EXCEPT ![t] = "answer"]
    BY DEF Written, Go
  <1>2. UNCHANGED <<mine, target, orphan, Kepts>>
    BY DEF Written, guard, Kepts
  <1>3. /\ pc' = [v \in Writer |-> IF v \in {t} THEN "idle" ELSE pc[v]]
        /\ arg' = [v \in Writer |-> IF v \in {t} THEN NoFile ELSE arg[v]]
    BY ScriptEnds DEF Written
  <1> USE DEF OverlapInv, Parts, Kepts
  <1>4. t \notin orphan /\ t # Main
    BY <1>1, MainIsNoThread DEF Waits
  <1>5. \A s \in Thread : at'[s] = IF s = t THEN "answer" ELSE at[s]
    BY <1>1 DEF LockInv, LockTypes
  <1>6. \A w \in Writer : /\ pc'[w] = IF w = t THEN "idle" ELSE pc[w]
                          /\ w # t => arg'[w] = arg[w]
    BY <1>3
  <1>7. Shapes'
    <2>1. IsOn(pc, Writer)' /\ IsOn(arg, Writer)'
      BY <1>3 DEF IsOn
    <2> QED  BY <1>2, <1>4, <1>6, <2>1 DEF Shapes, IsOn
  <1>8. ASSUME NEW s \in Thread PROVE Waits(s)'
    <2>1. s \in Writer
      BY DEF Writer
    <2> QED  BY <1>2, <1>5, <1>6, <2>1 DEF Waits
  <1>9. MainWaits'
    <2>1. Main \in Writer
      BY DEF Writer
    <2> QED  BY <1>2, <1>4, <1>6, <2>1 DEF MainWaits
  <1>10. Kept'
    BY <1>2 DEF Kept, CG!Queued
  <1> QED  BY <1>7, <1>8, <1>9, <1>10

LEMMA ThreadKeeps ==
  ASSUME OverlapInv, NEW t \in Thread, ThreadStep(t)
  PROVE  Parts'
  BY ReadContactsKeeps, ReadStoreKeeps, AskIdleKeeps, AskInCallKeeps, RegisterKeeps,
     ThrowsKeeps, WrittenKeeps, AnswerKeeps, ReleaseKeeps DEF ThreadStep

-----------------------------------------------------------------------------
(* The main thread.                                                        *)

LEMMA QueueTurns ==
  ASSUME NEW q \in Seq(Job), q # <<>>
  PROVE  /\ Head(q) \in Job /\ Head(q) \in {q[i] : i \in 1..Len(q)}
         /\ Tail(q) \in Seq(Job)
         /\ {Tail(q)[i] : i \in 1..Len(Tail(q))} \subseteq {q[i] : i \in 1..Len(q)}
  <1>1. Len(q) \in Nat /\ Len(q) >= 1 /\ Head(q) = q[1]
    OBVIOUS
  <1>2. Tail(q) \in Seq(Job) /\ Len(Tail(q)) = Len(q) - 1
    OBVIOUS
  <1>3. \A i \in 1..Len(Tail(q)) : Tail(q)[i] = q[i + 1] /\ i + 1 \in 1..Len(q)
    BY <1>1, <1>2
  <1>4. 1 \in 1..Len(q)
    BY <1>1
  <1>5. q[1] \in Job
    BY <1>4
  <1> QED  BY <1>1, <1>2, <1>3, <1>4, <1>5

LEMMA QueueGrows ==
  ASSUME NEW q \in Seq(Job), NEW j \in Job
  PROVE  /\ Append(q, j) \in Seq(Job)
         /\ {Append(q, j)[i] : i \in 1..Len(Append(q, j))}
              \subseteq {q[i] : i \in 1..Len(q)} \cup {j}
  <1>1. Append(q, j) \in Seq(Job) /\ Len(Append(q, j)) = Len(q) + 1 /\ Len(q) \in Nat
    OBVIOUS
  <1>2. \A i \in 1..Len(q) + 1 :
            Append(q, j)[i] = j \/ (i \in 1..Len(q) /\ Append(q, j)[i] = q[i])
    BY <1>1
  <1> QED  BY <1>1, <1>2

LEMMA DeliverKeeps ==
  ASSUME OverlapInv, NEW j \in Job, Deliver(j)
  PROVE  Parts'
  <1>1. /\ main = None /\ mainQ # <<>> /\ j = Head(mainQ) /\ mainQ' = Tail(mainQ)
        /\ reg' = reg \ {j} /\ main' = j /\ UNCHANGED <<phase, inflight>>
    BY DEF Deliver, CG!Deliver
  <1>2. UNCHANGED <<at, mine, target, orphan>>
    BY DEF Deliver, mineAll, thread
  <1>3. /\ pc[Main] = "idle" /\ pc' = [pc EXCEPT ![Main] = "root"]
        /\ arg' = [arg EXCEPT ![Main] = target[j]]
    BY ScriptBegins DEF Deliver
  <1> USE DEF OverlapInv, Parts
  <1>4. mainQ \in Seq(Job)
    BY DEF Shapes
  <1>5. CG!Queued' \subseteq CG!Queued /\ j \in CG!Queued /\ mainQ' \in Seq(Job)
    BY <1>1, <1>4, QueueTurns DEF CG!Queued
  <1>6. Main \in Writer /\ Main \notin orphan
    BY <1>3 DEF Shapes, Writer
  <1>7. \A w \in Writer : /\ pc'[w] = IF w = Main THEN "root" ELSE pc[w]
                          /\ arg'[w] = IF w = Main THEN target[j] ELSE arg[w]
    BY <1>3 DEF Shapes, IsOn
  <1>8. Shapes'
    <2>1. IsOn(pc, Writer)' /\ IsOn(arg, Writer)'
      BY <1>3 DEF Shapes, IsOn
    <2> QED  BY <1>1, <1>2, <1>5, <1>7, <2>1 DEF Shapes, IsOn
  <1>9. ASSUME NEW s \in Thread PROVE Waits(s)'
    <2>1. s \in Writer /\ s # Main
      BY MainIsNoThread DEF Writer
    <2> QED  BY <1>1, <1>2, <1>7, <2>1 DEF Waits
  <1>10. MainWaits'
    <2>1. phase[j] = "waiting"
      BY <1>5 DEF Kept
    <2> QED  BY <1>1, <1>2, <1>6, <1>7, <2>1, NoneIsNoJob DEF MainWaits
  <1>11. Kept'
    BY <1>1, <1>5 DEF Kept
  <1> QED  BY <1>8, <1>9, <1>10, <1>11

LEMMA MainDoneKeeps ==
  ASSUME OverlapInv, MainDone
  PROVE  Parts'
  <1>1. main # None /\ main' = None /\ UNCHANGED <<phase, reg, inflight, mainQ>>
    BY DEF MainDone, CG!Return
  <1>2. UNCHANGED <<at, mine, target, orphan>>
    BY DEF MainDone, mineAll, thread
  <1>3. /\ pc' = [v \in Writer |-> IF v \in {Main} THEN "idle" ELSE pc[v]]
        /\ arg' = [v \in Writer |-> IF v \in {Main} THEN NoFile ELSE arg[v]]
    BY ScriptEnds DEF MainDone
  <1> USE DEF OverlapInv, Parts
  <1>4. Main \in Writer /\ Main \notin orphan
    BY <1>1 DEF MainWaits, Writer
  <1>5. \A w \in Writer : /\ pc'[w] = IF w = Main THEN "idle" ELSE pc[w]
                          /\ w # Main => arg'[w] = arg[w]
    BY <1>3
  <1>6. Shapes'
    <2>1. IsOn(pc, Writer)' /\ IsOn(arg, Writer)'
      BY <1>3 DEF IsOn
    <2> QED  BY <1>1, <1>2, <1>4, <1>5, <2>1 DEF Shapes, IsOn
  <1>7. ASSUME NEW s \in Thread PROVE Waits(s)'
    <2>1. s \in Writer /\ s # Main
      BY MainIsNoThread DEF Writer
    <2> QED  BY <1>1, <1>2, <1>5, <2>1 DEF Waits
  <1>8. MainWaits'
    BY <1>1, <1>4, <1>5 DEF MainWaits
  <1>9. Kept'
    BY <1>1 DEF Kept, CG!Queued
  <1> QED  BY <1>6, <1>7, <1>8, <1>9

LEMMA PostKeeps ==
  ASSUME OverlapInv, NEW j \in Job, Post(j)
  PROVE  Parts'
  <1>1. /\ j \in inflight /\ inflight' = inflight \ {j} /\ mainQ' = Append(mainQ, j)
        /\ UNCHANGED <<phase, reg, main>>
    BY DEF Post, CG!Post
  <1>2. UNCHANGED <<at, mine, target, Scripts>>
    BY DEF Post, script, mineAll, thread, capt, Scripts
  <1> USE DEF OverlapInv, Parts, Scripts
  <1>3. CG!Queued' \subseteq CG!Queued \cup {j} /\ mainQ' \in Seq(Job)
    BY <1>1, QueueGrows DEF CG!Queued, Shapes
  <1>4. Shapes'
    BY <1>1, <1>2, <1>3 DEF Shapes, IsOn
  <1>5. ASSUME NEW s \in Thread PROVE Waits(s)'
    BY <1>1, <1>2 DEF Waits
  <1>6. MainWaits'
    BY <1>1, <1>2 DEF MainWaits
  <1>7. Kept'
    BY <1>1, <1>3 DEF Kept
  <1> QED  BY <1>4, <1>5, <1>6, <1>7

-----------------------------------------------------------------------------
(* The scripts and the world.                                              *)

LEMMA ScriptStepKeeps ==
  ASSUME OverlapInv, NEW w \in Writer, ScriptStep(w)
  PROVE  Parts'
  <1>1. UNCHANGED <<at, mine, target, orphan, Kepts>>
    BY DEF ScriptStep, mineAll, thread, guard, capt, Kepts
  <1>2. /\ pc[w] # "idle" /\ arg' = arg
        /\ pc' = pc \/ \E l \in RW!Label \ {"idle"} : pc' = [pc EXCEPT ![w] = l]
    BY ScriptSteps DEF ScriptStep
  <1> USE DEF OverlapInv, Parts, Kepts
  <1>3. \A v \in Writer : pc'[v] = "idle" <=> pc[v] = "idle"
    BY <1>2 DEF Shapes, IsOn
  <1>4. Shapes'
    <2>1. IsOn(pc, Writer)'
      BY <1>2 DEF Shapes, IsOn
    <2> QED  BY <1>1, <1>2, <1>3, <2>1 DEF Shapes, IsOn
  <1>5. ASSUME NEW s \in Thread PROVE Waits(s)'
    <2>1. s \in Writer
      BY DEF Writer
    <2> QED  BY <1>1, <1>2, <1>3, <2>1 DEF Waits
  <1>6. MainWaits'
    <2>1. Main \in Writer
      BY DEF Writer
    <2> QED  BY <1>1, <1>2, <1>3, <2>1 DEF MainWaits
  <1>7. Kept'
    BY <1>1 DEF Kept, CG!Queued
  <1> QED  BY <1>4, <1>5, <1>6, <1>7

LEMMA OrphanEndsKeeps ==
  ASSUME OverlapInv, NEW w \in Writer, OrphanEnds(w)
  PROVE  Parts'
  <1>1. w \in orphan /\ orphan' = orphan \ {w} /\ UNCHANGED <<at, mine, target, Kepts>>
    BY DEF OrphanEnds, thread, guard, capt, Kepts
  <1>2. /\ pc' = [v \in Writer |-> IF v \in {w} THEN "idle" ELSE pc[v]]
        /\ arg' = [v \in Writer |-> IF v \in {w} THEN NoFile ELSE arg[v]]
    BY ScriptEnds DEF OrphanEnds
  <1> USE DEF OverlapInv, Parts, Kepts
  <1>3. \A v \in Writer : /\ pc'[v] = IF v = w THEN "idle" ELSE pc[v]
                          /\ v # w => arg'[v] = arg[v]
    BY <1>2
  <1>4. Shapes'
    <2>1. IsOn(pc, Writer)' /\ IsOn(arg, Writer)'
      BY <1>2 DEF IsOn
    <2> QED  BY <1>1, <1>3, <2>1 DEF Shapes, IsOn
  <1>5. ASSUME NEW s \in Thread PROVE Waits(s)'
    <2>1. s \in Writer
      BY DEF Writer
    <2> QED  BY <1>1, <1>3, <2>1 DEF Waits
  <1>6. MainWaits'
    <2>1. Main \in Writer
      BY DEF Writer
    <2> QED  BY <1>1, <1>3, <2>1 DEF MainWaits
  <1>7. Kept'
    BY <1>1 DEF Kept, CG!Queued
  <1> QED  BY <1>4, <1>5, <1>6, <1>7

(* A call that ends sends IDLE to those registered.                        *)
LEMMA CallEndsKeeps ==
  ASSUME OverlapInv, CallEnds
  PROVE  Parts'
  <1>1. inflight' = inflight \cup reg /\ UNCHANGED <<phase, reg, mainQ, main>>
    BY DEF CallEnds, CG!CallEnds
  <1>2. UNCHANGED <<at, mine, target, Scripts>>
    BY DEF CallEnds, RW!CallEnds, RW!script, mineAll, thread, capt, Scripts
  <1> USE DEF OverlapInv, Parts, Scripts
  <1>3. Shapes'
    BY <1>1, <1>2 DEF Shapes, IsOn
  <1>4. ASSUME NEW s \in Thread PROVE Waits(s)'
    BY <1>1, <1>2 DEF Waits
  <1>5. MainWaits' /\ Kept'
    BY <1>1, <1>2 DEF MainWaits, Kept, CG!Queued
  <1> QED  BY <1>3, <1>4, <1>5

LEMMA StandingStill ==
  ASSUME OverlapInv, UNCHANGED <<at, mine, target, Scripts, Kepts>>
  PROVE  Parts'
  <1> USE DEF OverlapInv, Parts, Scripts, Kepts
  <1>1. Shapes'
    BY DEF Shapes, IsOn
  <1>2. ASSUME NEW s \in Thread PROVE Waits(s)'
    BY DEF Waits
  <1>3. MainWaits' /\ Kept'
    BY DEF MainWaits, Kept, CG!Queued
  <1> QED  BY <1>1, <1>2, <1>3

(* A call of Syncer begins, with nothing captured yet.                     *)
LEMMA CallKeeps ==
  ASSUME OverlapInv, NEW t \in Thread, NEW o \in {"sync", "clear"}, Call(t, o)
  PROVE  Parts'
  <1>1. at[t] = "idle" /\ \E l \in {"contacts", "read"} : at' = [at EXCEPT ![t] = l]
    BY DEF Call, Go
  <1>2. UNCHANGED <<mine, target, Scripts, Kepts>>
    BY DEF Call, script, guard, capt, Scripts, Kepts
  <1>3. IsOn(mine, Thread)
    BY DEF OverlapInv, Parts, Shapes
  <1> QED  BY <1>1, <1>2, <1>3, WalksOn DEF At

(* The process is gone: what runs on is nobody's.                          *)
LEMMA RestartKeeps ==
  ASSUME OverlapInv, Restart, IsOn(pc', Writer), IsOn(arg', Writer),
         orphan' = {w \in Writer : pc'[w] # "idle"}
  PROVE  Parts'
  <1>1. /\ at' = [t \in Thread |-> "idle"] /\ mine' = [t \in Thread |-> None]
        /\ UNCHANGED target
    BY DEF Restart, capt
  <1>2. /\ IsOn(phase', Job) /\ reg' = {} /\ inflight' = {} /\ mainQ' = <<>> /\ main' = None
    BY DEF Restart, CG!Die, IsOn
  <1>3. Shapes'
    <2>1. IsOn(mine', Thread) /\ IsOn(target', Job)
      BY <1>1 DEF OverlapInv, Parts, Shapes, IsOn
    <2> QED  BY <1>2, <2>1 DEF Shapes, IsOn
  <1>4. ASSUME NEW s \in Thread PROVE Waits(s)'
    BY <1>1 DEF Waits, Writer
  <1>5. MainWaits'
    BY <1>2 DEF MainWaits, Writer
  <1>6. Kept'
    BY <1>2 DEF Kept, CG!Queued
  <1> QED  BY <1>3, <1>4, <1>5, <1>6 DEF Parts

LEMMA DeathKeeps ==
  ASSUME OverlapInv, ProcessDies \/ PowerLoss
  PROVE  Parts'
  <1>1. CASE ProcessDies
    <2>1. PICK S \in SUBSET Writer : RW!Reset(S)
      BY <1>1 DEF ProcessDies, RW!AppDies
    <2>2. IsOn(pc', Writer) /\ IsOn(arg', Writer)
      BY <2>1 DEF RW!Reset, IsOn
    <2> QED  BY <1>1, <2>2, RestartKeeps DEF ProcessDies
  <1>2. CASE PowerLoss
    <2>1. RW!Reset(Writer)
      BY <1>2 DEF PowerLoss, RW!PowerLoss
    <2>2. IsOn(pc', Writer) /\ IsOn(arg', Writer) /\ \A w \in Writer : pc'[w] = "idle"
      BY <2>1 DEF RW!Reset, IsOn
    <2> QED  BY <1>2, <2>2, RestartKeeps DEF PowerLoss
  <1> QED  BY <1>1, <1>2

-----------------------------------------------------------------------------
LEMMA OverlapStep == OverlapInv /\ [Next]_vars => OverlapInv'
  <1> SUFFICES ASSUME OverlapInv, [Next]_vars PROVE OverlapInv'
    OBVIOUS
  <1>1. LockInv'
    BY LockStep DEF OverlapInv
  <1>2. CallBegins \/ Dialer \/ ContactsChange
        \/ (\E t \in Thread : \E o \in {"sync", "clear"} : CallBusy(t, o))
        => UNCHANGED <<at, mine, target, Scripts, Kepts>>
    BY DEF CallBegins, RW!CallBegins, Dialer, RW!Dialer, RW!DialerStarts, RW!DialerLoads,
           RW!DialerSaves, ContactsChange, CallBusy, RW!script, script, mineAll, thread,
           guard, capt, Scripts, Kepts
  <1>3. UNCHANGED vars => UNCHANGED <<at, mine, target, Scripts, Kepts>>
    BY DEF vars, script, thread, guard, capt, Scripts, Kepts
  <1>4. Parts'
    BY <1>2, <1>3, ThreadKeeps, CallKeeps, DeliverKeeps, MainDoneKeeps, PostKeeps,
       ScriptStepKeeps, OrphanEndsKeeps, CallEndsKeeps, DeathKeeps, StandingStill DEF Next
  <1> QED  BY <1>1, <1>4 DEF OverlapInv

(* Nobody is anywhere at the start.                                        *)
LEMMA InitOverlaps == Init => OverlapInv
  <1> SUFFICES ASSUME Init PROVE OverlapInv
    OBVIOUS
  <1>1. /\ at = [t \in Thread |-> "idle"] /\ mine = [t \in Thread |-> None]
        /\ target = [j \in Job |-> NoFile] /\ running = FALSE /\ orphan = {}
    BY DEF Init
  <1>2. /\ pc = [w \in Writer |-> "idle"] /\ arg = [w \in Writer |-> NoFile]
    BY DEF Init, RW!Init
  <1>3. /\ phase = [j \in Job |-> "new"] /\ reg = {} /\ inflight = {} /\ mainQ = <<>>
        /\ main = None
    BY DEF Init, CG!GuardInit
  <1>4. LockInv
    BY <1>1 DEF LockInv, LockTypes, LockHasOneHolder, Quiet, At
  <1>5. Shapes
    BY <1>1, <1>2, <1>3 DEF Shapes, IsOn
  <1>6. \A t \in Thread : Waits(t)
    BY <1>1, <1>2 DEF Waits, Writer
  <1>7. MainWaits /\ Kept
    BY <1>2, <1>3 DEF MainWaits, Kept, CG!Queued, Writer
  <1> QED  BY <1>4, <1>5, <1>6, <1>7 DEF OverlapInv, Parts

(* Two scripts of one process overlap only when one is a kept write, and   *)
(* each writes the target of its own job (SyncEngine.kt:25-36).            *)
THEOREM ScriptsOverlapOnlyDeferred == Safety => []OverlapNeedsDeferral
  BY InitOverlaps, OverlapInvIsEnough, OverlapStep, PTL DEF Safety

-----------------------------------------------------------------------------
(* What is handed to a root script is a whole file: numbers come from the  *)
(* contacts, targets from a file that parsed.                              *)
NumbersAre == contacts \subseteq Number /\ IsOn(nums, Thread)
              /\ \A t \in Thread : nums[t] \subseteq Number
Asked(t)   == at[t] = "ask" => target[mine[t]] \in Payload
Targets    == \A j \in Job : phase[j] # "new" => target[j] \in Payload
WholeInv   == OverlapInv /\ NumbersAre /\ (\A t \in Thread : Asked(t)) /\ Targets

LEMMA NumbersStep ==
  ASSUME WholeInv, [Next]_vars
  PROVE  NumbersAre'
  <1> USE DEF WholeInv, NumbersAre, IsOn
  <1>1. CASE UNCHANGED <<contacts, nums>>
    BY <1>1
  <1>2. ASSUME NEW t \in Thread, ReadContacts(t) PROVE NumbersAre'
    <2>1. CASE UNCHANGED <<contacts, nums>>
      BY <1>1, <2>1
    <2>2. ASSUME NEW ns \in {contacts, {}}, nums' = [nums EXCEPT ![t] = ns], contacts' = contacts
          PROVE  NumbersAre'
      BY <2>2
    <2> QED  BY <1>2, <2>1, <2>2 DEF ReadContacts
  <1>3. ASSUME NEW t \in Thread, Release(t) PROVE NumbersAre'
    BY <1>3 DEF Release
  <1>4. CASE ContactsChange
    BY <1>4 DEF ContactsChange, mineAll, thread
  <1>5. CASE Restart
    BY <1>5 DEF Restart
  <1>6. ASSUME NEW t \in Thread, NEW o \in {"sync", "clear"}, CallBusy(t, o) \/ Call(t, o)
        PROVE  UNCHANGED <<contacts, nums>>
    BY <1>6 DEF CallBusy, Call, thread
  <1>7. ASSUME NEW t \in Thread,
               \/ ReadStore(t) \/ AskIdle(t) \/ AskInCall(t) \/ Register(t)
               \/ Written(t) \/ Answer(t) \/ TelephonyThrows(t)
        PROVE  UNCHANGED <<contacts, nums>>
    BY <1>7 DEF ReadStore, AskIdle, AskInCall, Register, Written, Answer, TelephonyThrows, thread
  <1>8. ASSUME NEW j \in Job, Deliver(j) \/ Post(j) PROVE UNCHANGED <<contacts, nums>>
    BY <1>8 DEF Deliver, Post, mineAll, thread
  <1>9. ASSUME NEW w \in Writer, ScriptStep(w) \/ OrphanEnds(w)
        PROVE  UNCHANGED <<contacts, nums>>
    BY <1>9 DEF ScriptStep, OrphanEnds, mineAll, thread
  <1>10. MainDone \/ CallBegins \/ CallEnds \/ Dialer \/ UNCHANGED vars
         => UNCHANGED <<contacts, nums>>
    BY DEF MainDone, CallBegins, CallEnds, Dialer, vars, mineAll, thread
  <1>11. ProcessDies \/ PowerLoss => Restart
    BY DEF ProcessDies, PowerLoss
  <1> QED  BY <1>1, <1>2, <1>3, <1>4, <1>5, <1>6, <1>7, <1>8, <1>9, <1>10, <1>11
           DEF Next, ThreadStep

(* Steps that write no target and ask for no job.                          *)
LEMMA NothingAsked ==
  ASSUME WholeInv, UNCHANGED <<mine, target, phase>>,
         \A t \in Thread : at'[t] = "ask" => at[t] = "ask"
  PROVE  (\A t \in Thread : Asked(t))' /\ Targets'
  BY DEF WholeInv, Asked, Targets

LEMMA TargetsStep ==
  ASSUME WholeInv, [Next]_vars
  PROVE  (\A t \in Thread : Asked(t))' /\ Targets'
  <1> DEFINE Goal == (\A t \in Thread : Asked(t))' /\ Targets'
  <1>0. /\ \A t \in Thread : nums[t] \subseteq Number
        /\ IsOn(target, Job) /\ IsOn(phase, Job) /\ IsOn(mine, Thread)
        /\ at \in [Thread -> At]
        /\ \A t \in Thread : at[t] \in {"ask", "register", "write"} => mine[t] \in Job
    BY DEF WholeInv, NumbersAre, OverlapInv, Parts, Shapes, Waits, LockInv, LockTypes
  <1>1. ASSUME NEW t \in Thread, NEW l, l # "ask", at' = [at EXCEPT ![t] = l],
               UNCHANGED <<mine, target, phase>>
        PROVE  Goal
    BY <1>0, <1>1, NothingAsked
  <1>2. ASSUME NEW t \in Thread, ReadContacts(t) \/ Answer(t) PROVE Goal
    <2>1. UNCHANGED <<mine, target, phase>>
      BY <1>2 DEF ReadContacts, Answer, guard, capt
    <2>2. at' = [at EXCEPT ![t] = "read"] \/ at' = [at EXCEPT ![t] = "release"]
      BY <1>2 DEF ReadContacts, Answer, Go
    <2> QED  BY <1>1, <2>1, <2>2
  <1>3. ASSUME NEW t \in Thread, ReadStore(t) PROVE Goal
    <2>1. UNCHANGED phase
      BY <1>3 DEF ReadStore, guard
    <2>2. CASE at' = [at EXCEPT ![t] = "release"] /\ UNCHANGED <<mine, target>>
      BY <1>1, <2>1, <2>2
    <2>3. ASSUME NEW j \in Job, NEW c \in Payload, at' = [at EXCEPT ![t] = "ask"],
                 mine' = [mine EXCEPT ![t] = j], target' = [target EXCEPT ![j] = TargetOf(t, c)]
          PROVE  Goal
      <3>1. TargetOf(t, c) \in Payload
        BY <1>0 DEF TargetOf, Payload
      <3>2. \A k \in Job : target'[k] = IF k = j THEN TargetOf(t, c) ELSE target[k]
        BY <1>0, <2>3 DEF IsOn
      <3>3. \A s \in Thread : /\ mine'[s] = IF s = t THEN j ELSE mine[s]
                              /\ at'[s] = IF s = t THEN "ask" ELSE at[s]
        BY <1>0, <2>3 DEF IsOn
      <3>4. Targets'
        BY <2>1, <3>1, <3>2 DEF WholeInv, Targets
      <3>5. ASSUME NEW s \in Thread PROVE Asked(s)'
        BY <1>0, <3>1, <3>2, <3>3 DEF WholeInv, Asked
      <3> QED  BY <3>4, <3>5
    <2>4. Parsed \subseteq Payload
      BY DEF Parsed
    <2> QED  BY <1>3, <2>2, <2>3, <2>4 DEF ReadStore, Go
  <1>4. ASSUME NEW t \in Thread, NEW l, l # "ask", NEW p, at[t] = "ask",
               at' = [at EXCEPT ![t] = l], UNCHANGED <<mine, target>>,
               phase' = [phase EXCEPT ![mine[t]] = p]
        PROVE  Goal
    <2>1. \A s \in Thread : at'[s] = IF s = t THEN l ELSE at[s]
      BY <1>0, <1>4
    <2>2. \A k \in Job : k # mine[t] => phase'[k] = phase[k]
      BY <1>0, <1>4 DEF IsOn
    <2>3. target[mine[t]] \in Payload
      BY <1>4 DEF WholeInv, Asked
    <2> QED  BY <1>4, <2>1, <2>2, <2>3 DEF WholeInv, Asked, Targets
  <1>5. ASSUME NEW t \in Thread, AskIdle(t) PROVE Goal
    BY <1>4, <1>5 DEF AskIdle, Go, CG!RunInline
  <1>6. ASSUME NEW t \in Thread, AskInCall(t) PROVE Goal
    BY <1>4, <1>6 DEF AskInCall, Go, CG!Defer, capt
  <1>7. ASSUME NEW t \in Thread, Register(t) PROVE Goal
    <2>1. /\ at' = [at EXCEPT ![t] = "answer"] /\ UNCHANGED <<mine, target>>
          /\ phase[mine[t]] = "deferring" /\ phase' = [phase EXCEPT ![mine[t]] = "waiting"]
      BY <1>7 DEF Register, Go, CG!Register, capt
    <2>2. \A s \in Thread : at'[s] = IF s = t THEN "answer" ELSE at[s]
      BY <1>0, <2>1
    <2>3. \A k \in Job : phase'[k] # "new" => phase[k] # "new"
      BY <1>0, <2>1 DEF IsOn
    <2> QED  BY <2>1, <2>2, <2>3 DEF WholeInv, Asked, Targets
  <1>17. ASSUME NEW t \in Thread, TelephonyThrows(t) PROVE Goal
    <2>1. CASE at[t] = "ask"
      BY <1>4, <1>17, <2>1 DEF TelephonyThrows, Go, CG!Refuse, capt
    <2>2. CASE at[t] # "ask"
      <3>1. /\ at' = [at EXCEPT ![t] = "release"] /\ UNCHANGED <<mine, target>>
            /\ phase[mine[t]] = "deferring" /\ phase' = [phase EXCEPT ![mine[t]] = "refused"]
        BY <1>17, <2>2 DEF TelephonyThrows, Go, CG!Refuse, capt
      <3>2. \A s \in Thread : at'[s] = IF s = t THEN "release" ELSE at[s]
        BY <1>0, <3>1
      <3>3. \A k \in Job : phase'[k] # "new" => phase[k] # "new"
        BY <1>0, <3>1 DEF IsOn
      <3> QED  BY <3>1, <3>2, <3>3 DEF WholeInv, Asked, Targets
    <2> QED  BY <2>1, <2>2
  <1>8. ASSUME NEW t \in Thread, Written(t) PROVE Goal
    BY <1>1, <1>8 DEF Written, Go, guard
  <1>9. ASSUME NEW t \in Thread, Release(t) PROVE Goal
    <2>1. /\ at' = [at EXCEPT ![t] = "idle"] /\ mine' = [mine EXCEPT ![t] = None]
          /\ UNCHANGED <<target, phase>>
      BY <1>9 DEF Release, Go, guard, capt
    <2>2. \A s \in Thread : /\ at'[s] = IF s = t THEN "idle" ELSE at[s]
                            /\ s # t => mine'[s] = mine[s]
      BY <1>0, <2>1 DEF IsOn
    <2> QED  BY <2>1, <2>2 DEF WholeInv, Asked, Targets
  <1>10. ASSUME NEW t \in Thread, NEW o \in {"sync", "clear"}, Call(t, o) PROVE Goal
    <2>1. UNCHANGED <<mine, target, phase>>
      BY <1>10 DEF Call, guard, capt
    <2>2. at' = [at EXCEPT ![t] = "contacts"] \/ at' = [at EXCEPT ![t] = "read"]
      BY <1>10 DEF Call, Go
    <2> QED  BY <1>1, <2>1, <2>2
  <1>11. CASE UNCHANGED <<at, mine, target, phase>>
    BY <1>11, NothingAsked
  <1>12. CASE Restart
    <2>1. target' = target /\ at' = [t \in Thread |-> "idle"]
      BY <1>12 DEF Restart, capt
    <2>2. \A k \in Job : phase'[k] # "new" => phase[k] # "new"
      BY <1>12 DEF Restart, CG!Die
    <2> QED  BY <2>1, <2>2 DEF WholeInv, Asked, Targets
  <1>13. ASSUME NEW j \in Job, Deliver(j) \/ Post(j) PROVE UNCHANGED <<at, mine, target, phase>>
    BY <1>13 DEF Deliver, Post, CG!Deliver, CG!Post, mineAll, thread, capt
  <1>14. ASSUME NEW w \in Writer, ScriptStep(w) \/ OrphanEnds(w)
         PROVE  UNCHANGED <<at, mine, target, phase>>
    BY <1>14 DEF ScriptStep, OrphanEnds, mineAll, thread, capt, guard
  <1>15. MainDone \/ CallBegins \/ CallEnds \/ Dialer \/ ContactsChange \/ UNCHANGED vars
         \/ (\E t \in Thread : \E o \in {"sync", "clear"} : CallBusy(t, o))
         => UNCHANGED <<at, mine, target, phase>>
    BY DEF MainDone, CG!Return, CallBegins, CallEnds, CG!CallEnds, Dialer, ContactsChange,
           CallBusy, vars, mineAll, thread, capt, guard
  <1>16. ProcessDies \/ PowerLoss => Restart
    BY DEF ProcessDies, PowerLoss
  <1> QED  BY <1>2, <1>3, <1>5, <1>6, <1>7, <1>8, <1>9, <1>10, <1>11, <1>12, <1>13, <1>14,
              <1>15, <1>16, <1>17 DEF Next, ThreadStep

LEMMA WholeStep == WholeInv /\ [Next]_vars => WholeInv'
  BY OverlapStep, NumbersStep, TargetsStep DEF WholeInv

LEMMA InitIsWhole == Init => WholeInv
  <1> SUFFICES ASSUME Init PROVE WholeInv
    OBVIOUS
  <1>1. OverlapInv
    BY InitOverlaps
  <1>2. /\ contacts \subseteq Number /\ nums = [t \in Thread |-> {}]
        /\ at = [t \in Thread |-> "idle"]
    BY DEF Init
  <1>3. phase = [j \in Job |-> "new"]
    BY DEF Init, CG!GuardInit
  <1>4. NumbersAre
    BY <1>2 DEF NumbersAre, IsOn
  <1>5. (\A t \in Thread : Asked(t)) /\ Targets
    BY <1>2, <1>3 DEF Asked, Targets
  <1> QED  BY <1>1, <1>4, <1>5 DEF WholeInv

(* Every step of the app is a step of its root scripts and their world, or *)
(* leaves them as they are.                                                *)
LEMMA EngineStepWrites == WholeInv /\ [Next]_vars => [RW!Next]_(RW!vars)
  <1> SUFFICES ASSUME WholeInv, [Next]_vars PROVE RW!Next \/ UNCHANGED RW!vars
    OBVIOUS
  <1>1. UNCHANGED <<world, script>> => UNCHANGED RW!vars
    BY DEF world, script, RW!vars, RW!env, RW!store, RW!script, RW!marks
  <1>2. ASSUME NEW t \in Thread, AskIdle(t) PROVE RW!Next
    <2>1. target[mine[t]] \in Payload /\ t \in Writer
      BY <1>2 DEF AskIdle, Go, WholeInv, Asked, Writer
    <2> QED  BY <1>2, <2>1 DEF AskIdle, RW!Next
  <1>3. ASSUME NEW j \in Job, Deliver(j) PROVE RW!Next
    <2>1. mainQ \in Seq(Job) /\ mainQ # <<>> /\ j = Head(mainQ)
      BY <1>3 DEF Deliver, CG!Deliver, WholeInv, OverlapInv, Parts, Shapes
    <2>2. j \in CG!Queued
      BY <2>1, QueueTurns DEF CG!Queued
    <2>3. target[j] \in Payload /\ Main \in Writer
      BY <2>2 DEF WholeInv, OverlapInv, Parts, Kept, Targets, Writer
    <2> QED  BY <1>3, <2>3 DEF Deliver, RW!Next
  <1>4. ASSUME NEW t \in Thread, Written(t) PROVE RW!Next
    BY <1>4 DEF Written, RW!Next, Writer
  <1>5. ASSUME NEW w \in Writer, ScriptStep(w) \/ OrphanEnds(w) PROVE RW!Next
    BY <1>5 DEF ScriptStep, OrphanEnds, RW!Next
  <1>6. MainDone \/ CallBegins \/ CallEnds \/ Dialer \/ ProcessDies \/ PowerLoss => RW!Next
    BY DEF MainDone, CallBegins, CallEnds, Dialer, ProcessDies, PowerLoss, RW!Next, Writer
  <1>7. ASSUME NEW t \in Thread,
               \/ ReadContacts(t) \/ ReadStore(t) \/ AskInCall(t) \/ Register(t)
               \/ TelephonyThrows(t) \/ Answer(t) \/ Release(t)
               \/ \E o \in {"sync", "clear"} : CallBusy(t, o) \/ Call(t, o)
        PROVE  UNCHANGED <<world, script>>
    BY <1>7 DEF ReadContacts, ReadStore, AskInCall, Register, TelephonyThrows, Answer, Release,
                CallBusy, Call
  <1>8. ASSUME NEW j \in Job, Post(j) PROVE UNCHANGED <<world, script>>
    BY <1>8 DEF Post
  <1>9. ContactsChange \/ UNCHANGED vars => UNCHANGED <<world, script>>
    BY DEF ContactsChange, vars
  <1> QED  BY <1>1, <1>2, <1>3, <1>4, <1>5, <1>6, <1>7, <1>8, <1>9 DEF Next, ThreadStep

(* The app uses its root scripts as RootWriter lets them be used, deferred *)
(* writes, orphans and restarts included: what is proved of RootWriter     *)
(* holds in the app (SyncEngine.kt:25-37; AndroidGlue.kt:8-20).            *)
THEOREM EngineIsRootWriter == Safety => RW!Spec
  <1>1. Init => RW!Init
    BY DEF Init
  <1> QED  BY <1>1, InitIsWhole, WholeStep, EngineStepWrites, PTL DEF Safety, RW!Spec

-----------------------------------------------------------------------------
(* The types.  The scripts' are RootWriter's, through the refinement; the  *)
(* rest are the app's own.                                                 *)
RWP == INSTANCE RootWriterProofs

LEMMA SameScripts == RW!Spec => RWP!Spec
  <1>1. RW!Init => RWP!Init
    BY DEF RW!Init, RWP!Init
  <1>2. [RW!Next]_(RW!vars) => [RWP!Next]_(RWP!vars)
    BY DEF RW!vars, RW!env, RW!store, RW!script, RW!marks,
           RWP!vars, RWP!env, RWP!store, RWP!script, RWP!marks,
           RW!Killing, RW!Dead, RWP!Killing, RWP!Dead, RW!Openers, RWP!Openers,
           RW!Next, RW!Step, RW!HasRoot, RW!CheckCall, RW!ForceStop, RW!Probe,
           RW!Confirm, RW!Copy, RW!Open, RW!WriteSome, RW!WriteAll, RW!Chown,
           RW!Fail, RW!Finish, RW!Begin, RW!Goto, RW!End, RW!Reset, RW!CallBegins,
           RW!CallEnds, RW!Dialer, RW!DialerStarts, RW!DialerLoads, RW!DialerSaves,
           RW!AppDies, RW!PowerLoss,
           RWP!Next, RWP!Step, RWP!HasRoot, RWP!CheckCall, RWP!ForceStop, RWP!Probe,
           RWP!Confirm, RWP!Copy, RWP!Open, RWP!WriteSome, RWP!WriteAll, RWP!Chown,
           RWP!Fail, RWP!Finish, RWP!Begin, RWP!Goto, RWP!End, RWP!Reset, RWP!CallBegins,
           RWP!CallEnds, RWP!Dialer, RWP!DialerStarts, RWP!DialerLoads, RWP!DialerSaves,
           RWP!AppDies, RWP!PowerLoss
  <1> QED  BY <1>1, <1>2, PTL DEF RW!Spec, RWP!Spec

(* The assumptions of RootWriter hold of the app's contents.               *)
LEMMA EditsAreFiles == \A c \in RWP!Content : Edits(c) \subseteq Payload
  BY DEF Edits, Payload, RWP!Content

LEMMA ScriptTypes == Safety => []RW!TypeOK
  <1>1. RWP!TypeOK => RW!TypeOK
    BY DEF RW!TypeOK, RWP!TypeOK, RW!Content, RWP!Content, RW!Label, RWP!Label,
           RW!Killing, RWP!Killing, RW!Dead, RWP!Dead, RW!Result, RWP!Result
  <1>2. RWP!Spec => []RWP!TypeOK
    BY RWP!TypeCorrect, FilesDiffer, Bounds, EditsAreFiles, PTL
  <1> QED  BY <1>1, <1>2, SameScripts, EngineIsRootWriter, PTL

GuardTypes ==
    /\ phase \in [Job -> CG!Phase] /\ runs \in [Job -> 0..2]
    /\ \A j \in Job : phase[j] \notin {"inline", "waiting"} => runs[j] = 0
    /\ reg \subseteq Job /\ inflight \subseteq Job /\ mainQ \in Seq(Job)
    /\ main \in Job \cup {None}
ThreadTypes ==
    /\ running \in BOOLEAN /\ at \in [Thread -> At]
    /\ op \in [Thread -> {"sync", "clear"}]
    /\ nums \in [Thread -> SUBSET Number]
    /\ mine \in [Thread -> Job \cup {None}]
    /\ out \in [Thread -> Outcome]
CaptTypes ==
    /\ target \in [Job -> Payload \cup {NoFile}]
    /\ ran \in [Job -> BOOLEAN]
    /\ result \in [Job -> RW!Result \cup {"NotRun"}]
OtherTypes ==
    /\ contacts \subseteq Number /\ orphan \subseteq Writer
    /\ asked \in {"no", "clearing", "cleared", "racing", "raced"}
EngineTypes == GuardTypes /\ ThreadTypes /\ CaptTypes /\ OtherTypes

(* A thread that answers has asked: it reads what its own job captured.    *)
HasAsked == \A t \in Thread : at[t] = "answer" => mine[t] \in Job

LEMMA TypesTogether == EngineTypes /\ RW!TypeOK => TypeOK
  BY DEF TypeOK, EngineTypes, GuardTypes, ThreadTypes, CaptTypes, OtherTypes, CG!TypeOK, RW!TypeOK

LEMMA ThreadKeepsTypes ==
  ASSUME WholeInv, RW!TypeOK, EngineTypes, HasAsked, NEW t \in Thread, ThreadStep(t)
  PROVE  EngineTypes' /\ HasAsked'
  <1> USE DEF EngineTypes, HasAsked
  <1>0. at[t] \in {"ask", "register", "write"} => mine[t] \in Job
    BY DEF WholeInv, OverlapInv, Parts, Waits
  <1>1. CASE ReadContacts(t)
    <2>1. contacts \in SUBSET Number /\ {} \in SUBSET Number
      BY DEF OtherTypes
    <2>2. ThreadTypes' /\ HasAsked'
      BY <1>1, <2>1 DEF ReadContacts, Go, Answered, At, Outcome, ThreadTypes
    <2> QED  BY <1>1, <2>2 DEF ReadContacts, GuardTypes, CaptTypes, OtherTypes, guard, capt
  <1>2. CASE ReadStore(t)
    <2>0. GuardTypes' /\ OtherTypes'
      BY <1>2 DEF ReadStore, GuardTypes, OtherTypes, guard
    <2>1. ThreadTypes' /\ HasAsked' /\ GuardTypes' /\ OtherTypes'
      BY <1>2, <2>0 DEF ReadStore, Go, Answered, At, Outcome, ThreadTypes
    <2>2. \A c \in Payload : TargetOf(t, c) \in Payload
      BY DEF TargetOf, Payload, ThreadTypes
    <2>3. CaptTypes'
      BY <1>2, <2>2 DEF ReadStore, Parsed, CaptTypes
    <2> QED  BY <2>1, <2>3
  <1>3. CASE AskIdle(t)
    <2>1. mine[t] \in Job
      BY <1>0, <1>3 DEF AskIdle, Go
    <2>2. GuardTypes'
      BY <1>3, <2>1 DEF AskIdle, CG!RunInline, CG!Count, CG!Phase, GuardTypes
    <2>3. ThreadTypes' /\ OtherTypes' /\ CaptTypes' /\ HasAsked'
      BY <1>3, <2>1 DEF AskIdle, Go, At, ThreadTypes, CaptTypes, OtherTypes
    <2> QED  BY <2>2, <2>3
  <1>4. CASE AskInCall(t)
    BY <1>4 DEF AskInCall, Go, At, CG!Defer, CG!Phase, GuardTypes, ThreadTypes, CaptTypes,
                OtherTypes, capt
  <1>5. CASE Register(t)
    <2>1. mine[t] \in Job
      BY <1>0, <1>5 DEF Register, Go
    <2> QED  BY <1>5, <2>1 DEF Register, Go, At, CG!Register, CG!Phase, GuardTypes, ThreadTypes,
                CaptTypes, OtherTypes, capt
  <1>6. CASE Written(t)
    <2>1. res[t] \in RW!Result
      BY DEF RW!TypeOK, Writer
    <2> QED  BY <1>0, <1>6, <2>1 DEF Written, Go, At, GuardTypes, ThreadTypes, CaptTypes, OtherTypes, guard
  <1>7. CASE Answer(t)
    <2>1. PICK o \in Seen(mine[t]) : out' = [out EXCEPT ![t] = o]
      BY <1>7 DEF Answer, Answered
    <2>2. mine[t] \in Job
      BY <1>7 DEF Answer, Go
    <2>3. o \in Outcome
      BY <2>2 DEF Seen, Outcome, CaptTypes
    <2> QED  BY <1>7, <2>1, <2>3 DEF Answer, Go, At, GuardTypes, ThreadTypes, CaptTypes, OtherTypes, guard, capt
  <1>8. CASE Release(t)
    BY <1>8 DEF Release, Go, At, Outcome, GuardTypes, ThreadTypes, CaptTypes, OtherTypes, guard, capt
  <1>9. CASE TelephonyThrows(t)
    BY <1>9 DEF TelephonyThrows, Go, Answered, At, Outcome, CG!Refuse, CG!Phase, GuardTypes,
                ThreadTypes, CaptTypes, OtherTypes, capt
  <1> QED  BY <1>1, <1>2, <1>3, <1>4, <1>5, <1>6, <1>7, <1>8, <1>9 DEF ThreadStep

LEMMA TypesStep ==
  ASSUME WholeInv, RW!TypeOK, EngineTypes, HasAsked, [Next]_vars
  PROVE  EngineTypes' /\ HasAsked'
  <1> USE DEF EngineTypes, HasAsked
  <1>1. ASSUME NEW t \in Thread, NEW o \in {"sync", "clear"}, CallBusy(t, o) \/ Call(t, o)
        PROVE  EngineTypes' /\ HasAsked'
    <2>1. CASE CallBusy(t, o)
      BY <2>1 DEF CallBusy, GuardTypes, ThreadTypes, CaptTypes, OtherTypes, guard, thread, capt
    <2>2. CASE Call(t, o)
      <3>1. ThreadTypes' /\ HasAsked'
        BY <2>2 DEF Call, Go, At, ThreadTypes
      <3> QED  BY <2>2, <3>1 DEF Call, GuardTypes, CaptTypes, OtherTypes, guard, capt
    <2> QED  BY <1>1, <2>1, <2>2
  <1>2. ASSUME NEW j \in Job, Deliver(j) PROVE EngineTypes' /\ HasAsked'
    <2>0. mainQ \in Seq(Job) /\ mainQ # <<>> /\ j = Head(mainQ) /\ mainQ' = Tail(mainQ)
      BY <1>2 DEF Deliver, CG!Deliver, GuardTypes
    <2>2. phase[j] = "waiting" /\ mainQ' \in Seq(Job)
      BY <2>0, QueueTurns DEF CG!Queued, WholeInv, OverlapInv, Parts, Kept
    <2>1. GuardTypes'
      BY <1>2, <2>2 DEF Deliver, CG!Deliver, CG!Count, GuardTypes
    <2> QED  BY <1>2, <2>1 DEF Deliver, ThreadTypes, CaptTypes, OtherTypes, mineAll, thread
  <1>3. ASSUME NEW j \in Job, Post(j) PROVE EngineTypes' /\ HasAsked'
    <2>1. GuardTypes'
      BY <1>3, QueueGrows DEF Post, CG!Post, GuardTypes
    <2> QED  BY <1>3, <2>1 DEF Post, ThreadTypes, CaptTypes, OtherTypes, mineAll, thread, capt
  <1>4. CASE MainDone
    <2>1. res[Main] \in RW!Result
      BY DEF RW!TypeOK, Writer
    <2> QED  BY <1>4, <2>1 DEF MainDone, CG!Return, GuardTypes, ThreadTypes, CaptTypes,
                               OtherTypes, mineAll, thread
  <1>5. ASSUME NEW w \in Writer, ScriptStep(w) \/ OrphanEnds(w)
        PROVE  EngineTypes' /\ HasAsked'
    BY <1>5 DEF ScriptStep, OrphanEnds, GuardTypes, ThreadTypes, CaptTypes, OtherTypes,
                mineAll, thread, capt, guard
  <1>6. CASE CallBegins \/ CallEnds \/ Dialer \/ UNCHANGED vars
    BY <1>6 DEF CallBegins, CallEnds, CG!CallEnds, Dialer, vars, GuardTypes, ThreadTypes,
                CaptTypes, OtherTypes, mineAll, thread, capt, guard
  <1>7. CASE ContactsChange
    BY <1>7 DEF ContactsChange, GuardTypes, ThreadTypes, CaptTypes, OtherTypes, thread,
                capt, guard
  <1>8. CASE ProcessDies \/ PowerLoss
    <2>1. Restart /\ orphan' \subseteq Writer
      BY <1>8 DEF ProcessDies, PowerLoss
    <2>2. GuardTypes'
      BY <2>1 DEF Restart, CG!Die, CG!Phase, GuardTypes
    <2>3. ThreadTypes' /\ HasAsked'
      BY <2>1 DEF Restart, ThreadTypes, At, Outcome
    <2> QED  BY <2>1, <2>2, <2>3 DEF Restart, CaptTypes, OtherTypes, capt
  <1> QED  BY <1>1, <1>2, <1>3, <1>4, <1>5, <1>6, <1>7, <1>8, ThreadKeepsTypes DEF Next

LEMMA InitIsTyped == Init => EngineTypes /\ HasAsked
  <1> SUFFICES ASSUME Init PROVE EngineTypes /\ HasAsked
    OBVIOUS
  <1>1. GuardTypes
    BY DEF Init, CG!GuardInit, GuardTypes, CG!Phase
  <1>2. ThreadTypes /\ HasAsked
    BY DEF Init, ThreadTypes, HasAsked, At, Outcome
  <1>3. CaptTypes /\ OtherTypes
    BY DEF Init, CaptTypes, OtherTypes
  <1> QED  BY <1>1, <1>2, <1>3 DEF EngineTypes

LEMMA WholeAlways == Safety => []WholeInv
  BY InitIsWhole, WholeStep, PTL DEF Safety

LEMMA TypesAlways == Safety => [](EngineTypes /\ HasAsked)
  <1>1. WholeInv /\ RW!TypeOK /\ (EngineTypes /\ HasAsked) /\ [Next]_vars
        => (EngineTypes /\ HasAsked)'
    BY TypesStep
  <1> QED  BY <1>1, WholeAlways, ScriptTypes, InitIsTyped, PTL DEF Safety

(* Every variable of the composed app keeps its type: no step hands on a   *)
(* job, an outcome or a content that its reader does not know.             *)
THEOREM EngineIsTyped == Safety => []TypeOK
  <1>1. EngineTypes /\ RW!TypeOK => TypeOK
    BY TypesTogether
  <1> QED  BY <1>1, TypesAlways, ScriptTypes, PTL

(* What RootWriter proves of its scripts holds of the app, with deferred   *)
(* writes, orphans and restarts: the idle check before every kill, no      *)
(* rewrite under a dialer it left alive, an honest Ok, a cause for damage. *)
THEOREM EngineWritesSafely ==
    Safety => [](/\ RW!KillsOnlyAfterIdleCheck /\ RW!WritesOnlyAfterDeath
                 /\ RW!OkMeansWritten /\ RW!DamageHasACause)
  <1>1. RWP!Spec => [](/\ RWP!KillsOnlyAfterIdleCheck /\ RWP!WritesOnlyAfterDeath
                       /\ RWP!OkMeansWritten /\ RWP!DamageHasACause)
    BY RWP!InCallGuard, RWP!KillFirst, RWP!OkIsHonest, RWP!DamageExplained,
       FilesDiffer, Bounds, EditsAreFiles, PTL
  <1>2. /\ RWP!KillsOnlyAfterIdleCheck => RW!KillsOnlyAfterIdleCheck
        /\ RWP!WritesOnlyAfterDeath => RW!WritesOnlyAfterDeath
        /\ RWP!OkMeansWritten => RW!OkMeansWritten
        /\ RWP!DamageHasACause => RW!DamageHasACause
    BY DEF RW!KillsOnlyAfterIdleCheck, RW!WritesOnlyAfterDeath, RW!OkMeansWritten,
           RW!DamageHasACause, RWP!KillsOnlyAfterIdleCheck, RWP!WritesOnlyAfterDeath,
           RWP!OkMeansWritten, RWP!DamageHasACause, RW!Killing, RWP!Killing, RW!Dead, RWP!Dead
  <1> QED  BY <1>1, <1>2, SameScripts, EngineIsRootWriter, PTL
-----------------------------------------------------------------------------
(* A clear that said it was done.  While it is what was asked last, every  *)
(* action kept or under way writes an empty list, and the file is drained  *)
(* from the moment that one of them has opened it.                         *)
Settled   == asked \in {"clearing", "cleared"}
Drained   == file \in Payload => file.nums = {}
Opened(w) == pc[w] \in {"write", "chown"} \/ (pc[w] = "done" /\ res[w] = "Ok")
InApply   == {t \in Thread : at[t] \in {"ask", "register", "write"}}
Held      == reg \cup inflight \cup CG!Queued \cup ({main} \ {None})
             \cup {mine[t] : t \in InApply}

OnlyClears   == \A t \in Thread : at[t] # "idle" => op[t] = "clear"
EmptyTargets == \A j \in Held : target[j].nums = {}
SaysDrained(t) ==
    \/ at[t] \in {"ask", "register", "write", "answer"} /\ result[mine[t]] = "Ok"
    \/ at[t] = "release" /\ out[t] \in {"Skipped", "Ok"}
Reasons ==
    \/ asked = "cleared"
    \/ \E w \in Writer : Opened(w)
    \/ \E t \in Thread : SaysDrained(t)
ClearOnly == OnlyClears /\ EmptyTargets /\ (Reasons => Drained)

NewJobs  == \A j \in Job : phase[j] = "new" => result[j] = "NotRun"
ClearInv == orphan = {} /\ NewJobs /\ (Settled => ClearOnly)

(* What the clear rests on, proved above.                                  *)
AppInv == WholeInv /\ EngineTypes /\ HasAsked /\ RW!TypeOK

LEMMA AppAlways == Safety => []AppInv
  BY WholeAlways, TypesAlways, ScriptTypes, PTL DEF AppInv

LEMMA AppFacts ==
  ASSUME AppInv
  PROVE  /\ at \in [Thread -> At] /\ op \in [Thread -> {"sync", "clear"}]
         /\ out \in [Thread -> Outcome] /\ mine \in [Thread -> Job \cup {None}]
         /\ result \in [Job -> RW!Result \cup {"NotRun"}]
         /\ target \in [Job -> Payload \cup {NoFile}] /\ phase \in [Job -> CG!Phase]
         /\ main \in Job \cup {None} /\ pc \in [Writer -> RW!Label]
         /\ res \in [Writer -> RW!Result] /\ file \in RW!Content
         /\ \A s, t \in Thread : at[s] # "idle" /\ at[t] # "idle" => s = t
         /\ \A t \in InApply : mine[t] \in Job
  BY DEF AppInv, EngineTypes, ThreadTypes, CaptTypes, GuardTypes, RW!TypeOK, WholeInv,
         OverlapInv, LockInv, LockHasOneHolder, Parts, Waits, InApply

(* A script that runs serves a held job, so it writes an empty list.       *)
LEMMA EmptyArguments ==
  ASSUME AppInv, ClearInv, Settled, NEW w \in Writer, pc[w] # "idle"
  PROVE  arg[w].nums = {}
  <1>1. Serves(w) \in Job /\ arg[w] = target[Serves(w)]
    BY OverlapInvIsEnough DEF AppInv, WholeInv, OverlapNeedsDeferral, ClearInv
  <1>2. Serves(w) \in Held
    <2>1. CASE w = Main
      BY <1>1, <2>1, NoneIsNoJob DEF Serves, Held
    <2>2. CASE w # Main
      <3>1. w \in Thread /\ at[w] = "write"
        BY <2>2 DEF Writer, AppInv, WholeInv, OverlapInv, Parts, Waits, ClearInv
      <3> QED  BY <2>2, <3>1 DEF Serves, Held, InApply
    <2> QED  BY <2>1, <2>2
  <1> QED  BY <1>1, <1>2 DEF ClearInv, ClearOnly, EmptyTargets

(* A step of a script never fills a drained file, and drains it when it    *)
(* opens it.                                                               *)
LEMMA ScriptsDrain ==
  ASSUME AppInv, ClearInv, Settled, NEW w \in Writer, RW!Step(w)
  PROVE  /\ Drained => Drained'
         /\ \A v \in Writer : Opened(v)' => Opened(v) \/ Drained'
  <1> USE AppFacts DEF RW!Goto, RW!End, RW!Label, RW!Killing, RW!Dead, RW!script
  <1>1. pc[w] # "idle"
    BY ScriptSteps
  <1>2. arg[w].nums = {}
    BY <1>1, EmptyArguments
  <1>3. ASSUME file' = file, \A v \in Writer : Opened(v)' => Opened(v)
        PROVE  /\ Drained => Drained'
               /\ \A v \in Writer : Opened(v)' => Opened(v) \/ Drained'
    BY <1>3 DEF Drained
  <1>4. CASE RW!HasRoot(w) \/ RW!CheckCall(w) \/ RW!Confirm(w)
    <2>1. file' = file
      BY <1>4 DEF RW!HasRoot, RW!CheckCall, RW!Confirm, RW!store
    <2>2. \A v \in Writer : Opened(v)' => Opened(v)
      BY <1>4 DEF RW!HasRoot, RW!CheckCall, RW!Confirm, Opened
    <2> QED  BY <1>3, <2>1, <2>2
  <1>5. CASE RW!ForceStop(w) \/ RW!Probe(w) \/ RW!Copy(w)
    <2>1. file' = file
      BY <1>5 DEF RW!ForceStop, RW!Probe, RW!Copy, RW!store
    <2>2. \A v \in Writer : Opened(v)' => Opened(v)
      BY <1>5 DEF RW!ForceStop, RW!Probe, RW!Copy, Opened
    <2> QED  BY <1>3, <2>1, <2>2
  <1>6. CASE RW!Chown(w) \/ RW!Fail(w)
    <2>1. file' = file
      BY <1>6 DEF RW!Chown, RW!Fail, RW!store
    <2>2. \A v \in Writer : Opened(v)' => Opened(v)
      BY <1>6 DEF RW!Chown, RW!Fail, Opened
    <2> QED  BY <1>3, <2>1, <2>2
  <1>7. CASE RW!Open(w) \/ RW!WriteSome(w)
    <2>1. file' \in {Empty, Garbled}
      BY <1>7 DEF RW!Open, RW!WriteSome
    <2> QED  BY <2>1, FilesDiffer DEF Drained
  <1>8. CASE RW!WriteAll(w)
    <2>1. Opened(w)
      BY <1>8 DEF RW!WriteAll, Opened
    <2>2. Drained
      BY <2>1 DEF ClearInv, ClearOnly, Reasons
    <2>3. file' \in {arg[w], Garbled, file}
      BY <1>8 DEF RW!WriteAll
    <2>4. Drained'
      BY <1>2, <2>2, <2>3, FilesDiffer DEF Drained
    <2> QED  BY <2>4
  <1> QED  BY <1>4, <1>5, <1>6, <1>7, <1>8 DEF RW!Step

(* A step after which there is no new reason, no new job held and no other *)
(* caller.                                                                 *)
LEMMA NothingNew ==
  ASSUME ClearInv, orphan' = {}, NewJobs',
         Settled' => Settled, Drained => Drained',
         Settled => OnlyClears',
         Settled => EmptyTargets',
         Settled /\ Settled' /\ Reasons' => Reasons \/ Drained'
  PROVE  ClearInv'
  BY DEF ClearInv, ClearOnly

LEMMA SameReasons ==
  ASSUME UNCHANGED <<asked, pc, res, at, out, mine, result>>
  PROVE  Reasons' <=> Reasons
  BY DEF Reasons, Opened, SaysDrained

LEMMA CallClears ==
  ASSUME AppInv, ClearInv, NEW t \in Thread, NEW o \in {"sync", "clear"}, Call(t, o)
  PROVE  ClearInv'
  <1> USE AppFacts
  <1>1. /\ ~running /\ at[t] = "idle" /\ op' = [op EXCEPT ![t] = o]
        /\ UNCHANGED <<world, script, guard, mine, out, capt, orphan>>
    BY DEF Call, Go
  <1>2. orphan' = {} /\ NewJobs'
    BY <1>1 DEF ClearInv, NewJobs, guard, capt
  <1>3. CASE ~Settled'
    BY <1>2, <1>3 DEF ClearInv
  <1>4. CASE Settled'
    <2>1. o = "clear" /\ NoneKept /\ asked' = "clearing" /\ at' = [at EXCEPT ![t] = "read"]
      BY <1>4 DEF Call, Go, Settled
    <2>2. \A s \in Thread : at[s] = "idle"
      BY <1>1 DEF AppInv, WholeInv, OverlapInv, LockInv, LockHasOneHolder, Quiet
    <2>3. OnlyClears'
      BY <1>1, <2>1, <2>2 DEF OnlyClears
    <2>4. Held' = {}
      <3>1. InApply' = {}
        BY <2>1, <2>2 DEF InApply
      <3>2. UNCHANGED <<reg, inflight, CG!Queued, main>>
        BY <1>1 DEF guard, CG!Queued
      <3> QED  BY <2>1, <3>1, <3>2 DEF Held, NoneKept
    <2>5. ASSUME NEW w \in Writer, Opened(w) PROVE FALSE
      <3>1. pc[w] # "idle" /\ w \notin orphan
        BY <2>5 DEF Opened, ClearInv
      <3>2. CASE w = Main
        <4>1. main \in Job
          BY <3>1, <3>2 DEF AppInv, WholeInv, OverlapInv, Parts, MainWaits
        <4> QED  BY <2>1, <4>1, NoneIsNoJob DEF NoneKept
      <3>3. CASE w # Main
        BY <2>2, <3>1, <3>3 DEF Writer, AppInv, WholeInv, OverlapInv, Parts, Waits
      <3> QED  BY <3>2, <3>3
    <2>6. ~Reasons'
      BY <1>1, <2>1, <2>2, <2>5 DEF Reasons, Opened, SaysDrained, script
    <2> QED  BY <1>2, <2>3, <2>4, <2>6 DEF ClearInv, ClearOnly, EmptyTargets
  <1> QED  BY <1>3, <1>4

LEMMA ReadContactsClears ==
  ASSUME AppInv, ClearInv, NEW t \in Thread, ReadContacts(t)
  PROVE  ClearInv'
  <1> USE AppFacts
  <1>1. /\ at[t] = "contacts" /\ UNCHANGED <<world, script, guard, op, mine, capt, orphan, asked>>
    BY DEF ReadContacts, Go
  <1>2. \/ at' = [at EXCEPT ![t] = "read"] /\ out' = out
        \/ at' = [at EXCEPT ![t] = "release"] /\ out' = [out EXCEPT ![t] = "Threw"]
    BY DEF ReadContacts, Go, Answered
  <1>3. orphan' = {} /\ NewJobs'
    BY <1>1 DEF ClearInv, NewJobs, guard, capt
  <1>4. Settled' = Settled /\ Drained' = Drained
    BY <1>1 DEF Settled, Drained, world
  <1>5. Settled => OnlyClears'
    BY <1>1, <1>2 DEF ClearInv, ClearOnly, OnlyClears
  <1>6. Settled => EmptyTargets'
    <2>1. InApply' = InApply
      BY <1>1, <1>2 DEF InApply
    <2>2. Held' = Held
      BY <1>1, <2>1 DEF Held, guard, CG!Queued
    <2> QED  BY <1>1, <2>2 DEF ClearInv, ClearOnly, EmptyTargets, capt
  <1>7. Reasons' => Reasons
    BY <1>1, <1>2 DEF Reasons, Opened, SaysDrained, script, capt
  <1> QED  BY <1>3, <1>4, <1>5, <1>6, <1>7, NothingNew

(* What a clear captures is the empty list; that nothing had to be changed *)
(* means that it was empty.                                                *)
LEMMA ReadStoreClears ==
  ASSUME AppInv, ClearInv, NEW t \in Thread, ReadStore(t)
  PROVE  ClearInv'
  <1> USE AppFacts
  <1>1. /\ at[t] = "read" /\ UNCHANGED <<world, script, guard, op, ran, result, orphan, asked>>
    BY DEF ReadStore, Go
  <1>2. orphan' = {} /\ NewJobs'
    BY <1>1 DEF ClearInv, NewJobs, guard
  <1>3. Settled' = Settled /\ Drained' = Drained
    BY <1>1 DEF Settled, Drained, world
  <1>4. Settled => op[t] = "clear"
    BY <1>1 DEF ClearInv, ClearOnly, OnlyClears
  <1>5. \A l \in At : at' = [at EXCEPT ![t] = l] /\ Settled => OnlyClears'
    BY <1>1, <1>4 DEF ClearInv, ClearOnly, OnlyClears
  <1>6. ASSUME NEW o, at' = [at EXCEPT ![t] = "release"], out' = [out EXCEPT ![t] = o],
               UNCHANGED <<mine, target>>, Settled /\ o \in {"Skipped", "Ok"} => Drained
        PROVE  ClearInv'
    <2>1. Settled => EmptyTargets'
      <3>1. InApply' = InApply
        BY <1>1, <1>6 DEF InApply
      <3>2. Held' = Held
        BY <1>1, <1>6, <3>1 DEF Held, guard, CG!Queued
      <3> QED  BY <1>6, <3>2 DEF ClearInv, ClearOnly, EmptyTargets
    <2>2. Settled /\ Reasons' => Reasons \/ Drained'
      BY <1>1, <1>3, <1>6 DEF Reasons, Opened, SaysDrained, script
    <2> QED  BY <1>2, <1>3, <1>5, <1>6, <2>1, <2>2, NothingNew DEF At
  <1>7. ASSUME NEW c \in Parsed, TargetOf(t, c) = c, file \notin {NoFile, Empty}, Settled
        PROVE  Drained
    <2>1. c.nums = {} /\ c \in Payload
      BY <1>4, <1>7 DEF TargetOf, Parsed, Payload
    <2> QED  BY <1>7, <2>1 DEF Parsed, Drained
  <1>8. ASSUME NEW c \in Parsed, NEW j \in Job, phase[j] = "new",
               at' = [at EXCEPT ![t] = "ask"], mine' = [mine EXCEPT ![t] = j],
               target' = [target EXCEPT ![j] = TargetOf(t, c)], out' = out
        PROVE  ClearInv'
    <2>1. \A k \in reg \cup inflight \cup CG!Queued : k # j /\ target'[k] = target[k]
      BY <1>8 DEF AppInv, WholeInv, OverlapInv, Parts, Kept
    <2>2. main # None => main # j /\ target'[main] = target[main]
      BY <1>8 DEF AppInv, WholeInv, OverlapInv, Parts, MainWaits
    <2>3. Settled => target'[j].nums = {}
      BY <1>4, <1>8 DEF TargetOf, Parsed, Payload
    <2>4. \A s \in Thread : s # t => at[s] = "idle"
      BY <1>1
    <2>5. InApply' = {t} /\ mine'[t] = j
      BY <1>8, <2>4 DEF InApply
    <2>6. Settled => EmptyTargets'
      BY <1>1, <2>1, <2>2, <2>3, <2>5 DEF ClearInv, ClearOnly, EmptyTargets, Held, guard, CG!Queued
    <2>7. result'[j] = "NotRun"
      BY <1>1, <1>8 DEF ClearInv, NewJobs
    <2>8. Reasons' => Reasons
      BY <1>1, <1>8, <2>4, <2>5, <2>7 DEF Reasons, Opened, SaysDrained, script
    <2> QED  BY <1>2, <1>3, <1>5, <1>8, <2>6, <2>8, NothingNew DEF At
  <1>9. CASE \E o \in {"NoCurrent", "Threw"} :
               /\ at' = [at EXCEPT ![t] = "release"] /\ out' = [out EXCEPT ![t] = o]
               /\ UNCHANGED <<mine, target>>
    BY <1>6, <1>9
  <1>10. CASE \E c \in Parsed :
               /\ file \notin {NoFile, Empty} /\ TargetOf(t, c) = c
               /\ at' = [at EXCEPT ![t] = "release"] /\ out' = [out EXCEPT ![t] = "Skipped"]
               /\ UNCHANGED <<mine, target>>
    BY <1>6, <1>7, <1>10
  <1>11. CASE \E c \in Parsed, j \in Job :
               /\ phase[j] = "new" /\ at' = [at EXCEPT ![t] = "ask"]
               /\ mine' = [mine EXCEPT ![t] = j]
               /\ target' = [target EXCEPT ![j] = TargetOf(t, c)] /\ out' = out
    BY <1>8, <1>11
  <1> QED  BY <1>9, <1>10, <1>11 DEF ReadStore, Go, Answered

LEMMA AskClears ==
  ASSUME AppInv, ClearInv, NEW t \in Thread, AskIdle(t) \/ AskInCall(t) \/ Register(t)
  PROVE  ClearInv'
  <1> USE AppFacts
  <1>1. /\ at[t] \in {"ask", "register"} /\ UNCHANGED <<op, mine, out, target, result, orphan, asked>>
        /\ \E l \in {"register", "write", "answer"} : at' = [at EXCEPT ![t] = l]
    BY DEF AskIdle, AskInCall, Register, Go, capt
  <1>2. mine[t] \in Job /\ t \in InApply
    BY <1>1 DEF InApply
  <1>3. /\ phase' \in {[phase EXCEPT ![mine[t]] = p] : p \in {"inline", "deferring", "waiting"}}
        /\ reg' \subseteq reg \cup {mine[t]} /\ inflight' \subseteq inflight \cup {mine[t]}
        /\ UNCHANGED <<mainQ, main>>
    BY DEF AskIdle, AskInCall, Register, CG!RunInline, CG!Defer, CG!Register
  <1>4. /\ file' = file /\ res' = res /\ \A v \in Writer : Opened(v)' => Opened(v)
    <2>1. CASE AskIdle(t)
      <3>1. pc' = [pc EXCEPT ![t] = "root"]
        BY <2>1, ScriptBegins DEF AskIdle
      <3>2. file' = file /\ res' = res
        BY <2>1 DEF AskIdle, RW!Begin, RW!store
      <3> QED  BY <3>1, <3>2 DEF Opened
    <2>2. CASE AskInCall(t) \/ Register(t)
      BY <2>2 DEF AskInCall, Register, world, script, Opened
    <2> QED  BY <2>1, <2>2
  <1>5. orphan' = {} /\ NewJobs'
    BY <1>1, <1>2, <1>3 DEF ClearInv, NewJobs
  <1>6. Settled' = Settled /\ Drained' = Drained
    BY <1>1, <1>4 DEF Settled, Drained
  <1>7. Settled => OnlyClears'
    BY <1>1 DEF ClearInv, ClearOnly, OnlyClears
  <1>8. Settled => EmptyTargets'
    <2>1. InApply' \subseteq InApply
      BY <1>1 DEF InApply
    <2>2. Held' \subseteq Held
      BY <1>1, <1>2, <1>3, <2>1 DEF Held, CG!Queued
    <2> QED  BY <1>1, <2>2 DEF ClearInv, ClearOnly, EmptyTargets
  <1>9. Reasons' => Reasons
    BY <1>1, <1>4 DEF Reasons, SaysDrained
  <1> QED  BY <1>5, <1>6, <1>7, <1>8, <1>9, NothingNew

LEMMA ThrowsClears ==
  ASSUME AppInv, ClearInv, NEW t \in Thread, TelephonyThrows(t)
  PROVE  ClearInv'
  <1> USE AppFacts
  <1>1. /\ at[t] \in {"ask", "register"} /\ at' = [at EXCEPT ![t] = "release"]
        /\ out' = [out EXCEPT ![t] = "Threw"]
        /\ UNCHANGED <<world, script, op, mine, target, result, orphan, asked>>
    BY DEF TelephonyThrows, Go, Answered, capt
  <1>2. /\ phase' = [phase EXCEPT ![mine[t]] = "refused"]
        /\ UNCHANGED <<reg, inflight, mainQ, main>>
    BY DEF TelephonyThrows, CG!Refuse
  <1>3. orphan' = {} /\ NewJobs'
    BY <1>1, <1>2 DEF ClearInv, NewJobs
  <1>4. Settled' = Settled /\ Drained' = Drained
    BY <1>1 DEF Settled, Drained, world
  <1>5. Settled => OnlyClears'
    BY <1>1 DEF ClearInv, ClearOnly, OnlyClears
  <1>6. Settled => EmptyTargets'
    <2>1. InApply' \subseteq InApply
      BY <1>1 DEF InApply
    <2>2. Held' \subseteq Held
      BY <1>1, <1>2, <2>1 DEF Held, CG!Queued
    <2> QED  BY <1>1, <2>2 DEF ClearInv, ClearOnly, EmptyTargets
  <1>7. Reasons' => Reasons
    BY <1>1 DEF Reasons, SaysDrained, Opened, script
  <1> QED  BY <1>3, <1>4, <1>5, <1>6, <1>7, NothingNew

(* A script that said Ok had opened the file.                              *)
LEMMA FinishClears ==
  ASSUME AppInv, ClearInv, NEW w \in Writer, RW!Finish(w)
  PROVE  /\ file' = file /\ \A v \in Writer : Opened(v)' => Opened(v)
         /\ res[w] = "Ok" => Opened(w)
  <1>1. pc[w] = "done" /\ file' = file
    BY DEF RW!Finish, RW!Reset
  <1>2. \A v \in Writer : Opened(v)' => Opened(v)
    BY DEF RW!Finish, RW!Reset, Opened
  <1> QED  BY <1>1, <1>2 DEF Opened

LEMMA WrittenClears ==
  ASSUME AppInv, ClearInv, NEW t \in Thread, Written(t)
  PROVE  ClearInv'
  <1> USE AppFacts
  <1>1. /\ at[t] = "write" /\ at' = [at EXCEPT ![t] = "answer"]
        /\ UNCHANGED <<guard, op, mine, out, target, orphan, asked>>
        /\ result' = [result EXCEPT ![mine[t]] = res[t]]
    BY DEF Written, Go
  <1>2. /\ file' = file /\ \A v \in Writer : Opened(v)' => Opened(v)
        /\ res[t] = "Ok" => Opened(t)
    BY FinishClears DEF Written, Writer
  <1>3. mine[t] \in Job /\ phase[mine[t]] # "new"
    BY <1>1 DEF AppInv, WholeInv, OverlapInv, Parts, Waits
  <1>4. orphan' = {} /\ NewJobs'
    BY <1>1, <1>3 DEF ClearInv, NewJobs, guard
  <1>5. Settled' = Settled /\ Drained' = Drained
    BY <1>1, <1>2 DEF Settled, Drained
  <1>6. Settled => OnlyClears'
    BY <1>1 DEF ClearInv, ClearOnly, OnlyClears
  <1>7. Settled => EmptyTargets'
    <2>1. InApply' \subseteq InApply
      BY <1>1 DEF InApply
    <2>2. Held' \subseteq Held
      BY <1>1, <2>1 DEF Held, guard, CG!Queued
    <2> QED  BY <1>1, <2>2 DEF ClearInv, ClearOnly, EmptyTargets
  <1>8. Reasons' => Reasons
    <2>1. t \in Writer
      BY DEF Writer
    <2>2. ASSUME NEW s \in Thread, SaysDrained(s)' PROVE Reasons
      <3>1. CASE s = t
        BY <1>1, <1>2, <1>3, <2>1, <2>2, <3>1 DEF Reasons, SaysDrained
      <3>2. CASE s # t
        BY <1>1, <2>2, <3>2 DEF SaysDrained
      <3> QED  BY <3>1, <3>2
    <2> QED  BY <1>1, <1>2, <2>2 DEF Reasons
  <1> QED  BY <1>4, <1>5, <1>6, <1>7, <1>8, NothingNew

LEMMA AnswerClears ==
  ASSUME AppInv, ClearInv, NEW t \in Thread, Answer(t)
  PROVE  ClearInv'
  <1> USE AppFacts
  <1>1. /\ at[t] = "answer" /\ at' = [at EXCEPT ![t] = "release"]
        /\ UNCHANGED <<world, script, guard, op, mine, capt, orphan, asked>>
    BY DEF Answer, Go
  <1>2. PICK o \in Seen(mine[t]) : out' = [out EXCEPT ![t] = o]
    BY DEF Answer, Answered
  <1>3. mine[t] \in Job
    BY <1>1 DEF AppInv, HasAsked
  <1>4. o \in {"Skipped", "Ok"} => result[mine[t]] = "Ok"
    BY <1>3 DEF Seen, RW!Result
  <1>5. orphan' = {} /\ NewJobs'
    BY <1>1 DEF ClearInv, NewJobs, guard, capt
  <1>6. Settled' = Settled /\ Drained' = Drained
    BY <1>1 DEF Settled, Drained, world
  <1>7. Settled => OnlyClears'
    BY <1>1 DEF ClearInv, ClearOnly, OnlyClears
  <1>8. Settled => EmptyTargets'
    <2>1. InApply' = InApply
      BY <1>1 DEF InApply
    <2>2. Held' = Held
      BY <1>1, <2>1 DEF Held, guard, CG!Queued
    <2> QED  BY <1>1, <2>2 DEF ClearInv, ClearOnly, EmptyTargets, capt
  <1>9. Reasons' => Reasons
    BY <1>1, <1>2, <1>4 DEF Reasons, Opened, SaysDrained, script, capt
  <1> QED  BY <1>5, <1>6, <1>7, <1>8, <1>9, NothingNew

(* "Already up to date" and "List cleared" are said with a reason.         *)
LEMMA ReleaseClears ==
  ASSUME AppInv, ClearInv, NEW t \in Thread, Release(t)
  PROVE  ClearInv'
  <1> USE AppFacts
  <1>1. /\ at[t] = "release" /\ at' = [at EXCEPT ![t] = "idle"]
        /\ op' = [op EXCEPT ![t] = "sync"] /\ mine' = [mine EXCEPT ![t] = None]
        /\ out' = [out EXCEPT ![t] = "none"]
        /\ UNCHANGED <<world, script, guard, capt, orphan>>
    BY DEF Release, Go
  <1>2. /\ Settled' => Settled
        /\ asked' = "cleared" => asked = "cleared" \/ (asked = "clearing" /\ SaysDrained(t))
    BY <1>1 DEF Release, Settled, SaysDrained
  <1>3. orphan' = {} /\ NewJobs'
    BY <1>1 DEF ClearInv, NewJobs, guard, capt
  <1>4. Drained' = Drained
    BY <1>1 DEF Drained, world
  <1>5. Settled => OnlyClears'
    BY <1>1 DEF ClearInv, ClearOnly, OnlyClears
  <1>6. Settled => EmptyTargets'
    <2>1. InApply' = InApply /\ t \notin InApply
      BY <1>1 DEF InApply
    <2>2. Held' = Held
      BY <1>1, <2>1 DEF Held, guard, CG!Queued, InApply
    <2> QED  BY <1>1, <2>2 DEF ClearInv, ClearOnly, EmptyTargets, capt
  <1>7. Reasons' => Reasons
    <2>1. ASSUME NEW s \in Thread, SaysDrained(s)' PROVE SaysDrained(s)
      BY <1>1, <2>1 DEF SaysDrained, capt
    <2> QED  BY <1>1, <1>2, <2>1 DEF Reasons, Opened, script
  <1> QED  BY <1>2, <1>3, <1>4, <1>5, <1>6, <1>7, NothingNew

-----------------------------------------------------------------------------
(* The main thread and the world: no step outside the callers adds a job.  *)

LEMMA DeliverClears ==
  ASSUME AppInv, ClearInv, NEW j \in Job, Deliver(j)
  PROVE  ClearInv'
  <1> USE AppFacts
  <1>1. UNCHANGED <<at, op, mine, out, target, result, orphan, asked, phase, inflight>>
    BY DEF Deliver, CG!Deliver, mineAll, thread
  <1>2. /\ mainQ # <<>> /\ j = Head(mainQ) /\ mainQ' = Tail(mainQ) /\ main' = j
        /\ reg' \subseteq reg /\ mainQ \in Seq(Job)
    BY DEF Deliver, CG!Deliver, AppInv, EngineTypes, GuardTypes
  <1>3. CG!Queued' \subseteq CG!Queued /\ j \in CG!Queued
    BY <1>2, QueueTurns DEF CG!Queued
  <1>4. /\ file' = file /\ res' = res /\ \A v \in Writer : Opened(v)' => Opened(v)
    <2>1. pc' = [pc EXCEPT ![Main] = "root"]
      BY ScriptBegins DEF Deliver
    <2>2. file' = file /\ res' = res
      BY DEF Deliver, RW!Begin, RW!store
    <2> QED  BY <2>1, <2>2 DEF Opened
  <1>5. orphan' = {} /\ NewJobs'
    BY <1>1 DEF ClearInv, NewJobs
  <1>6. Settled' = Settled /\ Drained' = Drained
    BY <1>1, <1>4 DEF Settled, Drained
  <1>7. Settled => OnlyClears'
    BY <1>1 DEF ClearInv, ClearOnly, OnlyClears
  <1>8. Settled => EmptyTargets'
    <2>1. Held' \subseteq Held
      BY <1>1, <1>2, <1>3 DEF Held, InApply
    <2> QED  BY <1>1, <2>1 DEF ClearInv, ClearOnly, EmptyTargets
  <1>9. Reasons' => Reasons
    BY <1>1, <1>4 DEF Reasons, SaysDrained
  <1> QED  BY <1>5, <1>6, <1>7, <1>8, <1>9, NothingNew

LEMMA MainDoneClears ==
  ASSUME AppInv, ClearInv, MainDone
  PROVE  ClearInv'
  <1> USE AppFacts
  <1>1. /\ UNCHANGED <<at, op, mine, out, target, orphan, asked, phase, reg, inflight, mainQ>>
        /\ main # None /\ main' = None /\ result' = [result EXCEPT ![main] = res[Main]]
    BY DEF MainDone, CG!Return, mineAll, thread
  <1>2. Main \in Writer
    BY DEF Writer
  <1>3. /\ file' = file /\ \A v \in Writer : Opened(v)' => Opened(v)
        /\ res[Main] = "Ok" => Opened(Main)
    BY <1>2, FinishClears DEF MainDone
  <1>4. main \in Job /\ phase[main] = "waiting"
    BY <1>1 DEF AppInv, WholeInv, OverlapInv, Parts, MainWaits
  <1>5. orphan' = {} /\ NewJobs'
    BY <1>1, <1>4 DEF ClearInv, NewJobs
  <1>6. Settled' = Settled /\ Drained' = Drained
    BY <1>1, <1>3 DEF Settled, Drained
  <1>7. Settled => OnlyClears'
    BY <1>1 DEF ClearInv, ClearOnly, OnlyClears
  <1>8. Settled => EmptyTargets'
    <2>1. Held' \subseteq Held
      BY <1>1 DEF Held, InApply, CG!Queued
    <2> QED  BY <1>1, <2>1 DEF ClearInv, ClearOnly, EmptyTargets
  <1>9. Reasons' => Reasons
    <2>1. ASSUME NEW s \in Thread, SaysDrained(s)' PROVE Reasons
      <3>1. at[s] \in {"ask", "register", "write", "answer"} => mine[s] \in Job
        BY DEF InApply, AppInv, HasAsked
      <3>2. CASE mine[s] = main /\ res[Main] = "Ok"
        BY <1>2, <1>3, <3>2 DEF Reasons
      <3>3. CASE ~(mine[s] = main /\ res[Main] = "Ok")
        BY <1>1, <1>4, <2>1, <3>1, <3>3 DEF SaysDrained, Reasons
      <3> QED  BY <3>2, <3>3
    <2> QED  BY <1>1, <1>3, <2>1 DEF Reasons
  <1> QED  BY <1>5, <1>6, <1>7, <1>8, <1>9, NothingNew

LEMMA ScriptStepClears ==
  ASSUME AppInv, ClearInv, NEW w \in Writer, ScriptStep(w)
  PROVE  ClearInv'
  <1>1. UNCHANGED <<at, op, mine, out, target, result, orphan, asked, guard>>
    BY DEF ScriptStep, mineAll, thread, capt
  <1>2. Settled => /\ Drained => Drained'
                   /\ \A v \in Writer : Opened(v)' => Opened(v) \/ Drained'
    BY ScriptsDrain DEF ScriptStep
  <1>3. orphan' = {} /\ NewJobs' /\ Settled' = Settled
    BY <1>1 DEF ClearInv, NewJobs, guard, Settled
  <1>4. Settled => OnlyClears' /\ EmptyTargets'
    <2>1. Held' = Held
      BY <1>1 DEF Held, InApply, CG!Queued, guard
    <2> QED  BY <1>1, <2>1 DEF ClearInv, ClearOnly, OnlyClears, EmptyTargets
  <1>5. Settled /\ Reasons' => Reasons \/ Drained'
    BY <1>1, <1>2 DEF Reasons, SaysDrained
  <1>6. CASE Settled
    BY <1>2, <1>3, <1>4, <1>5, <1>6 DEF ClearInv, ClearOnly
  <1>7. CASE ~Settled
    BY <1>3, <1>7 DEF ClearInv
  <1> QED  BY <1>6, <1>7

(* The callers, the scripts and the file stand still.                      *)
LEMMA WorldClears ==
  ASSUME AppInv, ClearInv,
         UNCHANGED <<at, op, mine, out, target, result, orphan, phase, pc, res, file, main>>,
         asked' \in {asked, "no"}, CG!Queued' \cup inflight' \cup reg' \subseteq Held
  PROVE  ClearInv'
  <1>1. orphan' = {} /\ NewJobs' /\ (Settled' => Settled) /\ Drained' = Drained
    BY DEF ClearInv, NewJobs, Settled, Drained
  <1>2. Settled => OnlyClears' /\ EmptyTargets'
    <2>1. Held' \subseteq Held
      BY DEF Held, InApply
    <2> QED  BY <2>1 DEF ClearInv, ClearOnly, OnlyClears, EmptyTargets
  <1>3. Reasons' => Reasons
    BY DEF Reasons, Opened, SaysDrained
  <1> QED  BY <1>1, <1>2, <1>3, NothingNew

(* The process is gone, and with it what was kept.                         *)
LEMMA PowerLossClears ==
  ASSUME AppInv, ClearInv, PowerLoss
  PROVE  ClearInv'
  <1>1. /\ at' = [t \in Thread |-> "idle"] /\ orphan' = {} /\ UNCHANGED <<result, asked, target>>
        /\ reg' = {} /\ inflight' = {} /\ mainQ' = <<>> /\ main' = None
        /\ \A j \in Job : phase'[j] = "new" => phase[j] = "new"
    BY DEF PowerLoss, Restart, CG!Die, capt
  <1>2. file' = file /\ \A w \in Writer : pc'[w] = "idle"
    BY DEF PowerLoss, RW!PowerLoss, RW!Reset
  <1>3. NewJobs' /\ Settled' = Settled /\ Drained' = Drained
    BY <1>1, <1>2 DEF ClearInv, NewJobs, Settled, Drained
  <1>4. OnlyClears'
    BY <1>1 DEF OnlyClears
  <1>5. EmptyTargets'
    <2>1. Held' = {}
      BY <1>1 DEF Held, InApply, CG!Queued
    <2> QED  BY <2>1 DEF EmptyTargets
  <1>6. Reasons' => Reasons
    BY <1>1, <1>2 DEF Reasons, Opened, SaysDrained
  <1> QED  BY <1>1, <1>3, <1>4, <1>5, <1>6, NothingNew

LEMMA ClearStep ==
  ASSUME Faults \cap {"dialer", "death"} = {}, AppInv, ClearInv, [Next]_vars
  PROVE  ClearInv'
  <1>0. reg \cup inflight \cup CG!Queued \subseteq Held
    BY DEF Held
  <1>1. ASSUME NEW t \in Thread, ThreadStep(t) PROVE ClearInv'
    BY <1>1, ReadContactsClears, ReadStoreClears, AskClears, ThrowsClears, WrittenClears,
       AnswerClears, ReleaseClears DEF ThreadStep
  <1>2. ASSUME NEW t \in Thread, NEW o \in {"sync", "clear"}, CallBusy(t, o) PROVE ClearInv'
    BY <1>0, <1>2, WorldClears DEF CallBusy, world, script, guard, thread, capt, CG!Queued
  <1>3. ASSUME NEW t \in Thread, NEW o \in {"sync", "clear"}, Call(t, o) PROVE ClearInv'
    BY <1>3, CallClears
  <1>4. ASSUME NEW j \in Job, Deliver(j) PROVE ClearInv'
    BY <1>4, DeliverClears
  <1>5. ASSUME NEW j \in Job, Post(j) PROVE ClearInv'
    <2>1. /\ j \in inflight /\ inflight' \subseteq inflight /\ mainQ' = Append(mainQ, j)
          /\ UNCHANGED <<reg, main, phase, world, script, mineAll, capt>> /\ mainQ \in Seq(Job)
      BY <1>5 DEF Post, CG!Post, AppInv, EngineTypes, GuardTypes
    <2>2. CG!Queued' \subseteq CG!Queued \cup {j}
      BY <2>1, QueueGrows DEF CG!Queued
    <2> QED  BY <1>0, <2>1, <2>2, WorldClears DEF world, script, mineAll, thread, capt
  <1>6. ASSUME NEW w \in Writer, ScriptStep(w) PROVE ClearInv'
    BY <1>6, ScriptStepClears
  <1>7. ASSUME NEW w \in Writer, OrphanEnds(w) PROVE ClearInv'
    BY <1>7 DEF OrphanEnds, ClearInv
  <1>8. CASE MainDone
    BY <1>8, MainDoneClears
  <1>9. CASE CallBegins
    BY <1>0, <1>9, WorldClears DEF CallBegins, RW!CallBegins, RW!store, RW!script, mineAll,
       thread, capt, guard, CG!Queued
  <1>10. CASE CallEnds
    BY <1>0, <1>10, WorldClears DEF CallEnds, RW!CallEnds, RW!store, RW!script, CG!CallEnds,
       mineAll, thread, capt, CG!Queued
  <1>11. ~Dialer /\ ~ProcessDies
    BY DEF Dialer, ProcessDies
  <1>12. CASE ContactsChange \/ UNCHANGED vars
    BY <1>0, <1>12, WorldClears DEF ContactsChange, vars, world, script, guard, thread, capt,
       CG!Queued
  <1>13. CASE PowerLoss
    BY <1>13, PowerLossClears
  <1> QED  BY <1>1, <1>2, <1>3, <1>4, <1>5, <1>6, <1>7, <1>8, <1>9, <1>10, <1>11, <1>12, <1>13
           DEF Next

(* A clear that answered "Already up to date" or "List cleared", with no   *)
(* action kept when it was asked for, leaves the list empty until a sync   *)
(* is asked for: over failing scripts, unreadable contacts, calls that     *)
(* defer, other clears and power losses (SyncEngine.kt:19-37).  A dialer   *)
(* that saves its old copy and a script that outlives its process are what *)
(* can fill it, and are excluded.                                          *)
THEOREM ClearedStaysEmpty ==
  ASSUME Faults \cap {"dialer", "death"} = {}
  PROVE  Safety => []ClearHolds
  <1>1. Init => ClearInv
    <2> SUFFICES ASSUME Init PROVE ClearInv
      OBVIOUS
    <2>1. orphan = {} /\ asked = "no" /\ result = [j \in Job |-> "NotRun"]
      BY DEF Init
    <2> QED  BY <2>1 DEF ClearInv, NewJobs, Settled
  <1>2. ClearInv => ClearHolds
    BY DEF ClearInv, Settled, ClearOnly, Reasons, Drained, ClearHolds
  <1>3. AppInv /\ ClearInv /\ [Next]_vars => ClearInv'
    BY ClearStep
  <1> QED  BY <1>1, <1>2, <1>3, AppAlways, PTL DEF Safety
=============================================================================
