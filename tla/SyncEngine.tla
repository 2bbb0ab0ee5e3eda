------------------------------ MODULE SyncEngine ------------------------------
(***************************************************************************)
(* One sync or clear, from the tap to the file: Syncer (AndroidGlue.kt)    *)
(* and SyncEngine.apply on worker threads, the deferred actions on the     *)
(* main thread (CallStateGuard), and the root scripts that both of them    *)
(* start (RootWriter).                                                     *)
(*                                                                         *)
(* A job is one action handed to runWhenIdle with the variables it         *)
(* captured: the target computed before the wait, `ran` and `result`.      *)
(* Contents are reduced to the list of numbers, which sync and clear set.  *)
(***************************************************************************)
EXTENDS Naturals, Sequences, FiniteSets

CONSTANTS
    Thread,      \* threads that call Syncer: UI, observer, worker, boot
    Main,        \* the main thread, where deferred actions run
    Job,         \* bound on the writes asked for: each uses one
    Number,      \* phone numbers
    Faults,      \* which faults of the environment a run allows
    NoFile, Empty, Garbled, NotLoaded, None,
    MaxKills, MaxBacklog

ASSUME FaultsKnown ==
    Faults \subseteq {"script", "contacts", "phone", "dialer", "death", "power"}
ASSUME MainIsNoThread == Main \notin Thread
ASSUME NoneIsNoJob == None \notin Job
ASSUME Bounds == MaxKills \in Nat \ {0} /\ MaxBacklog \in Nat \ {0}

Writer  == Thread \cup {Main}
Payload == [nums : SUBSET Number]
Edits(c) == IF c \in Payload THEN {c} ELSE [nums : {{}}]

(* A missing, an empty and a damaged file are no message; a copy that is   *)
(* not loaded is none of them.                                             *)
ASSUME FilesDiffer ==
    /\ {NoFile, Empty, Garbled, NotLoaded} \cap Payload = {}
    /\ NoFile # Empty /\ NoFile # Garbled /\ Empty # Garbled
    /\ NotLoaded \notin {NoFile, Empty, Garbled}

VARIABLES
    (* RootWriter *)
    call, alive, cache, file, bak, hurt, pc, arg, tries, res,
    clash, late, revived,
    (* CallStateGuard *)
    phase, runs, reg, inflight, mainQ, main,
    (* Syncer and SyncEngine *)
    running,     \* Syncer.running
    at,          \* where each thread is in syncNow, clear and apply
    op,          \* "sync" or "clear"
    nums,        \* the contacts' numbers the thread has read
    mine,        \* the job of the thread's apply
    out,         \* the SyncOutcome it is returning
    target, ran, result,   \* what each job captured
    contacts,    \* the phone's contacts
    orphan,      \* writers whose script outlived the process
    asked        \* history: how a clear with auto-sync off has fared

RW == INSTANCE RootWriter
CG == INSTANCE CallStateGuard

world  == <<call, alive, cache, file, bak, hurt>>
script == <<pc, arg, tries, res, clash, late, revived>>
guard  == <<phase, runs, reg, inflight, mainQ, main>>
thread == <<running, at, op, nums, mine, out>>
capt   == <<target, ran, result>>
vars   == <<world, script, guard, thread, capt, contacts, orphan, asked>>

At      == {"idle", "contacts", "read", "ask", "register", "write", "answer",
            "release"}
Outcome == {"none", "Skipped", "NoCurrent", "Deferred", "Threw", "NotRun"}
           \cup RW!Result

TypeOK ==
    /\ RW!TypeOK /\ CG!TypeOK
    /\ running \in BOOLEAN
    /\ at \in [Thread -> At]
    /\ op \in [Thread -> {"sync", "clear"}]
    /\ nums \in [Thread -> SUBSET Number]
    /\ mine \in [Thread -> Job \cup {None}]
    /\ out \in [Thread -> Outcome]
    /\ target \in [Job -> Payload \cup {NoFile}]
    /\ ran \in [Job -> BOOLEAN]
    /\ result \in [Job -> RW!Result \cup {"NotRun"}]
    /\ contacts \subseteq Number
    /\ orphan \subseteq Writer
    /\ asked \in {"no", "clearing", "cleared", "racing", "raced"}

Init ==
    /\ RW!Init /\ CG!GuardInit
    /\ running = FALSE
    /\ at = [t \in Thread |-> "idle"]
    /\ op = [t \in Thread |-> "sync"]
    /\ nums = [t \in Thread |-> {}]
    /\ mine = [t \in Thread |-> None]
    /\ out = [t \in Thread |-> "none"]
    /\ target = [j \in Job |-> NoFile]
    /\ ran = [j \in Job |-> FALSE]
    /\ result = [j \in Job |-> "NotRun"]
    /\ contacts \in SUBSET Number
    /\ orphan = {}
    /\ asked = "no"

-----------------------------------------------------------------------------
(* A thread in Syncer.syncNow or Syncer.clear.                             *)

Go(t, from, to) == at[t] = from /\ at' = [at EXCEPT ![t] = to]
Answered(t, o)  == out' = [out EXCEPT ![t] = o]
Quiet           == \A t \in Thread : at[t] = "idle"
NoneKept        == reg \cup inflight \cup CG!Queued \cup ({main} \ {None}) = {}

(* `running` is taken: the call returns Skipped at once, with nothing done.*)
CallBusy(t, o) ==
    /\ at[t] = "idle" /\ running
    /\ asked' = IF o = "sync" THEN "no" ELSE asked
    /\ UNCHANGED <<world, script, guard, thread, capt, contacts, orphan>>

(* Mutant: get() and set() instead of compareAndSet.                       *)
CallUnlocked(t, o) ==
    /\ \E j \in Job : phase[j] = "new"
    /\ Go(t, "idle", IF o = "sync" THEN "contacts" ELSE "read")
    /\ running' = TRUE
    /\ op' = [op EXCEPT ![t] = o]
    /\ asked' = "no"
    /\ UNCHANGED <<world, script, guard, nums, mine, out, capt, contacts, orphan>>

Call(t, o) ==
    /\ ~running /\ \E j \in Job : phase[j] = "new"
    /\ Go(t, "idle", IF o = "sync" THEN "contacts" ELSE "read")
    /\ running' = TRUE
    /\ op' = [op EXCEPT ![t] = o]
    /\ asked' = IF o = "sync" THEN "no"
                ELSE IF NoneKept THEN "clearing" ELSE "racing"
    /\ UNCHANGED <<world, script, guard, nums, mine, out, capt, contacts, orphan>>

(* Mutant: a SecurityException of the query passes no finally block.       *)
ReadContactsNoFinally(t) ==
    /\ at[t] = "contacts"
    /\ \/ at' = [at EXCEPT ![t] = "read"] /\ nums' = [nums EXCEPT ![t] = contacts]
       \/ "contacts" \in Faults /\ at' = [at EXCEPT ![t] = "idle"] /\ UNCHANGED nums
    /\ UNCHANGED <<world, script, guard, running, op, mine, out, capt, contacts,
                   orphan, asked>>

(* A query that returns null reads as no contact at all; one that throws   *)
(* leaves through the finally block.                                       *)
ReadContacts(t) ==
    /\ \/ /\ Go(t, "contacts", "read")
          /\ \E ns \in {contacts} \cup (IF "contacts" \in Faults THEN {{}} ELSE {}) :
                nums' = [nums EXCEPT ![t] = ns]
          /\ UNCHANGED out
       \/ /\ "contacts" \in Faults
          /\ Go(t, "contacts", "release") /\ Answered(t, "Threw")
          /\ UNCHANGED nums
    /\ UNCHANGED <<world, script, guard, running, op, mine, capt, contacts,
                   orphan, asked>>

TargetOf(t, c) == [c EXCEPT !.nums = IF op[t] = "sync" THEN nums[t] ELSE {}]

(* What parse makes of the bytes: a part of a message may still parse, as  *)
(* a message with other fields.                                            *)
Parsed == IF file \in Payload THEN {file} ELSE Payload

(* store.read, computeTarget and the comparison with what was read.        *)
ReadStore(t) ==
    /\ at[t] = "read"
    /\ \/ /\ \/ file \in {NoFile, Empty} \/ "script" \in Faults
          /\ Go(t, "read", "release") /\ Answered(t, "NoCurrent")
          /\ UNCHANGED <<mine, target>>
       \/ /\ file = Garbled
          /\ Go(t, "read", "release") /\ Answered(t, "Threw")
          /\ UNCHANGED <<mine, target>>
       \/ /\ file \notin {NoFile, Empty}
          /\ \E c \in Parsed :
               \/ /\ TargetOf(t, c) = c
                  /\ Go(t, "read", "release") /\ Answered(t, "Skipped")
                  /\ UNCHANGED <<mine, target>>
               \/ /\ TargetOf(t, c) # c
                  /\ Go(t, "read", "ask")
                  /\ \E j \in Job :
                        /\ phase[j] = "new"
                        /\ mine' = [mine EXCEPT ![t] = j]
                        /\ target' = [target EXCEPT ![j] = TargetOf(t, c)]
                  /\ UNCHANGED out
    /\ UNCHANGED <<world, script, guard, running, op, nums, ran, result,
                   contacts, orphan, asked>>

(* Mutant: the write is started and not waited for.                        *)
AskIdleAsync(t) ==
    /\ Go(t, "ask", "answer")
    /\ CG!RunInline(mine[t])
    /\ ran' = [ran EXCEPT ![mine[t]] = TRUE]
    /\ RW!Begin(t, target[mine[t]])
    /\ UNCHANGED <<running, op, nums, mine, out, target, result, contacts,
                   orphan, asked>>

(* idler.runWhenIdle { ran = true; result = store.write(target) }          *)
AskIdle(t) ==
    /\ Go(t, "ask", "write")
    /\ CG!RunInline(mine[t])
    /\ ran' = [ran EXCEPT ![mine[t]] = TRUE]
    /\ RW!Begin(t, target[mine[t]])
    /\ UNCHANGED <<running, op, nums, mine, out, target, result, contacts,
                   orphan, asked>>

AskInCall(t) ==
    /\ Go(t, "ask", "register")
    /\ CG!Defer(mine[t])
    /\ UNCHANGED <<world, script, running, op, nums, mine, out, capt, contacts,
                   orphan, asked>>

Register(t) ==
    /\ Go(t, "register", "answer")
    /\ CG!Register(mine[t])
    /\ UNCHANGED <<world, script, running, op, nums, mine, out, capt, contacts,
                   orphan, asked>>

(* isCallActive or the registration throws, as without READ_PHONE_STATE:   *)
(* apply is left through the finally block, with nothing kept or written.  *)
TelephonyThrows(t) ==
    /\ "phone" \in Faults
    /\ \/ Go(t, "ask", "release") /\ CG!Refuse(mine[t], "new")
       \/ Go(t, "register", "release") /\ CG!Refuse(mine[t], "deferring")
    /\ Answered(t, "Threw")
    /\ UNCHANGED <<world, script, running, op, nums, mine, capt, contacts,
                   orphan, asked>>

(* Mutant: the exit state is stored in the place of the result.            *)
WrittenExit(t) ==
    /\ Go(t, "write", "answer")
    /\ RW!Finish(t)
    /\ result' = [result EXCEPT ![mine[t]] = pc[t]]
    /\ UNCHANGED <<guard, running, op, nums, mine, out, target, ran, contacts,
                   orphan, asked>>

Written(t) ==
    /\ Go(t, "write", "answer")
    /\ RW!Finish(t)
    /\ result' = [result EXCEPT ![mine[t]] = res[t]]
    /\ UNCHANGED <<guard, running, op, nums, mine, out, target, ran, contacts,
                   orphan, asked>>

(* Mutant: a write that ran is taken for a write that succeeded.           *)
SeenRan(j) == IF ran[j] THEN {"Ok"} ELSE {"Deferred"}

(* Nothing orders the thread's reads of `ran` and `result` with the main   *)
(* thread's writes of them: it sees the old or the new value of each.      *)
Seen(j) ==
    IF phase[j] = "inline" THEN {result[j]}
    ELSE {"Deferred"} \cup (IF ran[j] THEN {"NotRun", result[j]} ELSE {})

(* Mutant: the thread waits for the deferred write before it answers.      *)
AnswerBlocking(t) ==
    /\ Go(t, "answer", "release") /\ ran[mine[t]]
    /\ \E o \in Seen(mine[t]) : Answered(t, o)
    /\ UNCHANGED <<world, script, guard, running, op, nums, mine, capt, contacts,
                   orphan, asked>>

Answer(t) ==
    /\ Go(t, "answer", "release")
    /\ \E o \in Seen(mine[t]) : Answered(t, o)
    /\ UNCHANGED <<world, script, guard, running, op, nums, mine, capt, contacts,
                   orphan, asked>>

(* finally { running.set(false) }                                          *)
Release(t) ==
    /\ Go(t, "release", "idle")
    /\ running' = FALSE
    /\ op' = [op EXCEPT ![t] = "sync"] /\ nums' = [nums EXCEPT ![t] = {}]
    /\ mine' = [mine EXCEPT ![t] = None] /\ out' = [out EXCEPT ![t] = "none"]
    /\ asked' = IF op[t] = "clear" /\ out[t] \in {"Skipped", "Ok"}
                THEN CASE asked = "clearing" -> "cleared"
                       [] asked = "racing" -> "raced"
                       [] OTHER -> asked
                ELSE asked
    /\ UNCHANGED <<world, script, guard, capt, contacts, orphan>>

ThreadStep(t) ==
    \/ ReadContacts(t) \/ ReadStore(t) \/ AskIdle(t) \/ AskInCall(t)
    \/ Register(t) \/ TelephonyThrows(t) \/ Written(t) \/ Answer(t) \/ Release(t)

-----------------------------------------------------------------------------
(* The main thread, the scripts and the rest of the phone.                 *)

mineAll == <<thread, contacts, orphan, asked>>

Deliver(j) ==
    /\ CG!Deliver(j)
    /\ ran' = [ran EXCEPT ![j] = TRUE]
    /\ RW!Begin(Main, target[j])
    /\ UNCHANGED <<mineAll, target, result>>

MainDone ==
    /\ CG!Return
    /\ RW!Finish(Main)
    /\ result' = [result EXCEPT ![main] = res[Main]]
    /\ UNCHANGED <<mineAll, target, ran>>

(* A command that fails, a force-stop that the dialer outlives.            *)
Faulty(w) ==
    \/ RW!Fail(w)
    \/ RW!ForceStop(w) /\ alive'
    \/ res'[w] = "NoRoot"
    \/ RW!Copy(w) /\ bak' # file
    \/ res'[w] = "CallActive" /\ ~call

ScriptStep(w) ==
    /\ RW!Step(w)
    /\ "script" \in Faults \/ ~Faulty(w)
    /\ UNCHANGED <<guard, mineAll, capt>>

OrphanEnds(w) ==
    /\ w \in orphan /\ RW!Finish(w)
    /\ orphan' = orphan \ {w}
    /\ UNCHANGED <<guard, thread, capt, contacts, asked>>

CallBegins == RW!CallBegins /\ UNCHANGED <<guard, mineAll, capt>>
CallEnds   == RW!CallEnds /\ CG!CallEnds /\ UNCHANGED <<mineAll, capt>>
Post(j)    == CG!Post(j) /\ UNCHANGED <<world, script, mineAll, capt>>

Dialer ==
    /\ "dialer" \in Faults
    /\ RW!Dialer
    /\ UNCHANGED <<guard, mineAll, capt>>

ContactsChange ==
    /\ contacts' \in (SUBSET Number) \ {contacts}
    /\ UNCHANGED <<world, script, guard, thread, capt, orphan, asked>>

(* The process restarts at Syncer's initial state; the file is what it is. *)
Restart ==
    /\ CG!Die
    /\ running' = FALSE
    /\ at' = [t \in Thread |-> "idle"]
    /\ op' = [t \in Thread |-> "sync"] /\ nums' = [t \in Thread |-> {}]
    /\ mine' = [t \in Thread |-> None] /\ out' = [t \in Thread |-> "none"]
    /\ UNCHANGED <<capt, contacts, asked>>

ProcessDies ==
    /\ "death" \in Faults
    /\ Restart /\ RW!AppDies
    /\ orphan' = {w \in Writer : pc'[w] # "idle"}

PowerLoss ==
    /\ "power" \in Faults
    /\ Restart /\ RW!PowerLoss
    /\ orphan' = {}

Next ==
    \/ \E t \in Thread :
          \/ ThreadStep(t)
          \/ \E o \in {"sync", "clear"} : CallBusy(t, o) \/ Call(t, o)
    \/ \E j \in Job : Deliver(j) \/ Post(j)
    \/ \E w \in Writer : ScriptStep(w) \/ OrphanEnds(w)
    \/ MainDone \/ CallBegins \/ CallEnds \/ Dialer \/ ContactsChange
    \/ ProcessDies \/ PowerLoss

(* Threads, scripts and the main thread go on; calls need not end.         *)
Fairness ==
    /\ \A t \in Thread : WF_vars(ThreadStep(t))
    /\ \A w \in Writer : /\ WF_vars(ScriptStep(w) /\ pc'[w] # pc[w])
                         /\ WF_vars(OrphanEnds(w))
    /\ \A j \in Job : WF_vars(Deliver(j)) /\ WF_vars(Post(j))
    /\ WF_vars(MainDone)

Safety == Init /\ [][Next]_vars
Spec   == Safety /\ Fairness

-----------------------------------------------------------------------------
(* Properties.                                                             *)

(* Syncer.running holds exactly as long as one thread is between its       *)
(* compareAndSet and its finally, over every way out and over restarts     *)
(* (AndroidGlue.kt:51-59, 62-67): it is never left behind, never shared.   *)
LockHasOneHolder ==
    /\ running <=> ~Quiet
    /\ \A s, t \in Thread : at[s] # "idle" /\ at[t] # "idle" => s = t

(* Two root scripts of one process run at once only when one of them is a  *)
(* deferred write on the main thread, which holds no lock; each carries    *)
(* the target of the job it was started for (SyncEngine.kt:36).            *)
Serves(w) == IF w = Main THEN main ELSE mine[w]
OverlapNeedsDeferral ==
    /\ \A w \in Writer \ orphan :
          pc[w] # "idle" => Serves(w) \in Job /\ arg[w] = target[Serves(w)]
    /\ \A s, t \in Thread \ orphan : pc[s] # "idle" /\ pc[t] # "idle" => s = t
    /\ main # None => phase[main] = "waiting"

(* A clear that found no kept action and answered "Already up to date" or  *)
(* "List cleared" leaves the list empty until the next sync is asked for   *)
(* (while the dialer itself does not save an old copy).                    *)
ClearHolds ==
    asked = "cleared" /\ file \in Payload => file.nums = {}

(* Every call of Syncer returns an outcome, however long a phone call      *)
(* lasts: a deferral never keeps the thread or the flag.                   *)
EveryCallReturns == \A t \in Thread : (at[t] # "idle") ~> (at[t] = "idle")

(* If no call lasts for ever, every deferred write is tried, unless its    *)
(* process died or telephony refused to register it, which the caller is   *)
(* told.                                                                   *)
DeferredWritesRun ==
    []<>(~call) =>
    \A j \in Job : (phase[j] \in {"deferring", "waiting"})
                   ~> (runs[j] > 0 \/ phase[j] \in {"lost", "refused"})

(* The contacts-sync design, line 101: "turn it off, Clear, and the list   *)
(* stays empty".                                                           *)
ClearSticks ==
    asked \in {"cleared", "raced"} /\ file \in Payload => file.nums = {}

(* SyncEngine.kt:35, the failure that says "not run".                      *)
NotRunMeansNotRun ==
    \A t \in Thread : at[t] = "release" /\ out[t] = "NotRun"
                      => runs[mine[t]] = 0
=============================================================================
