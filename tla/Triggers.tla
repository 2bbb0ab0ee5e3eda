------------------------------- MODULE Triggers -------------------------------
(***************************************************************************)
(* What starts a sync and what becomes of it in the end: WorkManager's     *)
(* periodic job (SyncWorker.kt), the contacts observer, the boot receiver  *)
(* and the screen, each calling Syncer on a thread of its own; the stored  *)
(* interval and the schedule made from it; the settings file in bytes.     *)
(*                                                                         *)
(* A sync is one job from the lock to the answer: SyncEngine shows that    *)
(* there is one at a time.  The root script is one step here; RootWriter   *)
(* shows what it can leave: the new file, the old one, or a part.          *)
(***************************************************************************)
EXTENDS SettingsCodec

CONSTANTS
    Book,        \* contacts tables: sets of rows [norm, e164], numbers or None
    Interval,    \* the minutes offered besides Never
    FirstFile,   \* settings files the dialer may have written
    MaxEvents,   \* bound on what people, telephony and faults do
    None

Never == 0
ASSUME IntervalsArePositive == Interval \subseteq Nat \ {Never}
ASSUME NoneIsNoInterval == None \notin Interval \cup {Never}
ASSUME EventsAreBounded == MaxEvents \in Nat
ASSUME FilesAreBytes == FirstFile \subseteq Seq(Byte)
ASSUME NumbersAreBytes ==
    /\ None \notin Byte
    /\ \A rows \in Book : rows \subseteq [norm : Byte \cup {None}, e164 : Byte \cup {None}]

VARIABLES
    pref, disk,     \* sync_interval_min in memory; on disk
    want, sched,    \* the schedule asked of WorkManager; the one in force
    ui, observing,  \* the activity exists; its observer is registered
    timers,         \* debounce runs posted by this activity's observer, by others
    spawned,        \* automatic threads started and not yet in Syncer
    job,            \* the call that holds Syncer.running
    kept,           \* targets of deferred writes
    loose,          \* targets of scripts that outlived their process
    shown,          \* colour of the last result on the screen
    file,           \* the dialer's settings file
    contacts,
    granted, phone, \* READ_CONTACTS and READ_PHONE_STATE are granted
    inCall,
    left,           \* events left
    cut,            \* history: a write was cut off
    unapplied,      \* history: no schedule was made since interval and job parted
    clean           \* history: a clear held the list when nothing else was under way

stored    == <<pref, disk, want, sched>>
screen    == <<ui, observing, timers>>
world     == <<contacts, granted, phone, inCall>>
histories == <<cut, unapplied, clean>>
vars == <<stored, screen, spawned, job, kept, loose, shown, file, world, left,
          histories>>

Caller == {"worker", "observer", "boot", "user",
           "gone"}  \* a tap whose activity is no more
autoSyncEnabled == pref > 0
Spend == left > 0 /\ left' = left - 1

(* readE164Numbers: of each row the normalized number, else the formatted  *)
(* one, else nothing; sorted, each once.                                   *)
NumberOf(r) == IF r.norm # None THEN r.norm ELSE r.e164
readE164Numbers(rows) ==
    LET found == {NumberOf(r) : r \in rows} \ {None}
        rank(x) == Cardinality({y \in found : y <= x})
    IN [i \in 1..Cardinality(found) |-> <<CHOOSE x \in found : rank(x) = i>>]

Readable(f) == f # <<>> /\ parse(f) # Garbled
Selected(f) == IF Readable(f) THEN selectedNumbers(parse(f)) ELSE <<>>

Init ==
    /\ pref \in Interval \cup {Never} /\ disk = pref
    /\ want = None /\ sched = Never
    /\ ui = FALSE /\ observing = FALSE /\ timers = {}
    /\ spawned = {} /\ job = None /\ kept = {} /\ loose = {} /\ shown = "none"
    /\ file \in FirstFile
    /\ contacts \in Book /\ granted = TRUE /\ phone = TRUE /\ inCall \in BOOLEAN
    /\ left = MaxEvents
    /\ cut = FALSE /\ unapplied = TRUE /\ clean = FALSE

-----------------------------------------------------------------------------
(* The interval and the schedule.                                          *)

(* onCreate and onStart.  SyncScheduler.apply asks for the job that the    *)
(* stored interval means, or for none.                                     *)
Open ==
    /\ ~ui /\ ui' = TRUE
    /\ want' = pref
    /\ observing' = granted
    /\ unapplied' = FALSE
    /\ UNCHANGED <<pref, disk, sched, timers, spawned, job, kept, loose, shown, file,
                   world, left, cut, clean>>

(* onDestroy unregisters the observer; a posted run stays posted.          *)
(* Mutant: the observer stays registered.                                  *)
CloseObserving ==
    /\ ui /\ ui' = FALSE
    /\ shown' = "none"
    /\ UNCHANGED <<stored, observing, timers, job, spawned, kept, loose, file, world,
                   left, histories>>
Close ==
    /\ ui /\ ui' = FALSE
    /\ observing' = FALSE /\ shown' = "none"
    /\ timers' = (IF timers # {} THEN {"others"} ELSE {})
    /\ job' = (IF job # None /\ job.by = "user" THEN [job EXCEPT !.by = "gone"]
               ELSE job)
    /\ UNCHANGED <<stored, spawned, kept, loose, file, world, left, histories>>

(* onItemSelected: edit().apply() changes the memory now, the disk later.  *)
(* Mutant: the schedule is left to the next onCreate.                      *)
ChooseIntervalOnly(m) ==
    /\ ui /\ m # pref /\ Spend
    /\ pref' = m
    /\ clean' = (clean /\ m = Never)
    /\ UNCHANGED <<disk, want, sched, screen, spawned, job, kept, loose, shown, file,
                   world, cut, unapplied>>
ChooseInterval(m) ==
    /\ ui /\ m # pref /\ Spend
    /\ pref' = m /\ want' = m
    /\ clean' = (clean /\ m = Never)
    /\ UNCHANGED <<disk, sched, screen, spawned, job, kept, loose, shown, file,
                   world, cut, unapplied>>

Flush ==
    /\ disk # pref /\ disk' = pref
    /\ UNCHANGED <<pref, want, sched, screen, spawned, job, kept, loose, shown, file,
                   world, left, histories>>

(* enqueueUniquePeriodicWork with UPDATE, or cancelUniqueWork.             *)
Enqueue ==
    /\ want # None /\ sched' = want /\ want' = None
    /\ UNCHANGED <<pref, disk, screen, spawned, job, kept, loose, shown, file, world,
                   left, histories>>

-----------------------------------------------------------------------------
(* The triggers.                                                           *)

(* onChange: a debounced run of this observer is taken back and posted     *)
(* again.                                                                  *)
ContactsChange ==
    /\ Spend
    /\ contacts' \in Book \ {contacts}
    /\ timers' = (IF observing THEN timers \cup {"own"} ELSE timers)
    /\ UNCHANGED <<stored, ui, observing, spawned, job, kept, loose, shown, file,
                   granted, phone, inCall, histories>>

(* Mutant: the run starts its thread whatever the interval is.             *)
DebounceRunsAlways(t) ==
    /\ t \in timers /\ "observer" \notin spawned
    /\ timers' = timers \ {t}
    /\ spawned' = spawned \cup {"observer"}
    /\ UNCHANGED <<stored, ui, observing, job, kept, loose, shown, file, world, left,
                   histories>>
DebounceRuns(t) ==
    /\ t \in timers /\ "observer" \notin spawned
    /\ timers' = timers \ {t}
    /\ spawned' = (IF autoSyncEnabled THEN spawned \cup {"observer"} ELSE spawned)
    /\ UNCHANGED <<stored, ui, observing, job, kept, loose, shown, file, world, left,
                   histories>>

(* doWork of the periodic job, one at a time.                              *)
WorkDue ==
    /\ sched # Never /\ autoSyncEnabled
    /\ "worker" \notin spawned /\ ~(job # None /\ job.by = "worker")
    /\ spawned' = spawned \cup {"worker"}
    /\ UNCHANGED <<stored, screen, job, kept, loose, shown, file, world, left, histories>>

(* The scripts of this process: the call's, and those that the kept        *)
(* actions start when there is no phone call, one after the other.  They   *)
(* go on without the process that started them.                            *)
CallScript == IF job # None /\ job.at = "write" THEN {job.target} ELSE {}
KeptScripts == IF inCall THEN {} ELSE {{t} : t \in kept}
ScriptsGoOn ==
    \E begun \in {{}} \cup KeptScripts : loose' = loose \cup CallScript \cup begun

(* What dies with the process.                                             *)
Restart ==
    /\ pref' = disk
    /\ ui' = FALSE /\ observing' = FALSE /\ timers' = {}
    /\ job' = None /\ kept' = {} /\ shown' = "none"
    /\ clean' = (clean /\ disk = Never)

ProcessDies ==
    /\ Spend /\ Restart /\ ScriptsGoOn
    /\ want' = None /\ spawned' = {}
    /\ unapplied' = (unapplied \/ pref # disk \/ want # None)
    /\ UNCHANGED <<disk, sched, file, world, cut>>

(* What a cut-off write leaves, a part of the new file (bound: nothing, or *)
(* all but two bytes, which is a field in the instance).                   *)
Parts(target) == {SubSeq(target, 1, k) : k \in {0, Len(target) - 2}}

(* Taking a permission back kills the process as well.                     *)
Revoke ==
    /\ \/ granted /\ granted' = FALSE /\ UNCHANGED phone
       \/ phone /\ phone' = FALSE /\ UNCHANGED granted
    /\ Spend /\ Restart /\ ScriptsGoOn
    /\ want' = None /\ spawned' = {}
    /\ unapplied' = (unapplied \/ pref # disk \/ want # None)
    /\ UNCHANGED <<disk, sched, file, contacts, inCall, cut>>

(* BOOT_COMPLETED, after a power loss that may have cut a write off.       *)
Boot ==
    /\ Spend /\ Restart /\ loose' = {}
    /\ IF disk > 0
       THEN want' = disk /\ spawned' = {"boot"} /\ unapplied' = FALSE
       ELSE /\ want' = None /\ spawned' = {}
            /\ unapplied' = (unapplied \/ pref # disk \/ want # None)
    /\ \/ UNCHANGED <<file, cut>>
       \/ \E t \in loose \cup CallScript \cup UNION KeptScripts :
             file' \in Parts(t) /\ cut' = TRUE
    /\ inCall' = FALSE
    /\ UNCHANGED <<disk, sched, contacts, granted, phone>>

-----------------------------------------------------------------------------
(* One call of Syncer, from the lock to the answer.                        *)

Call(by, op) == [by |-> by, op |-> op, at |-> IF op = "sync" THEN "contacts" ELSE "read",
                 nums |-> <<>>, target |-> <<>>]
Finish(colour) ==
    /\ job' = None
    /\ shown' = (IF job.by = "user" THEN colour ELSE shown)
(* A clear that is done while auto-sync is off and nothing else under way. *)
Settled == clean' = (clean \/ (/\ job.op = "clear" /\ pref = Never
                              /\ spawned = {} /\ kept = {} /\ loose = {}))

(* The thread of a trigger: a taken lock is an answer too, Skipped; the    *)
(* boot thread looks at the interval again.                                *)
Start(c) ==
    /\ c \in spawned /\ spawned' = spawned \ {c}
    /\ job' = (IF job # None \/ (c = "boot" /\ ~autoSyncEnabled) THEN job
               ELSE Call(c, "sync"))
    /\ UNCHANGED <<stored, screen, kept, loose, shown, file, world, left, histories>>

(* runSync: "Sync now", or "Clear list" confirmed.                         *)
Tap(op) ==
    /\ ui /\ Spend
    /\ IF job # None THEN shown' = "green" /\ UNCHANGED job
       ELSE shown' = "wait" /\ job' = Call("user", op)
    /\ clean' = (clean /\ op = "clear")
    /\ UNCHANGED <<stored, screen, spawned, kept, loose, file, world, cut, unapplied>>

(* Without the permission the query throws; its cursor may be null.        *)
ReadContacts ==
    /\ job # None /\ job.at = "contacts"
    /\ \/ ~granted /\ Finish("red") /\ UNCHANGED left
       \/ /\ granted
          /\ \/ /\ UNCHANGED left
                /\ job' = [job EXCEPT !.at = "read", !.nums = readE164Numbers(contacts)]
             \/ Spend /\ job' = [job EXCEPT !.at = "read"]
          /\ UNCHANGED shown
    /\ UNCHANGED <<stored, screen, spawned, kept, loose, file, world, histories>>

Target == IF job.op = "sync" THEN computeTarget(file, job.nums)
          ELSE clearedTarget(file)

(* store.read, parse and the comparison: nothing read, or bytes that parse *)
(* throws at, and the call is over.                                        *)
ReadFile ==
    /\ job # None /\ job.at = "read"
    /\ \/ ~Readable(file) /\ Finish("red") /\ UNCHANGED <<left, clean>>
       \/ Spend /\ Finish("red") /\ UNCHANGED clean
       \/ /\ Readable(file) /\ UNCHANGED left
          /\ LET target == Target
             IN IF target = file
                THEN Finish("green") /\ Settled
                ELSE /\ job' = [job EXCEPT !.at = "ask", !.target = target]
                     /\ UNCHANGED <<shown, clean>>
    /\ UNCHANGED <<stored, screen, spawned, kept, loose, file, world, cut, unapplied>>

(* CallStateGuard.runWhenIdle.  Since Android 12 telephony throws without  *)
(* READ_PHONE_STATE, as it does at a registration too many.                *)
(* Mutant: no callback is registered.                                      *)
RunWhenIdleAtOnce ==
    /\ job # None /\ job.at = "ask"
    /\ IF inCall THEN Finish("green")
       ELSE job' = [job EXCEPT !.at = "write"] /\ UNCHANGED shown
    /\ UNCHANGED <<stored, screen, spawned, kept, loose, file, world, left, histories>>
RunWhenIdle ==
    /\ job # None /\ job.at = "ask"
    /\ \/ ~inCall /\ job' = [job EXCEPT !.at = "write"] /\ UNCHANGED <<kept, shown, left>>
       \/ inCall /\ kept' = kept \cup {job.target} /\ Finish("green") /\ UNCHANGED left
       \/ ~phone /\ Finish("red") /\ UNCHANGED <<kept, left>>
       \/ inCall /\ Spend /\ Finish("red") /\ UNCHANGED kept
    /\ UNCHANGED <<stored, screen, spawned, loose, file, world, histories>>

(* A write that fails, or is cut off.                                      *)
Fails(target) ==
    /\ Spend
    /\ \/ UNCHANGED <<file, cut>>
       \/ file' \in Parts(target) /\ cut' = TRUE

Write ==
    /\ job # None /\ job.at = "write"
    /\ \/ /\ file' = job.target
          /\ Finish("green") /\ Settled /\ UNCHANGED <<left, cut>>
       \/ inCall /\ Finish("red") /\ UNCHANGED <<file, left, cut, clean>>
       \/ Fails(job.target) /\ Finish("red") /\ UNCHANGED clean
    /\ UNCHANGED <<stored, screen, spawned, kept, loose, world, unapplied>>

(* A deferred write when the call has ended; its result is lost, also when *)
(* the next call began before the script's look.                           *)
(* Mutant: the action is tried again at the end of every call.             *)
DeliverAgain(t) ==
    /\ t \in kept /\ ~inCall
    /\ file' = t
    /\ UNCHANGED <<stored, screen, spawned, job, kept, loose, shown, world, left, histories>>
Deliver(t) ==
    /\ t \in kept /\ ~inCall
    /\ kept' = kept \ {t}
    /\ \/ file' = t /\ UNCHANGED <<left, cut, inCall>>
       \/ Spend /\ inCall' = TRUE /\ UNCHANGED <<file, cut>>
       \/ Fails(t) /\ UNCHANGED inCall
    /\ UNCHANGED <<stored, screen, spawned, job, loose, shown, contacts, granted,
                   phone, unapplied, clean>>

(* What a script of a process that is gone still does, some time or never. *)
OrphanEnds(t) ==
    /\ t \in loose /\ loose' = loose \ {t}
    /\ \/ file' \in {file, t} /\ UNCHANGED <<left, cut>>
       \/ Fails(t)
    /\ UNCHANGED <<stored, screen, spawned, job, kept, shown, world, unapplied, clean>>

-----------------------------------------------------------------------------
(* People and telephony.                                                   *)

Grant ==
    /\ \/ ~granted /\ granted' = TRUE /\ observing' = ui /\ UNCHANGED phone
       \/ ~phone /\ phone' = TRUE /\ UNCHANGED <<granted, observing>>
    /\ UNCHANGED <<stored, ui, timers, spawned, job, kept, loose, shown, file, contacts,
                   inCall, left, histories>>

CallBegins ==
    /\ ~inCall /\ Spend /\ inCall' = TRUE
    /\ UNCHANGED <<stored, screen, spawned, job, kept, loose, shown, file, contacts,
                   granted, phone, histories>>
CallEnds ==
    /\ inCall /\ inCall' = FALSE
    /\ UNCHANGED <<stored, screen, spawned, job, kept, loose, shown, file, contacts,
                   granted, phone, left, histories>>

JobStep == ReadContacts \/ ReadFile \/ RunWhenIdle \/ Write

Next ==
    \/ Open \/ Close \/ Flush \/ Enqueue
    \/ \E m \in Interval \cup {Never} : ChooseInterval(m)
    \/ ContactsChange \/ \E t \in timers : DebounceRuns(t)
    \/ WorkDue \/ \E c \in spawned : Start(c)
    \/ \E op \in {"sync", "clear"} : Tap(op)
    \/ JobStep \/ \E t \in kept : Deliver(t)
    \/ \E t \in loose : OrphanEnds(t)
    \/ ProcessDies \/ Revoke \/ Boot \/ Grant \/ CallBegins \/ CallEnds

(* Threads run, WorkManager runs what is scheduled, calls end, and a call  *)
(* of Syncer comes to an answer: one of its steps can always be taken and  *)
(* it has at most four, so this is weak fairness of JobStep.               *)
Fairness ==
    /\ []<>(job = None) /\ WF_vars(WorkDue) /\ WF_vars(CallEnds)
    /\ \A c \in Caller : WF_vars(Start(c))
    /\ WF_vars(\E t \in kept : Deliver(t))

Spec == Init /\ [][Next]_vars /\ Fairness

-----------------------------------------------------------------------------
(* Properties.                                                             *)

TypeOK ==
    /\ {pref, disk, sched} \subseteq Interval \cup {Never}
    /\ want \in Interval \cup {Never, None}
    /\ {ui, observing, granted, phone, inCall, cut, unapplied, clean} \subseteq BOOLEAN
    /\ observing => ui /\ granted
    /\ timers \subseteq {"own", "others"} /\ ("own" \in timers => ui)
    /\ spawned \subseteq Caller \ {"user", "gone"}
    /\ job # None =>
          /\ job.by \in Caller /\ job.op \in {"sync", "clear"}
          /\ job.at \in {"contacts", "read", "ask", "write"}
          /\ job.at = "contacts" => job.op = "sync"
    /\ shown \in {"none", "wait", "red", "green"} /\ (shown # "none" => ui)
    /\ contacts \in Book /\ left \in 0..MaxEvents

(* A sync of any file the app can meet changes nothing but the numbers and *)
(* the toggles, keeps every other field in its order, and a second sync    *)
(* finds nothing to do: the dialer is not killed again and again           *)
(* (SettingsProtoCodec.kt:49-72, SyncEngine.kt:33).                        *)
Exact(f, nums) ==
    LET g     == computeTarget(f, nums)
        other == withClearedNumbers(parse(g))
        olds  == withClearedNumbers(parse(f))
    IN /\ g # <<>> => Selected(g) = nums /\ computeTarget(g, nums) = g
       /\ DOMAIN other = DOMAIN olds
       /\ \A i \in DOMAIN olds :
             \/ other[i] = olds[i]
             \/ /\ olds[i].num \in {NonContact, SetOnce}
                /\ other[i] = [olds[i] EXCEPT !.varint = 1]
AllExact(f) ==
    Readable(f) => \A rows \in Book : Exact(f, readE164Numbers(rows))
SyncIsExact == AllExact(file) /\ [][file' # file => AllExact(file')]_vars

(* The file becomes one that no later sync or clear can read only when a   *)
(* write was cut off or the list was all that it held (SyncEngine.kt:29,   *)
(* SettingsProtoCodec.kt:62): an empty message reads as no file.           *)
StuckHasACause ==
    [][file' # file /\ Readable(file) /\ ~Readable(file') =>
         \/ cut'
         \/ file' = <<>> /\ withClearedNumbers(parse(file)) = <<>>]_vars

(* While the screen is there and WorkManager has done what it was asked,   *)
(* the job in force is the stored interval's; so it is without a screen,   *)
(* unless the process died between the two (MainActivity.kt:43, 75).       *)
ScheduleIsStored ==
    want = None /\ (ui \/ ~unapplied) => sched = pref

(* "turn it off, Clear, and the list stays empty" (DESIGN), as far as it   *)
(* goes: when no thread had passed its look at the interval, no write was  *)
(* kept and no script of a process that died was left, nothing refills the *)
(* list, late timers and jobs included (SyncWorker.kt:19,                  *)
(* ContactsObserver.kt:12).                                                *)
ClearHoldsUnlessLate == clean => Selected(file) = <<>>

(* A green answer means the list is as asked, or will be when the call     *)
(* ends, or that somebody else had the lock (MainActivity.kt:149-161).     *)
GreenHasACause ==
    [][shown = "wait" /\ shown' = "green" =>
         \/ job # None /\ job' = job
         \/ Selected(file') = job.nums
         \/ inCall /\ kept' # {}]_vars

(* The persistent trigger: if from some time on auto-sync is on, its job   *)
(* scheduled, contacts and call state may be read and the file is one that *)
(* parses, the list is the contacts' in the end and stays it, whatever     *)
(* syncs failed, were skipped, deferred or lost before                     *)
(* (SyncWorker.kt:11-16, 23; CallStateGuard.kt:14-18).                     *)
Converges ==
    <>[](pref > 0 /\ sched # Never /\ granted /\ phone /\ Readable(file))
    => <>[](Selected(file) = readE164Numbers(contacts))
=============================================================================
