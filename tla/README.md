# TLA+ models of gcallrecorder

gcallrecorder is an Android app with two halves. An LSPosed module is loaded
into Google Dialer, finds obfuscated methods of it in its dex files (a native
library does the search) and hooks them so that calls can be recorded and the
announcement is silent. An ordinary app mirrors the phone's contacts into the
dialer's "always record" list by killing the dialer and rewriting its settings
file as root. This directory holds TLA+ models of both halves, TLC runs over
small instances and TLAPS proofs.

Paths of source files are given without
`app/src/main/java/io/github/mexus/gcallrecorder/` when they are Kotlin or Java
and without `app/src/main/jni/` when they are C++.

## Inventory

| Part | State | Operations | Talks to |
|---|---|---|---|
| `RootWriter` | none of its own; the settings file, its `.bak`, the dialer's process | `hasRoot`, `writeProto` (one root script) | `su`, telephony's dump, the dialer |
| `CallStateGuard` | registered callbacks, each with a captured action | `isCallActive`, `runWhenIdle` | telephony, the main looper |
| `SyncEngine` | per call: target, `ran`, `result` | `computeTarget`, `sync`, `clear` | `ProtoStore` (RootWriter), `Idler` (CallStateGuard) |
| `Syncer` | `running` flag, the interval preference | `syncNow`, `clear` | ContactsReader, SyncEngine |
| Triggers: `SyncWorker`, `SyncScheduler`, `ContactsObserver`, `BootReceiver`, `MainActivity` | the interval in memory and on disk, WorkManager's schedule, the debounce timer, the result on the screen | periodic work, debounced change, boot, buttons, spinner | Syncer, from threads of their own |
| `SettingsProtoCodec`, `PhoneNumbers`, `ContactsReader` | none (pure) | parse, build, `with...`, normalisation | SyncEngine |
| `Module`, `SilentAudio` | the installed hooks; the clips on the device | `onPackageReady` and the hooks | LSPosed, DexHelper, text-to-speech |
| `DexHelper` (Java, `wrapper.cc`, `dex_helper.cc`) | per dex file: string, method, field and class indices, caches of searches | `findMethodUsingString`, `findMethodInvoking`, ..., `encode...`, `decode...`, `createFullCache`, `close` | slicer, ART |
| slicer (`dex_helper/slicer`) | an intermediate representation of a dex file | Reader, IR, Writer, bytecode, LEB128, hash table | the mapped file |

What is hard about it:

* **Threads.** `syncNow` and `clear` run on threads of the UI, the observer, the
  worker and the boot receiver; a deferred write runs on the main thread and
  holds no lock; the root script is a process of its own beside the dialer and
  the telephony stack, and outlives the app's process or dies with it.
* **Order.** A call may begin after every check; a call may end between the
  check and the registration of the callback; IDLE deliveries queue up; the
  target is computed before the wait and written after it.
* **Failure.** Every command of the script may fail, the script may be cut off
  between truncating and writing the file, the process may die with actions
  registered, the query of the contacts may throw or return nothing.
* **Caches.** DexHelper answers from caches that are filled in the order of the
  questions, and translates between ids of several dex files.
* **Foreign input.** Every release of the dialer brings other dex files, loaded
  in other ways, in which data may look like code; the settings file is written
  by another program.
* **Installation.** Every step of the hooks' installation may find nothing or
  throw, and what was hooked before stays; the speech engine answers later,
  or refuses.
* **Schedules.** The interval, its copy on disk and WorkManager's job are three
  states that change at different times; a trigger that fires while another
  one is at work is dropped.

What makes each part correct, and the properties that say so, is in the tables
of runs below; `PROJECT.json` lists the hazards with their lines.

## Modules

```
Idler  <-- implemented by --  CallStateGuard --+
                                               +--> SyncEngine
                              RootWriter ------+     (one sync, in detail)

SettingsCodec --> Triggers       (who starts a sync and what comes of all of them)

DexLoad --+
CodeWalk -+--> Installation      (the dialer's process from its start)
Hooks ----+
DexHelper                        (the questions, in any order)
```

**RootWriter.tla** is `RootWriter.kt`. `pc[w]` is the next command of the
script that thread `w` started: `root` (hasRoot), `check` (dumpsys), `stop`,
`probe`, `restop` (the kill loop, `tries` counting its rounds), `confirm`
(STILL_ALIVE), `copy` (stat, cp), `open` (the shell's `>`), `write` (base64 -d),
`chown` (chown, restorecon, echo OK), `done` with `res[w]` the WriteResult.
Beside it run calls (`call`), the dialer (`alive`, and `cache`, its DataStore's
copy), other scripts, the death of the app (`AppDies`: each root script dies
with it or goes on) and power loss. Contents of the file are opaque; `Empty`
and `Garbled` are what a truncated or half-written file holds. `clash`, `late`,
`revived` and `hurt` record which window something slipped through; only
`clash` is read by a step (two descriptors on one file, or a file the dialer
replaced, make the last write come out as either or as a mix).

**Idler.tla** is the interface of `SyncEngine.kt:4`, as its caller relies on it:
run at once, keep or refuse by an exception, and what is kept runs some day.

**CallStateGuard.tla** is `CallStateGuard.kt`. Between `isCallActive` (`Defer`)
and the registration (`Register`) the call may end. A delivery passes through
`inflight` (telephony has sent it) and `mainQ` (posted to the main executor)
before `Deliver`, which is `onCallStateChanged`: unregister, then run. The
`PhoneStateListener` form takes the same steps. Deliveries of other states do
nothing and are left out. Telephony may throw, at the look at the call and at
the registration (no `READ_PHONE_STATE`, a registration too many): `Refuse`,
with the action neither run nor kept. Telephony's rules (a registration delivers the
present state; a change goes to those registered) are external: they are what
the code's "check, then register" relies on.

**SyncEngine.tla** composes the two with `Syncer` and `SyncEngine.apply`. A
thread goes `idle` → `contacts` → `read` → `ask` → `write` or `register` →
`answer` → `release` → `idle`, every early return and exception going to
`release` (the `finally`; `TelephonyThrows` is the one of the guard). A `Job` is one action with its captured variables: `target`, `ran`
and `result`. The main thread is one more writer of RootWriter. `Seen(j)` is
what the caller may see of the unsynchronised captured variables: the old or
the new value of each. A job is used once; `Job` bounds how many writes a
behaviour contains. `asked` is a history of the last clear for `ClearHolds` and
`ClearSticks`. After a process death a thread's orphaned script has to end
before that thread starts another one (it overlaps the scripts of the others):
a bound of the model.

**SettingsCodec.tla** is `SettingsProtoCodec.kt` on bytes: `parse` and `build`
with their varints, lengths and wire types, `Garbled` for every place where
Kotlin throws, and the three edits of the field list. A phone number is one
byte; `PhoneNumbers` and `ContactsReader` are in `readE164Numbers` (the
normalized column, else the formatted number, else nothing; sorted, each once).

**Triggers.tla** EXTENDS it. Here a sync is coarse, `contacts` → `read` →
`ask` → `write` of the one `job` that holds the lock, and the triggers are
fine: `WorkDue` (`SyncWorker`), `ContactsChange` and `DebounceRuns`
(`ContactsObserver`), `Boot`, `Tap`, `Open`, `Close`, `ChooseInterval`
(`MainActivity`), `Enqueue` (WorkManager doing what it was asked), `Flush`
(`SharedPreferences.apply` reaching the disk). `spawned` holds threads that
have passed their look at the interval and are not yet in `Syncer`; `kept` the
targets of deferred writes; `shown` the colour of the answer on the screen.
A write succeeds, fails, or is cut off (`Parts`); the process dies, loses
`READ_CONTACTS` (the query throws) or `READ_PHONE_STATE` (`RunWhenIdle` throws),
or the phone restarts. A script whose process dies goes on: its target is in
`loose` until the script ends (`OrphanEnds`), beside whatever the next process
does. `cut`, `unapplied` and `clean` are histories.

**DexHelper.tla** is `dex_helper.cc` with the native methods of `wrapper.cc`.
A dex file is a record of tables, ids are positions (from 1), and the code of a
method is the sequence of the instructions that `ScanMethod` looks at. A
question (`Ask`, one action per native method) visits the dex files of its
priority list; in each it is passed by, answered from a cache
(`AnswerFromCache`), or scans methods of the right shape one by one
(`ScanNext`) until it has enough (`Enough`) and then collects; `Emit` turns each
id into an index. `methodIdx`, `classIdx` and `fieldIdx` are the index tables;
the `rev_..._indices_` are their inverses. `invoking_cache_` holds what the code
of a scanned method says and is read off the code. Bit patterns, offsets and the
`unordered_map`s are abstracted.

**DexLoad.tla** is `load` of `wrapper.cc` with `ZipFile` and the slicer's
header checks. `BeginLoad` is `JNI_OnLoad` (what it looks up and what happens
without), `LoadElement` one turn of the loop over `dexElements`: the images of
the cookie from the last to the first, or the zip or raw file when the cookie
has an oat file or a compact dex file; `MakeHandler` the readers. A failed
`SLICER_CHECK` aborts in a build without `NDEBUG` (`checked`); with it the
check is gone, and an image whose tables do not lie within it (`Contained`)
becomes `garbage`: a search may then answer anything or fault.

**CodeWalk.tla** is the walk over a method's code units, twice:
`DexHelper::ScanMethod` with its own table of lengths, and the slicer's
`ParseInstructions` with widths from formats and `DecodeInstruction`. The app
runs the first; the second is the reference that the first has to agree with.

**Hooks.tla** is `Module.java` and `SilentAudio.java`. `pc` and `next` say
where `onPackageReady` is: `load` (the DexHelper), `tts` (`hookPublicTts`),
`search` number `next` of `Wanted`, `close`. A search finds nothing, a method,
or something that makes `decodeMethodIndex`, the cast or `hook` throw, or it
takes the process with it (`SearchFaults`). Then calls: the dialer makes the clip of its locale when it has none
(`EngineAccepts`, `EngineRefuses`, `EngineFinishes`, `SilenceFile` the hook's
write after `proceed`), keeps it on the device and plays it. The dialer and the
engine are external, modelled from what the hooks assume of them.

**Installation.tla** composes the three: a device, its dex files loaded step by
step, each search answered by `findByString` from the code units that
`ScanMethod` walks and decoded by `decodeMethodIndex`, then calls, deaths and
restarts of the dialer. It asks `DexHelper`'s questions in the one order that
`Module.java` asks them, for which the caches do not matter (every search for a
first hit scans each method of its shape); the `dex` run is about all orders.
With an image whose tables lie outside it, any search answers any method, none,
something that throws, or faults: `Answers`, where `Garbled` bounds the methods
for TLC (the theorems are for every set of them).

## Runs

| Run | Shows | Bounds |
|---|---|---|
| `rw_two_scripts` | kill-first, fail-closed, honest `Ok`, causes of damage | 2 scripts, 2 contents, 1 extra kill round; symmetric in both |
| `rw_in_call` (violation) | the dialer is killed in a call that began after the check | 1 script, 3 rounds |
| `guard` | no missed wake-up, lifetime of a registration, implements `Idler` | 3 actions, a queue of 3 |
| `guard_once` (violation) | an action runs twice | 3 actions |
| `sync_two_threads` | the lock, who may overlap whom, a clear that holds | 2 threads and the main thread, 2 writes, 1 number, no faults |
| `sync_faults` | `running` is set only by a call under way, whatever throws, fails or dies; every call returns, deferred writes run | 1 thread and the main thread, 1 write, a queue of 1 |
| `sync_clear_sticks` (violation) | a kept sync undoes a clear | 1 thread, 2 writes |
| `sync_not_run` (violation) | "not run" for a write that runs | 1 thread, 1 write |
| `triggers` | the schedule follows the interval, a clear holds unless something was late, a sync touches nothing else and is idempotent, what leaves an unreadable file, what a green answer means, the list becomes the contacts' | 2 contacts tables, 1 interval and Never, 2 first files, `MaxEvents` = 2 |
| `installation` | fail-safe, hooks only where the source refers to the string (where the images can be read), causes of every miss, no dex file twice, the two walks agree, forced recordings add no speech, completion, an end | 15 devices, 2 locales, every set of native gates and clips; 1 method for `Garbled`, and no native gate on that device |
| `dex` | caches and index tables agree with the code whatever was asked before, answers are right, a miss has one of its causes, indices decode back, the same question gets the same answer | 2 dex files, 6 methods, 9 questions of every kind |
| `dex_shape` (violation) | an index decodes to another overload than the one found | the same |

Why the bounds are enough:

* Two scripts are the most that meet on purpose (one of a thread, one of the
  main thread), each command is one step so every interleaving of two is
  explored, and one round of the kill loop beside the first force-stop already
  distinguishes "gone", "comes back and is killed" and "comes back for good".
  Two contents tell a script's own bytes from another's.
* Two IDLEs in the queue are what a double run needs, and the third action is a
  bystander. Two writes are what a stale target needs: one kept, one in between.
* The two passing runs of `SyncEngine` look at states without `bak`, `late`,
  `revived` and `hurt` (VIEW `Present`): no step and none of their properties
  reads them. `sync_faults` leaves `asked` out as well (`Bare`), which only the
  properties on clears read. It has one call at a time, so it says nothing of two
  scripts that overlap; `sync_two_threads` does.
* `triggers`: events (`MaxEvents`) are what people, telephony and faults do:
  an interval chosen, contacts changed, a button, a call, a registration that
  throws, a failed write, a permission taken back, a death. Everything that
  follows from them is unbounded. Two of them are what the races need: one to
  begin something, one that meets it. The two contacts tables have rows of every kind; one first file has the list in two pieces
  around a toggle that is one in two bytes, and a toggle after it, the other
  nothing but a list. `Parts` cuts to nothing, and in the middle of the list.
* `installation`: the devices are the ways an image comes about (memory, zip
  with stored, deflated, streamed, damaged, missing and doubled entries, raw
  file, compact dex, null elements), the ways it is no image (with and without
  `NDEBUG`), missing reflection, and the shapes of code that matter: switch
  tables, array data and wide constants that read like `const-string`,
  polymorphic calls, overloads, an abstract method, the renamed geofence,
  a missing `Map`. The run visits every one with every set of native gates.
* The device with an image outside its tables has no native gate and one locale
  in the run (`MCSpec`), since its searches branch: each may answer the method of
  the readable dex file, none, one that refers to nothing, throw, or fault.
* `DexHelper`'s run has no bound on the number of questions: caches and tables
  are finite, and the state space closes. Its image has what the searches tell
  apart: overloads, a method of the same name in another class, a caller that
  calls twice, a method that one dex file only refers to, a prefix that sorts
  last.

Fairness: a thread, the main thread and a root script go on as long as they
can (the scheduler is fair, every command ends, `su` is not left unanswered);
posted deliveries arrive. Nothing makes a call end in `SyncEngine`:
`EveryCallReturns` must hold although calls last for ever, and
`DeferredWritesRun` says "if no call lasts for ever" itself. `Idler` is
implemented with calls that end. In `Triggers` calls end (`WF CallEnds`),
started threads get to `Syncer` and a job comes to its answer
(`[]<>(job = None)`, which is weak fairness of its at most four steps and what
`EveryCallReturns` shows of them), deferred writes are delivered, and
WorkManager runs a job that stays scheduled, as its periodic work promises.
Nothing makes people or the process do anything; `Flush`, `Enqueue` and the
debounce timer have no fairness, so `Converges` rests on the persistent trigger
alone, and only asks for convergence when the interval is on, the job
scheduled, both permissions given and the file one that parses, from some time
on. `OrphanEnds` has no fairness either: a script may hang for ever, or end late.
What a late one undoes, the next period mends. In `Installation` the thread of the installation goes on, and the dialer's
process is started; the fairness of `Install` is written out with its
enabledness ("not idle, done or died"), which spares TLC the enumeration of
every answer in every state.

### Where code and documents disagree

* `rw_in_call`: README.md:43 promises that the dialer is never force-stopped
  during a call. The script looks at the call state once and kills up to 21
  times over some seconds. `KillsOnlyAfterIdleCheck` is what does hold.
* `guard_once`: "run once" holds for one delivery. IDLEs already posted are
  handled after `unregister`, and nothing remembers the first.
* `sync_clear_sticks`: the design says that with auto-sync off a clear sticks.
  A sync that was deferred earlier still writes its old target. `ClearHolds`
  and `ClearHoldsUnlessLate` are what does hold.
* `sync_not_run`: `ran` and `result` are written by the main thread in that
  order and read by the caller's thread in that order, so a write in progress
  may be reported as `Failed("not run")`.
* `dex_shape`: a method found by a string may come back as another overload
  that does not reference it, since overloads with the same number of
  parameters share an index.

Met while modelling and not kept as runs of their own. The models contain the
behaviour, and the passing properties are worded so as to allow it:

* `OK` is answered without the re-read that the design's line 108 promises.
* The result of a deferred write is read by nobody, so one that meets the next
  call is dropped although the UI said "will sync once it ends". A stale target
  also puts back other settings of the dialer, and kills the dialer for bytes
  that are already there.
* `SyncWorker` reports success whatever came of the sync, so WorkManager does
  not retry before the next period; a busy `Skipped` is shown as "Already up to
  date"; the observer's run is dropped when `Syncer` is busy. The periodic job
  mends all three (`Converges`).
* Without `READ_PHONE_STATE` nothing is written at all, with the contacts
  readable or not: the look at the call throws, on Android 12 and later, in every
  sync and clear that has something to write. The screen says so in red; the
  worker reports success (`Converges` asks for the permission).
* FindPrefixStringId finds nothing when the strings with the prefix are the last
  of the table, and an index that `findField` made from a later dex file finds no
  getters and setters in the earlier ones (`Lost`).
* A query of the contacts that answers no cursor reads as no contacts, and the
  list is emptied.
* `withTogglesOn` sets toggles that are in the file and adds none.
* A clear of a file that held nothing but the list leaves an empty file, which
  reads as no file from then on: no sync finds anything to do again until the
  dialer writes one (`StuckHasACause`). A file that was cut off may also parse,
  with fewer fields.
* An interval that was chosen just before the process died may be lost, while
  the job made from it stays, until a screen or a boot puts it right
  (`ScheduleIsStored`).
* Module.java:48 logs "recording disabled" when a search throws although gates
  hooked before stay forced open; they are silenced (`FailSafe`).
* The contingency hooks (Module.java:110-125) are not best effort: a method
  that cannot be hooked there ends the installation before any gate is tried.
* README.md:33 says that the announcement is never audible. A clip that was
  spoken before the module came, for the locale that is used, is played as it
  is; what holds is `NoSpeechIsMade`. And a silent clip stays on the device and
  is played after the module is off.
* A list of shorty `Z` matches only methods without parameters, so the search
  for `produceIsCallInAutoRecordContactsList` finds none with any, although it
  says that it does not filter by their number.
* A type that no dex file names filters nothing as a return type or drops the
  rest of the list as a parameter; for the locale's search a missing `Map`
  empties the answer.

## Proofs

`RootWriterProofs` proves for any set of scripts, any contents and any bound of
the kill loop: the type invariant; `KillsOnlyAfterIdleCheck`;
`WritesOnlyAfterDeath`; `OkMeansWritten`; `DamageHasACause`. The safety
invariants are proved together as one inductive invariant with two
strengthenings. `RoundsLeft` says that a script about to kill again still has
a round (without it `tries` leaves its type). `WrittenStays` says that from the
last byte to the answer, not only at the answer, the file holds the script's
bytes unless someone else changed it; `OkMeansWritten` is the instance at
`done` and is not inductive alone. The proof has one step per action.

`CallStateGuardProofs` proves for any set of actions the type invariant,
`NoWakeupMissed` (with the two facts on sequences that the queue needs),
`RegisteredUntilRun`, and that every step of the guard is a step of `Idler` or
a stutter, from an initial state that maps to an initial state.

`SyncEngineProofs` proves for any threads, jobs and numbers and, but for the
last, under every fault:

* `OneHolder`, from `LockInv`, which needs only the threads' places and the flag.
* `ScriptsOverlapOnlyDeferred`, from `OverlapInv`, which says of each thread
  which job and which script belong to its place (`Waits`, `MainWaits`, and
  `Kept` for a job in the queue): that is what makes "the script writes its own
  job's target" inductive.
* `EngineIsRootWriter`: every step of the app is a step of `RootWriter` or leaves
  its state alone. It needs `WholeInv`, that what a thread writes is one of
  `RootWriter`'s payloads.
* `EngineWritesSafely`: so the four safety properties of `RootWriter` hold of the
  scripts in the app, with deferred writes, orphans and restarts around them. The
  theorems are those of `RootWriterProofs`, taken over by INSTANCE.
* `EngineIsTyped`: the scripts' types come the same way, the rest is its own.
* `ClearedStaysEmpty`, from `ClearInv`, where neither the dialer writes the file
  nor the process dies; contacts, scripts and power may fail as they like.
  "A cleared setting stays empty" is far from inductive: a write may be in
  flight anywhere. While a clear is asked for and nothing but clears came since
  (`Settled`), every target held by a thread, a callback or the queue is empty
  (`EmptyTargets`), and a reason to believe in the clear (`Reasons`: a script
  past its `open`, an `Ok` in a job, an answer) means that the file has no
  numbers (`Drained`).

`TriggersProofs` proves for any intervals, files, contacts and events the type
invariant and `ScheduleIsStored`. The latter is not inductive alone:
`AskedIsStored` adds that what WorkManager was asked for last is the stored
interval. For any settings file and contacts table it proves the four properties
that depend on what the codec computes, each from facts of the next section:

* `SyncsAreExact`: `SyncIsExact`. `FileInv` says that the file is bytes, and that
  what is under way to it (deferred, or in the job) are bytes that `parse` accepts
  and that hold the numbers asked for. The rest is what `computeTarget` makes of
  any bytes.
* `OnlyCutsStick`: `StuckHasACause`. A target is computed from an older file than
  the one it replaces, so the property is not about one step; `StuckInv` adds
  that until a write is cut off everything under way has as many other settings
  as the file. Then a target without any comes from a file without any.
* `ClearHolds`: `ClearHoldsUnlessLate`. `CleanInv` says that after such a clear
  the interval is Never, no thread is past its look at it, the job in `Syncer` is
  a clear, and nothing kept holds a number. A clear may still be cut off, and
  `NoNumbersBegins` is what is needed then: a beginning of bytes without numbers
  has none, or does not parse.
* `GreenIsEarned`: `GreenHasACause`, from `FileInv` and the steps that answer.

`SettingsCodecProofs` is about `SettingsCodec` alone, for all bytes and all lists
of fields:

* `CodecRoundTrips`: what `build` writes, `parse` reads back, up to what `build`
  does not write (`Plains`: the varint of a field with bytes). Underneath are
  varints of any size, at any place in the bytes (`At`), one field, and the walk
  of `parse`, each by induction on a number (a value, a distance to the end, a
  number of fields).
* `SyncReads`, `SyncLists`, `SyncTwice`: after a sync the list is exactly the
  numbers asked for, the other fields are in their order and differ in toggles
  only, and a second sync writes the same bytes. The edits are expressed by
  `Image` and `Kept` (map and filter of a list), which commute with
  concatenation and with each other; `PlaceIs` and `InsertAgain` say that the
  numbers go back to where they are.
* `ClearLists`, `EmptyFile`: a clear leaves no number, and every other field.
* `WalkBegins`: a beginning of a file, as a write that was cut off leaves it,
  reads as a beginning of its fields, or not at all.

That a recursive function has a value is proved once for each (`WriteExists`,
`ReadExists`, `WalkExists`) with `SetInduction` of `Lemmas`. A number or length
that Kotlin cuts to an `Int` is outside these theorems as it is outside the model.

`InstallationProofs` proves of the hooks alone, for any methods and locales, the
type invariant, `FailSafe`, `NoSpeechIsMade` and `SomeoneCompletes`. The
invariant is `Silence`: `Order` (nothing is hooked before the searches, and the
third search is made only in silence), `FailSafe`, and `Announcement` (what the
engine has to write belongs to the call under way and is silent where the hook
is). The lemmas on the steps are about `AnyNext`, which leaves open what a
search answers.

For the whole process, on every device and with every dex file, it proves:

* `InstallationImplementsHooks`: `Spec => HooksSpec`. The loading, the walk over
  the code and the decoding only ever give answers that the hooks allow for,
  because what is decoded is a method of an image that was loaded. The types and
  the three properties follow from it or in the same way.
* `HooksReferToTheirStrings`: `HooksAreReferenced`, from `LoadInv` (what is read
  is on the device), `MethodStringsAgree`, what `Decoded` chooses, and `Outside`
  (only an image with tables outside it cannot be read, so there is none on a
  device that has none). Without that condition it is false: a search of such an
  image may answer any method. `FailSafe` and `NoSpeechIsMade` hold there too.
* `MissesHaveACause`: `MissHasACause`. It needs two facts that grow along the
  installation: `LoadDone` (of each element looked at, every dex file that can be
  had is among the images: the lemmas on `Open`, `Find`, `Classes`, `InMemory` and
  `FromFile`) and `Searched` (each string looked for so far is hooked, or no
  image has it, or some image is unreadable). `InstallInv` is all of them.
* `NoDexIsReadTwice`: `NoDexTwice`. The invariant is `ReadOnce`: the images read
  so far differ in their dex files (during the loading too, and not only once
  there is a token), and each comes from an element already passed, so the next
  element adds none of them. Within an element `ImagesOfIsApart` has it: the
  images of the cookie, or those of the file and never both, and two of
  `classes.dex`, `classes2.dex`, ... are never one entry of the zip file, because
  an entry is found under its own name.
* `WalksAgree`: `WalkersAgree`.

The first section of `InstallationProofs` is about `CodeWalk` alone, for every code whose payload headers
do not stick out (`IsCode`, which holds of code that ART's verifier accepts): the
two tables agree on all 256 opcodes; the two walks begin instructions at the
same positions; at each they take the same string; so the scan of a method finds
exactly the strings that the parser finds. That `Visits` is the same follows
from the two step functions being equal, without induction.

The same for fields (`FieldsAgree`); of the methods the scan finds called each is
one that the parser finds (`CallsAreParsed`), and not the other way round: the
scan passes polymorphic calls by.

`DexHelperProofs` proves every invariant of the run `dex` for every image and
every sequence of questions, encodings, full scans and closings. None of them is
inductive alone; `AllInv` has them together:

* `CacheInv` and `IndexInv` give `CachesAreScans` and `MethodIndexIsAName`: a
  caller is scanned at the id that an index gives, so the caches need the table's
  rows to hold ids of their files, and the index in a question under way has to
  stay in the table (`AskedInv`).
* `NamesInv` says of the tables of classes and of fields that every row is the
  row of one name from some dex file on, and that two rows are never of one name.
  That a field's row may begin late and yet no second row is made for the same
  field is `IndicesDecodeBack`; the argument is on families of candidates
  (`IsFamily`: sets of ids that are disjoint for different names).
* `AskInv` follows a question through the dex files: `Shaped` has the types and
  what each `pc` means for `todo`, `pending` and `hits`; `Asking` says that what
  is answered is right, and for a search for all that what can be reached
  (`Reached`) is answered, pending or in a file still to visit; `AtDex` says the
  same of the file under way (what is scanned, why the scan stops). `Reached` is
  said with the row of the index, as the code looks at it, and `Right` with the
  name that the index stands for, from the image alone. `ReachedOrLost` joins
  them: what is right is reached or `Lost`. It needs that the row of a class
  covers every dex file (`WholeRows`; a field's may begin late, which is one of
  the losses), and that strings are sorted, so that the ids between the first and
  the last string with a prefix are those with it. `AnswersAreRight` and `MissHasACause` follow.
* `FirstInv` and `ToldInv` say of a first search for a string that no file before
  the one answered from has any, and that the answer is the head of what the
  cache of that file holds. As caches only grow at their ends (`CachesGrow`), the
  head of a cache that is not empty stays what it is: `SameAnswerAgain`.

`Lemmas` has what these proofs share: least and greatest members of sets of
numbers, ranges of sequences, `Reverse`, and `FlattenSeq`, whose elements, head
and length are found by induction, as is that it repeats nothing. The library's induction theorems take an
operator as parameter and cannot be used; `SetInduction` states induction with
the set of the numbers that have the property in place of the operator, and is
proved from the well-foundedness of `<`.

Assumptions are those the modules name, and each is about the constants alone:

| Assumption | Why the code or its surroundings justify it |
|---|---|
| `ContentsDiffer`, `FilesDiffer`, `EditsArePayloads` | Markers (no file, empty, damaged, not loaded) are no contents, and the dialer saves whole messages. |
| `KillBound`, `BacklogBound`, `Bounds` | The bounds of the models are positive; the proofs are for all of them. |
| `NoneIsNoJob`, `NoneIsNoInterval`, `MainIsNoThread`, `FaultsKnown` | Names for "nothing", the main looper and the kinds of faults. |
| `IntervalsArePositive`, `EventsAreBounded` | `INTERVAL_MINUTES`, and a bound of the model. |
| `FilesAreBytes`, `NumbersAreBytes`, `GarbledIsNothingRead` | A settings file is any sequence of bytes; a number is one byte here, and "none" is no number; "parse throws" is no result of it. |
| `LocalesAreNamed` | The module knows the US locale. |
| `DevicesAreTyped`, `DexFilesAreTyped` | What a path element, a zip entry, a dex file and a method consist of. |
| `DexesAreInOnePlace` | A dex file is known by its place: one element of the path, at most once in its cookie and at most once in its zip file (a name may occur twice there, with another file each). Two elements that name one file would have it read twice, and rightly so. |
| `CodeIsOfTheSource` | The code is what ART's verifier accepts (`IsCode`: payload headers do not stick out, string ids are in the table), and "the source refers to a string" means that an instruction of the format does. |
| `ImageIsWellFormed` | Tables have lengths, the code mentions ids of its own file, and a dex file has each string and each type once, as the format demands. |
| `StringsAreSorted` | The strings of a dex file are in order, as the format demands: those with a prefix lie together. |
| `GarbledIsHookable` | What the search of an unreadable image may find is a method. |
| `QuestionsAreTyped` | Orders are lists of dex files, and contained types are given: -1 there would be read as an index (`dex_helper.cc:303`). |
| `MarksAreNoIds` | `kNoIndex`, -1 and -2 are no ids. |

Only model-checked:

* Liveness (`EveryCallReturns`, `DeferredWritesRun`, `Converges`,
  `InstallationEnds`, the fairness half of `IsAnIdler`), which needs ENABLED.
* The violations: they are counterexamples on their instances.

## Not modelled

* The slicer's writer, `dex_ir` and the reader's intermediate representation:
  vendored from AOSP, compiled in and called by nothing in the app, which makes
  a `Reader` and asks it for tables only. `ParseInstructions` is modelled as a
  reference for the scan. Together these are most of the lines that the models
  do not cover.
* JNI references and class loading and reflection of `decode...`: a library
  whose outcome (a method, a constructor, something that throws) is an input.
  The spelling of descriptors and the bytes of tables in a dex file.
* Labels, colours and permissions' dialogs of the screen, its root probe and the
  intent to the settings: they keep no state.
* Owner, mode and SELinux label of the settings file, which no property needs.
* The wrap of an array payload's size at 2^32, which both walks share. Varints are
  numbers of any size: a damaged settings file with a length or field number from
  2^31 on, which the code cuts to an `Int`, is read differently here.
* Layout, resources, strings, the manifest and the Gradle files: no behaviour of
  their own.

## What is left

* In `Triggers` a deferred write is one step, in `SyncEngine` it is the whole
  script beside another thread's; only a script that outlives its process is
  spread over time in both.
* `Triggers` and `SyncEngine` are connected by argument and not by a refinement:
  a `job` of the one is what the other says a thread may do between the lock
  and the answer. An abstract `Syncer` that both implement would say it in TLA+.
* If the app comes to use the reader's intermediate representation, its
  placeholders for types that refer to each other and its hash table.
