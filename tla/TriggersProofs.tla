---------------------------- MODULE TriggersProofs ----------------------------
(* The stored interval and the schedule made from it, for any intervals,   *)
(* files and contacts and any number of events.                            *)
EXTENDS Triggers, SettingsCodecProofs

(* What was asked of WorkManager last is the stored interval, as long as   *)
(* the two are said to agree.                                              *)
AskedIsStored == want # None /\ (ui \/ ~unapplied) => want = pref

ScheduleInv ==
    /\ pref \in Interval \cup {Never} /\ disk \in Interval \cup {Never}
    /\ AskedIsStored /\ ScheduleIsStored

Schedule == <<stored, ui, unapplied>>

(* The process is gone: no screen, and the interval is the disk's.         *)
LEMMA GonePartsThem ==
  ASSUME ScheduleInv, pref' = disk, ui' = FALSE, UNCHANGED <<disk, sched>>,
         \/ /\ want' = None
            /\ unapplied' = (unapplied \/ pref # disk \/ want # None)
         \/ want' = disk
  PROVE  ScheduleInv'
  <1> USE NoneIsNoInterval DEF ScheduleInv, AskedIsStored, ScheduleIsStored
  <1>1. CASE want' = disk
    BY <1>1
  <1>2. CASE want' = None /\ unapplied' = (unapplied \/ pref # disk \/ want # None)
    <2>1. ~unapplied' => ~unapplied /\ pref = disk /\ want = None
      BY <1>2
    <2> QED  BY <1>2, <2>1
  <1> QED  BY <1>1, <1>2

LEMMA ScheduleStep == ScheduleInv /\ [Next]_vars => ScheduleInv'
  <1> SUFFICES ASSUME ScheduleInv, [Next]_vars PROVE ScheduleInv'
    OBVIOUS
  <1>1. ASSUME UNCHANGED Schedule PROVE ScheduleInv'
    BY <1>1 DEF Schedule, stored, ScheduleInv, AskedIsStored, ScheduleIsStored
  <1>2. CASE Open
    BY <1>2, NoneIsNoInterval DEF Open, ScheduleInv, AskedIsStored, ScheduleIsStored
  <1>3. CASE Close
    BY <1>3 DEF Close, stored, histories, ScheduleInv, AskedIsStored, ScheduleIsStored
  <1>4. ASSUME NEW m \in Interval \cup {Never}, ChooseInterval(m) PROVE ScheduleInv'
    BY <1>4, NoneIsNoInterval
       DEF ChooseInterval, screen, ScheduleInv, AskedIsStored, ScheduleIsStored
  <1>5. CASE Flush
    BY <1>5 DEF Flush, screen, histories, ScheduleInv, AskedIsStored, ScheduleIsStored
  <1>6. CASE Enqueue
    BY <1>6 DEF Enqueue, screen, histories, ScheduleInv, AskedIsStored, ScheduleIsStored
  <1>7. ASSUME NEW t \in timers, DebounceRuns(t) PROVE UNCHANGED Schedule
    BY <1>7 DEF DebounceRuns, Schedule, stored, histories
  <1>8. ContactsChange \/ WorkDue \/ Grant \/ CallBegins \/ CallEnds => UNCHANGED Schedule
    BY DEF ContactsChange, WorkDue, Grant, CallBegins, CallEnds, Schedule, stored, screen,
           histories
  <1>9. ASSUME NEW c \in spawned, Start(c) PROVE UNCHANGED Schedule
    BY <1>9 DEF Start, Schedule, stored, screen, histories
  <1>10. ASSUME NEW op \in {"sync", "clear"}, Tap(op) PROVE UNCHANGED Schedule
    BY <1>10 DEF Tap, Schedule, stored, screen
  <1>11. JobStep => UNCHANGED Schedule
    BY DEF JobStep, ReadContacts, ReadFile, RunWhenIdle, Write, Schedule, stored, screen,
           histories
  <1>12. ASSUME NEW t \in kept, Deliver(t) PROVE UNCHANGED Schedule
    BY <1>12 DEF Deliver, Schedule, stored, screen
  <1>17. ASSUME NEW t \in loose, OrphanEnds(t) PROVE UNCHANGED Schedule
    BY <1>17 DEF OrphanEnds, Schedule, stored, screen
  <1>13. CASE ProcessDies
    BY <1>13, GonePartsThem DEF ProcessDies, Restart
  <1>14. CASE Revoke
    BY <1>14, GonePartsThem DEF Revoke, Restart
  <1>15. CASE Boot
    <2>1. want' = disk \/ (want' = None
             /\ unapplied' = (unapplied \/ pref # disk \/ want # None))
      BY <1>15 DEF Boot
    <2> QED  BY <1>15, <2>1, GonePartsThem DEF Boot, Restart
  <1>16. UNCHANGED vars => UNCHANGED Schedule
    BY DEF vars, Schedule, screen, histories
  <1> QED  BY <1>1, <1>2, <1>3, <1>4, <1>5, <1>6, <1>7, <1>8, <1>9, <1>10, <1>11, <1>12,
              <1>13, <1>14, <1>15, <1>16, <1>17 DEF Next

(* The job in force is the stored interval's whenever a screen is there or *)
(* a schedule was made since they parted, whatever dies between the two    *)
(* (MainActivity.kt:43, 75; SyncWorker.kt:34-47).                          *)
THEOREM ScheduleFollows == Spec => []ScheduleIsStored
  <1>1. Init => ScheduleInv
    BY DEF Init, ScheduleInv, AskedIsStored, ScheduleIsStored
  <1>2. ScheduleInv => ScheduleIsStored
    BY DEF ScheduleInv
  <1> QED  BY <1>1, <1>2, ScheduleStep, PTL DEF Spec

-----------------------------------------------------------------------------
(* Type correctness.  A tap's call is the screen's only while there is a   *)
(* screen: without that the colour of an answer would have no place to be. *)
ScreenTypes ==
    /\ ui \in BOOLEAN /\ observing \in BOOLEAN /\ granted \in BOOLEAN /\ phone \in BOOLEAN
    /\ observing => ui /\ granted
    /\ timers \subseteq {"own", "others"} /\ ("own" \in timers => ui)
    /\ spawned \subseteq Caller \ {"user", "gone"}
StoredTypes ==
    /\ pref \in Interval \cup {Never} /\ disk \in Interval \cup {Never}
    /\ sched \in Interval \cup {Never} /\ want \in Interval \cup {Never, None}
    /\ inCall \in BOOLEAN /\ cut \in BOOLEAN /\ unapplied \in BOOLEAN /\ clean \in BOOLEAN
    /\ contacts \in Book /\ left \in 0..MaxEvents
IsCall(j) ==
    /\ j = [by |-> j.by, op |-> j.op, at |-> j.at, nums |-> j.nums, target |-> j.target]
    /\ j.by \in Caller /\ j.op \in {"sync", "clear"}
    /\ j.at \in {"contacts", "read", "ask", "write"}
    /\ j.at = "contacts" => j.op = "sync"
JobTypes ==
    /\ job # None => IsCall(job) /\ (job.by = "user" => ui)
    /\ shown \in {"none", "wait", "red", "green"} /\ (shown # "none" => ui)
TypeInv == ScreenTypes /\ StoredTypes /\ JobTypes

LEMMA TypeInit == Init => TypeInv
  <1> SUFFICES ASSUME Init PROVE TypeInv
    OBVIOUS
  <1>1. ScreenTypes
    BY DEF Init, ScreenTypes
  <1>2. left \in 0..MaxEvents
    BY EventsAreBounded DEF Init
  <1>3. StoredTypes
    BY <1>2 DEF Init, StoredTypes
  <1>4. JobTypes
    BY DEF Init, JobTypes
  <1> QED  BY <1>1, <1>3, <1>4 DEF TypeInv

LEMMA ScreenStep == TypeInv /\ [Next]_vars => ScreenTypes'
  <1> SUFFICES ASSUME TypeInv, [Next]_vars PROVE ScreenTypes'
    OBVIOUS
  <1> USE DEF TypeInv, ScreenTypes, Caller
  <1>1. CASE Open  BY <1>1 DEF Open, world
  <1>2. CASE Close  BY <1>2 DEF Close, world
  <1>3. Flush \/ Enqueue \/ (\E m \in Interval \cup {Never} : ChooseInterval(m))
        \/ (\E op \in {"sync", "clear"} : Tap(op)) \/ JobStep
        \/ (\E t \in kept : Deliver(t)) \/ (\E t \in loose : OrphanEnds(t))
        \/ CallBegins \/ CallEnds \/ UNCHANGED vars
        => UNCHANGED <<screen, granted, phone, spawned>>
    BY DEF Flush, Enqueue, ChooseInterval, Tap, JobStep, ReadContacts, ReadFile,
           RunWhenIdle, Write, Deliver, OrphanEnds, CallBegins, CallEnds, vars, world
  <1>4. UNCHANGED <<screen, granted, phone, spawned>> => ScreenTypes'
    BY DEF screen
  <1>5. CASE ContactsChange  BY <1>5 DEF ContactsChange
  <1>6. ASSUME NEW t \in timers, DebounceRuns(t) PROVE ScreenTypes'
    BY <1>6 DEF DebounceRuns, world
  <1>7. CASE WorkDue  BY <1>7 DEF WorkDue, screen, world
  <1>8. ASSUME NEW c \in spawned, Start(c) PROVE ScreenTypes'
    BY <1>8 DEF Start, screen, world
  <1>9. CASE ProcessDies  BY <1>9 DEF ProcessDies, Restart, world
  <1>10. CASE Revoke  BY <1>10 DEF Revoke, Restart
  <1>11. CASE Boot  BY <1>11 DEF Boot, Restart
  <1>12. CASE Grant
    <2>1. granted' \in BOOLEAN /\ phone' \in BOOLEAN /\ UNCHANGED <<ui, timers, spawned>>
      BY <1>12 DEF Grant
    <2>2. observing' \in BOOLEAN /\ (observing' => ui' /\ granted')
      BY <1>12 DEF Grant
    <2> QED  BY <2>1, <2>2
  <1> QED  BY <1>1, <1>2, <1>3, <1>4, <1>5, <1>6, <1>7, <1>8, <1>9, <1>10, <1>11, <1>12
           DEF Next

LEMMA SpendStays ==
  ASSUME left \in 0..MaxEvents, Spend
  PROVE  left' \in 0..MaxEvents
  BY EventsAreBounded DEF Spend

LEMMA StoredStep == TypeInv /\ [Next]_vars => StoredTypes'
  <1> SUFFICES ASSUME TypeInv, [Next]_vars PROVE StoredTypes'
    OBVIOUS
  <1>0. left \in 0..MaxEvents
    BY DEF TypeInv, StoredTypes
  <1> USE <1>0, SpendStays DEF TypeInv, StoredTypes, stored, world, histories
  <1>1. CASE Open  BY <1>1 DEF Open
  <1>2. CASE Close  BY <1>2 DEF Close
  <1>3. CASE Flush  BY <1>3 DEF Flush
  <1>4. CASE Enqueue  BY <1>4 DEF Enqueue
  <1>5. ASSUME NEW m \in Interval \cup {Never}, ChooseInterval(m) PROVE StoredTypes'
    BY <1>5 DEF ChooseInterval
  <1>6. ASSUME NEW op \in {"sync", "clear"}, Tap(op) PROVE StoredTypes'
    BY <1>6 DEF Tap
  <1>7. CASE ReadContacts  BY <1>7 DEF ReadContacts
  <1>8. CASE ReadFile
    <2>1. clean' \in BOOLEAN
      BY <1>8 DEF ReadFile, Settled
    <2>2. left' \in 0..MaxEvents
      BY <1>8 DEF ReadFile
    <2> QED  BY <1>8, <2>1, <2>2 DEF ReadFile
  <1>9. CASE RunWhenIdle  BY <1>9 DEF RunWhenIdle
  <1>10. CASE Write
    <2>1. clean' \in BOOLEAN /\ cut' \in BOOLEAN
      BY <1>10 DEF Write, Settled, Fails
    <2>2. left' \in 0..MaxEvents
      BY <1>10 DEF Write, Fails
    <2> QED  BY <1>10, <2>1, <2>2 DEF Write
  <1>11. ASSUME NEW t \in kept, Deliver(t) PROVE StoredTypes'
    BY <1>11 DEF Deliver, Fails
  <1>12. CASE CallBegins  BY <1>12 DEF CallBegins
  <1>13. CASE CallEnds  BY <1>13 DEF CallEnds
  <1>14. CASE ContactsChange  BY <1>14 DEF ContactsChange
  <1>15. ASSUME NEW t \in timers, DebounceRuns(t) PROVE StoredTypes'
    BY <1>15 DEF DebounceRuns
  <1>16. CASE WorkDue  BY <1>16 DEF WorkDue
  <1>17. ASSUME NEW c \in spawned, Start(c) PROVE StoredTypes'
    BY <1>17 DEF Start
  <1>18. CASE ProcessDies  BY <1>18 DEF ProcessDies, Restart
  <1>19. CASE Revoke  BY <1>19 DEF Revoke, Restart
  <1>20. CASE Boot  BY <1>20 DEF Boot, Restart
  <1>21. CASE Grant  BY <1>21 DEF Grant
  <1>22. CASE UNCHANGED vars  BY <1>22 DEF vars
  <1>23. ASSUME NEW t \in loose, OrphanEnds(t) PROVE StoredTypes'
    BY <1>23 DEF OrphanEnds, Fails
  <1> QED  BY <1>1, <1>2, <1>3, <1>4, <1>5, <1>6, <1>7, <1>8, <1>9, <1>10, <1>11, <1>12,
              <1>13, <1>14, <1>15, <1>16, <1>17, <1>18, <1>19, <1>20, <1>21, <1>22, <1>23
           DEF Next, JobStep

(* A call that has just been made, and one that ends.                      *)
LEMMA FreshCall ==
  ASSUME NEW by \in Caller, NEW op \in {"sync", "clear"}
  PROVE  IsCall(Call(by, op)) /\ Call(by, op).by = by
  BY DEF IsCall, Call

LEMMA FinishIsTyped ==
  ASSUME JobTypes, job # None, ui' = ui, NEW colour \in {"red", "green"}, Finish(colour)
  PROVE  JobTypes'
  BY DEF JobTypes, Finish

LEMMA JobMovesOn ==
  ASSUME JobTypes, job # None, ui' = ui, shown' = shown, job.at = "contacts" => job.op = "sync",
         IsCall(job'), job'.by = job.by
  PROVE  JobTypes'
  BY DEF JobTypes

LEMMA JobStepIsTyped == TypeInv /\ JobStep => JobTypes'
  <1> SUFFICES ASSUME TypeInv, JobStep PROVE JobTypes'
    OBVIOUS
  <1>1. job # None /\ JobTypes /\ IsCall(job) /\ ui' = ui
    BY DEF TypeInv, JobTypes, JobStep, ReadContacts, ReadFile, RunWhenIdle, Write, screen
  <1>2. \A l \in {"read", "ask", "write"} :
            job' = [job EXCEPT !.at = l] => IsCall(job') /\ job'.by = job.by
    BY <1>1 DEF IsCall
  <1>3. CASE ReadContacts
    <2>1. CASE Finish("red")  BY <1>1, <2>1, FinishIsTyped
    <2>2. CASE shown' = shown /\ job' = [job EXCEPT !.at = "read"]
      BY <1>1, <1>2, <2>2 DEF JobTypes
    <2>3. CASE shown' = shown
               /\ job' = [job EXCEPT !.at = "read", !.nums = readE164Numbers(contacts)]
      <3>1. IsCall(job') /\ job'.by = job.by
        BY <1>1, <2>3 DEF IsCall
      <3> QED  BY <1>1, <2>3, <3>1 DEF JobTypes
    <2> QED  BY <1>3, <2>1, <2>2, <2>3 DEF ReadContacts
  <1>4. CASE ReadFile
    <2>1. CASE Finish("red") \/ Finish("green")  BY <1>1, <2>1, FinishIsTyped
    <2>2. CASE shown' = shown /\ job' = [job EXCEPT !.at = "ask", !.target = Target]
      <3>1. IsCall(job') /\ job'.by = job.by
        BY <1>1, <2>2 DEF IsCall
      <3> QED  BY <1>1, <2>2, <3>1 DEF JobTypes
    <2> QED  BY <1>4, <2>1, <2>2 DEF ReadFile
  <1>5. CASE RunWhenIdle
    <2>1. CASE Finish("green") \/ Finish("red")  BY <1>1, <2>1, FinishIsTyped
    <2>2. CASE shown' = shown /\ job' = [job EXCEPT !.at = "write"]
      BY <1>1, <1>2, <2>2 DEF JobTypes
    <2> QED  BY <1>5, <2>1, <2>2 DEF RunWhenIdle
  <1>6. CASE Write
    BY <1>1, <1>6, FinishIsTyped DEF Write
  <1> QED  BY <1>3, <1>4, <1>5, <1>6 DEF JobStep

LEMMA JobTypesStep == TypeInv /\ [Next]_vars => JobTypes'
  <1> SUFFICES ASSUME TypeInv, [Next]_vars PROVE JobTypes'
    OBVIOUS
  <1>0. JobTypes /\ spawned \subseteq Caller \ {"user", "gone"}
    BY DEF TypeInv, ScreenTypes
  <1>1. CASE Open
    BY <1>0, <1>1 DEF Open, JobTypes
  <1>2. CASE Close
    <2>1. shown' = "none" /\ ui' = FALSE
      BY <1>2 DEF Close
    <2>2. CASE job # None /\ job.by = "user"
      <3>1. job' = [job EXCEPT !.by = "gone"]
        BY <1>2, <2>2 DEF Close
      <3>2. IsCall(job') /\ job'.by = "gone"
        BY <1>0, <2>2, <3>1 DEF JobTypes, IsCall, Caller
      <3> QED  BY <2>1, <3>2 DEF JobTypes
    <2>3. CASE ~(job # None /\ job.by = "user")
      <3>1. job' = job
        BY <1>2, <2>3 DEF Close
      <3> QED  BY <1>0, <2>1, <2>3, <3>1 DEF JobTypes
    <2> QED  BY <2>2, <2>3
  <1>3. ASSUME NEW c \in spawned, Start(c) PROVE JobTypes'
    <2>1. c \in Caller \ {"user", "gone"} /\ shown' = shown /\ ui' = ui
      BY <1>0, <1>3 DEF Start, screen
    <2>2. job' = job \/ job' = Call(c, "sync")
      BY <1>3 DEF Start
    <2> QED  BY <1>0, <2>1, <2>2, FreshCall DEF JobTypes
  <1>4. ASSUME NEW op \in {"sync", "clear"}, Tap(op) PROVE JobTypes'
    <2>1. ui /\ ui' = ui /\ shown' \in {"green", "wait"}
      BY <1>4 DEF Tap, screen
    <2>2. job' = job \/ job' = Call("user", op)
      BY <1>4 DEF Tap
    <2> QED  BY <1>0, <2>1, <2>2, FreshCall DEF JobTypes, Caller
  <1>5. ProcessDies \/ Revoke \/ Boot => job' = None /\ shown' = "none"
    BY DEF ProcessDies, Revoke, Boot, Restart
  <1>6. job' = None /\ shown' = "none" => JobTypes'
    BY DEF JobTypes
  <1>7. Flush \/ Enqueue \/ (\E m \in Interval \cup {Never} : ChooseInterval(m))
        \/ ContactsChange \/ (\E t \in timers : DebounceRuns(t)) \/ WorkDue
        \/ (\E t \in kept : Deliver(t)) \/ (\E t \in loose : OrphanEnds(t))
        \/ Grant \/ CallBegins \/ CallEnds \/ UNCHANGED vars
        => UNCHANGED <<ui, job, shown>>
    BY DEF Flush, Enqueue, ChooseInterval, ContactsChange, DebounceRuns, WorkDue, Deliver,
           OrphanEnds, Grant, CallBegins, CallEnds, vars, screen
  <1>8. UNCHANGED <<ui, job, shown>> => JobTypes'
    BY <1>0 DEF JobTypes
  <1> QED  BY <1>1, <1>2, <1>3, <1>4, <1>5, <1>6, <1>7, <1>8, JobStepIsTyped DEF Next

(* Type correctness for any intervals, files, contacts and events; among   *)
(* it that an observer is registered only while the activity exists and    *)
(* may read contacts, and that an answer is shown only on a screen         *)
(* (MainActivity.kt:54-63, 136-146, 170-173).                              *)
THEOREM TriggersAreTyped == Spec => []TypeOK
  <1>1. TypeInv /\ [Next]_vars => TypeInv'
    BY ScreenStep, StoredStep, JobTypesStep DEF TypeInv
  <1>2. TypeInv => TypeOK
    BY DEF TypeInv, ScreenTypes, StoredTypes, JobTypes, IsCall, TypeOK
  <1> QED  BY TypeInit, <1>1, <1>2, PTL DEF Spec

-----------------------------------------------------------------------------
(* What a sync and a clear of any readable file make of it.                *)
Good(t) == t \in Seq(Byte) /\ parse(t) # Garbled
OthersIn(f) == Len(withClearedNumbers(parse(f)))

LEMMA GoodIsSelected ==
  ASSUME NEW t, Good(t)
  PROVE  Selected(t) = selectedNumbers(parse(t))
  BY EmptyFile DEF Good, Selected, Readable

LEMMA SyncTarget ==
  ASSUME NEW f \in Seq(Byte), Readable(f), NEW nums \in Seq(Seq(Byte))
  PROVE  LET t == computeTarget(f, nums)
         IN Good(t) /\ Selected(t) = nums /\ OthersIn(t) = OthersIn(f)
  <1> DEFINE t == computeTarget(f, nums)
             D == Field
             F == SettledOf
             k == withClearedNumbers(parse(f))
  <1>1. parse(f) # Garbled
    BY DEF Readable
  <1>2. Good(t) /\ parse(f) \in Seq(Field)
    BY <1>1, SyncReads DEF Good
  <1>3. selectedNumbers(parse(t)) = nums /\ withClearedNumbers(parse(t)) = Image(F, k)
    BY <1>1, SyncLists
  <1>4. IsList(k, D) /\ Maps(F, D, D)
    BY <1>2, ClearedIs, KeptConcat, SettledIs DEF IsList
  <1> HIDE DEF t, F, D, k
  <1>5. Len(Image(F, k)) = Len(k)
    <2>1. IsImage(Image(F, k), F, k, D, D)
      BY <1>4, ImageIs
    <2> QED  BY <2>1 DEF IsImage
  <1> QED  BY <1>2, <1>3, <1>5, GoodIsSelected DEF OthersIn, t, k

LEMMA ClearTarget ==
  ASSUME NEW f \in Seq(Byte), Readable(f)
  PROVE  LET t == clearedTarget(f)
         IN Good(t) /\ Selected(t) = <<>> /\ OthersIn(t) = OthersIn(f)
  <1> DEFINE t == clearedTarget(f)
  <1>1. parse(f) # Garbled
    BY DEF Readable
  <1>2. /\ t \in Seq(Byte) /\ parse(t) # Garbled /\ selectedNumbers(parse(t)) = <<>>
        /\ withClearedNumbers(parse(t)) = withClearedNumbers(parse(f))
    BY <1>1, ClearLists
  <1> HIDE DEF t
  <1> QED  BY <1>2, GoodIsSelected DEF Good, OthersIn, t

LEMMA SyncExactly ==
  ASSUME NEW f \in Seq(Byte), Readable(f), NEW nums \in Seq(Seq(Byte))
  PROVE  Exact(f, nums)
  <1> DEFINE g == computeTarget(f, nums)
             D == PlainField
             F == SettledOf
             p == parse(f)
             k == withClearedNumbers(p)
             other == withClearedNumbers(parse(g))
  <1>1. p # Garbled
    BY DEF Readable
  <1>2. Selected(g) = nums
    BY SyncTarget
  <1>3. computeTarget(g, nums) = g
    BY <1>1, SyncTwice
  <1>4. p \in Seq(PlainField) /\ p \in Seq(Field)
    BY <1>1, SyncReads
  <1>5. other = Image(F, k)
    BY <1>1, SyncLists
  <1>6. k \in Seq(Field) /\ Range(k) = Range(p) \cap Others
    BY <1>4, ClearedIs, KeptConcat, KeptAreKept
  <1>7. \A i \in DOMAIN k : k[i] \in D
    <2>1. Range(p) \subseteq D
      <3> HIDE DEF D, p
      <3> QED  BY <1>4 DEF Range, D
    <2>2. \A i \in DOMAIN k : k[i] \in Range(k)
      <3> HIDE DEF k
      <3> QED  BY DEF Range
    <2> QED  BY <1>6, <2>1, <2>2
  <1> HIDE DEF g, k, p
  <1>8. DOMAIN other = DOMAIN k /\ \A i \in DOMAIN k : other[i] = F[k[i]]
    BY <1>5 DEF Image
  <1>9. \A i \in DOMAIN k :
           \/ other[i] = k[i]
           \/ /\ k[i].num \in {NonContact, SetOnce}
              /\ other[i] = [k[i] EXCEPT !.varint = 1]
    BY <1>7, <1>8, SettledPlain
  <1> HIDE DEF other
  <1> QED  BY <1>2, <1>3, <1>8, <1>9 DEF Exact, g, k, p, other

-----------------------------------------------------------------------------
(* The numbers of a table of contacts: the one of each rank exists.        *)
LEMMA BytesAreFinite ==
  ASSUME NEW S, S \subseteq Byte
  PROVE  IsFiniteSet(S) /\ Cardinality(S) \in Nat
  <1>1. 0 \in Int /\ 255 \in Int
    OBVIOUS
  <1>2. IsFiniteSet(0..255)
    BY <1>1, FS_Interval
  <1> QED  BY <1>2, FS_Subset, FS_CardinalityType DEF Byte

LEMMA RanksExist ==
  ASSUME NEW S, S \subseteq Byte, NEW i \in 1..Cardinality(S)
  PROVE  \E x \in S : Cardinality({y \in S : y <= x}) = i
  <1> DEFINE R(X, j) == \E x \in X : Cardinality({y \in X : y <= x}) = j
             T == {n \in Nat : \A X \in SUBSET Byte : Cardinality(X) = n => \A j \in 1..n : R(X, j)}
  <1>0. ASSUME NEW X \in SUBSET Byte PROVE IsFiniteSet(X) /\ Cardinality(X) \in Nat
    BY BytesAreFinite
  <1>1. 0 \in T
    OBVIOUS
  <1>2. ASSUME NEW n \in Nat, n \in T PROVE n + 1 \in T
    <2> SUFFICES ASSUME NEW X \in SUBSET Byte, Cardinality(X) = n + 1, NEW j \in 1..(n + 1)
                 PROVE  R(X, j)
      <3> HIDE DEF R
      <3> QED  OBVIOUS
    <2> DEFINE m == Max(X)
               Y == X \ {m}
    <2>1. m \in X /\ (\A y \in X : y <= m) /\ \A y \in X : y \in Int
      <3>1. X \subseteq 0..255 /\ X # {} /\ 255 \in Nat
        <4>1. Cardinality({}) = 0
          BY FS_EmptySet
        <4> QED  BY <4>1 DEF Byte
      <3>2. m \in X /\ \A y \in X : y <= m
        BY <3>1, GreatestOf
      <3> QED  BY <3>1, <3>2
    <2> HIDE DEF m
    <2>2. Y \in SUBSET Byte /\ Cardinality(Y) = n
      <3>1. IsFiniteSet(X) /\ m \in X
        BY <1>0, <2>1
      <3>2. Cardinality(X \ {m}) = Cardinality(X) - 1
        BY <3>1, FS_RemoveElement
      <3> QED  BY <3>2
    <2>3. CASE j = n + 1
      <3>1. {y \in X : y <= m} = X
        BY <2>1
      <3> QED  BY <2>1, <2>3, <3>1
    <2>4. CASE j # n + 1
      <3>1. j \in 1..n
        BY <2>4
      <3>2. PICK x \in Y : Cardinality({y \in Y : y <= x}) = j
        BY <1>2, <2>2, <3>1
      <3>3. {y \in X : y <= x} = {y \in Y : y <= x}
        BY <2>1
      <3> QED  BY <3>2, <3>3
    <2> QED  BY <2>3, <2>4
  <1> HIDE DEF T, R
  <1>3. Cardinality(S) \in T
    BY <1>0, <1>1, <1>2, SetInduction
  <1>4. R(S, i)
    BY <1>3 DEF T
  <1> QED  BY <1>4 DEF R

LEMMA NumbersAreRead ==
  ASSUME NEW rows \in Book
  PROVE  readE164Numbers(rows) \in Seq(Seq(Byte))
  <1> DEFINE found == {NumberOf(r) : r \in rows} \ {None}
             rank(x) == Cardinality({y \in found : y <= x})
             at(i) == CHOOSE x \in found : rank(x) = i
             n == Cardinality(found)
             B == Byte
  <1>1. found \subseteq B
    <2> SUFFICES ASSUME NEW r \in rows, NumberOf(r) # None PROVE NumberOf(r) \in B
      OBVIOUS
    <2> HIDE DEF B
    <2>1. r \in [norm : B \cup {None}, e164 : B \cup {None}]
      BY NumbersAreBytes DEF B
    <2> QED  BY <2>1 DEF NumberOf
  <1>2. n \in Nat
    <2> HIDE DEF found
    <2> QED  BY <1>1, BytesAreFinite
  <1>3. \A i \in 1..n : at(i) \in B
    <2> HIDE DEF found
    <2>1. \A i \in 1..n : \E x \in found : rank(x) = i
      BY <1>1, RanksExist
    <2> QED  BY <1>1, <2>1
  <1>4. readE164Numbers(rows) = [i \in 1..n |-> <<at(i)>>]
    BY DEF readE164Numbers
  <1> HIDE DEF n, at, B
  <1>5. \A i \in 1..n : <<at(i)>> \in Seq(B)
    BY <1>3
  <1> DEFINE Q == Seq(B)
             h(i) == <<at(i)>>
  <1>6. \A i \in 1..n : h(i) \in Q
    BY <1>5
  <1> HIDE DEF Q, h
  <1>7. [i \in 1..n |-> h(i)] \in Seq(Q)
    BY <1>2, <1>6
  <1> QED  BY <1>4, <1>7 DEF Q, B, h

-----------------------------------------------------------------------------
(* What a step does to the file, to the deferred writes and to the call.   *)
UnderWay ==
    kept \cup loose \cup (IF job # None /\ job.at \in {"ask", "write"} THEN {job.target} ELSE {})

FileMoves ==
    /\ cut => cut'
    /\ \/ file' = file
       \/ \E t \in UnderWay : file' = t \/ (file' \in Parts(t) /\ cut')

JobMoves ==
    \/ job' = None \/ job' = job
    \/ job # None /\ job' = [job EXCEPT !.by = "gone"]
    \/ \E c \in Caller, op \in {"sync", "clear"} : job' = Call(c, op)
    \/ /\ job # None /\ job.at = "contacts"
       /\ \/ job' = [job EXCEPT !.at = "read"]
          \/ job' = [job EXCEPT !.at = "read", !.nums = readE164Numbers(contacts)]
    \/ /\ job # None /\ job.at = "read" /\ Readable(file) /\ file' = file
       /\ job' = [job EXCEPT !.at = "ask", !.target = Target]
    \/ job # None /\ job.at = "ask" /\ job' = [job EXCEPT !.at = "write"]

Moves == FileMoves /\ kept' \cup loose' \subseteq UnderWay /\ JobMoves

LEMMA WhatMoves == TypeInv /\ [Next]_vars => Moves
  <1> SUFFICES ASSUME TypeInv, [Next]_vars PROVE Moves
    OBVIOUS
  <1> USE DEF Moves, FileMoves, JobMoves, UnderWay
  <1>0. spawned \subseteq Caller /\ "user" \in Caller
    BY DEF TypeInv, ScreenTypes, Caller
  <1>1. Open \/ Flush \/ Enqueue \/ (\E m \in Interval \cup {Never} : ChooseInterval(m))
        \/ ContactsChange \/ (\E t \in timers : DebounceRuns(t)) \/ WorkDue
        \/ Grant \/ CallBegins \/ CallEnds \/ UNCHANGED vars
        => UNCHANGED <<file, kept, loose, job, cut>>
    BY DEF Open, Flush, Enqueue, ChooseInterval, ContactsChange, DebounceRuns, WorkDue,
           Grant, CallBegins, CallEnds, vars, histories
  <1>2. UNCHANGED <<file, kept, loose, job, cut>> => Moves
    OBVIOUS
  <1>3. CASE Close
    BY <1>3 DEF Close, histories
  <1>4. ASSUME NEW c \in spawned, Start(c) PROVE Moves
    <2>1. UNCHANGED <<file, kept, loose, cut>> /\ (job' = job \/ job' = Call(c, "sync"))
      BY <1>4 DEF Start, histories
    <2> QED  BY <1>0, <2>1
  <1>5. ASSUME NEW op \in {"sync", "clear"}, Tap(op) PROVE Moves
    <2>1. UNCHANGED <<file, kept, loose, cut>> /\ (job' = job \/ job' = Call("user", op))
      BY <1>5 DEF Tap
    <2> QED  BY <1>0, <2>1
  <1>6. CASE ReadContacts
    BY <1>6 DEF ReadContacts, Finish, histories
  <1>7. CASE ReadFile
    BY <1>7 DEF ReadFile, Finish
  <1>8. CASE RunWhenIdle
    <2>1. UNCHANGED <<file, loose, cut>> /\ job # None /\ job.at = "ask"
      BY <1>8 DEF RunWhenIdle, histories
    <2>2. kept' = kept \/ kept' = kept \cup {job.target}
      BY <1>8 DEF RunWhenIdle
    <2>3. job' = None \/ job' = [job EXCEPT !.at = "write"]
      BY <1>8 DEF RunWhenIdle, Finish
    <2> QED  BY <2>1, <2>2, <2>3
  <1>9. CASE Write
    <2>1. job' = None /\ UNCHANGED <<kept, loose>> /\ job # None /\ job.at = "write"
      BY <1>9 DEF Write, Finish
    <2>2. \/ file' = job.target /\ cut' = cut
          \/ file' = file /\ cut' = cut
          \/ file' \in Parts(job.target) /\ cut'
      BY <1>9 DEF Write, Fails
    <2> QED  BY <2>1, <2>2
  <1>10. ASSUME NEW t \in kept, Deliver(t) PROVE Moves
    <2>1. job' = job /\ kept' = kept \ {t} /\ loose' = loose
      BY <1>10 DEF Deliver
    <2>2. \/ file' = t /\ cut' = cut
          \/ file' = file /\ cut' = cut
          \/ file' \in Parts(t) /\ cut'
      BY <1>10 DEF Deliver, Fails
    <2> QED  BY <2>1, <2>2
  <1>14. ASSUME NEW t \in loose, OrphanEnds(t) PROVE Moves
    <2>1. job' = job /\ kept' = kept /\ loose' = loose \ {t}
      BY <1>14 DEF OrphanEnds
    <2>2. \/ file' = t /\ cut' = cut
          \/ file' = file /\ cut' = cut
          \/ file' \in Parts(t) /\ cut'
      BY <1>14 DEF OrphanEnds, Fails
    <2> QED  BY <2>1, <2>2
  <1>15. CallScript \cup UNION KeptScripts \subseteq UnderWay
    BY DEF CallScript, KeptScripts
  <1>11. ProcessDies \/ Revoke
         => job' = None /\ kept' = {} /\ cut' = cut /\ file' = file /\ ScriptsGoOn
    BY DEF ProcessDies, Revoke, Restart
  <1>12. CASE ProcessDies \/ Revoke
    <2>1. PICK begun \in {{}} \cup KeptScripts : loose' = loose \cup CallScript \cup begun
      BY <1>11, <1>12 DEF ScriptsGoOn
    <2>2. loose' \subseteq UnderWay
      BY <1>15, <2>1
    <2> QED  BY <1>11, <1>12, <2>2
  <1>13. CASE Boot
    <2>1. job' = None /\ kept' = {} /\ loose' = {}
      BY <1>13 DEF Boot, Restart
    <2>2. \/ file' = file /\ cut' = cut
          \/ \E t \in loose \cup CallScript \cup UNION KeptScripts :
                file' \in Parts(t) /\ cut'
      BY <1>13 DEF Boot
    <2>3. loose \cup CallScript \cup UNION KeptScripts \subseteq UnderWay
      BY <1>15
    <2> HIDE DEF UnderWay
    <2> QED  BY <2>1, <2>2, <2>3
  <1> QED  BY <1>1, <1>2, <1>3, <1>4, <1>5, <1>6, <1>7, <1>8, <1>9, <1>10, <1>12, <1>13,
              <1>14
           DEF Next, JobStep

(* The file is bytes; what is under way to it are bytes that parse, with   *)
(* the numbers that were asked for.                                        *)
JobData(j) ==
    j # None =>
        /\ j.nums \in Seq(Seq(Byte)) /\ (j.op = "clear" => j.nums = <<>>)
        /\ j.at \in {"ask", "write"} => Good(j.target) /\ Selected(j.target) = j.nums
FileInv == file \in Seq(Byte) /\ (\A t \in kept \cup loose : Good(t)) /\ JobData(job)

LEMMA UnderWayIsGood == FileInv => \A t \in UnderWay : Good(t)
  BY DEF FileInv, JobData, UnderWay

LEMMA PartsBegin ==
  ASSUME NEW t, Good(t), NEW p \in Parts(t)
  PROVE  Begins(p, t)
  <1> DEFINE B == Byte
  <1>1. t \in Seq(B) /\ Len(t) \in Nat
    <2>1. t \in Seq(B)
      BY DEF Good
    <2> HIDE DEF B
    <2> QED  BY <2>1
  <1>2. PICK k \in {0, Len(t) - 2} : p = SubSeq(t, 1, k)
    BY DEF Parts
  <1>3. k \in Int /\ k <= Len(t)
    BY <1>1
  <1>4. p \in Seq(B) /\ Len(p) <= Len(t) /\ \A i \in 1..Len(p) : p[i] = t[i]
    <2> HIDE DEF B
    <2> QED  BY <1>1, <1>2, <1>3
  <1> QED  BY <1>1, <1>4 DEF Begins

LEMMA TargetIsGood ==
  ASSUME FileInv, TypeInv, job # None, Readable(file)
  PROVE  Good(Target) /\ Selected(Target) = job.nums /\ OthersIn(Target) = OthersIn(file)
  <1>1. /\ file \in Seq(Byte) /\ job.nums \in Seq(Seq(Byte))
        /\ job.op \in {"sync", "clear"} /\ (job.op = "clear" => job.nums = <<>>)
    BY DEF FileInv, JobData, TypeInv, JobTypes, IsCall
  <1>2. CASE job.op = "sync"
    BY <1>1, <1>2, SyncTarget DEF Target
  <1>3. CASE job.op = "clear"
    BY <1>1, <1>3, ClearTarget DEF Target
  <1> QED  BY <1>1, <1>2, <1>3

LEMMA JobDataStep ==
  ASSUME TypeInv, FileInv, JobMoves
  PROVE  JobData(job')
  <1>1. JobData(job) /\ (job # None => IsCall(job)) /\ contacts \in Book
    BY DEF FileInv, TypeInv, JobTypes, StoredTypes
  <1>2. CASE job' = None \/ job' = job
    BY <1>1, <1>2 DEF JobData
  <1>3. CASE job # None /\ job' = [job EXCEPT !.by = "gone"]
    <2>1. /\ job'.nums = job.nums /\ job'.op = job.op /\ job'.at = job.at
          /\ job'.target = job.target
      BY <1>1, <1>3 DEF IsCall
    <2> QED  BY <1>1, <1>3, <2>1 DEF JobData
  <1>4. ASSUME NEW c \in Caller, NEW op \in {"sync", "clear"}, job' = Call(c, op)
        PROVE  JobData(job')
    <2> DEFINE B == Seq(Byte)
    <2>1. job'.nums = <<>> /\ job'.at \notin {"ask", "write"}
      BY <1>4 DEF Call
    <2>2. <<>> \in Seq(B)
      <3> HIDE DEF B
      <3> QED  OBVIOUS
    <2> QED  BY <2>1, <2>2 DEF JobData
  <1>5. CASE job # None /\ job.at = "contacts" /\ job' = [job EXCEPT !.at = "read"]
    <2>1. job'.nums = job.nums /\ job'.op = job.op /\ job'.at = "read"
      BY <1>1, <1>5 DEF IsCall
    <2> QED  BY <1>1, <1>5, <2>1 DEF JobData
  <1>6. CASE /\ job # None /\ job.at = "contacts"
             /\ job' = [job EXCEPT !.at = "read", !.nums = readE164Numbers(contacts)]
    <2>1. /\ job'.nums = readE164Numbers(contacts) /\ job'.op = job.op /\ job'.at = "read"
          /\ job.op = "sync"
      BY <1>1, <1>6 DEF IsCall
    <2>2. readE164Numbers(contacts) \in Seq(Seq(Byte))
      BY <1>1, NumbersAreRead
    <2> QED  BY <2>1, <2>2 DEF JobData
  <1>7. CASE /\ job # None /\ job.at = "read" /\ Readable(file)
             /\ job' = [job EXCEPT !.at = "ask", !.target = Target]
    <2>1. job'.nums = job.nums /\ job'.op = job.op /\ job'.target = Target
      BY <1>1, <1>7 DEF IsCall
    <2>2. Good(Target) /\ Selected(Target) = job.nums
      BY <1>7, TargetIsGood
    <2> QED  BY <1>1, <1>7, <2>1, <2>2 DEF JobData
  <1>8. CASE job # None /\ job.at = "ask" /\ job' = [job EXCEPT !.at = "write"]
    <2>1. job'.nums = job.nums /\ job'.op = job.op /\ job'.target = job.target
      BY <1>1, <1>8 DEF IsCall
    <2> QED  BY <1>1, <1>8, <2>1 DEF JobData
  <1> QED  BY <1>2, <1>3, <1>4, <1>5, <1>6, <1>7, <1>8 DEF JobMoves

LEMMA FileStep == TypeInv /\ FileInv /\ [Next]_vars => FileInv'
  <1> SUFFICES ASSUME TypeInv, FileInv, [Next]_vars PROVE FileInv'
    OBVIOUS
  <1>1. FileMoves /\ kept' \cup loose' \subseteq UnderWay /\ JobMoves
    BY WhatMoves DEF Moves
  <1>2. \A t \in UnderWay : Good(t)
    BY UnderWayIsGood
  <1>3. file' \in Seq(Byte)
    <2>1. file \in Seq(Byte) /\ \A t \in UnderWay : t \in Seq(Byte)
      BY <1>2 DEF FileInv, Good
    <2>2. \A t \in UnderWay : \A p \in Parts(t) : p \in Seq(Byte)
      BY <1>2, PartsBegin DEF Begins
    <2> QED  BY <1>1, <2>1, <2>2 DEF FileMoves
  <1>4. \A t \in kept' \cup loose' : Good(t)
    BY <1>1, <1>2
  <1>5. JobData(job')
    BY <1>1, JobDataStep
  <1> QED  BY <1>3, <1>4, <1>5 DEF FileInv

LEMMA FileInit == Init => FileInv
  BY FilesAreBytes DEF Init, FileInv, JobData

-----------------------------------------------------------------------------
(* A sync of any file that a run meets is exact.                           *)
LEMMA BytesAreExact == ASSUME NEW f \in Seq(Byte) PROVE AllExact(f)
  BY NumbersAreRead, SyncExactly DEF AllExact

LEMMA TypeAndFileStay == TypeInv /\ FileInv /\ [Next]_vars => (TypeInv /\ FileInv)'
  BY ScreenStep, StoredStep, JobTypesStep, FileStep DEF TypeInv

(* A sync of any file the dialer wrote, or that any interleaving, call,    *)
(* crash or cut-off write leaves, changes only the numbers and the toggles *)
(* that are there, and a second one finds nothing to do                    *)
(* (SettingsProtoCodec.kt:49-72, SyncEngine.kt:33).                        *)
THEOREM SyncsAreExact == Spec => SyncIsExact
  <1>1. FileInv => AllExact(file)
    BY BytesAreExact DEF FileInv
  <1>2. FileInv' => AllExact(file)'
    BY <1>1, PTL
  <1>3. FileInv' => (file' # file => AllExact(file'))
    BY <1>2
  <1>4. TypeInv /\ FileInv /\ [Next]_vars => [file' # file => AllExact(file')]_vars
    BY <1>3, FileStep
  <1>5. Init => AllExact(file)
    BY <1>1, FileInit
  <1>6. Spec => AllExact(file)
    BY <1>5 DEF Spec
  <1>7. Spec => [][file' # file => AllExact(file')]_vars
    BY TypeInit, FileInit, TypeAndFileStay, <1>4, PTL DEF Spec
  <1> QED  BY <1>6, <1>7 DEF SyncIsExact

-----------------------------------------------------------------------------
(* Without a cut-off write, what is under way holds as many other fields   *)
(* as the file does: no write on the way can take them.                    *)
SameOthers == \A t \in UnderWay : parse(file) # Garbled /\ OthersIn(t) = OthersIn(file)
StuckInv == cut \/ SameOthers

LEMMA UnderWayMoves ==
  ASSUME TypeInv, Moves, NEW t \in UnderWay'
  PROVE  t \in UnderWay \/ (job # None /\ Readable(file) /\ file' = file /\ t = Target)
  <1>1. kept' \cup loose' \subseteq UnderWay /\ JobMoves
    BY DEF Moves
  <1>2. t \in kept' \cup loose' \/ (job' # None /\ job'.at \in {"ask", "write"} /\ t = job'.target)
    BY DEF UnderWay
  <1>3. CASE t \in kept' \cup loose'
    BY <1>1, <1>3
  <1>4. CASE job' # None /\ job'.at \in {"ask", "write"} /\ t = job'.target
    <2>0. job # None => IsCall(job)
      BY DEF TypeInv, JobTypes
    <2>1. CASE job' = job
      BY <1>4, <2>1 DEF UnderWay
    <2>2. CASE job # None /\ job' = [job EXCEPT !.by = "gone"]
      <3>1. job'.at = job.at /\ job'.target = job.target
        BY <2>0, <2>2 DEF IsCall
      <3> QED  BY <1>4, <2>2, <3>1 DEF UnderWay
    <2>3. ASSUME NEW c \in Caller, NEW op \in {"sync", "clear"}, job' = Call(c, op)
          PROVE  FALSE
      <3>1. job'.at \notin {"ask", "write"}
        BY <2>3 DEF Call
      <3> QED  BY <1>4, <3>1
    <2>4. CASE /\ job # None
               /\ \/ job' = [job EXCEPT !.at = "read"]
                  \/ job' = [job EXCEPT !.at = "read", !.nums = readE164Numbers(contacts)]
      <3>1. job'.at = "read"
        BY <2>0, <2>4 DEF IsCall
      <3> QED  BY <1>4, <3>1
    <2>5. CASE /\ job # None /\ job.at = "read" /\ Readable(file) /\ file' = file
               /\ job' = [job EXCEPT !.at = "ask", !.target = Target]
      <3>1. job'.target = Target
        BY <2>0, <2>5 DEF IsCall
      <3> QED  BY <1>4, <2>5, <3>1
    <2>6. CASE job # None /\ job.at = "ask" /\ job' = [job EXCEPT !.at = "write"]
      <3>1. job'.target = job.target
        BY <2>0, <2>6 DEF IsCall
      <3> QED  BY <1>4, <2>6, <3>1 DEF UnderWay
    <2> QED  BY <1>1, <1>4, <2>1, <2>2, <2>3, <2>4, <2>5, <2>6 DEF JobMoves
  <1> QED  BY <1>2, <1>3, <1>4

LEMMA StuckStep == TypeInv /\ FileInv /\ StuckInv /\ [Next]_vars => StuckInv'
  <1> SUFFICES ASSUME TypeInv, FileInv, StuckInv, [Next]_vars, ~cut' PROVE SameOthers'
    BY DEF StuckInv
  <1>1. Moves /\ FileMoves
    BY WhatMoves DEF Moves
  <1>2. SameOthers
    BY <1>1 DEF StuckInv, FileMoves
  <1>3. file' = file \/ file' \in UnderWay
    BY <1>1 DEF FileMoves
  <1> SUFFICES ASSUME NEW t \in UnderWay'
               PROVE  parse(file') # Garbled /\ OthersIn(t) = OthersIn(file')
    BY DEF SameOthers, OthersIn
  <1>4. CASE t \in UnderWay
    <2>1. parse(file) # Garbled /\ OthersIn(t) = OthersIn(file)
      BY <1>2, <1>4 DEF SameOthers
    <2>2. CASE file' = file
      BY <2>1, <2>2
    <2>3. CASE file' \in UnderWay
      <3>1. OthersIn(file') = OthersIn(file)
        BY <1>2, <2>3 DEF SameOthers
      <3>2. parse(file') # Garbled
        BY <2>3, UnderWayIsGood DEF Good
      <3> QED  BY <2>1, <3>1, <3>2
    <2> QED  BY <1>3, <2>2, <2>3
  <1>5. CASE job # None /\ Readable(file) /\ file' = file /\ t = Target
    BY <1>5, TargetIsGood DEF Readable
  <1> QED  BY <1>1, <1>4, <1>5, UnderWayMoves

LEMMA NothingLeft ==
  ASSUME NEW f \in Seq(Byte), parse(f) # Garbled, OthersIn(<<>>) = OthersIn(f)
  PROVE  withClearedNumbers(parse(f)) = <<>>
  <1> DEFINE k == withClearedNumbers(parse(f))
             D == Field
  <1>1. parse(f) \in Seq(Field)
    BY ParseIsTyped, PlainFields
  <1>2. k \in Seq(D)
    BY <1>1, ClearedIs, KeptConcat
  <1>3. Len(k) = Len(<<>>)
    BY EmptyFile DEF OthersIn
  <1> HIDE DEF k, D
  <1>4. k = <<>>
    BY <1>2, <1>3
  <1> QED  BY <1>4 DEF k

(* Only a write that was cut off, or one of a file that held nothing but   *)
(* the list, leaves a file that no later sync can read, however syncs,     *)
(* clears, deferred writes, calls and deaths interleave                    *)
(* (SyncEngine.kt:29, SettingsProtoCodec.kt:62).                           *)
THEOREM OnlyCutsStick == Spec => StuckHasACause
  <1> DEFINE Inv == TypeInv /\ FileInv /\ StuckInv
             A == file' # file /\ Readable(file) /\ ~Readable(file') =>
                     \/ cut'
                     \/ file' = <<>> /\ withClearedNumbers(parse(file)) = <<>>
  <1>1. Init => Inv
    <2>1. Init => StuckInv
      BY DEF Init, StuckInv, SameOthers, UnderWay
    <2> QED  BY <2>1, TypeInit, FileInit
  <1>2. Inv /\ [Next]_vars => Inv'
    BY TypeAndFileStay, StuckStep
  <1>3. Inv /\ [Next]_vars => A
    <2> SUFFICES ASSUME Inv, [Next]_vars, file' # file, ~Readable(file'), ~cut'
                 PROVE  file' = <<>> /\ withClearedNumbers(parse(file)) = <<>>
      OBVIOUS
    <2>1. FileMoves /\ file \in Seq(Byte)
      BY WhatMoves DEF Moves, FileInv
    <2>2. file' \in UnderWay /\ SameOthers
      BY <2>1 DEF FileMoves, StuckInv
    <2>3. parse(file') # Garbled
      BY <2>2, UnderWayIsGood DEF Good
    <2>4. file' = <<>>
      BY <2>3 DEF Readable
    <2>5. OthersIn(<<>>) = OthersIn(file) /\ parse(file) # Garbled
      BY <2>2, <2>4 DEF SameOthers
    <2> QED  BY <2>1, <2>4, <2>5, NothingLeft
  <1> HIDE DEF Inv
  <1>4. Inv /\ [Next]_vars => [A]_vars
    BY <1>3
  <1>5. Spec => [][A]_vars
    BY <1>1, <1>2, <1>4, PTL DEF Spec
  <1> QED  BY <1>5 DEF StuckHasACause

-----------------------------------------------------------------------------
(* A green answer has a cause: of the steps that turn the screen green.    *)
LEMMA GreenStep ==
  ASSUME TypeInv, FileInv, [Next]_vars, shown = "wait", shown' = "green"
  PROVE  \/ job # None /\ job' = job
         \/ Selected(file') = job.nums
         \/ inCall /\ kept' # {}
  <1>1. Open \/ Flush \/ Enqueue \/ (\E m \in Interval \cup {Never} : ChooseInterval(m))
        \/ ContactsChange \/ (\E t \in timers : DebounceRuns(t)) \/ WorkDue
        \/ (\E c \in spawned : Start(c)) \/ (\E t \in kept : Deliver(t))
        \/ (\E t \in loose : OrphanEnds(t)) \/ Grant \/ CallBegins \/ CallEnds
        \/ UNCHANGED vars
        => shown' = shown
    BY DEF Open, Flush, Enqueue, ChooseInterval, ContactsChange, DebounceRuns, WorkDue,
           Start, Deliver, OrphanEnds, Grant, CallBegins, CallEnds, vars
  <1>2. Close \/ ProcessDies \/ Revoke \/ Boot => shown' = "none"
    BY DEF Close, ProcessDies, Revoke, Boot, Restart
  <1>3. ASSUME NEW op \in {"sync", "clear"}, Tap(op) PROVE job # None /\ job' = job
    BY <1>3 DEF Tap
  <1>4. ReadContacts => shown' # "green"
    BY DEF ReadContacts, Finish
  <1>5. CASE ReadFile
    <2>1. job # None /\ Readable(file) /\ Target = file /\ file' = file
      BY <1>5 DEF ReadFile, Finish
    <2> QED  BY <2>1, TargetIsGood
  <1>6. CASE RunWhenIdle
    BY <1>6 DEF RunWhenIdle, Finish
  <1>7. CASE Write
    <2>1. job # None /\ job.at = "write" /\ file' = job.target
      BY <1>7 DEF Write, Finish
    <2> QED  BY <2>1 DEF FileInv, JobData
  <1> QED  BY <1>1, <1>2, <1>3, <1>4, <1>5, <1>6, <1>7 DEF Next, JobStep

(* Green means the list is as asked, or will be after the call, or that    *)
(* another sync had the lock, for every file and every table of contacts   *)
(* (MainActivity.kt:149-161).                                              *)
THEOREM GreenIsEarned == Spec => GreenHasACause
  <1> DEFINE Inv == TypeInv /\ FileInv
             A == shown = "wait" /\ shown' = "green" =>
                     \/ job # None /\ job' = job
                     \/ Selected(file') = job.nums
                     \/ inCall /\ kept' # {}
  <1>1. Init => Inv
    BY TypeInit, FileInit
  <1>2. Inv /\ [Next]_vars => Inv'
    BY TypeAndFileStay
  <1>3. Inv /\ [Next]_vars => [A]_vars
    BY GreenStep
  <1> HIDE DEF Inv
  <1>4. Spec => [][A]_vars
    BY <1>1, <1>2, <1>3, PTL DEF Spec
  <1> QED  BY <1>4 DEF GreenHasACause

-----------------------------------------------------------------------------
(* After a clear that was done while nothing else was under way: auto-sync *)
(* is off, no thread is past its look at it, and whoever comes may clear.  *)
CleanInv ==
    clean => /\ pref = Never /\ spawned = {} /\ NoNumbers(file)
             /\ job # None => job.op = "clear"
             /\ \A t \in kept \cup loose : NoNumbers(t)

LEMMA CleanUnderWay ==
  ASSUME FileInv, CleanInv, clean
  PROVE  \A t \in UnderWay : NoNumbers(t)
  <1>1. \A t \in kept \cup loose : NoNumbers(t)
    BY DEF CleanInv
  <1>2. CASE job # None /\ job.at \in {"ask", "write"}
    <2>1. Good(job.target) /\ Selected(job.target) = <<>>
      BY <1>2 DEF FileInv, JobData, CleanInv
    <2> QED  BY <1>1, <2>1, GoodIsSelected DEF UnderWay, NoNumbers
  <1> QED  BY <1>1, <1>2 DEF UnderWay

LEMMA CleanCalls ==
  ASSUME TypeInv, CleanInv, [Next]_vars, clean, clean'
  PROVE  pref' = Never /\ spawned' = {} /\ (job' # None => job'.op = "clear")
  <1>0. /\ pref = Never /\ spawned = {}
        /\ job # None => job.op = "clear" /\ IsCall(job)
        /\ ~autoSyncEnabled
    BY DEF CleanInv, TypeInv, JobTypes, autoSyncEnabled, Never
  <1>1. Open \/ Flush \/ Enqueue \/ ContactsChange \/ (\E t \in kept : Deliver(t))
        \/ (\E t \in loose : OrphanEnds(t)) \/ Grant \/ CallBegins \/ CallEnds
        \/ UNCHANGED vars
        => UNCHANGED <<pref, spawned, job>>
    BY DEF Open, Flush, Enqueue, ContactsChange, Deliver, OrphanEnds, Grant, CallBegins, CallEnds,
           vars, stored
  <1>2. UNCHANGED <<pref, spawned, job>>
        => pref' = Never /\ spawned' = {} /\ (job' # None => job'.op = "clear")
    BY <1>0
  <1>3. CASE Close
    <2>1. pref' = pref /\ spawned' = spawned
      BY <1>3 DEF Close, stored
    <2>2. job' = job \/ (job # None /\ job' = [job EXCEPT !.by = "gone"])
      BY <1>3 DEF Close
    <2>3. job' # None => job'.op = "clear"
      BY <1>0, <2>2 DEF IsCall
    <2> QED  BY <1>0, <2>1, <2>3
  <1>4. ASSUME NEW m \in Interval \cup {Never}, ChooseInterval(m)
        PROVE  pref' = Never /\ UNCHANGED <<spawned, job>>
    BY <1>4 DEF ChooseInterval
  <1>5. ASSUME NEW t \in timers, DebounceRuns(t) PROVE UNCHANGED <<pref, spawned, job>>
    BY <1>0, <1>5 DEF DebounceRuns, stored
  <1>6. ~WorkDue
    BY <1>0 DEF WorkDue
  <1>7. ASSUME NEW op \in {"sync", "clear"}, Tap(op)
        PROVE  UNCHANGED <<pref, spawned>> /\ (job' # None => job'.op = "clear")
    <2>1. UNCHANGED <<pref, spawned>> /\ op = "clear" /\ (job' = job \/ job' = Call("user", op))
      BY <1>7 DEF Tap, stored
    <2>2. Call("user", op).op = op
      BY DEF Call
    <2> QED  BY <1>0, <2>1, <2>2
  <1>8. CASE JobStep
    <2>1. UNCHANGED <<pref, spawned>>
      BY <1>8 DEF JobStep, ReadContacts, ReadFile, RunWhenIdle, Write, stored
    <2>2. job # None /\ (job' = None \/ job'.op = job.op)
      BY <1>0, <1>8 DEF JobStep, ReadContacts, ReadFile, RunWhenIdle, Write, Finish, IsCall
    <2> QED  BY <1>0, <2>1, <2>2
  <1>9. CASE ProcessDies \/ Revoke
    <2>1. pref' = disk /\ job' = None /\ disk = Never
      BY <1>9 DEF ProcessDies, Revoke, Restart
    <2>2. spawned' = {}
      BY <1>9 DEF ProcessDies, Revoke
    <2> QED  BY <2>1, <2>2
  <1>10. CASE Boot
    <2>1. pref' = disk /\ job' = None /\ disk = Never
      BY <1>10 DEF Boot, Restart
    <2>2. spawned' = {}
      BY <1>10, <2>1 DEF Boot, Never
    <2> QED  BY <2>1, <2>2
  <1> QED  BY <1>0, <1>1, <1>2, <1>3, <1>4, <1>5, <1>6, <1>7, <1>8, <1>9, <1>10 DEF Next

LEMMA CleanBegins ==
  ASSUME TypeInv, FileInv, [Next]_vars, ~clean, clean'
  PROVE  /\ pref' = Never /\ spawned' = {} /\ kept' = {} /\ loose' = {} /\ job' = None
         /\ NoNumbers(file')
  <1>1. Open \/ Flush \/ Enqueue \/ ContactsChange \/ (\E t \in timers : DebounceRuns(t))
        \/ Close \/ WorkDue \/ (\E c \in spawned : Start(c)) \/ (\E t \in kept : Deliver(t))
        \/ (\E m \in Interval \cup {Never} : ChooseInterval(m))
        \/ (\E op \in {"sync", "clear"} : Tap(op)) \/ ReadContacts \/ RunWhenIdle
        \/ (\E t \in loose : OrphanEnds(t))
        \/ ProcessDies \/ Revoke \/ Boot \/ Grant \/ CallBegins \/ CallEnds \/ UNCHANGED vars
        => (clean' => clean)
    BY DEF Open, Flush, Enqueue, ContactsChange, DebounceRuns, Close, WorkDue, Start, Deliver,
           OrphanEnds, ChooseInterval, Tap, ReadContacts, RunWhenIdle, ProcessDies, Revoke, Boot, Restart,
           Grant, CallBegins, CallEnds, vars, histories
  <1>2. ASSUME job # None, job.op = "clear", Good(job.target) /\ Selected(job.target) = job.nums
        PROVE  NoNumbers(job.target)
    BY <1>2, GoodIsSelected DEF FileInv, JobData, NoNumbers
  <1>3. CASE ReadFile
    <2>1. /\ job # None /\ Readable(file) /\ Target = file /\ Finish("green") /\ Settled
          /\ file' = file /\ UNCHANGED <<pref, spawned, kept, loose>>
      BY <1>3 DEF ReadFile, stored
    <2>2. job.op = "clear" /\ pref = Never /\ spawned = {} /\ kept = {} /\ loose = {} /\ job' = None
      BY <2>1 DEF Settled, Finish
    <2>3. Good(file) /\ Selected(file) = <<>>
      BY <2>1, <2>2, TargetIsGood DEF FileInv, JobData
    <2> QED  BY <2>1, <2>2, <2>3, GoodIsSelected DEF NoNumbers
  <1>4. CASE Write
    <2>1. /\ job # None /\ job.at = "write" /\ file' = job.target /\ Finish("green") /\ Settled
          /\ UNCHANGED <<pref, spawned, kept, loose>>
      BY <1>4 DEF Write, stored
    <2>2. job.op = "clear" /\ pref = Never /\ spawned = {} /\ kept = {} /\ loose = {} /\ job' = None
      BY <2>1 DEF Settled, Finish
    <2>3. NoNumbers(job.target)
      BY <1>2, <2>1, <2>2 DEF FileInv, JobData
    <2> QED  BY <2>1, <2>2, <2>3
  <1> QED  BY <1>1, <1>3, <1>4 DEF Next, JobStep

LEMMA CleanStep == TypeInv /\ FileInv /\ CleanInv /\ [Next]_vars => CleanInv'
  <1> SUFFICES ASSUME TypeInv, FileInv, CleanInv, [Next]_vars, clean' PROVE CleanInv'
    BY DEF CleanInv
  <1>1. CASE clean
    <2>1. pref' = Never /\ spawned' = {} /\ (job' # None => job'.op = "clear")
      BY <1>1, CleanCalls
    <2>2. FileMoves /\ kept' \cup loose' \subseteq UnderWay
      BY WhatMoves DEF Moves
    <2>3. \A t \in UnderWay : NoNumbers(t) /\ Good(t)
      BY <1>1, CleanUnderWay, UnderWayIsGood
    <2>4. \A t \in UnderWay : \A p \in Parts(t) : NoNumbers(p)
      BY <2>3, PartsBegin, NoNumbersBegins DEF Good
    <2>5. NoNumbers(file')
      BY <1>1, <2>2, <2>3, <2>4 DEF FileMoves, CleanInv
    <2> QED  BY <2>1, <2>2, <2>3, <2>5 DEF CleanInv, NoNumbers
  <1>2. CASE ~clean
    <2>1. /\ pref' = Never /\ spawned' = {} /\ kept' = {} /\ loose' = {} /\ job' = None
          /\ NoNumbers(file')
      BY <1>2, CleanBegins
    <2> QED  BY <2>1 DEF CleanInv, NoNumbers
  <1> QED  BY <1>1, <1>2

(* "Turn it off, Clear, and the list stays empty": nothing refills the     *)
(* list after a clear that was done with auto-sync off and nothing else    *)
(* under way, not a late timer or job, a reboot or a write that was cut    *)
(* off (SyncWorker.kt:19, ContactsObserver.kt:12).                         *)
THEOREM ClearHolds == Spec => []ClearHoldsUnlessLate
  <1> DEFINE Inv == TypeInv /\ FileInv /\ CleanInv
  <1>1. Init => Inv
    <2>1. Init => CleanInv
      BY DEF Init, CleanInv
    <2> QED  BY <2>1, TypeInit, FileInit
  <1>2. Inv /\ [Next]_vars => Inv'
    BY TypeAndFileStay, CleanStep
  <1>3. Inv => ClearHoldsUnlessLate
    BY DEF CleanInv, ClearHoldsUnlessLate, NoNumbers, Selected, Readable
  <1> HIDE DEF Inv
  <1> QED  BY <1>1, <1>2, <1>3, PTL DEF Spec
=============================================================================
