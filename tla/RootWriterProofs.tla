--------------------------- MODULE RootWriterProofs ---------------------------
(* The safety of RootWriter, for every set of writers and of contents and  *)
(* every bound of the kill loop.                                           *)
EXTENDS RootWriter, TLAPS

(* A kill loop that is about to stop the dialer again has a round left.    *)
RoundsLeft == \A w \in Writer : pc[w] = "restop" => tries[w] < MaxKills

TypeInv == TypeOK /\ RoundsLeft

LEMMA TypeInit == Init => TypeInv
<1> SUFFICES ASSUME Init PROVE TypeInv
  OBVIOUS
<1> USE KillBound DEF Init, Content, Label, Killing, Dead, Result
<1>1. tries \in [Writer -> 0..MaxKills]
  OBVIOUS
<1>2. TypeOK
  BY <1>1 DEF TypeOK
<1>3. RoundsLeft
  BY DEF RoundsLeft
<1> QED BY <1>2, <1>3 DEF TypeInv

(* Every action keeps the types and the bound of the kill loop.            *)
LEMMA TypeStep == TypeInv /\ [Next]_vars => TypeInv'
<1> SUFFICES ASSUME TypeInv, [Next]_vars PROVE TypeInv'
  OBVIOUS
<1> USE KillBound DEF TypeInv, TypeOK, RoundsLeft, Content, Label, Killing, Dead,
        Result, env, store, script, marks
<1>1. ASSUME NEW w \in Writer, NEW p \in Payload, Begin(w, p) PROVE TypeInv'
  BY <1>1 DEF Begin, Goto
<1>2. ASSUME NEW w \in Writer, HasRoot(w) PROVE TypeInv'
  BY <1>2 DEF HasRoot, Goto, End
<1>3. ASSUME NEW w \in Writer, CheckCall(w) PROVE TypeInv'
  BY <1>3 DEF CheckCall, Goto, End
<1>4. ASSUME NEW w \in Writer, ForceStop(w) PROVE TypeInv'
  <2>1. tries' \in [Writer -> 0..MaxKills]
    BY <1>4 DEF ForceStop, Goto
  <2>2. TypeOK'
    BY <1>4, <2>1, Zenon DEF ForceStop, Goto
  <2>3. RoundsLeft'
    BY <1>4 DEF ForceStop, Goto
  <2> QED BY <2>2, <2>3
<1>5. ASSUME NEW w \in Writer, Probe(w) PROVE TypeInv'
  BY <1>5 DEF Probe, Goto
<1>6. ASSUME NEW w \in Writer, Confirm(w) PROVE TypeInv'
  BY <1>6 DEF Confirm, Goto, End
<1>7. ASSUME NEW w \in Writer, Copy(w) PROVE TypeInv'
  BY <1>7 DEF Copy, Goto
<1>8. ASSUME NEW w \in Writer, Open(w) PROVE TypeInv'
  BY <1>8 DEF Open, Goto, Openers
<1>9. ASSUME NEW w \in Writer, WriteSome(w) PROVE TypeInv'
  BY <1>9 DEF WriteSome, Openers
<1>10. ASSUME NEW w \in Writer, WriteAll(w) PROVE TypeInv'
  BY <1>10 DEF WriteAll, Goto, Openers
<1>11. ASSUME NEW w \in Writer, Chown(w) PROVE TypeInv'
  BY <1>11 DEF Chown, Goto, End
<1>12. ASSUME NEW w \in Writer, Fail(w) PROVE TypeInv'
  BY <1>12 DEF Fail, Goto, End
<1>13. ASSUME NEW S \in SUBSET Writer, Reset(S),
              call' \in BOOLEAN, alive' \in BOOLEAN, cache' \in Content \cup {NotLoaded}
       PROVE  TypeInv'
  BY <1>13 DEF Reset
<1>14. ASSUME NEW w \in Writer, Finish(w) PROVE TypeInv'
  BY <1>13, <1>14 DEF Finish
<1>15. CASE CallBegins
  BY <1>15 DEF CallBegins
<1>16. CASE CallEnds
  BY <1>16 DEF CallEnds
<1>17. CASE Dialer
  <2>1. CASE DialerStarts
    BY <2>1 DEF DialerStarts
  <2>2. CASE DialerLoads
    BY <2>2 DEF DialerLoads
  <2>3. CASE DialerSaves
    BY <2>3, EditsArePayloads DEF DialerSaves, Openers
  <2> QED BY <1>17, <2>1, <2>2, <2>3 DEF Dialer
<1>18. CASE AppDies
  BY <1>13, <1>18 DEF AppDies
<1>19. CASE PowerLoss
  BY <1>13, <1>19 DEF PowerLoss
<1>20. CASE UNCHANGED vars
  BY <1>20 DEF vars
<1> QED
  BY <1>1, <1>2, <1>3, <1>4, <1>5, <1>6, <1>7, <1>8, <1>9, <1>10, <1>11, <1>12,
     <1>14, <1>15, <1>16, <1>17, <1>18, <1>19, <1>20 DEF Next, Step

(* Every reachable state has the types that RootWriter declares.           *)
THEOREM TypeCorrect == Spec => []TypeOK
<1>1. Spec => []TypeInv
  BY TypeInit, TypeStep, PTL DEF Spec
<1>2. TypeInv => TypeOK
  BY DEF TypeInv
<1> QED BY <1>1, <1>2, PTL

-----------------------------------------------------------------------------
(* The safety invariant.  OkMeansWritten is not inductive: a script that   *)
(* has written and not yet said Ok must be in it too.                      *)

WrittenStays ==
    \A w \in Writer :
        (pc[w] = "chown" \/ (pc[w] = "done" /\ res[w] = "Ok")) /\ w \notin clash
        => file = arg[w]

Safe ==
    /\ KillsOnlyAfterIdleCheck
    /\ WritesOnlyAfterDeath
    /\ WrittenStays
    /\ DamageHasACause

LEMMA SafeInit == Init => Safe
BY DEF Init, Safe, KillsOnlyAfterIdleCheck, WritesOnlyAfterDeath, WrittenStays,
   DamageHasACause, Killing, Dead

(* A script's own step keeps the four parts of the invariant.              *)
LEMMA SafeScript ==
    ASSUME TypeInv, Safe, NEW w \in Writer, Step(w)
    PROVE  Safe'
<1> USE DEF TypeInv, TypeOK, env, store, script, marks, Killing, Dead, Goto, End,
        Openers
<1>1. KillsOnlyAfterIdleCheck'
  BY DEF Safe, KillsOnlyAfterIdleCheck, Step, HasRoot, CheckCall, ForceStop,
     Probe, Confirm, Copy, Open, WriteSome, WriteAll, Chown, Fail
<1>2. WritesOnlyAfterDeath'
  BY DEF Safe, WritesOnlyAfterDeath, Step, HasRoot, CheckCall, ForceStop,
     Probe, Confirm, Copy, Open, WriteSome, WriteAll, Chown, Fail
<1>3. WrittenStays'
  <2>1. CASE Open(w) \/ WriteSome(w)
    BY <2>1 DEF Safe, WrittenStays, Open, WriteSome
  <2>2. CASE WriteAll(w)
    BY <2>2 DEF Safe, WrittenStays, WriteAll
  <2>3. CASE Chown(w) \/ Fail(w)
    BY <2>3 DEF Safe, WrittenStays, Chown, Fail
  <2>4. CASE HasRoot(w) \/ CheckCall(w) \/ ForceStop(w) \/ Probe(w)
    BY <2>4 DEF Safe, WrittenStays, HasRoot, CheckCall, ForceStop, Probe
  <2>5. CASE Confirm(w) \/ Copy(w)
    BY <2>5 DEF Safe, WrittenStays, Confirm, Copy
  <2> QED BY <2>1, <2>2, <2>3, <2>4, <2>5 DEF Step
<1>4. DamageHasACause'
  <2>1. CASE Open(w) \/ WriteSome(w) \/ WriteAll(w)
    BY <2>1 DEF Safe, DamageHasACause, Open, WriteSome, WriteAll
  <2>2. CASE Chown(w) \/ Fail(w)
    BY <2>2 DEF Safe, DamageHasACause, Chown, Fail
  <2>3. CASE HasRoot(w) \/ CheckCall(w) \/ ForceStop(w) \/ Probe(w)
    BY <2>3 DEF Safe, DamageHasACause, HasRoot, CheckCall, ForceStop, Probe
  <2>4. CASE Confirm(w) \/ Copy(w)
    BY <2>4 DEF Safe, DamageHasACause, Confirm, Copy
  <2> QED BY <2>1, <2>2, <2>3, <2>4 DEF Step
<1> QED BY <1>1, <1>2, <1>3, <1>4 DEF Safe

(* So does the end of any set of scripts.                                  *)
LEMMA SafeReset ==
    ASSUME TypeInv, Safe, NEW S \in SUBSET Writer, Reset(S),
           call' \in BOOLEAN /\ (call' => call), alive' \in BOOLEAN /\ (alive' => alive)
    PROVE  Safe'
<1> USE DEF TypeInv, TypeOK, Reset, Safe, Killing, Dead
<1>1. KillsOnlyAfterIdleCheck'
  BY DEF KillsOnlyAfterIdleCheck
<1>2. WritesOnlyAfterDeath'
  BY DEF WritesOnlyAfterDeath
<1>3. WrittenStays'
  BY DEF WrittenStays
<1>4. DamageHasACause'
  BY DEF DamageHasACause
<1> QED BY <1>1, <1>2, <1>3, <1>4

LEMMA SafeStep == TypeInv /\ Safe /\ [Next]_vars => Safe'
<1> SUFFICES ASSUME TypeInv, Safe, [Next]_vars PROVE Safe'
  OBVIOUS
<1> USE DEF TypeInv, TypeOK, Safe, KillsOnlyAfterIdleCheck, WritesOnlyAfterDeath,
        WrittenStays, DamageHasACause, Killing, Dead, env, store, script, marks
<1>1. ASSUME NEW w \in Writer, NEW p \in Payload, Begin(w, p) PROVE Safe'
  BY <1>1 DEF Begin, Goto
<1>2. ASSUME NEW w \in Writer, Step(w) PROVE Safe'
  BY <1>2, SafeScript
<1>3. ASSUME NEW w \in Writer, Finish(w) PROVE Safe'
  BY <1>3, SafeReset DEF Finish
<1>4. CASE CallBegins
  BY <1>4 DEF CallBegins
<1>5. CASE CallEnds
  BY <1>5 DEF CallEnds
<1>6. CASE Dialer
  <2>1. CASE DialerStarts \/ DialerLoads
    BY <1>6, <2>1 DEF DialerStarts, DialerLoads
  <2>2. CASE DialerSaves
    BY <2>2, EditsArePayloads DEF DialerSaves, Openers, Content
  <2> QED BY <1>6, <2>1, <2>2 DEF Dialer
<1>7. CASE AppDies
  BY <1>7, SafeReset DEF AppDies
<1>8. CASE PowerLoss
  BY <1>8, SafeReset DEF PowerLoss
<1>9. CASE UNCHANGED vars
  BY <1>9 DEF vars
<1> QED
  BY <1>1, <1>2, <1>3, <1>4, <1>5, <1>6, <1>7, <1>8, <1>9 DEF Next

LEMMA SafeAlways == Spec => []Safe
<1>1. Spec => []TypeInv
  BY TypeInit, TypeStep, PTL DEF Spec
<1> QED BY <1>1, SafeInit, SafeStep, PTL DEF Spec

(* No script force-stops the dialer in a call that was on when it looked.  *)
THEOREM InCallGuard == Spec => []KillsOnlyAfterIdleCheck
<1>1. Safe => KillsOnlyAfterIdleCheck
  BY DEF Safe
<1> QED BY <1>1, SafeAlways, PTL

(* No script rewrites the file under a dialer that it left alive.          *)
THEOREM KillFirst == Spec => []WritesOnlyAfterDeath
<1>1. Safe => WritesOnlyAfterDeath
  BY DEF Safe
<1> QED BY <1>1, SafeAlways, PTL

(* WriteResult.Ok means the bytes are in the file, up to a second writer.  *)
THEOREM OkIsHonest == Spec => []OkMeansWritten
<1>1. Safe => OkMeansWritten
  BY DEF Safe, WrittenStays, OkMeansWritten
<1> QED BY <1>1, SafeAlways, PTL

(* Only a cut-off script or two writers at once leave a damaged file.      *)
THEOREM DamageExplained == Spec => []DamageHasACause
<1>1. Safe => DamageHasACause
  BY DEF Safe
<1> QED BY <1>1, SafeAlways, PTL
=============================================================================
