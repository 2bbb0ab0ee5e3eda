------------------------------ MODULE RootWriter ------------------------------
(***************************************************************************)
(* RootWriter.kt: the `su -M -c <script>` that replaces the dialer's       *)
(* CallRecordingSettingsData.pb.  A script runs beside the telephony stack *)
(* (calls begin and end), beside the dialer (anyone may start it, and it   *)
(* saves its in-memory DataStore copy over the file) and beside other      *)
(* scripts: writeProto takes no lock.                                      *)
(*                                                                         *)
(* A writer is a thread that is inside writeProto; pc[w] is the next       *)
(* command of its script.  File contents are opaque: a member of Payload   *)
(* is what a whole write leaves, Empty what `>` leaves, Garbled a part of  *)
(* a payload or a mix of two.  The owner and the SELinux label are left    *)
(* out: `>` keeps them on the existing file.                               *)
(***************************************************************************)
EXTENDS Naturals, FiniteSets

CONSTANTS
    Writer,      \* threads that may be inside writeProto
    Payload,     \* whole contents of the settings file
    Edits(_),    \* what the dialer may save when its memory holds a content
    NoFile, Empty, Garbled, NotLoaded,
    MaxKills     \* rounds of the kill loop: `seq 1 20`

Content == Payload \cup {NoFile, Empty, Garbled}

ASSUME ContentsDiffer ==
    /\ {NoFile, Empty, Garbled, NotLoaded} \cap Payload = {}
    /\ NoFile # Empty /\ NoFile # Garbled /\ Empty # Garbled
    /\ NotLoaded \notin {NoFile, Empty, Garbled}
ASSUME EditsArePayloads == \A c \in Content : Edits(c) \subseteq Payload
ASSUME KillBound == MaxKills \in Nat \ {0}

VARIABLES
    call,     \* some subscription has mCallState # 0
    alive,    \* the dialer's process exists
    cache,    \* the dialer's in-memory DataStore copy
    file,     \* CallRecordingSettingsData.pb
    bak,      \* CallRecordingSettingsData.pb.gcallrecorder.bak
    pc, arg, tries, res,   \* the script of each writer
    clash,    \* writers whose open file someone else wrote or replaced
    late,     \* history: writers for which a call began after their check
    revived,  \* history: writers for which the dialer started after its death
    hurt      \* history: the last change left the file damaged for good

env    == <<call, alive, cache>>
store  == <<file, bak, hurt>>
script == <<pc, arg, tries, res>>
marks  == <<clash, late, revived>>
vars   == <<env, store, script, marks>>

Killing == {"stop", "probe", "restop", "confirm"}
Dead    == {"copy", "open", "write"}
Label   == {"idle", "root", "check", "chown", "done"} \cup Killing \cup Dead
Result  == {"none", "Ok", "NoRoot", "CallActive", "Failed"}

TypeOK ==
    /\ call \in BOOLEAN /\ alive \in BOOLEAN
    /\ cache \in Content \cup {NotLoaded}
    /\ file \in Content /\ bak \in Content /\ hurt \in BOOLEAN
    /\ pc \in [Writer -> Label]
    /\ arg \in [Writer -> Payload \cup {NoFile}]
    /\ tries \in [Writer -> 0..MaxKills]
    /\ res \in [Writer -> Result]
    /\ clash \subseteq Writer /\ late \subseteq Writer /\ revived \subseteq Writer

Init ==
    /\ call = FALSE
    /\ alive \in BOOLEAN
    /\ cache = NotLoaded
    /\ file \in Payload /\ bak = NoFile /\ hurt = FALSE
    /\ pc = [w \in Writer |-> "idle"]
    /\ arg = [w \in Writer |-> NoFile]
    /\ tries = [w \in Writer |-> 0]
    /\ res = [w \in Writer |-> "none"]
    /\ clash = {} /\ late = {} /\ revived = {}

-----------------------------------------------------------------------------
(* The script, a command at a time.                                        *)

Goto(w, from, to) == pc[w] = from /\ pc' = [pc EXCEPT ![w] = to]

End(w, from, r) == Goto(w, from, "done") /\ res' = [res EXCEPT ![w] = r]

(* Writers that have the file open, or wrote it and are not answered yet:  *)
(* someone else's change of the file is a change under their hands.        *)
Openers == {v \in Writer : pc[v] \in {"write", "chown", "done"}}

Begin(w, p) ==
    /\ Goto(w, "idle", "root")
    /\ arg' = [arg EXCEPT ![w] = p]
    /\ UNCHANGED <<env, store, tries, res, marks>>

HasRoot(w) ==
    /\ \/ Goto(w, "root", "check") /\ UNCHANGED res
       \/ End(w, "root", "NoRoot")
    /\ UNCHANGED <<env, store, arg, tries, marks>>

(* Mutant: only the first subscription's line of dumpsys is looked at.      *)
CheckCallFirstLine(w) ==
    /\ Goto(w, "check", "stop")
    /\ UNCHANGED <<env, store, arg, tries, res, marks>>

(* No line of dumpsys counts as a call: a failed dumpsys refuses as well.  *)
CheckCall(w) ==
    /\ \/ ~call /\ Goto(w, "check", "stop") /\ UNCHANGED res
       \/ End(w, "check", "CallActive")
    /\ UNCHANGED <<env, store, arg, tries, marks>>

(* Mutant: the rounds of the loop are not counted.                         *)
ForceStopUncounted(w) ==
    /\ Goto(w, "stop", "probe") \/ Goto(w, "restop", "probe")
    /\ (alive' = FALSE /\ cache' = NotLoaded) \/ UNCHANGED <<alive, cache>>
    /\ UNCHANGED <<call, store, arg, tries, res, marks>>

(* am force-stop: the process may linger, or be bound again at once.       *)
ForceStop(w) ==
    /\ \/ Goto(w, "stop", "probe") /\ UNCHANGED tries
       \/ Goto(w, "restop", "probe") /\ tries' = [tries EXCEPT ![w] = @ + 1]
    /\ \/ alive' = FALSE /\ cache' = NotLoaded
       \/ UNCHANGED <<alive, cache>>
    /\ UNCHANGED <<call, store, arg, res, marks>>

(* Mutant: `while pidof` instead of a bounded loop.                        *)
ProbeForever(w) ==
    /\ Goto(w, "probe", IF alive THEN "restop" ELSE "confirm")
    /\ UNCHANGED <<env, store, arg, tries, res, marks>>

Probe(w) ==
    /\ Goto(w, "probe",
            IF alive /\ tries[w] < MaxKills THEN "restop" ELSE "confirm")
    /\ UNCHANGED <<env, store, arg, tries, res, marks>>

(* Mutant: no STILL_ALIVE check after the loop.                            *)
ConfirmNothing(w) ==
    /\ Goto(w, "confirm", "copy")
    /\ late' = late \ {w}
    /\ UNCHANGED <<env, store, arg, tries, res, clash, revived>>

Confirm(w) ==
    /\ \/ ~alive /\ Goto(w, "confirm", "copy") /\ UNCHANGED res
       \/ alive /\ End(w, "confirm", "Failed")
    /\ late' = late \ {w}
    /\ UNCHANGED <<env, store, arg, tries, clash, revived>>

(* Mutant: `mv` instead of `cp`.                                           *)
CopyByMoving(w) ==
    /\ Goto(w, "copy", "open")
    /\ bak' = file /\ file' = NoFile
    /\ UNCHANGED <<env, hurt, arg, tries, res, marks>>

Copy(w) ==
    /\ Goto(w, "copy", "open")
    /\ \/ file # NoFile /\ bak' = file
       \/ UNCHANGED bak     \* cp ... || true
    /\ UNCHANGED <<env, file, hurt, arg, tries, res, marks>>

Open(w) ==
    /\ Goto(w, "open", "write")
    /\ file' = Empty
    /\ clash' = (clash \cup Openers) \ {w}
    /\ UNCHANGED <<env, bak, hurt, arg, tries, res, late, revived>>

WriteSome(w) ==
    /\ pc[w] = "write" /\ file # Garbled
    /\ file' = Garbled
    /\ clash' = clash \cup (Openers \ {w})
    /\ UNCHANGED <<env, bak, hurt, script, late, revived>>

(* Two scripts write through descriptors of their own, both from offset 0, *)
(* and a dialer that replaced the file left the script the old inode.      *)
WriteAll(w) ==
    /\ Goto(w, "write", "chown")
    /\ file' \in IF w \in clash THEN {arg[w], Garbled, file} ELSE {arg[w]}
    /\ hurt' = (file' \notin Payload)
    /\ clash' = clash \cup (Openers \ {w})
    /\ revived' = revived \ {w}
    /\ UNCHANGED <<env, bak, arg, tries, res, late>>

Chown(w) ==
    /\ End(w, "chown", "Ok")
    /\ UNCHANGED <<env, store, arg, tries, marks>>

(* Mutant: no `set -e`, a script whose base64 fails still echoes OK.        *)
FailUnnoticed(w) ==
    /\ pc[w] \in {"open", "write", "chown"}
    /\ End(w, pc[w], "Ok")
    /\ hurt' = (hurt \/ (pc[w] = "write" /\ file \notin Payload))
    /\ UNCHANGED <<env, file, bak, arg, tries, marks>>

(* set -e: these commands have no `|| true`; "check" stands for a su that  *)
(* does not start.                                                         *)
Fail(w) ==
    /\ pc[w] \in {"check", "stop", "restop", "open", "write", "chown"}
    /\ End(w, pc[w], "Failed")
    /\ hurt' = (hurt \/ (pc[w] = "write" /\ file \notin Payload))
    /\ UNCHANGED <<env, file, bak, arg, tries, marks>>

Step(w) ==
    \/ HasRoot(w) \/ CheckCall(w) \/ ForceStop(w) \/ Probe(w) \/ Confirm(w)
    \/ Copy(w) \/ Open(w) \/ WriteSome(w) \/ WriteAll(w) \/ Chown(w) \/ Fail(w)

(* The scripts of S are gone.                                              *)
Reset(S) ==
    /\ pc' = [w \in Writer |-> IF w \in S THEN "idle" ELSE pc[w]]
    /\ arg' = [w \in Writer |-> IF w \in S THEN NoFile ELSE arg[w]]
    /\ tries' = [w \in Writer |-> IF w \in S THEN 0 ELSE tries[w]]
    /\ res' = [w \in Writer |-> IF w \in S THEN "none" ELSE res[w]]
    /\ clash' = clash \ S /\ late' = late \ S /\ revived' = revived \ S
    /\ hurt' = (hurt \/ (file \notin Payload /\ \E w \in S : pc[w] = "write"))
    /\ UNCHANGED <<file, bak>>

(* writeProto returns: its caller has res[w].                              *)
Finish(w) == pc[w] = "done" /\ Reset({w}) /\ UNCHANGED env

-----------------------------------------------------------------------------
(* The world around the script.                                            *)

CallBegins ==
    /\ ~call
    /\ call' = TRUE
    /\ late' = late \cup {w \in Writer : pc[w] \in Killing}
    /\ UNCHANGED <<alive, cache, store, script, clash, revived>>

CallEnds ==
    /\ call
    /\ call' = FALSE
    /\ UNCHANGED <<alive, cache, store, script, marks>>

(* A call binds the dialer's InCallService, the user opens it, and so on.  *)
DialerStarts ==
    /\ ~alive
    /\ alive' = TRUE
    /\ revived' = revived \cup {w \in Writer : pc[w] \in Dead}
    /\ UNCHANGED <<call, cache, store, script, clash, late>>

DialerLoads ==
    /\ alive /\ cache = NotLoaded
    /\ cache' = file
    /\ UNCHANGED <<call, alive, store, script, marks>>

DialerSaves ==
    /\ alive /\ cache # NotLoaded
    /\ \E p \in Edits(cache) : cache' = p /\ file' = p
    /\ hurt' = FALSE
    /\ clash' = clash \cup Openers
    /\ UNCHANGED <<call, alive, bak, script, late, revived>>

Dialer == DialerStarts \/ DialerLoads \/ DialerSaves

(* The app's process is killed: a root script dies with it or runs on.     *)
AppDies ==
    \E S \in SUBSET {w \in Writer : pc[w] # "idle"} : Reset(S) /\ UNCHANGED env

PowerLoss ==
    /\ call' = FALSE /\ alive' = FALSE /\ cache' = NotLoaded
    /\ Reset(Writer)

Next ==
    \/ \E w \in Writer : Step(w) \/ Finish(w) \/ \E p \in Payload : Begin(w, p)
    \/ CallBegins \/ CallEnds \/ Dialer \/ AppDies \/ PowerLoss

Spec == Init /\ [][Next]_vars

-----------------------------------------------------------------------------
(* Properties.                                                             *)

(* The dialer is force-stopped in a call only when the call began after    *)
(* the script's own look at dumpsys (RootWriter.kt:24-28): the guard fails *)
(* closed, and the window it leaves open is exactly this one.              *)
KillsOnlyAfterIdleCheck ==
    \A w \in Writer : pc[w] \in Killing /\ call => w \in late

(* A script rewrites the file under a living dialer only when the dialer   *)
(* started again after `pidof` had confirmed its death (line 29).          *)
WritesOnlyAfterDeath ==
    \A w \in Writer : pc[w] \in Dead /\ alive => w \in revived

(* Ok is honest: when writeProto answers Ok the file holds its bytes, or a *)
(* second writer (the dialer, another script) got in between (32-42).      *)
OkMeansWritten ==
    \A w \in Writer :
        pc[w] = "done" /\ res[w] = "Ok" /\ w \notin clash => file = arg[w]

(* The file is damaged only while a script has it open, or after a script  *)
(* was cut off between `>` and the last byte, or after two writers met: no *)
(* other order of kills, starts and saves leaves it so (line 32).          *)
DamageHasACause ==
    file \notin Payload => hurt \/ \E w \in Writer : pc[w] = "write"

(* README.md:43 "guarantees the Dialer is never force-stopped during a     *)
(* call" (RootWriter.kt:20, "closes the check->kill race").                *)
NeverKilledInCall == [][\A w \in Writer : ForceStop(w) => ~call]_vars
=============================================================================
