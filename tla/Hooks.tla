-------------------------------- MODULE Hooks --------------------------------
(***************************************************************************)
(* Module.java and SilentAudio.java: the hooks in the dialer's process,    *)
(* and what they make of the announcement of a recorded call.              *)
(*                                                                         *)
(* The installation is one thread that runs before the dialer's own code;  *)
(* a search is a step.  It finds nothing, a method that can be hooked, or  *)
(* something on which decodeMethodIndex, the cast to Method or hook()      *)
(* throws.  The dialer and the speech engine are external: the dialer      *)
(* plays the clip of its locale, which is spoken by the engine once and    *)
(* stays on the device (README.md:32).                                     *)
(***************************************************************************)
EXTENDS Naturals, Sequences

CONSTANTS
    Method,     \* what can be hooked
    Locale,     \* the locales that have a clip
    US, NoLocale

ASSUME LocalesAreNamed == US \in Locale /\ NoLocale \notin Locale

VARIABLES
    pc, next,   \* the step of onPackageReady and, for a search, its number
    silenced,   \* synthesizeToFile is hooked
    hooks,      \* the other hooks: [of, method]
    log,        \* the last line of the installation
    native,     \* the gates that the dialer opens itself
    home,       \* the locale it has for the country, or NoLocale
    clip,       \* per locale "none", "silent" or "speech"
    call,       \* the announcement: "none", "announce", "wait", "ready",
                \* "failed" or what was heard of it
    engine,     \* what the engine is about to write
    synthesis,  \* synthesizeTextIntoFile is past its proceed()
    unreachable \* the listener was not found by reflection

installVars == <<pc, next, silenced, hooks, log>>
callVars    == <<clip, call, engine, synthesis, unreachable>>
dialerVars  == <<native, home, callVars>>
hookVars    == <<installVars, dialerVars>>

Wanted == <<"synthesizeTextIntoFile", "playBeep", "canRecordCall",
            "isCallRecordingCountry", "getSupportedLocaleFromCountryCode",
            "withinCallRecordingGeoFence", "withinCallRecordingGeofence",
            "canRecordAutomatically", "produceIsCallInAutoRecordContactsList">>
Contingency == {"synthesizeTextIntoFile", "playBeep"}
Gate   == {"canRecordCall", "isCallRecordingCountry", "withinCallRecordingGeoFence"}
Sound  == {"none", "silent", "speech"}
Result == [kind : {"none", "throws"}] \cup [kind : {"method"}, method : Method]

TypeOK ==
    /\ pc \in {"idle", "load", "tts", "search", "close", "done", "died"}
    /\ next \in 1..Len(Wanted)
    /\ silenced \in BOOLEAN
    /\ hooks \subseteq [of : {Wanted[n] : n \in 1..Len(Wanted)}, method : Method]
    /\ log \in {"none", "aborted", "failed", "ready"}
    /\ native \subseteq Gate
    /\ home \in Locale \cup {NoLocale}
    /\ clip \in [Locale -> Sound]
    /\ call \in {"none", "announce", "wait", "ready", "failed", "silent", "speech"}
    /\ engine \in Sound
    /\ synthesis \in BOOLEAN /\ unreachable \in BOOLEAN

HooksInit ==
    /\ pc = "idle" /\ next = 1 /\ silenced = FALSE /\ hooks = {} /\ log = "none"
    /\ call = "none" /\ engine = "none"
    /\ synthesis = FALSE /\ unreachable = FALSE
    /\ native \in SUBSET Gate /\ home \in Locale \cup {NoLocale}
    /\ clip \in [Locale -> {"none", "speech"}]

-----------------------------------------------------------------------------
(* The installation.                                                       *)

(* The dialer is the first package of its process, or the module is off.   *)
onPackageReady ==
    /\ pc = "idle"
    /\ pc' \in {"load", "done"}
    /\ UNCHANGED <<next, silenced, hooks, log, dialerVars>>

(* catch (Throwable): what was hooked stays hooked.                        *)
Fail(step) == pc' = step /\ log' = "failed"

(* The constructor throws before there is a resource to close.             *)
NewDexHelper(token) ==
    /\ pc = "load"
    /\ \/ token = "threw" /\ Fail("done")
       \/ token = "died" /\ pc' = "died" /\ UNCHANGED log
       \/ token \in {"set", "null"} /\ pc' = "tts" /\ UNCHANGED log
    /\ UNCHANGED <<next, silenced, hooks, dialerVars>>

(* Only a missing method is caught here.                                   *)
hookPublicTts ==
    /\ pc = "tts"
    /\ \/ pc' = "search" /\ silenced' \in BOOLEAN /\ UNCHANGED log
       \/ Fail("close") /\ UNCHANGED silenced
    /\ UNCHANGED <<next, hooks, dialerVars>>

(* The second spelling is looked for when the first is not found.          *)
(* Mutant: and then the first again.                                       *)
AfterInTurn(n, r) ==
    IF Wanted[n] = "withinCallRecordingGeofence" /\ r.kind = "none" THEN n - 1 ELSE n + 1
After(n, r) == IF Wanted[n] = "withinCallRecordingGeoFence" /\ r.kind # "none"
               THEN n + 2 ELSE n + 1

(* Mutants: onPackageReady goes on without silence; and past the last.     *)
ProceedPastTheLast(n, r) ==
    IF Wanted[n] = "playBeep" /\ ~silenced
    THEN pc' = "close" /\ log' = "aborted" /\ UNCHANGED next
    ELSE next' = After(n, r) /\ UNCHANGED <<pc, log>>
ProceedAnyway(n, r) ==
    IF n = Len(Wanted) THEN pc' = "close" /\ log' = "ready" /\ UNCHANGED next
    ELSE next' = After(n, r) /\ UNCHANGED <<pc, log>>
Proceed(n, r) ==
    IF Wanted[n] = "playBeep" /\ ~silenced
    THEN pc' = "close" /\ log' = "aborted" /\ UNCHANGED next
    ELSE IF n = Len(Wanted) THEN pc' = "close" /\ log' = "ready" /\ UNCHANGED next
    ELSE next' = After(n, r) /\ UNCHANGED <<pc, log>>

Search(r) ==
    /\ pc = "search"
    /\ \/ r.kind = "none" /\ Proceed(next, r) /\ UNCHANGED hooks
       \/ /\ r.kind = "method" /\ Proceed(next, r)
          /\ hooks' = hooks \cup {[of |-> Wanted[next], method |-> r.method]}
       \/ r.kind = "throws" /\ Fail("close") /\ UNCHANGED <<next, hooks>>
    /\ UNCHANGED <<silenced, dialerVars>>

(* A dex file read outside its image: the search faults.                   *)
SearchFaults ==
    /\ pc = "search" /\ pc' = "died"
    /\ UNCHANGED <<next, silenced, hooks, log, dialerVars>>

close ==
    /\ pc = "close" /\ pc' = "done"
    /\ UNCHANGED <<next, silenced, hooks, log, dialerVars>>

-----------------------------------------------------------------------------
(* Calls.                                                                  *)

Hooked(s) == \E h \in hooks : h.of = s
IsOpen(g) ==
    \/ g \in native \/ Hooked(g)
    \/ g = "withinCallRecordingGeoFence" /\ Hooked("withinCallRecordingGeofence")
locale == IF Hooked("getSupportedLocaleFromCountryCode") THEN US ELSE home
Clip   == clip[locale]

(* A recorded call starts with the clip, which is made when there is none. *)
CallConnects ==
    /\ pc = "done" /\ call = "none"
    /\ locale # NoLocale /\ \A g \in Gate : IsOpen(g)
    /\ call' = (IF Clip = "none" THEN "announce" ELSE "ready")
    /\ UNCHANGED <<installVars, native, home, clip, engine, synthesis, unreachable>>

(* What the engine is given: the hook puts "" for the text.                *)
(* Mutant: the argument is passed on.                                      *)
TextGiven == "speech"
Text == IF silenced THEN "silent" ELSE "speech"

(* synthesizeToFile returns SUCCESS: the engine writes the file later.     *)
EngineAccepts ==
    /\ call = "announce"
    /\ call' = "wait" /\ engine' = Text
    /\ synthesis' = Hooked("synthesizeTextIntoFile")
    /\ UNCHANGED <<installVars, native, home, clip, unreachable>>

(* It returns ERROR or throws: the hook writes the silent file, says       *)
(* SUCCESS instead and calls onDone, if it can reach the listener.         *)
(* Mutant: it leaves the call to the engine.                               *)
AnswerOnly(wrote, reached) ==
    call' = (IF wrote THEN "wait" ELSE "failed") /\ UNCHANGED unreachable
Answer(wrote, reached) ==
    /\ call' = (IF ~wrote THEN "failed" ELSE IF reached THEN "ready" ELSE "wait")
    /\ unreachable' = (wrote /\ ~reached)
EngineRefuses ==
    /\ call = "announce"
    /\ \/ /\ silenced
          /\ \E wrote, reached \in BOOLEAN :
                /\ Answer(wrote, reached)
                /\ clip' = IF wrote THEN [clip EXCEPT ![locale] = "silent"] ELSE clip
          /\ synthesis' = Hooked("synthesizeTextIntoFile")
       \/ /\ ~silenced /\ call' = "failed"
          /\ synthesis' \in {FALSE, Hooked("synthesizeTextIntoFile")}
          /\ UNCHANGED <<clip, unreachable>>
    /\ UNCHANGED <<installVars, native, home, engine>>

(* The hook of the dialer's own method writes the silent file after it,    *)
(* while the engine may still be writing.                                  *)
SilenceFile ==
    /\ synthesis
    /\ synthesis' = FALSE
    /\ clip' \in {clip, [clip EXCEPT ![locale] = "silent"]}
    /\ UNCHANGED <<installVars, native, home, call, engine, unreachable>>

EngineFinishes ==
    /\ engine # "none"
    /\ \/ call' = "ready" /\ clip' = [clip EXCEPT ![locale] = engine]
       \/ call' = "failed" /\ UNCHANGED clip
    /\ engine' = "none"
    /\ UNCHANGED <<installVars, native, home, synthesis, unreachable>>

ClipPlays ==
    /\ call = "ready" /\ Clip # "none"
    /\ call' = Clip
    /\ UNCHANGED <<installVars, native, home, clip, engine, synthesis, unreachable>>

(* What the engine was given for a call that ended is not written.         *)
CallEnds ==
    /\ call # "none"
    /\ call' = "none" /\ engine' = "none" /\ synthesis' = FALSE /\ unreachable' = FALSE
    /\ UNCHANGED <<installVars, native, home, clip>>

DialerDies ==
    /\ pc # "idle"
    /\ pc' = "idle" /\ next' = 1 /\ silenced' = FALSE /\ hooks' = {} /\ log' = "none"
    /\ call' = "none" /\ engine' = "none"
    /\ synthesis' = FALSE /\ unreachable' = FALSE
    /\ UNCHANGED <<native, home, clip>>

Calls == \/ CallConnects \/ EngineAccepts \/ EngineRefuses \/ SilenceFile
         \/ EngineFinishes \/ ClipPlays \/ CallEnds

Installs == \/ onPackageReady \/ hookPublicTts \/ SearchFaults \/ close
            \/ \E token \in {"set", "null", "threw", "died"} : NewDexHelper(token)
            \/ \E r \in Result : Search(r)

HooksNext == Installs \/ Calls \/ DialerDies
HooksSpec == HooksInit /\ [][HooksNext]_hookVars

-----------------------------------------------------------------------------
Enabling == {h \in hooks : h.of \notin Contingency}

(* Fail-safe: no gate of the dialer is forced open in a process where the  *)
(* announcement is not silenced, whatever the searches find, wherever the  *)
(* installation throws and however often the dialer dies (Module.java:38-  *)
(* 49; README.md:33).                                                      *)
FailSafe == Enabling # {} => silenced

(* A forced recording does not add speech to the device: what is heard of  *)
(* it, if anything, was spoken before (Module.java:65-103).                *)
AddsNoSpeech ==
    Enabling # {} => \A l \in Locale : clip'[l] = "speech" => clip[l] = "speech"
NoSpeechIsMade == [][AddsNoSpeech]_hookVars

(* SUCCESS for the dialer means that someone completes the announcement:   *)
(* the engine, or else the hook has called onDone, unless reflection did   *)
(* not find the listener (Module.java:79-94).                              *)
SomeoneCompletes == call = "wait" => engine # "none" \/ unreachable
=============================================================================
