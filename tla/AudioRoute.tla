----------------------------- MODULE AudioRoute -----------------------------
(***************************************************************************)
(* PulseAudioRoute (audio_route.py): for a screen stream, a null sink      *)
(* becomes the computer's default output; stopping gives the former one    *)
(* back. Each pactl command is a step: the person chooses and unplugs      *)
(* outputs between any two, a command may fail, and the process may be     *)
(* killed at any instant. The journal lets the next start finish.          *)
(***************************************************************************)
EXTENDS RestoreJournal, Integers, FiniteSets

CONSTANTS
    Outputs,       \* the computer's real sound outputs
    MaxEvents,     \* bound: outputs chosen, unplugged or plugged
    MaxFailures,   \* bound: pactl commands and file operations that fail
    MaxDeaths      \* bound: processes killed

TV == "controltv_tv"   \* TV_SINK

ASSUME AudioRouteAssumption ==
    /\ Outputs = Payloads /\ Outputs # {}
    /\ {TV, "any"} \cap Outputs = {}
    /\ MaxEvents \in Nat /\ MaxFailures \in Nat /\ MaxDeaths \in Nat

VARIABLES
    plugged,    \* the outputs PulseAudio lists
    tvSink,     \* the null sink is loaded
    default,    \* the default output
    stage,         \* per process: where its route is
    previous,   \* per process: the output to give back, "none" when it has none
    restored,   \* per process: restoration steps done (_restored)
    task,       \* per process: the caller that recover() or stop() returns to
    chosen,     \* history: the output the person wants ("any": it is gone)
    raced,      \* history: the outputs changed between a look and its command
    told,       \* history: the owner was told of an error
    events, failures, deaths

desktop == <<plugged, tvSink, default, chosen, raced>>
file == <<journal, owner, held>>
counters == <<events, failures, deaths, told>>
routevars == <<file, desktop, stage, previous, restored, task, counters>>

RoutePlaces == {"idle", "recover", "recover_claim", "reread", "claim", "capture", "leftover",
           "write", "load", "set", "move", "streaming", "undo", "giving", "clear",
           "tracked", "dead"}

(* Types: what PulseAudioRoute gives back is always a real output, never   *)
(* the null sink, and it counts three restoration steps at most.           *)
RouteTypeOK ==
    /\ JournalTypeOK
    /\ plugged \subseteq Outputs
    /\ tvSink \in BOOLEAN
    /\ default \in Outputs \cup {TV}
    /\ stage \in [Hosts -> RoutePlaces]
    /\ previous \in [Hosts -> Outputs \cup {"none"}]
    /\ restored \in [Hosts -> 0..3]
    /\ task \in [Hosts -> {"boot", "start", "undo_start", "stop"}]
    /\ chosen \in Outputs \cup {"any"}
    /\ raced \in BOOLEAN /\ told \in BOOLEAN
    /\ events \in Nat /\ failures \in Nat /\ deaths \in Nat

RouteInit ==
    /\ JournalInit
    /\ plugged = Outputs /\ tvSink = FALSE
    /\ default \in Outputs /\ chosen = default /\ raced = FALSE /\ told = FALSE
    /\ stage = [h \in Hosts |-> "idle"]
    /\ previous = [h \in Hosts |-> "none"]
    /\ restored = [h \in Hosts |-> 0]
    /\ task = [h \in Hosts |-> "boot"]
    /\ events = 0 /\ failures = 0 /\ deaths = 0

RouteGoto(h, place) == stage' = [stage EXCEPT ![h] = place]

-----------------------------------------------------------------------------
(* PulseAudio and the person.                                              *)

(* A sink goes: a default it was falls back to an output that is there.    *)
FallBack(sink, left) ==
    IF default = sink THEN default' \in left ELSE UNCHANGED default

Unload ==
    /\ tvSink' = FALSE
    /\ FallBack(TV, plugged)
    /\ chosen' = IF chosen = "any" /\ default = TV THEN default' ELSE chosen

(* The outputs change: an event, which may fall between a look and its use. *)
Event ==
    /\ events < MaxEvents /\ events' = events + 1
    /\ raced' = (raced \/ \E h \in Hosts :
                    stage[h] \in {"leftover", "write", "load", "set", "giving"})
    /\ UNCHANGED <<file, tvSink, stage, previous, restored, task, failures, deaths, told>>

Choose(o) ==
    /\ Event
    /\ o \in plugged \ {default}
    /\ default' = o /\ chosen' = o
    /\ UNCHANGED plugged

Unplug(o) ==
    /\ Event
    /\ plugged # {o} /\ o \in plugged
    /\ plugged' = plugged \ {o}
    /\ FallBack(o, plugged \ {o})
    /\ chosen' = IF chosen # o THEN chosen ELSE IF default = TV THEN "any" ELSE default'

PlugIn(o) ==
    /\ Event
    /\ o \notin plugged
    /\ plugged' = plugged \cup {o}
    /\ UNCHANGED <<default, chosen>>

-----------------------------------------------------------------------------
(* How a method of the route ends.                                         *)

Local(h, output, steps) ==
    /\ previous' = [previous EXCEPT ![h] = output]
    /\ restored' = [restored EXCEPT ![h] = steps]

SameLocal == UNCHANGED <<previous, restored, task>>

(* recover() returned: start() goes on, the boot is over.                  *)
AfterRecover(h) == RouteGoto(h, IF task[h] = "start" THEN "claim" ELSE "idle")

(* The route is given up with nothing of its own left: the error goes up.  *)
Abandon(h) ==
    /\ Local(h, "none", 0) /\ RouteGoto(h, "idle")
    /\ ReleaseClaim(h)

(* A command or a file operation that fails; the error is shown.           *)
Fails ==
    /\ failures < MaxFailures /\ failures' = failures + 1
    /\ told' = TRUE
    /\ UNCHANGED <<events, deaths>>

-----------------------------------------------------------------------------
(* recover(): finish what a dead process left.                             *)

Recover(h) ==
    /\ stage[h] = "recover"
    /\ IF journal = "none" THEN AfterRecover(h) ELSE RouteGoto(h, "recover_claim")
    /\ UNCHANGED <<file, desktop, counters>> /\ SameLocal

(* Mutant: the answer of claim() is ignored.                               *)
RecoverUnclaimed(h) ==
    /\ stage[h] = "recover_claim"
    /\ RouteGoto(h, "reread")
    /\ UNCHANGED <<file, desktop, counters>> /\ SameLocal

RecoverClaim(h) ==
    /\ stage[h] = "recover_claim"
    /\ \/ Taken(h) /\ AfterRecover(h) /\ UNCHANGED <<owner, held>>
       \/ Claim(h) /\ RouteGoto(h, "reread")
    /\ UNCHANGED <<journal, desktop, counters>> /\ SameLocal

(* Its owner may have restored it since the first read.                    *)
Reread(h) ==
    /\ stage[h] = "reread"
    /\ \/ /\ journal = "none"
          /\ AfterRecover(h) /\ ReleaseClaim(h)
          /\ UNCHANGED <<previous, restored>>
       \/ /\ journal # "none"
          /\ Local(h, journal, 0) /\ RouteGoto(h, "undo")
          /\ UNCHANGED <<owner, held>>
    /\ UNCHANGED <<journal, task, desktop, counters>>

(* The journal cannot be read, or the lock file not be opened: the error   *)
(* goes up, the journal stays for the next attempt.                        *)
RecoverFails(h) ==
    /\ stage[h] \in {"recover", "recover_claim", "reread", "claim"}
    /\ Fails /\ Abandon(h)
    /\ UNCHANGED <<journal, desktop, task>>

-----------------------------------------------------------------------------
(* start().                                                                *)

RouteStart(h) ==
    /\ stage[h] = "idle"
    /\ RouteGoto(h, "recover") /\ task' = [task EXCEPT ![h] = "start"]
    /\ UNCHANGED <<file, desktop, previous, restored, counters>>

StartClaim(h) ==
    /\ stage[h] = "claim"
    /\ \/ Taken(h) /\ RouteGoto(h, "idle") /\ told' = TRUE /\ UNCHANGED <<owner, held>>
       \/ Claim(h) /\ RouteGoto(h, "capture") /\ UNCHANGED told
    /\ UNCHANGED <<journal, desktop, events, failures, deaths>> /\ SameLocal

Capture(h) ==
    /\ stage[h] = "capture"
    /\ \/ default = TV /\ Abandon(h) /\ told' = TRUE
       \/ /\ default # TV
          /\ Local(h, default, 0) /\ RouteGoto(h, "leftover")
          /\ UNCHANGED <<owner, held, told>>
    /\ UNCHANGED <<journal, desktop, task, events, failures, deaths>>

ForgetLeftover(h) ==
    /\ stage[h] = "leftover"
    /\ Unload /\ RouteGoto(h, "write")
    /\ UNCHANGED <<file, plugged, raced, counters>> /\ SameLocal

Journal(h) ==
    /\ stage[h] = "write"
    /\ Write(previous[h]) /\ RouteGoto(h, "load")
    /\ UNCHANGED <<owner, held, desktop, counters>> /\ SameLocal

(* Before the journal is complete nothing was changed: nothing to own. A   *)
(* write whose directory could not be synced may have replaced the file.   *)
PrepareFails(h) ==
    /\ stage[h] \in {"capture", "leftover", "write"}
    /\ Fails /\ Abandon(h)
    /\ journal' \in {journal} \cup (IF stage[h] = "write" THEN {previous[h]} ELSE {})
    /\ \/ UNCHANGED desktop
       \/ stage[h] = "leftover" /\ Unload /\ UNCHANGED <<plugged, raced>>
    /\ UNCHANGED task

LoadSink(h) ==
    /\ stage[h] = "load"
    /\ tvSink' = TRUE /\ RouteGoto(h, "set")
    /\ UNCHANGED <<file, plugged, default, chosen, raced, counters>> /\ SameLocal

SetDefault(h) ==
    /\ stage[h] = "set"
    /\ default' = TV /\ RouteGoto(h, "move")
    /\ UNCHANGED <<file, plugged, tvSink, chosen, raced, counters>> /\ SameLocal

MoveSounds(h) ==
    /\ stage[h] = "move"
    /\ RouteGoto(h, "streaming")
    /\ UNCHANGED <<file, desktop, counters>> /\ SameLocal

(* pactl fails or times out, with or without its effect: start() undoes    *)
(* what it did.                                                            *)
SwitchFails(h) ==
    /\ stage[h] \in {"load", "set", "move"}
    /\ Fails /\ RouteGoto(h, "undo") /\ task' = [task EXCEPT ![h] = "undo_start"]
    /\ tvSink' \in (IF stage[h] = "load" THEN BOOLEAN ELSE {tvSink})
    /\ default' \in {default} \cup (IF stage[h] = "set" THEN {TV} ELSE {})
    /\ UNCHANGED <<file, plugged, chosen, raced, previous, restored>>

-----------------------------------------------------------------------------
(* stop(): three steps, of which a retry repeats only what is left.        *)

RouteStop(h) ==
    /\ stage[h] \in {"streaming", "tracked"}
    /\ RouteGoto(h, "undo") /\ task' = [task EXCEPT ![h] = "stop"]
    /\ UNCHANGED <<file, desktop, previous, restored, counters>>

StepDone(h) ==
    /\ restored' = [restored EXCEPT ![h] = @ + 1]
    /\ UNCHANGED <<previous, task>>

(* Mutant: the choice made during the stream is overridden.                *)
GiveBackAlways(h) ==
    /\ stage[h] = "undo" /\ restored[h] = 0
    /\ IF previous[h] \in plugged
          THEN RouteGoto(h, "giving") /\ SameLocal
          ELSE StepDone(h) /\ UNCHANGED stage
    /\ UNCHANGED <<file, desktop, counters>>

(* _give_default_back looks first ...                                      *)
GiveBackCheck(h) ==
    /\ stage[h] = "undo" /\ restored[h] = 0
    /\ IF default = TV /\ previous[h] \in plugged
          THEN RouteGoto(h, "giving") /\ SameLocal
          ELSE StepDone(h) /\ UNCHANGED stage
    /\ UNCHANGED <<file, desktop, counters>>

(* ... and sets then.                                                      *)
SetBack(h) ==
    /\ stage[h] = "giving" /\ previous[h] \in plugged
    /\ default' = previous[h]
    /\ chosen' = IF chosen = "any" THEN previous[h] ELSE chosen
    /\ UNCHANGED <<plugged, tvSink, raced>>

GiveBack(h) ==
    /\ SetBack(h)
    /\ RouteGoto(h, "undo") /\ StepDone(h)
    /\ UNCHANGED <<file, counters>>

MoveBack(h) ==
    /\ stage[h] = "undo" /\ restored[h] = 1
    /\ StepDone(h)
    /\ UNCHANGED <<file, desktop, stage, counters>>

UnloadSinks(h) ==
    /\ stage[h] = "undo" /\ restored[h] = 2
    /\ Unload /\ StepDone(h)
    /\ UNCHANGED <<file, plugged, raced, stage, counters>>

Verify(h) ==
    /\ stage[h] = "undo" /\ restored[h] = 3
    /\ ~tvSink /\ default # TV
    /\ RouteGoto(h, "clear")
    /\ UNCHANGED <<file, desktop, counters>> /\ SameLocal

ClearJournal(h) ==
    /\ stage[h] = "clear"
    /\ Clear(h) /\ Local(h, "none", 0)
    /\ IF task[h] \in {"boot", "start"} THEN AfterRecover(h) ELSE RouteGoto(h, "idle")
    /\ UNCHANGED <<desktop, task, counters>>

(* stop() raises. Called by recover(), the route is released for the next  *)
(* attempt; otherwise it stays tracked, lock included.                     *)
StopRaises(h) ==
    /\ IF task[h] \in {"boot", "start"}
          THEN Abandon(h)
          ELSE /\ RouteGoto(h, "tracked")
               /\ restored' = [restored EXCEPT ![h] =
                      IF @ = 3 /\ (tvSink \/ default = TV) THEN 0 ELSE @]
               /\ UNCHANGED <<owner, held, previous>>
    /\ UNCHANGED task

(* The former output went after the look: pactl refuses it.                *)
GiveBackRefused(h) ==
    /\ stage[h] = "giving" /\ previous[h] \notin plugged
    /\ StopRaises(h) /\ told' = TRUE
    /\ UNCHANGED <<journal, desktop, events, failures, deaths>>

(* Mutant: a failed restoration forgets the journal.                       *)
UndoFailsClearing(h) ==
    /\ stage[h] \in {"undo", "giving", "clear"}
    /\ Fails /\ StopRaises(h)
    /\ journal' = "none"
    /\ UNCHANGED desktop

(* A pactl that timed out may have done its work; an unlink that fails may *)
(* be the sync after it.                                                   *)
UndoFails(h) ==
    /\ stage[h] \in {"undo", "giving", "clear"}
    /\ Fails /\ StopRaises(h)
    /\ \/ UNCHANGED desktop
       \/ SetBack(h)
       \/ stage[h] = "undo" /\ restored[h] = 2 /\ Unload /\ UNCHANGED <<plugged, raced>>
    /\ journal' \in {journal} \cup (IF stage[h] = "clear" THEN {"none"} ELSE {})

(* The HLS path drops the session whose stop failed, and the descriptor    *)
(* that holds the lock with it: only the process's end frees it.           *)
Drop(h) ==
    /\ stage[h] = "tracked"
    /\ held' = [held EXCEPT ![h] = FALSE]
    /\ Local(h, "none", 0) /\ RouteGoto(h, "idle")
    /\ UNCHANGED <<journal, owner, desktop, task, counters>>

-----------------------------------------------------------------------------
(* The process is killed; the next one restores first (main).              *)

Die(h) ==
    /\ deaths < MaxDeaths /\ deaths' = deaths + 1
    /\ stage[h] # "dead" /\ RouteGoto(h, "dead")
    /\ Dies(h) /\ Local(h, "none", 0)
    /\ UNCHANGED <<desktop, task, events, failures, told>>

(* Mutant: the boot waits for another stream.                              *)
RestartIdle(h) ==
    /\ stage[h] = "dead"
    /\ RouteGoto(h, "idle") /\ task' = [task EXCEPT ![h] = "boot"]
    /\ UNCHANGED <<file, desktop, previous, restored, counters>>

Restart(h) ==
    /\ stage[h] = "dead"
    /\ RouteGoto(h, "recover") /\ task' = [task EXCEPT ![h] = "boot"]
    /\ UNCHANGED <<file, desktop, previous, restored, counters>>

-----------------------------------------------------------------------------
(* What a live process does by itself, and what may happen to it.          *)
Works(h) ==
    \/ Recover(h) \/ RecoverClaim(h) \/ Reread(h)
    \/ StartClaim(h) \/ Capture(h) \/ ForgetLeftover(h) \/ Journal(h)
    \/ LoadSink(h) \/ SetDefault(h) \/ MoveSounds(h)
    \/ GiveBackCheck(h) \/ GiveBack(h) \/ MoveBack(h) \/ UnloadSinks(h)
    \/ GiveBackRefused(h) \/ Verify(h) \/ ClearJournal(h)

Happens(h) ==
    \/ RouteStart(h) \/ RouteStop(h) \/ Drop(h) \/ Die(h) \/ Restart(h)
    \/ RecoverFails(h) \/ PrepareFails(h) \/ SwitchFails(h) \/ UndoFails(h)

RouteNext ==
    \/ \E h \in Hosts : Works(h) \/ Happens(h)
    \/ \E o \in Outputs : Choose(o) \/ Unplug(o) \/ PlugIn(o)

(* A process goes on with what it began, and control-TV is started again   *)
(* after it was killed. Nobody has to start or to stop a stream.           *)
RouteFairness == \A h \in Hosts : WF_routevars(Works(h)) /\ WF_routevars(Restart(h))

RouteSpec == RouteInit /\ [][RouteNext]_routevars /\ RouteFairness

-----------------------------------------------------------------------------
(* The null sink is there, or is the default output, only while a journal  *)
(* on disk says how to undo it: a kill between any two commands of start() *)
(* or stop() leaves what the next start needs.                             *)
WayBackOnDisk == tvSink \/ default = TV => journal # "none"

(* The recovery of another process never undoes a running stream, nor      *)
(* replaces its journal.                                                   *)
StreamIsNotUndone ==
    \A h \in Hosts : stage[h] = "streaming" =>
        /\ tvSink
        /\ owner = h /\ held[h]
        /\ journal = previous[h]

(* Once nothing is left to restore, the sound plays where the person wants *)
(* it: the output of before the stream, or one chosen since. (Outputs that *)
(* change between a look at the default and its command are excepted.)     *)
BackToTheChoice == journal = "none" => default = chosen \/ raced

(* What a killed process left is undone without another stream, unless the *)
(* owner is told of an error.                                              *)
SoundComesBack ==
    journal # "none" ~>
        (journal = "none" \/ told \/ \E h \in Hosts : stage[h] = "streaming")

(* restore_journal.py: a journal whose lock is taken belongs to a live     *)
(* stream, which can still undo it.                                        *)
TakenIsALiveStream == \A h \in Hosts : owner = h => held[h]
=============================================================================
