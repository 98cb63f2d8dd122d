--------------------------- MODULE DisplayManager ---------------------------
(***************************************************************************)
(* DisplayManager (display_layout.py): a screen configuration is applied,  *)
(* then kept by the owner in time, or reverted by itself. The bridge's     *)
(* thread and the timers' threads share one lock, held for a whole method: *)
(* each method is one step. A timer that has fired waits for the lock, and *)
(* can no longer be cancelled.                                             *)
(***************************************************************************)
EXTENDS Integers

CONSTANTS
    Outputs,      \* the outputs of the X server
    Settings,     \* what an output may be set to
    Usable(_, _), \* whether check() accepts a configuration (DisplayLayout)
    Initial,      \* the configuration when the application starts
    MaxChanges,   \* bound: configurations applied
    MayFail       \* whether an xrandr command may fail

ASSUME DisplayManagerAssumption ==
    /\ Initial \in [Outputs -> Settings]
    /\ MaxChanges \in Nat \ {0}
    /\ MayFail \in BOOLEAN
    /\ \A listed \in SUBSET Outputs, config \in [Outputs -> Settings] :
         Usable(listed, config) \in BOOLEAN

VARIABLES
    known,     \* the outputs the X server lists
    screens,   \* how they are set
    previous,  \* _previous: whether a change awaits, and the way back
    pending,   \* _pending_timer, by the number of its change; 0 is None
    timers,    \* per change, its timer
    change,    \* changes applied
    notice,    \* _reverted_by_itself
    bridge,    \* the bridge's thread
    accepted,  \* history: the configuration the owner has kept
    lost,      \* history: the way back to it was given up with an error
    failed,    \* history: a restore failed since the last apply()
    early      \* history: a change was reverted by the timer of another one

vars == <<known, screens, previous, pending, timers, change, notice, bridge,
          accepted, lost, failed, early>>

Changes == 1..MaxChanges

(* Types: a timer is never, running, fired or over (threading.Timer), and  *)
(* the configurations DisplayManager keeps set every output.               *)
TypeOK ==
    /\ known \subseteq Outputs
    /\ screens \in [Outputs -> Settings]
    /\ previous \in [awaiting : BOOLEAN, back : [Outputs -> Settings]]
    /\ pending \in 0..MaxChanges
    /\ timers \in [Changes -> {"none", "running", "fired", "over"}]
    /\ change \in 0..MaxChanges
    /\ notice \in BOOLEAN
    /\ bridge \in {"idle", "answer", "closed"}
    /\ accepted \in [Outputs -> Settings]
    /\ lost \in BOOLEAN
    /\ failed \in BOOLEAN
    /\ early \in BOOLEAN

NoChange == [awaiting |-> FALSE, back |-> Initial]

Init ==
    /\ known = Outputs /\ screens = Initial
    /\ previous = NoChange /\ pending = 0
    /\ timers = [n \in Changes |-> "none"]
    /\ change = 0 /\ notice = FALSE /\ bridge = "idle"
    /\ accepted = Initial /\ lost = FALSE /\ failed = FALSE /\ early = FALSE

-----------------------------------------------------------------------------
(* xrandr sets the listed outputs; one that fails may have set some.       *)
SetTo(config) == [o \in Outputs |-> IF o \in known THEN config[o] ELSE screens[o]]

PartlySetTo(config) ==
    {s \in [Outputs -> Settings] : \A o \in Outputs : s[o] \in {screens[o], SetTo(config)[o]}}

CancelTimer ==
    /\ pending' = 0
    /\ timers' = [n \in Changes |->
                    IF n = pending /\ timers[n] = "running" THEN "over" ELSE timers[n]]

(* Mutant: the change is not given a timer of its own. *)
ApplyWithoutTimer(config) ==
    /\ bridge = "idle" /\ change < MaxChanges
    /\ ~previous.awaiting
    /\ Usable(known, config)
    /\ screens' = SetTo(config)
    /\ previous' = [awaiting |-> TRUE, back |-> screens]
    /\ change' = change + 1
    /\ notice' = FALSE
    /\ bridge' = "answer"
    /\ failed' = FALSE
    /\ UNCHANGED <<known, pending, timers, accepted, lost, early>>

(* apply(): taken by the screens, and to be confirmed.                     *)
Apply(config) ==
    /\ bridge = "idle" /\ change < MaxChanges
    /\ ~previous.awaiting
    /\ Usable(known, config)
    /\ screens' = SetTo(config)
    /\ previous' = [awaiting |-> TRUE, back |-> screens]
    /\ change' = change + 1
    /\ pending' = change + 1
    /\ timers' = [timers EXCEPT ![change + 1] = "running"]
    /\ notice' = FALSE
    /\ bridge' = "answer"
    /\ failed' = FALSE
    /\ UNCHANGED <<known, accepted, lost, early>>

(* apply(): not taken, and the restore at once failed too: an error, and   *)
(* no snapshot is kept.                                                    *)
(* (An apply() refused by check(), or restored at once, changes nothing.)  *)
ApplyFails(config) ==
    /\ MayFail
    /\ bridge = "idle"
    /\ ~previous.awaiting
    /\ Usable(known, config)
    /\ screens' \in PartlySetTo(config) \ {screens}
    /\ lost' = TRUE
    /\ UNCHANGED <<known, previous, pending, timers, change, notice, bridge,
                   accepted, failed, early>>

Confirm ==
    /\ bridge = "idle"
    /\ CancelTimer
    /\ previous' = NoChange
    /\ accepted' = screens /\ lost' = FALSE
    /\ bridge' = "answer"
    /\ UNCHANGED <<known, screens, change, notice, failed, early>>

(* _restore: it succeeded, or it raised and may have set some outputs.     *)
Restored ==
    /\ screens' = SetTo(previous.back)
    /\ previous' = NoChange
    /\ UNCHANGED failed

NotRestored ==
    /\ MayFail
    /\ screens' \in PartlySetTo(previous.back)
    /\ failed' = TRUE
    /\ UNCHANGED previous

Revert ==
    /\ bridge = "idle"
    /\ CancelTimer
    /\ \/ /\ ~previous.awaiting
          /\ bridge' = "answer"
          /\ UNCHANGED <<screens, previous, failed>>
       \/ previous.awaiting /\ Restored /\ bridge' = "answer"
       \/ previous.awaiting /\ NotRestored /\ UNCHANGED bridge
    /\ UNCHANGED <<known, change, notice, accepted, lost, early>>

(* The application quits; a revert that fails is raised, and its snapshot  *)
(* goes with the process.                                                  *)
Close ==
    /\ bridge = "idle"
    /\ bridge' = "closed"
    /\ \/ /\ ~previous.awaiting
          /\ UNCHANGED <<screens, previous, pending, timers, lost, failed>>
       \/ previous.awaiting /\ CancelTimer /\ Restored /\ UNCHANGED lost
       \/ previous.awaiting /\ CancelTimer /\ NotRestored /\ lost' = TRUE
    /\ UNCHANGED <<known, change, notice, accepted, early>>

(* Mutant: the way back is dropped even when the restore failed. *)
ExpireDroppingSnapshot(n) ==
    /\ timers[n] = "fired"
    /\ timers' = [timers EXCEPT ![n] = "over"]
    /\ previous.awaiting
    /\ pending' = 0
    /\ previous' = NoChange
    /\ \/ screens' = SetTo(previous.back)
       \/ MayFail /\ screens' \in PartlySetTo(previous.back)
    /\ notice' = TRUE
    /\ early' = (early \/ n # change)
    /\ UNCHANGED <<known, change, bridge, accepted, lost, failed>>

(* _expire, once it has the lock: whatever change awaits is reverted. One   *)
(* that cannot be restored keeps its way back, for a later revert().       *)
Expire(n) ==
    /\ timers[n] = "fired"
    /\ timers' = [timers EXCEPT ![n] = "over"]
    /\ IF previous.awaiting
       THEN /\ pending' = 0
            /\ \/ Restored /\ notice' = TRUE
               \/ NotRestored /\ UNCHANGED notice
            /\ early' = (early \/ n # change)
       ELSE UNCHANGED <<screens, previous, pending, notice, failed, early>>
    /\ UNCHANGED <<known, change, bridge, accepted, lost>>

(* confirm_seconds passed.                                                 *)
Fire(n) ==
    /\ timers[n] = "running"
    /\ timers' = [timers EXCEPT ![n] = "fired"]
    /\ UNCHANGED <<known, screens, previous, pending, change, notice, bridge,
                   accepted, lost, failed, early>>

(* The answer to a request reads and clears the notice, unless layout()    *)
(* raised before it.                                                       *)
GetLayout ==
    /\ bridge = "idle" /\ notice
    /\ bridge' = "answer"
    /\ UNCHANGED <<known, screens, previous, pending, timers, change, notice,
                   accepted, lost, failed, early>>

Answer ==
    /\ bridge = "answer"
    /\ bridge' = "idle"
    /\ notice' = FALSE \/ (MayFail /\ UNCHANGED notice)
    /\ UNCHANGED <<known, screens, previous, pending, timers, change,
                   accepted, lost, failed, early>>

(* An output is gone from the X server's list.                             *)
Unplug(o) ==
    /\ known' = known \ {o}
    /\ UNCHANGED <<screens, previous, pending, timers, change, notice, bridge,
                   accepted, lost, failed, early>>

Next ==
    \/ \E config \in [Outputs -> Settings] : Apply(config) \/ ApplyFails(config)
    \/ Confirm \/ Revert \/ Close \/ GetLayout \/ Answer
    \/ \E n \in Changes : Fire(n) \/ Expire(n)
    \/ \E o \in known : Unplug(o)

(* A timer runs down, and its thread gets the lock.                        *)
Fairness == \A n \in Changes : WF_vars(Fire(n)) /\ WF_vars(Expire(n))

Spec == Init /\ [][Next]_vars /\ Fairness

-----------------------------------------------------------------------------
(* The owner loses the way back only with an error, in the two places where *)
(* no snapshot outlives a failed restore: apply() that could neither set    *)
(* nor restore the screens, and a quit whose revert failed. Until then a    *)
(* listed output is set the way the owner kept it, or a change awaits whose *)
(* snapshot says so, through restores that fail halfway, late timers and    *)
(* outputs that go; and a quit leaves no change awaiting.                   *)
WayBack ==
    ~lost =>
        /\ \A o \in known :
             accepted[o] = IF previous.awaiting THEN previous.back[o] ELSE screens[o]
        /\ bridge = "closed" => ~previous.awaiting

(* A change that is neither kept nor reverted by the owner is reverted by  *)
(* itself, unless a restore failed: that one waits for the owner.          *)
RevertsByItself == previous.awaiting ~> (~previous.awaiting \/ failed)

(* A change "must then be kept explicitly (`confirm()`) within             *)
(* `confirm_seconds`, otherwise it is reverted": by its own timer only.    *)
RevertedByItsOwnTimer == ~early
=============================================================================
