----------------------------- MODULE LiveEncoder -----------------------------
(***************************************************************************)
(* D0LiveEncoder (screen_streaming/h264_encoder.py): a live stream is an   *)
(* FFmpeg group and an output directory. Its start may fail or be          *)
(* interrupted after any step, several threads may stop it, and a release  *)
(* may fail halfway: it is then retried from where it stood.               *)
(***************************************************************************)
EXTENDS ProcessGroup, EncoderPlan, Integers

CONSTANTS
    LiveGroup,        \* the stream's process group
    MaxTroubles  \* bound: failures of the system and interrupts

ASSUME LiveEncoderAssumption == LiveGroup \in Groups /\ MaxTroubles \in Nat

VARIABLES
    attached,    \* the session's process is not released (session.process)
    directory,   \* the output directory exists
    registered,  \* the handle is in _sessions
    freed,       \* the handle is in _released
    given,       \* start() returned the handle
    stopLock,    \* the thread that holds session.stopping, or "nobody"
    encoder,        \* per thread: where its call is
    troubles

lvars == <<attached, directory, registered, freed, given, stopLock, encoder, troubles, pvars>>

Starting == {"run", "register", "await", "abandon", "abandon_rm"}

LiveTypeOK ==
    /\ GroupTypeOK
    /\ attached \in BOOLEAN /\ directory \in BOOLEAN /\ registered \in BOOLEAN
    /\ freed \in BOOLEAN /\ given \in BOOLEAN
    /\ stopLock \in Stewards \cup {"nobody"}
    /\ encoder \in [Stewards -> Starting \cup {"out", "lock", "release", "rm"}]
    /\ troubles \in Nat

LiveInit ==
    /\ GroupInit /\ attached = FALSE /\ directory = FALSE /\ registered = FALSE
    /\ freed = FALSE /\ given = FALSE /\ stopLock = "nobody"
    /\ encoder = [t \in Stewards |-> "out"] /\ troubles = 0

To(t, place) == encoder' = [encoder EXCEPT ![t] = place]
Trouble == troubles < MaxTroubles /\ troubles' = troubles + 1
Handle == <<registered, freed, given>>

-----------------------------------------------------------------------------
(* start().                                                                *)

(* The request and the plan are checked before anything exists.            *)
NewStream(t, preference, capabilities) ==
    /\ ~registered /\ \A u \in Stewards : encoder[u] = "out"   \* bound: one stream at a time
    /\ SelectPlan(preference, capabilities) # "unavailable"
    /\ directory' = TRUE /\ freed' = FALSE /\ given' = FALSE /\ To(t, "run")
    /\ UNCHANGED <<attached, registered, stopLock, troubles, pvars>>

RunLive(t) ==
    /\ encoder[t] = "run"
    /\ StartGroup(LiveGroup) /\ attached' = TRUE /\ To(t, "register")
    /\ UNCHANGED <<directory, Handle, stopLock, troubles>>

Register(t) ==
    /\ encoder[t] = "register"
    /\ registered' = TRUE /\ To(t, "await")
    /\ UNCHANGED <<attached, directory, freed, given, stopLock, troubles, pvars>>

(* _await_segments: the playlist is ready ...                              *)
SegmentsReady(t) ==
    /\ encoder[t] = "await" /\ leader[LiveGroup] = "runs"
    /\ given' = TRUE /\ To(t, "out")
    /\ UNCHANGED <<attached, directory, registered, freed, stopLock, troubles, pvars>>

(* ... or FFmpeg ended first, or the time is over.                         *)
NoSegment(t) ==
    /\ encoder[t] = "await"
    /\ To(t, "abandon") /\ StopProcess(t, LiveGroup)
    /\ UNCHANGED <<attached, directory, Handle, stopLock, troubles>>

(* A step fails or is interrupted: _abandon_start undoes what there is.    *)
LiveStartFails(t) ==
    /\ Trouble /\ encoder[t] \in {"run", "register"}
    /\ IF attached THEN To(t, "abandon") /\ StopProcess(t, LiveGroup)
                   ELSE To(t, "abandon_rm") /\ UNCHANGED pvars
    /\ UNCHANGED <<attached, directory, Handle, stopLock>>

(* Mutant: a group that outlives SIGKILL is forgotten with the start.      *)
AbandonStreamForgetting(t) ==
    /\ encoder[t] = "abandon" /\ StopReturned(t) /\ StopForgotten(t)
    /\ attached' = (stops[t].at # "gone") /\ To(t, "abandon_rm")
    /\ registered' = FALSE
    /\ UNCHANGED <<directory, freed, given, stopLock, troubles, leader, member>>

(* What cannot be released stays registered, for stop() and close().       *)
AbandonStream(t) ==
    /\ encoder[t] = "abandon" /\ StopReturned(t) /\ StopForgotten(t)
    /\ IF stops[t].at = "gone"
          THEN attached' = FALSE /\ To(t, "abandon_rm") /\ UNCHANGED registered
          ELSE registered' = TRUE /\ To(t, "out") /\ UNCHANGED attached
    /\ UNCHANGED <<directory, freed, given, stopLock, troubles, leader, member>>

AbandonRemoves(t) ==
    /\ encoder[t] = "abandon_rm" /\ To(t, "out")
    /\ directory' = FALSE /\ registered' = FALSE
    /\ UNCHANGED <<attached, freed, given, stopLock, troubles, pvars>>

AbandonKeepsOutput(t) ==
    /\ Trouble /\ encoder[t] = "abandon_rm" /\ To(t, "out")
    /\ registered' = TRUE
    /\ UNCHANGED <<attached, directory, freed, given, stopLock, pvars>>

-----------------------------------------------------------------------------
(* stop(), and close() of every stream still owned. A stream has no handle *)
(* to be stopped by before its start() returned; that close(), which has   *)
(* no caller in control-TV, may meet one still starting is left out.       *)

LiveStop(t) ==
    /\ encoder[t] = "out" /\ registered
    /\ \A u \in Stewards : encoder[u] \notin Starting
    /\ To(t, "lock")
    /\ UNCHANGED <<attached, directory, Handle, stopLock, troubles, pvars>>

(* Mutant: the handle is not looked up again under the stream's lock.      *)
LockBlindly(t) ==
    /\ encoder[t] = "lock" /\ stopLock = "nobody"
    /\ stopLock' = t /\ To(t, IF attached THEN "release" ELSE "rm")
    /\ IF attached THEN StopProcess(t, LiveGroup) ELSE UNCHANGED pvars
    /\ UNCHANGED <<attached, directory, Handle, troubles>>

(* A concurrent stop may have released it meanwhile.                       *)
Lock(t) ==
    /\ encoder[t] = "lock" /\ stopLock = "nobody"
    /\ IF ~registered THEN To(t, "out") /\ UNCHANGED <<stopLock, pvars>>
       ELSE /\ stopLock' = t /\ To(t, IF attached THEN "release" ELSE "rm")
            /\ IF attached THEN StopProcess(t, LiveGroup) ELSE UNCHANGED pvars
    /\ UNCHANGED <<attached, directory, Handle, troubles>>

Released(t) ==
    /\ encoder[t] = "release" /\ StopReturned(t) /\ StopForgotten(t)
    /\ IF stops[t].at = "gone" THEN attached' = FALSE /\ To(t, "rm") /\ UNCHANGED stopLock
                               ELSE stopLock' = "nobody" /\ To(t, "out") /\ UNCHANGED attached
    /\ UNCHANGED <<directory, Handle, troubles, leader, member>>

Removed(t) ==
    /\ encoder[t] = "rm" /\ To(t, "out")
    /\ directory' = FALSE /\ registered' = FALSE /\ freed' = TRUE /\ stopLock' = "nobody"
    /\ UNCHANGED <<attached, given, troubles, pvars>>

(* The output cannot be removed, or Ctrl-C: the stream is kept.            *)
ReleaseFails(t) ==
    /\ Trouble /\ encoder[t] \in {"release", "rm"} /\ ~StopReturned(t)
    /\ stopLock' = "nobody" /\ To(t, "out") /\ StopForgotten(t)
    /\ UNCHANGED <<attached, directory, Handle, leader, member>>

LiveStopFails(t) ==
    /\ Trouble /\ StopFails(t)
    /\ UNCHANGED <<attached, directory, Handle, stopLock, encoder>>

-----------------------------------------------------------------------------
LiveWorks(t) ==
    \/ RunLive(t) \/ Register(t) \/ SegmentsReady(t) \/ NoSegment(t)
    \/ AbandonStream(t) \/ AbandonRemoves(t) \/ Lock(t) \/ Released(t) \/ Removed(t)
    \/ StopSteps(t) /\ UNCHANGED <<attached, directory, Handle, stopLock, encoder, troubles>>

LiveNext ==
    \/ \E t \in Stewards :
          \/ \E p \in Preferences, c \in Capabilities : NewStream(t, p, c)
          \/ LiveWorks(t) \/ LiveStop(t)
          \/ LiveStartFails(t) \/ AbandonKeepsOutput(t) \/ ReleaseFails(t) \/ LiveStopFails(t)
    \/ /\ GroupEnds(LiveGroup)
       /\ UNCHANGED <<attached, directory, Handle, stopLock, encoder, troubles>>

LiveFairness == \A t \in Stewards : WF_lvars(LiveWorks(t))

LiveSpec == LiveInit /\ [][LiveNext]_lvars /\ LiveFairness

-----------------------------------------------------------------------------
(* A started process or its output is never left untracked, however the    *)
(* start or a stop ends; a stream is recorded as released only when both   *)
(* are gone.                                                               *)
StreamIsTracked ==
    /\ Unreaped(LiveGroup) \/ directory => registered \/ \E t \in Stewards : encoder[t] \in Starting
    /\ freed => ~Unreaped(LiveGroup) /\ ~directory /\ ~registered

(* Concurrent stops of one stream are serialized: a release never begins   *)
(* on a stream that another stop has released.                             *)
NothingIsReleasedTwice ==
    \A t \in Stewards : encoder[t] \in {"release", "rm"} => registered /\ stopLock = t
=============================================================================
