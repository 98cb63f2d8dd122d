----------------------------- MODULE Screencast -----------------------------
(***************************************************************************)
(* ScreenCastService (screencast/service.py): one encode at a time, of an  *)
(* FFmpeg group. Calls of several threads exclude each other without       *)
(* waiting (_exclusive): a second one is refused. A call may be            *)
(* interrupted (Ctrl-C), a start may fail after any of its steps, and a    *)
(* group may outlive SIGKILL: it is then kept for reclaim().               *)
(***************************************************************************)
EXTENDS ProcessGroup, EncoderPlan, Integers, FiniteSets

CONSTANTS MaxErrors   \* bound: interrupts and failures of the system

ASSUME ScreencastAssumption == MaxErrors \in Nat

VARIABLES
    castState,  \* _state
    castSession,    \* _session: its group ("none": its process is over), "no" without one;
                \* its directory goes with it
    unreclaimed, \* _unreclaimed
    busy,       \* the thread that holds _busy, or "nobody"
    step,       \* per thread: where its call is
    call,       \* per thread: its call
    after,      \* per thread: what follows its _halt
    errors

cvars == <<castState, castSession, unreclaimed, busy, step, call, after, errors, pvars>>

States == {"idle", "starting", "running", "stopping", "stopped", "failed"}
Calls == {"start", "wait", "stop", "close", "reclaim"}

CastTypeOK ==
    /\ GroupTypeOK /\ castState \in States
    /\ castSession \in Groups \cup {"none", "no"}
    /\ unreclaimed \subseteq Groups /\ busy \in Stewards \cup {"nobody"}
    /\ step \in [Stewards -> Calls \cup {"out", "launch", "run", "hook", "halt", "ending"}]
    /\ call \in [Stewards -> Calls]
    /\ after \in [Stewards -> {"judge", "stop", "failed", "rescue"}]
    /\ errors \in Nat

CastInit ==
    /\ GroupInit /\ castState = "idle" /\ castSession = "no" /\ unreclaimed = {}
    /\ busy = "nobody" /\ step = [t \in Stewards |-> "out"]
    /\ after = [t \in Stewards |-> "judge"] /\ call = [t \in Stewards |-> "stop"] /\ errors = 0

Goes(t, place) == step' = [step EXCEPT ![t] = place]

Returns(t) == busy' = "nobody" /\ Goes(t, "out")

Stays == UNCHANGED <<castState, castSession, unreclaimed>>

AnError == errors < MaxErrors /\ errors' = errors + 1

(* _exclusive, and close()'s own try.                                      *)
CastCall(t, name) ==
    /\ busy = "nobody" /\ step[t] = "out"
    /\ busy' = t /\ Goes(t, name) /\ call' = [call EXCEPT ![t] = name]
    /\ Stays /\ UNCHANGED <<after, errors, pvars>>

(* _end_session: a group still attached is kept, never dropped.            *)
EndSession ==
    /\ castSession' = "no"
    /\ unreclaimed' = unreclaimed \cup ({castSession} \cap Groups)

(* _reclaim over `groups`: SIGKILL again, and release what has ended.      *)
Reclaim(groups) ==
    /\ unreclaimed' = {g \in groups : GroupAlive(g)}
    /\ leader' = [g \in Groups |-> IF g \in groups \ unreclaimed' THEN "free" ELSE leader[g]]
    /\ UNCHANGED <<member, stops>>

ReclaimCall(t) ==
    /\ step[t] = "reclaim"
    /\ Reclaim(unreclaimed) /\ Returns(t)
    /\ UNCHANGED <<castState, castSession, call, after, errors>>

-----------------------------------------------------------------------------
(* start().                                                                *)

StartRefused(t) ==
    /\ step[t] = "start" /\ castState \notin {"idle", "stopped", "failed"}
    /\ Returns(t) /\ Stays /\ UNCHANGED <<call, after, errors, pvars>>

(* Mutant: the kept groups are not looked at.                              *)
StartBeginsAnyway(t) ==
    /\ step[t] = "start" /\ castState \in {"idle", "stopped", "failed"}
    /\ castSession' = "no"
    /\ Reclaim(unreclaimed \cup ({castSession} \cap Groups))
    /\ castState' = "starting" /\ Goes(t, "launch")
    /\ UNCHANGED <<busy, call, after, errors>>

(* An earlier encoder that still runs refuses the start.                   *)
StartBegins(t) ==
    /\ step[t] = "start" /\ castState \in {"idle", "stopped", "failed"}
    /\ castSession' = "no"
    /\ Reclaim(unreclaimed \cup ({castSession} \cap Groups))
    /\ IF unreclaimed' # {} THEN castState' = "failed" /\ Returns(t)
                     ELSE castState' = "starting" /\ Goes(t, "launch") /\ UNCHANGED busy
    /\ UNCHANGED <<call, after, errors>>

(* _launch: the request is checked again, then the plan, then a directory. *)
Launch(t, preference, capabilities) ==
    /\ step[t] = "launch" /\ SelectPlan(preference, capabilities) # "unavailable"
    /\ castSession' = "none" /\ Goes(t, "run")
    /\ UNCHANGED <<castState, unreclaimed, busy, call, after, errors, pvars>>

RunEncoder(t, g) ==
    /\ step[t] = "run"
    /\ StartGroup(g) /\ castSession' = g /\ Goes(t, "hook")
    /\ UNCHANGED <<castState, unreclaimed, busy, call, after, errors>>

StartReturns(t) ==
    /\ step[t] = "hook"
    /\ castState' = "running" /\ Returns(t)
    /\ UNCHANGED <<castSession, unreclaimed, call, after, errors, pvars>>

(* _failed(halt=True): a process is stopped before the session ends.       *)
Failing(t) ==
    \/ /\ castSession \in Groups
       /\ StopProcess(t, castSession) /\ Goes(t, "halt")
       /\ after' = [after EXCEPT ![t] = "failed"]
       /\ Stays /\ UNCHANGED busy
    \/ /\ castSession \notin Groups
       /\ castState' = "failed" /\ EndSession /\ Returns(t)
       /\ UNCHANGED <<after, pvars>>

(* A step of start() fails, or is interrupted.                             *)
StartFails(t) ==
    /\ AnError /\ step[t] \in {"launch", "run", "hook"}
    /\ Failing(t) /\ UNCHANGED call

-----------------------------------------------------------------------------
(* wait(), stop() and close() end in a _halt.                              *)

Halts(t, then) ==
    /\ StopProcess(t, castSession) /\ Goes(t, "halt")
    /\ after' = [after EXCEPT ![t] = then]

CastRunning == castState = "running" /\ castSession \in Groups

NotRunning(t) ==
    /\ step[t] \in {"wait", "stop"} /\ ~CastRunning
    /\ Returns(t) /\ Stays /\ UNCHANGED <<call, after, errors, pvars>>

(* The encoder has exited, or the time is over.                            *)
WaitEnds(t) ==
    /\ step[t] = "wait" /\ CastRunning
    /\ IF leader[castSession] = "exited" THEN Halts(t, "judge") ELSE Halts(t, "failed")
    /\ Stays /\ UNCHANGED <<busy, call, errors>>

StopRunning(t) ==
    /\ step[t] \in {"stop", "close"} /\ CastRunning
    /\ IF leader[castSession] = "exited"
          THEN Halts(t, "judge") /\ UNCHANGED castState
          ELSE Halts(t, "stop") /\ castState' = "stopping"
    /\ UNCHANGED <<castSession, unreclaimed, busy, call, errors>>

(* close(): reading the encoder's state fails; _rescue stops it.           *)
CloseRescues(t) ==
    /\ AnError /\ step[t] = "close" /\ CastRunning
    /\ Halts(t, "rescue") /\ castState' = "failed"
    /\ UNCHANGED <<castSession, unreclaimed, busy, call>>

(* The end of close().                                                     *)
CastCloseEnds(t) ==
    /\ step[t] = "ending" \/ (step[t] = "close" /\ ~CastRunning)
    /\ castSession' = "no"
    /\ Reclaim(unreclaimed \cup ({castSession} \cap Groups)) /\ Returns(t)
    /\ UNCHANGED <<castState, call, after, errors>>

(* Which call a _halt returns to: close() still has its end to do.         *)
ReturnsFromHalt(t) ==
    IF call[t] = "close" THEN Goes(t, "ending") /\ UNCHANGED busy ELSE Returns(t)

(* Mutant: a group that could not be stopped is forgotten.                 *)
KeptWithoutSurvivors(t) == unreclaimed

KeptOf(t) == IF stops[t].at = "gone" THEN unreclaimed ELSE unreclaimed \cup {stops[t].group}

(* _halt is over; `well`: the encoder's status, output and stderr are good. *)
Halted(t, well) ==
    /\ step[t] = "halt" /\ StopReturned(t)
    /\ StopForgotten(t) /\ unreclaimed' = KeptOf(t)
    /\ castState' = IF stops[t].at = "gone" /\ (after[t] = "stop" \/ (after[t] = "judge" /\ well))
                       THEN "stopped" ELSE "failed"
    /\ castSession' = IF castState' = "failed" /\ after[t] # "rescue" THEN "no" ELSE "none"
    /\ ReturnsFromHalt(t)
    /\ UNCHANGED <<call, after, errors, leader, member>>

HaltFails(t) ==
    /\ AnError /\ step[t] = "halt" /\ StopFails(t)
    /\ Stays /\ UNCHANGED <<busy, step, call, after>>

(* Ctrl-C in a wait or in a _halt: the handle stays attached.              *)
Interrupted(t) ==
    /\ AnError /\ step[t] \in {"wait", "halt"} /\ ~StopReturned(t)
    /\ StopForgotten(t) /\ ReturnsFromHalt(t)
    /\ Stays /\ UNCHANGED <<call, after, leader, member>>

-----------------------------------------------------------------------------
CastWorks(t) ==
    \/ StartRefused(t) \/ StartBegins(t)
    \/ \E p \in Preferences, c \in Capabilities : Launch(t, p, c)
    \/ \E g \in Groups : RunEncoder(t, g)
    \/ StartReturns(t) \/ NotRunning(t) \/ WaitEnds(t) \/ StopRunning(t) \/ CastCloseEnds(t)
    \/ ReclaimCall(t) \/ \E well \in BOOLEAN : Halted(t, well)
    \/ StopSteps(t) /\ Stays /\ UNCHANGED <<busy, step, call, after, errors>>

CastNext ==
    \/ \E t \in Stewards : \/ CastWorks(t) \/ StartFails(t) \/ CloseRescues(t)
                          \/ HaltFails(t) \/ Interrupted(t)
                          \/ \E name \in Calls : CastCall(t, name)
    \/ \E g \in Groups : GroupEnds(g) /\ Stays /\ UNCHANGED <<busy, step, call, after, errors>>

CastFairness == \A t \in Stewards : WF_cvars(CastWorks(t))

CastSpec == CastInit /\ [][CastNext]_cvars /\ CastFairness

-----------------------------------------------------------------------------
(* However a call ends (a failure after any step, Ctrl-C, a group that     *)
(* outlives SIGKILL), a group that is not reaped is still known: to the    *)
(* session or to reclaim().                                                *)
EncoderIsNeverDropped == \A g \in Groups : Unreaped(g) => g \in unreclaimed \cup {castSession}

(* Two encoders never run together: one that outlived SIGKILL, or a helper *)
(* its leader left, refuses the next start; a stopped encode is over, its  *)
(* descendants included.                                                   *)
OneEncoder ==
    /\ Cardinality({g \in Groups : GroupAlive(g)}) <= 1
    /\ castState = "stopped" => \A g \in Groups : ~GroupAlive(g)

(* Every call ends, even on a group nothing can stop.                      *)
EveryCallEnds == \A t \in Stewards : busy = t ~> busy # t
=============================================================================
