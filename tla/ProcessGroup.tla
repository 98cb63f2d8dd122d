---------------------------- MODULE ProcessGroup ----------------------------
(***************************************************************************)
(* _ProcessGroup and stop_process (screencast/process.py): FFmpeg runs in  *)
(* a process group of its own, which is ended as a whole. A member may     *)
(* outlive its leader, be deaf to SIGTERM, or be blocked in a driver and   *)
(* outlive SIGKILL; the leader's id stays reserved until it is reaped.     *)
(***************************************************************************)
CONSTANTS
    Groups,     \* the ids of process groups
    Stewards     \* the threads that stop them

ASSUME ProcessGroupAssumption ==
    /\ "none" \notin Groups /\ "no" \notin Groups
    /\ "nobody" \notin Stewards

VARIABLES
    leader,     \* per group: "free" (never started, or reaped), "runs" or "exited" (a zombie)
    member,     \* per group: a descendant of the leader runs
    stops       \* per thread: its stop_process call

pvars == <<leader, member, stops>>

NoStop == [group |-> "none", at |-> "no"]

GroupTypeOK ==
    /\ leader \in [Groups -> {"free", "runs", "exited"}]
    /\ member \in [Groups -> BOOLEAN]
    /\ stops \in [Stewards -> [group : Groups \cup {"none"},
                              at : {"no", "look", "term", "kill", "gone", "alive", "error"}]]

GroupInit ==
    /\ leader = [g \in Groups |-> "free"] /\ member = [g \in Groups |-> FALSE]
    /\ stops = [t \in Stewards |-> NoStop]

(* group_alive: the members that are not zombies.                          *)
GroupAlive(g) == leader[g] = "runs" \/ member[g]

Unreaped(g) == leader[g] \in {"runs", "exited"}

(* SubprocessRunner.start, under an id that is free; the leader may start a *)
(* helper.                                                                 *)
StartGroup(g) ==
    /\ ~Unreaped(g) /\ leader' = [leader EXCEPT ![g] = "runs"]
    /\ \E helper \in BOOLEAN : member' = [member EXCEPT ![g] = helper]
    /\ UNCHANGED stops

(* release: the leader is reaped once no member runs.                      *)
ReleaseGroup(g) ==
    leader' = [leader EXCEPT ![g] = IF GroupAlive(g) THEN @ ELSE "free"]

StopAt(t, place) == stops' = [stops EXCEPT ![t].at = place]

StopProcess(t, g) ==
    /\ stops' = [stops EXCEPT ![t] = [group |-> g, at |-> "look"]]
    /\ UNCHANGED <<leader, member>>

(* A group that already ended is released, any other gets SIGTERM.         *)
StopLooks(t) ==
    LET g == stops[t].group IN
    /\ stops[t].at = "look"
    /\ \/ GroupAlive(g) /\ StopAt(t, "term") /\ UNCHANGED leader
       \/ ~GroupAlive(g) /\ ReleaseGroup(g) /\ StopAt(t, "gone")
    /\ UNCHANGED member

(* _group_ends_within: it ends in time ...                                 *)
StopSeesTheEnd(t) ==
    /\ stops[t].at \in {"term", "kill"} /\ ~GroupAlive(stops[t].group)
    /\ ReleaseGroup(stops[t].group) /\ StopAt(t, "gone")
    /\ UNCHANGED member

(* Mutant: SIGKILL is waited for without an end.                           *)
GraceEndsOnce(t) ==
    /\ stops[t].at = "term" /\ GroupAlive(stops[t].group)
    /\ StopAt(t, "kill")
    /\ UNCHANGED <<leader, member>>

(* ... or not: SIGKILL follows SIGTERM, and then it is not released.       *)
GraceEnds(t) ==
    /\ stops[t].at \in {"term", "kill"} /\ GroupAlive(stops[t].group)
    /\ StopAt(t, IF stops[t].at = "term" THEN "kill" ELSE "alive")
    /\ UNCHANGED <<leader, member>>

(* Signalling or reading fails.                                            *)
StopFails(t) ==
    /\ stops[t].at \in {"look", "term", "kill"} /\ StopAt(t, "error")
    /\ UNCHANGED <<leader, member>>

StopReturned(t) == stops[t].at \in {"gone", "alive", "error"}
StopForgotten(t) == stops' = [stops EXCEPT ![t] = NoStop]

StopSteps(t) == StopLooks(t) \/ StopSeesTheEnd(t) \/ GraceEnds(t)

(* A process ends: by itself, or at a signal it is not deaf to (which one  *)
(* it got makes no other difference).                                      *)
GroupEnds(g) ==
    /\ \/ leader[g] = "runs" /\ leader' = [leader EXCEPT ![g] = "exited"] /\ UNCHANGED member
       \/ member[g] /\ member' = [member EXCEPT ![g] = FALSE] /\ UNCHANGED leader
    /\ UNCHANGED stops
=============================================================================
