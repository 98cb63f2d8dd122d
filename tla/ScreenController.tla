--------------------------- MODULE ScreenController ---------------------------
(*****************************************************************************)
(* The bridge's screen stream (screen_streaming/controller.py) and the       *)
(* session it assembles (d1.py).  One controller per process owns either     *)
(*  - an HLS session, assembled, served and stopped by a thread of its own,  *)
(*  - or a capture lent to the window's WebRTC engine, prepared and released *)
(*    by the request that asks for it.                                       *)
(* Both take the same two things from the owner's computer: the extended     *)
(* screen ("ext") and the computer's sound ("snd").                          *)
(*                                                                           *)
(* The bridge reads one request at a time (bridge.py, run), so there is one  *)
(* caller; the thread of an HLS session runs beside it.  What one request    *)
(* cannot do to another (the generation that cancels an overtaken prepare)   *)
(* therefore never applies and is left out.  ExtendedDisplay and AudioRoute  *)
(* model what create/remove and start/stop do; here each one succeeds, is    *)
(* refused, or raises with the screen or the sound taken.                    *)
(*****************************************************************************)
EXTENDS Naturals, Sequences

CONSTANTS
    MaxSessions,    \* bound: sessions asked for in one life of the process
    MaxFaults       \* bound: failing calls

ASSUME ControllerAssumption ==
    MaxSessions \in Nat /\ MaxFaults \in Nat

VARIABLES
    status,      \* ScreenStatus.state
    stopSet,    \* the _stop event
    lease,      \* _webrtc_lease is not None
    kept,       \* _webrtc_extension, _webrtc_audio_route: whose object, 0 for None
    caller,     \* the request being handled
    job,        \* the sessions: a serving thread, or a prepare in its request
    desk,       \* what each of the two is taken by on the computer, 0 for nobody
    faults      \* bound

ctlvars == <<status, stopSet, lease, kept, caller, job, desk, faults>>

Sessions == 1..MaxSessions

Lent == {"ext", "snd"}

Busy == {"starting", "running", "stopping"}

CtlTypeOK ==
    /\ status \in Busy \cup {"idle", "failed"}
    /\ stopSet \in BOOLEAN /\ lease \in BOOLEAN
    /\ kept \in [Lent -> 0..MaxSessions]
    /\ desk \in [Lent -> 0..MaxSessions]
    /\ caller \in [at : {"free", "preparing", "releasing", "closing", "gone"},
                   todo : Seq(Lent), bad : BOOLEAN, closes : 0..3]
    /\ job \in [Sessions ->
                [kind : {"none", "hls", "webrtc"}, extend : BOOLEAN,
                 at : {"none", "connect", "screen", "capture", "sound", "ready", "runs",
                       "ending", "over"},
                 refs : SUBSET Lent, todo : Seq(Lent \cup {"service"}),
                 strict : BOOLEAN, bad : BOOLEAN, over : BOOLEAN]]
    /\ faults \in 0..MaxFaults

-----------------------------------------------------------------------------
(* The computer                                                              *)

Live(s) == job[s].at \notin {"none", "over"}

\* Some object of the process still holds the claim of what is taken: the
\* objects of a session live as long as its thread or request does.
Referenced(r) ==
    /\ desk[r] # 0
    /\ kept[r] = desk[r] \/ (Live(desk[r]) /\ r \in job[desk[r]].refs)

\* create() or start(): what a dropped object left is restored first; a claim
\* that is still held, or a fault, refuses; a fault may also leave it half done.
Take(s, r, outcome) ==
    CASE outcome = "ok"      -> ~Referenced(r) /\ desk' = [desk EXCEPT ![r] = s]
                                /\ UNCHANGED faults
      [] outcome = "half"    -> ~Referenced(r) /\ faults < MaxFaults
                                /\ desk' = [desk EXCEPT ![r] = s] /\ faults' = faults + 1
      [] outcome = "refused" -> UNCHANGED desk /\
                                \/ Referenced(r) /\ UNCHANGED faults
                                \/ faults < MaxFaults /\ faults' = faults + 1

Outcomes == {"ok", "half", "refused"}

\* remove() or stop() of the object of session s: nothing to do when it holds nothing.
HandBack(s, r, ok) ==
    IF ok THEN /\ desk' = IF desk[r] = s THEN [desk EXCEPT ![r] = 0] ELSE desk
               /\ UNCHANGED faults
          ELSE desk[r] = s /\ faults < MaxFaults /\ faults' = faults + 1 /\ UNCHANGED desk

\* What is handed back, in the order of a release or an undo, and of D1Session.stop.
Step(r, refs) == IF r \in refs THEN <<r>> ELSE <<>>
SoundFirst(refs) == Step("snd", refs) \o Step("ext", refs)
ServiceFirst(refs) == <<"service">> \o Step("ext", refs) \o Step("snd", refs)

Fault(ok) == IF ok THEN UNCHANGED faults ELSE faults < MaxFaults /\ faults' = faults + 1

-----------------------------------------------------------------------------
(* The requests                                                              *)

Free == [at |-> "free", todo |-> <<>>, bad |-> FALSE, closes |-> 0]

Unused(s) == job[s].at = "none" /\ \A p \in 1..(s - 1) : job[p].at # "none"

\* (History, job.over: the session is started over what a failed release or prepare
\* of an earlier one has kept for a later one, or beside such a session.)
OverAFailure == \/ \E r \in Lent : kept[r] # 0
                \/ \E p \in Sessions : Live(p) /\ job[p].over

NewJob(kind, extend, over) ==
    [kind |-> kind, extend |-> extend, at |-> "connect", refs |-> {}, todo |-> <<>>,
     strict |-> FALSE, bad |-> FALSE, over |-> over]

CtlInit ==
    /\ status = "idle" /\ stopSet = FALSE /\ lease = FALSE
    /\ kept = [r \in Lent |-> 0] /\ desk = [r \in Lent |-> 0]
    /\ caller = Free /\ faults = 0
    /\ job = [s \in Sessions |-> [NewJob("none", FALSE, FALSE) EXCEPT !.at = "none"]]

\* Mutant: a session that is stopping does not count as running.
StartableWhileStopping == {"idle", "failed", "stopping"}

StartableStates == {"idle", "failed"}

CtlStart(s) ==
    /\ caller = Free /\ Unused(s)
    /\ status \in StartableStates
    /\ stopSet' = FALSE /\ status' = "starting"
    /\ \E extend \in BOOLEAN : job' = [job EXCEPT ![s] = NewJob("hls", extend, OverAFailure)]
    /\ UNCHANGED <<lease, kept, caller, desk, faults>>

\* A call returned: to the request loop, or to close() with so many steps left.
Answered(closes) ==
    [Free EXCEPT !.closes = closes, !.at = IF closes > 0 THEN "closing" ELSE "free"]

\* release_webrtc_capture takes the lock, then restores outside it.
ReleaseFrom(closes, error) ==
    IF lease \/ \E r \in Lent : kept[r] # 0
    THEN /\ caller' = [at |-> "releasing", bad |-> error, closes |-> closes,
                       todo |-> SoundFirst({r \in Lent : kept[r] # 0})]
         /\ UNCHANGED status
    ELSE /\ status' = IF status \notin {"starting", "stopping"} THEN status
                     ELSE IF error THEN "failed" ELSE "idle"
         /\ caller' = Answered(closes)

Retained == status = "failed" /\ \E r \in Lent : kept[r] # 0

StopFrom(closes) ==
    /\ stopSet' = TRUE
    /\ IF Retained
       THEN ReleaseFrom(closes, FALSE)
       ELSE /\ status' = CASE status \in {"starting", "running"} -> "stopping"
                          [] status = "failed" -> "idle"
                          [] OTHER -> status
            /\ caller' = Answered(closes)
    /\ UNCHANGED <<lease, kept, job, desk, faults>>

CtlStop == caller = Free /\ StopFrom(0)

PrepareBegins(s) ==
    /\ caller = Free /\ Unused(s)
    /\ status = "idle" /\ ~lease
    /\ status' = "starting"
    /\ caller' = [Free EXCEPT !.at = "preparing"]
    /\ \E extend \in BOOLEAN :
         job' = [job EXCEPT ![s] = NewJob("webrtc", extend, OverAFailure)]
    /\ UNCHANGED <<stopSet, lease, kept, desk, faults>>

Activate ==
    /\ caller = Free /\ lease /\ status = "starting"
    /\ status' = "running"
    /\ UNCHANGED <<stopSet, lease, kept, caller, job, desk, faults>>

\* The WebRTC engine releases what it was lent, with or without a failure to show; the
\* window's Stop of a failed prepare is a release too.
CtlRelease ==
    /\ caller = Free /\ (lease \/ status = "failed")
    /\ \E error \in BOOLEAN : ReleaseFrom(0, error)
    /\ UNCHANGED <<stopSet, lease, kept, job, desk, faults>>

ReleaseRestores(ok) ==
    /\ caller.at = "releasing" /\ caller.todo # <<>>
    /\ LET r == Head(caller.todo) IN
       /\ HandBack(kept[r], r, ok)
       /\ kept' = IF ok THEN [kept EXCEPT ![r] = 0] ELSE kept
    /\ caller' = [caller EXCEPT !.todo = Tail(@), !.bad = @ \/ ~ok]
    /\ UNCHANGED <<status, stopSet, lease, job>>

\* The references and the status are written together, once everything was tried.
ReleaseEnds ==
    /\ caller.at = "releasing" /\ caller.todo = <<>>
    /\ lease' = (lease /\ \E r \in Lent : kept[r] # 0)
    /\ status' = IF caller.bad THEN "failed" ELSE "idle"
    /\ caller' = Answered(caller.closes)
    /\ UNCHANGED <<stopSet, kept, job, desk, faults>>

CtlClose == caller = Free /\ StopFrom(3)

\* close() waits a bounded time for the thread, releases, and releases once more after
\* the wait for a prepare (which is over: there is one caller).
CloseReleases ==
    /\ caller.at = "closing" /\ caller.closes > 1
    /\ Fault(\A s \in Sessions : ~Live(s))
    /\ ReleaseFrom(caller.closes - 1, FALSE)
    /\ UNCHANGED <<stopSet, lease, kept, job, desk>>

\* The process exits; a thread that is still at work dies with it.
Exit ==
    /\ caller.at = "closing" /\ caller.closes = 1
    /\ caller' = [caller EXCEPT !.at = "gone"]
    /\ job' = [s \in Sessions |-> IF Live(s) THEN [job[s] EXCEPT !.at = "over"] ELSE job[s]]
    /\ UNCHANGED <<status, stopSet, lease, kept, desk, faults>>

-----------------------------------------------------------------------------
(* A session: what the thread's assemble or the prepare takes, in order      *)

Go(s, at) == job' = [job EXCEPT ![s].at = at]

\* What a failed assembly or prepare undoes, in the code's order.  In assemble a
\* stop that raises skips the ones after it.
Undo(s, refs) ==
    job' = [job EXCEPT ![s].at = "ending", ![s].bad = TRUE, ![s].refs = refs,
                       ![s].strict = (job[s].kind = "hls"),
                       ![s].todo = SoundFirst(refs)]

Connect(s, ok) ==
    /\ job[s].at = "connect" /\ Fault(ok)
    /\ IF ok THEN Go(s, "screen") ELSE Undo(s, {})
    /\ UNCHANGED <<status, stopSet, lease, kept, caller, desk>>

TakeScreen(s, outcome) ==
    /\ job[s].at = "screen"
    /\ \/ /\ ~job[s].extend /\ outcome = "ok"
          /\ Go(s, "capture") /\ UNCHANGED <<desk, faults>>
       \/ /\ job[s].extend /\ Take(s, "ext", outcome)
          /\ IF outcome = "ok"
             THEN job' = [job EXCEPT ![s].at = "capture", ![s].refs = {"ext"}]
             ELSE IF job[s].kind = "webrtc"
             THEN Undo(s, {"ext"})
             ELSE \* assemble: create() itself raised, nothing is undone
                  job' = [job EXCEPT ![s].at = "ending", ![s].bad = TRUE, ![s].refs = {"ext"}]
    /\ UNCHANGED <<status, stopSet, lease, kept, caller>>

\* capture.start, or finding the duplicated output: nothing is taken.
StartCapture(s, ok) ==
    /\ job[s].at = "capture" /\ Fault(ok)
    /\ IF ok THEN Go(s, "sound") ELSE Undo(s, job[s].refs)
    /\ UNCHANGED <<status, stopSet, lease, kept, caller, desk>>

\* The prepare publishes what it took under the lock.
TakeSound(s, outcome) ==
    LET refs == job[s].refs \cup {"snd"} IN
    /\ job[s].at = "sound" /\ Take(s, "snd", outcome)
    /\ IF outcome # "ok" THEN Undo(s, refs) /\ UNCHANGED <<lease, kept, caller>>
       ELSE IF job[s].kind = "hls"
       THEN /\ job' = [job EXCEPT ![s].at = "ready", ![s].refs = refs]
            /\ UNCHANGED <<lease, kept, caller>>
       ELSE /\ lease' = TRUE
            /\ kept' = [r \in Lent |-> IF r \in refs THEN s ELSE 0]
            /\ caller' = Free
            /\ job' = [job EXCEPT ![s].at = "over", ![s].refs = refs]
    /\ UNCHANGED <<status, stopSet>>

-----------------------------------------------------------------------------
(* An HLS session once it is assembled: _serve and D1Session                 *)

\* D1Session.stop tries every step; start() runs it too when it fails, and the
\* thread then runs it again.
Stops(s, times, bad) ==
    LET once == ServiceFirst(job[s].refs) IN
    job' = [job EXCEPT ![s].at = "ending", ![s].bad = bad,
                       ![s].todo = IF times = 2 THEN once \o once ELSE once]

\* The thread looks at _stop, then starts the service.
StartSession(s, ok) ==
    /\ job[s].at = "ready"
    /\ IF stopSet THEN ok /\ Stops(s, 1, FALSE) /\ UNCHANGED <<status, faults>>
       ELSE IF ok
       THEN /\ Go(s, "runs") /\ UNCHANGED faults
            /\ status' = IF status = "starting" THEN "running" ELSE status
       ELSE Stops(s, 2, TRUE) /\ Fault(ok) /\ UNCHANGED status
    /\ UNCHANGED <<stopSet, lease, kept, caller, desk>>

\* _stop, the deadline, or the stream ended by itself.
Poll(s) ==
    /\ job[s].at = "runs"
    /\ \/ Stops(s, 1, FALSE) /\ UNCHANGED faults
       \/ ~stopSet /\ Fault(FALSE) /\ Stops(s, 1, TRUE)
    /\ UNCHANGED <<status, stopSet, lease, kept, caller, desk>>

\* Mutant: what session.stop() raised is swallowed.
EndStepSwallowing(s, ok) ==
    /\ job[s].at = "ending" /\ job[s].todo # <<>>
    /\ LET r == Head(job[s].todo) IN
       /\ IF r = "service" THEN Fault(ok) /\ UNCHANGED desk ELSE HandBack(s, r, ok)
       /\ job' = [job EXCEPT ![s].todo = Tail(@)]
       /\ kept' = IF ~ok /\ job[s].kind = "webrtc" THEN [kept EXCEPT ![r] = s] ELSE kept
    /\ UNCHANGED <<status, stopSet, lease, caller>>

EndStep(s, ok) ==
    /\ job[s].at = "ending" /\ job[s].todo # <<>>
    /\ LET r == Head(job[s].todo)
           rest == IF ~ok /\ job[s].strict THEN <<>> ELSE Tail(job[s].todo) IN
       /\ IF r = "service" THEN Fault(ok) /\ UNCHANGED desk ELSE HandBack(s, r, ok)
       /\ job' = [job EXCEPT ![s].todo = rest, ![s].bad = @ \/ ~ok]
       /\ kept' = IF ~ok /\ job[s].kind = "webrtc" THEN [kept EXCEPT ![r] = s] ELSE kept
    /\ UNCHANGED <<status, stopSet, lease, caller>>

\* The thread writes the status last and ends; a failed prepare answers its request.
Report(s) ==
    /\ job[s].at = "ending" /\ job[s].todo = <<>>
    /\ status' = IF job[s].bad THEN "failed" ELSE "idle"
    /\ job' = [job EXCEPT ![s].at = "over"]
    /\ caller' = IF job[s].kind = "webrtc" THEN Free ELSE caller
    /\ UNCHANGED <<stopSet, lease, kept, desk, faults>>

JobStep(s) ==
    \/ \E ok \in BOOLEAN : Connect(s, ok) \/ StartCapture(s, ok) \/ StartSession(s, ok)
                           \/ EndStep(s, ok)
    \/ \E outcome \in Outcomes : TakeScreen(s, outcome) \/ TakeSound(s, outcome)
    \/ Poll(s) \/ Report(s)

CtlNext ==
    \/ \E s \in Sessions : CtlStart(s) \/ PrepareBegins(s)
    \/ \E s \in Sessions : caller.at # "gone" /\ JobStep(s)
    \/ CtlStop \/ Activate \/ CtlRelease \/ CtlClose
    \/ \E ok \in BOOLEAN : ReleaseRestores(ok)
    \/ ReleaseEnds \/ CloseReleases \/ Exit

CtlSpec == CtlInit /\ [][CtlNext]_ctlvars

-----------------------------------------------------------------------------
(* A session whose thread is at work, or a capture that is lent, is shown as  *)
(* starting, running or stopping (a capture that could not be released, as    *)
(* failed): no second session can be started beside it, whatever was stopped, *)
(* failed or released before (ScreenController.start). Excepted is a session  *)
(* that is started over a failure: the release of what that failure kept and  *)
(* the session write the status of each other.                                *)
LiveSessionIsShown ==
    caller.at \notin {"releasing", "closing", "gone"} =>
        /\ (\A s \in Sessions : Live(s) => ~job[s].over) =>
             /\ \A s \in Sessions : Live(s) => status \in Busy
             /\ \A s, p \in Sessions : Live(s) /\ Live(p) => s = p
        /\ lease /\ status = "idle" => \E s \in Sessions : job[s].over

Orphans == {r \in Lent : desk[r] # 0 /\ ~Referenced(r)}

\* A prepare over what was kept for a retry, as it publishes what it took itself.
Overwrites ==
    \E s \in Sessions :
        job[s].kind = "webrtc" /\ job[s].over /\ job[s].at = "sound" /\ job'[s].at = "over"

(* The extended screen or the computer's sound is dropped while still taken,   *)
(* for the next session or process to restore from its journal, only in the    *)
(* step that shows a failure: the one stop of several that fails is never      *)
(* silent, in assemble, in D1Session.stop or in a prepare. (Excepted: the      *)
(* prepare that publishes over what an earlier failure had kept.)              *)
NothingIsLeftSilently ==
    [][Orphans' \ Orphans # {} =>
         status' = "failed" \/ caller'.at = "gone" \/ Overwrites]_ctlvars
=============================================================================
