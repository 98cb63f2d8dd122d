--------------------------- MODULE AcceptanceTrace ---------------------------
(*****************************************************************************)
(* The evidence of the acceptance steps C6 and C7: a remote records what it  *)
(* did with a command (command_trace.py, called by service.py) and holds its *)
(* confirmation until an independent observer has seen the media session     *)
(* change (trace_files.py, acceptance_observer.py); the files are then       *)
(* judged offline (scripts/acceptance_trace_evidence.py).                    *)
(*                                                                           *)
(* Two processes and the owner, who switches the media.  The remote runs     *)
(* playback commands one after another, all invocations of one application   *)
(* request.  Any write of an event may fail, and so may the marker that      *)
(* tells of it.  `sequence`, which only repeats the order of one recorder,   *)
(* is left out.                                                              *)
(*****************************************************************************)
EXTENDS Naturals, Sequences

CONSTANTS
    MaxCommands,    \* bound: invocations of the application request
    MaxSwitches,    \* bound: media sessions the owner starts
    MaxLosses,      \* bound: writes that fail
    MarkerLost      \* whether the .incomplete marker may fail to be written as well

ASSUME TraceAssumption ==
    MaxCommands \in Nat /\ MaxSwitches \in Nat /\ MaxLosses \in Nat /\ MarkerLost \in BOOLEAN

VARIABLES
    session,    \* the TV: its media session
    cmd,        \* the remote: the command at work, and the events it is about to record
    obs,        \* the observer
    hold,       \* the gate's files: who is held on which session, which token releases whom
    trace,      \* per client: the events in its file and the next index, of each request
    losses,     \* bound
    lost,       \* ghost: clients and requests with an event that was not written
    sends,      \* ghost: how often each command was given to the transport
    changed     \* ghost: commands whose session changed after the send, before any read

tvars == <<session, cmd, obs, hold, trace, losses, lost, sends, changed>>

Commands == 1..MaxCommands
Sessions == 1..(MaxSwitches + 1)
TraceClients == {"remote", "observer"}

Terminal == {"command_confirmed", "command_unconfirmed", "ambiguous_result", "not_sent",
             "command_rejected"}

Event(e, s, token) == [event |-> e, session |-> s, token |-> token]

NoTraced == [r |-> 0, at |-> "idle", old |-> 0, todo |-> <<>>]

NoHold == [r |-> 0, old |-> 0]

TraceTypeOK ==
    /\ session \in Sessions
    /\ cmd.r \in 0..MaxCommands /\ cmd.old \in 0..(MaxSwitches + 1)
    /\ cmd.at \in {"idle", "capture", "send", "sent", "hold", "held", "verify"}
    /\ obs.r \in 0..MaxCommands /\ obs.at \in {"watch", "first", "change", "release", "done"}
    /\ hold.held.r \in 0..MaxCommands /\ hold.release \in [Commands -> 0..1]
    /\ \A c \in TraceClients : \A r \in Commands :
          trace[c].next[r] \in Nat /\ trace[c].incomplete \subseteq Commands
    /\ losses \in 0..MaxLosses /\ lost \subseteq (TraceClients \X Commands)
    /\ sends \in [Commands -> 0..1] /\ changed \subseteq Commands

TraceInit ==
    /\ session = 1 /\ cmd = NoTraced
    /\ obs = [r |-> 0, at |-> "watch", old |-> 0, todo |-> <<>>]
    /\ hold = [held |-> NoHold, release |-> [r \in Commands |-> 0]]
    /\ trace = [c \in TraceClients |-> [file |-> [r \in Commands |-> <<>>],
                                        next |-> [r \in Commands |-> 0],
                                        incomplete |-> {}, marked |-> FALSE]]
    /\ losses = 0 /\ lost = {} /\ sends = [r \in Commands |-> 0] /\ changed = {}

-----------------------------------------------------------------------------
(* TraceRecorder.record and JsonLinesTraceSink.write                         *)

\* Mutant: only an event that was written takes an index.
WriteEventNumberedWhenWritten(t, r, e, ok, marks) ==
    IF ok THEN [t EXCEPT !.next[r] = @ + 1,
                         !.file[r] = Append(@, [index |-> t.next[r], e |-> e]),
                         !.incomplete = IF e.event = "trace_incomplete" THEN @ \ {r} ELSE @]
    ELSE [t EXCEPT !.incomplete = @ \cup {r}, !.marked = @ \/ marks]

\* One event is stamped with the request's next index, then written or lost.  A loss is
\* remembered, and marked beside the file if that can be written.
WriteEvent(t, r, e, ok, marks) ==
    IF ok THEN [t EXCEPT !.next[r] = @ + 1,
                         !.file[r] = Append(@, [index |-> t.next[r], e |-> e]),
                         !.incomplete = IF e.event = "trace_incomplete" THEN @ \ {r} ELSE @]
    ELSE [t EXCEPT !.next[r] = @ + 1,
                   !.incomplete = @ \cup {r}, !.marked = @ \/ marks]

\* record: a request with a loss first tries to say so.
Recorded(t, r, e, tells, ok, marks) ==
    LET told == IF r \in t.incomplete
                THEN WriteEvent(t, r, Event("trace_incomplete", 0, 0), tells, marks) ELSE t
    IN  WriteEvent(told, r, e, ok, marks)

\* Client c records the first event it is about to.
Records(c, r, e) ==
    \E tells, ok, marks \in BOOLEAN :
        LET failed == (IF ok THEN 0 ELSE 1)
                      + (IF r \in trace[c].incomplete /\ ~tells THEN 1 ELSE 0)
        IN  /\ losses + failed <= MaxLosses /\ losses' = losses + failed
            /\ MarkerLost \/ marks
            /\ trace' = [trace EXCEPT ![c] = Recorded(@, r, e, tells, ok, marks)]
            /\ lost' = IF ok THEN lost ELSE lost \cup {<<c, r>>}

RemoteRecords ==
    /\ cmd.todo # <<>> /\ Records("remote", cmd.r, Head(cmd.todo))
    /\ cmd' = IF cmd.at = "idle" /\ Len(cmd.todo) = 1
              THEN NoTraced ELSE [cmd EXCEPT !.todo = Tail(@)]
    /\ UNCHANGED <<session, obs, hold, sends, changed>>

ObserverRecords ==
    /\ obs.todo # <<>> /\ Records("observer", obs.r, Head(obs.todo))
    /\ obs' = [obs EXCEPT !.todo = Tail(@)]
    /\ UNCHANGED <<session, cmd, hold, sends, changed>>

-----------------------------------------------------------------------------
(* The remote: one traced playback command (service.py)                      *)

Moves(at, events) == cmd' = [cmd EXCEPT !.at = at, !.todo = events]

Same == UNCHANGED <<session, obs, trace, losses, lost, changed>>

\* TraceRecorder.command
Command(r) ==
    /\ cmd = NoTraced /\ sends[r] = 0 /\ trace["remote"].next[r] = 0
    /\ \A q \in 1..(r - 1) : trace["remote"].next[q] > 0
    /\ cmd' = [r |-> r, at |-> "capture", old |-> 0,
               todo |-> <<Event("command_prepared", 0, 0)>>]
    /\ Same /\ UNCHANGED <<hold, sends>>

\* _playback_target: the session is captured, or the command is not sent.
Capture ==
    /\ cmd.at = "capture" /\ cmd.todo = <<>>
    /\ \/ cmd' = [cmd EXCEPT !.at = "send", !.old = session,
                             !.todo = <<Event("pre_status", session, 0)>>]
       \/ Moves("idle", <<Event("command_failed", 0, 0), Event("not_sent", 0, 0)>>)
    /\ Same /\ UNCHANGED <<hold, sends>>

\* _send, before the transport: the attempt is recorded first.
SendAttempt ==
    /\ cmd.at = "send" /\ cmd.todo = <<>>
    /\ Moves("sent", <<Event("send_attempt", cmd.old, 0)>>)
    /\ Same /\ UNCHANGED <<hold, sends>>

\* _send: what the transport's answer says of the delivery.
Transport ==
    /\ cmd.at = "sent" /\ cmd.todo = <<>>
    /\ sends' = [sends EXCEPT ![cmd.r] = 1]
    /\ \/ Moves("hold", <<Event("transport_response", cmd.old, 0)>>)
       \/ \E outcome \in {"not_sent", "command_rejected", "ambiguous_result"} :
            Moves("idle", <<Event("command_failed", cmd.old, 0),
                            Event(outcome, cmd.old, 0)>>)
    /\ Same /\ UNCHANGED hold

\* _hold and FileConfirmationGate.hold: the marker is written whole ...
Hold ==
    /\ cmd.at = "hold" /\ cmd.todo = <<>>
    /\ Moves("held", <<Event("confirmation_held", cmd.old, 0)>>)
    /\ hold' = [hold EXCEPT !.held = [r |-> cmd.r, old |-> cmd.old]]
    /\ Same /\ UNCHANGED sends

\* ... and both files go when the observer's token is read, or the time is up.
\* (A hold that raises is left out: it goes on to the verification as these do.)
HoldEnds ==
    /\ cmd.at = "held" /\ cmd.todo = <<>>
    /\ \/ /\ hold.release[cmd.r] # 0
          /\ Moves("verify", <<Event("confirmation_released", cmd.old, hold.release[cmd.r])>>)
       \/ Moves("verify", <<Event("confirmation_hold_timeout", cmd.old, 0)>>)
    /\ hold' = [held |-> NoHold, release |-> [hold.release EXCEPT ![cmd.r] = 0]]
    /\ Same /\ UNCHANGED sends

\* _verify: one read decides here; a changed session confirms nothing.
Verify ==
    /\ cmd.at = "verify" /\ cmd.todo = <<>>
    /\ \/ session = cmd.old /\ Moves("idle", <<Event("confirmation_status", session, 0),
                                               Event("command_confirmed", session, 0)>>)
       \/ Moves("idle", (IF session = cmd.old THEN <<>>
                         ELSE <<Event("confirmation_session_changed", session, 0)>>)
                        \o <<Event("confirmation_status", session, 0),
                             Event("command_unconfirmed", session, 0)>>)
       \/ Moves("idle", <<Event("confirmation_read_failed", 0, 0),
                          Event("command_unconfirmed", 0, 0)>>)
    /\ Same /\ UNCHANGED <<hold, sends>>

\* The owner starts other media: a new session.
SwitchMedia ==
    /\ session <= MaxSwitches /\ session' = session + 1
    /\ changed' = IF cmd.r # 0 /\ sends[cmd.r] = 1 /\ cmd.at \in {"hold", "held", "verify"}
                  THEN changed \cup {cmd.r} ELSE changed
    /\ UNCHANGED <<cmd, obs, hold, trace, losses, lost, sends>>

-----------------------------------------------------------------------------
(* The observer (acceptance_observer.py)                                     *)

Calm == UNCHANGED <<session, cmd, trace, losses, lost, sends, changed>>

\* _wait_for_hold: the one command held.
WaitForHold ==
    /\ obs.at = "watch" /\ hold.held.r # 0
    /\ obs' = [obs EXCEPT !.r = hold.held.r, !.old = hold.held.old, !.at = "first"]
    /\ Calm /\ UNCHANGED hold

Done(events) == obs' = [obs EXCEPT !.at = "done", !.todo = events]

\* Mutant: a session that had already changed counts as the change.
SeeHoldOnAnySession ==
    /\ obs.at = "first" /\ obs.todo = <<>>
    /\ obs' = [obs EXCEPT !.at = "change",
                          !.todo = <<Event("observer_hold_seen", obs.old, 0)>>]
    /\ Calm /\ UNCHANGED hold

\* The first reading must still be the captured session: otherwise the switch may
\* precede the send, and nothing is ever released.
SeeHold ==
    /\ obs.at = "first" /\ obs.todo = <<>>
    /\ IF session = obs.old
       THEN obs' = [obs EXCEPT !.at = "change",
                               !.todo = <<Event("observer_hold_seen", session, 0)>>]
       ELSE Done(<<Event("observer_hold_seen", session, 0),
                   Event("observer_session_already_changed", session, 0)>>)
    /\ Calm /\ UNCHANGED hold

\* _read_until: another session, reported in time.
SeeChange ==
    /\ obs.at = "change" /\ obs.todo = <<>> /\ session # obs.old
    /\ obs' = [obs EXCEPT !.at = "release",
                          !.todo = <<Event("independent_session_change", session, 0)>>]
    /\ Calm /\ UNCHANGED hold

\* _timed_out
ObserverTimesOut ==
    /\ obs.at \in {"first", "change"} /\ obs.todo = <<>>
    /\ Done(<<Event("observer_timeout", 0, 0)>>)
    /\ Calm /\ UNCHANGED hold

\* release_command: the token is written whole, held or not any more.
Release ==
    /\ obs.at = "release" /\ obs.todo = <<>>
    /\ hold' = [hold EXCEPT !.release[obs.r] = 1]
    /\ Done(<<Event("observer_release_sent", 0, 1)>>)
    /\ Calm

TraceNext ==
    \/ RemoteRecords \/ ObserverRecords
    \/ (\E r \in Commands : Command(r)) \/ Capture \/ SendAttempt \/ Transport
    \/ Hold \/ HoldEnds \/ Verify \/ SwitchMedia
    \/ WaitForHold \/ SeeHold \/ SeeChange \/ ObserverTimesOut \/ Release

TraceSpec == TraceInit /\ [][TraceNext]_tvars

-----------------------------------------------------------------------------
(* The verdicts (scripts/acceptance_trace_evidence.py)                       *)

\* load_trace and _streams: one client's events of one request, by index (an index is
\* never given twice, so the file's order is the index's).
Stream(c, r) == IF trace[c].marked THEN <<>> ELSE trace[c].file[r]

Holds(stream, name) == \E i \in DOMAIN stream : stream[i].e.event = name

\* The place of the first event of that name, 0 if there is none.
First(stream, name) ==
    IF Holds(stream, name)
    THEN CHOOSE i \in DOMAIN stream : /\ stream[i].e.event = name
                                      /\ \A j \in 1..(i - 1) : stream[j].e.event # name
    ELSE 0

\* integrity_problem: no gap, no reported loss and, for a command, one final outcome.
StreamComplete(stream, terminal) ==
    /\ \A i \in DOMAIN stream : stream[i].index = i - 1
    /\ ~Holds(stream, "trace_incomplete")
    /\ terminal =>
        /\ stream # <<>> /\ stream[Len(stream)].e.event \in Terminal
        /\ \A i \in DOMAIN stream : stream[i].e.event \in Terminal => i = Len(stream)

\* _check_c6
CheckC6(r) ==
    LET acting   == Stream("remote", r)
        observer == Stream("observer", r)
        At(name)   == First(acting, name)
        Seen(name) == First(observer, name)
    IN  /\ StreamComplete(acting, TRUE) /\ observer # <<>> /\ StreamComplete(observer, FALSE)
        /\ ~Holds(observer, "observer_session_already_changed")
        /\ ~Holds(acting, "confirmation_hold_timeout")
        /\ 0 < At("pre_status") /\ At("pre_status") < At("send_attempt")
        /\ At("send_attempt") < At("transport_response")
        /\ At("transport_response") < At("confirmation_held")
        /\ At("confirmation_held") < At("confirmation_released")
        /\ Holds(acting, "confirmation_status")
        /\ \A i \in DOMAIN acting :
              acting[i].e.event = "confirmation_status" => i > At("confirmation_released")
        /\ LET old == acting[At("pre_status")].e.session
           IN  /\ acting[At("send_attempt")].e.session = old
               /\ acting[At("confirmation_held")].e.session = old
               /\ 0 < Seen("observer_hold_seen")
               /\ Seen("observer_hold_seen") < Seen("independent_session_change")
               /\ Seen("independent_session_change") < Seen("observer_release_sent")
               /\ observer[Seen("observer_hold_seen")].e.session = old
               /\ observer[Seen("independent_session_change")].e.session # old
               /\ acting[At("confirmation_released")].e.token
                    = observer[Seen("observer_release_sent")].e.token
               /\ \A i \in DOMAIN acting :
                     acting[i].e.event = "command_confirmed" => acting[i].e.session = old

-----------------------------------------------------------------------------

\* A command whose stream is accepted as complete lost no event, however its writes and
\* the notes about them failed: "A lost write leaves a gap or no terminal event"
\* (command_trace.py, record; acceptance_trace_evidence.py, integrity_problem).
LossIsDetected ==
    \A r \in Commands : StreamComplete(Stream("remote", r), TRUE) => <<"remote", r>> \notin lost

\* C6 passes only for a command whose session really changed after it was given to the
\* transport and before its confirmation was read: no clock is compared, the token and the
\* order of each file carry the proof (acceptance_observer.py, observe).
C6PassIsCausal == \A r \in Commands : CheckC6(r) => r \in changed

\* A trace that passes has lost no event, and passes C6 only for a session that really
\* changed in between (command_trace.py, the acceptance scripts).
EvidenceIsSound == TraceTypeOK /\ LossIsDetected /\ C6PassIsCausal
=============================================================================
