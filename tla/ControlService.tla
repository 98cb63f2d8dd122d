--------------------------- MODULE ControlService ---------------------------
(***************************************************************************)
(* ControlService (service.py): one Cast command of a remote, from the     *)
(* read that captures its target, through its single send, to the reads    *)
(* that confirm it or not. Several remotes, each with its own service,     *)
(* race at one TV, together with people who use the TV without control-TV. *)
(***************************************************************************)
EXTENDS CastTv

CONSTANTS
    Remotes,      \* the processes that hold a ControlService (window, phone)
    Confirming,   \* the remotes whose confirm_timeout is not None
    Gated,        \* the remotes started with the acceptance gate (_hold)
    Kinds,        \* the commands issued in this instance
    MaxCommands   \* bound: commands per remote

PlaybackKinds == {"play", "pause", "stop", "seek"}
AllKinds == PlaybackKinds \cup {"load", "close", "volume", "mute"}

ASSUME ControlServiceAssumption ==
    /\ Confirming \subseteq Remotes
    /\ Gated \subseteq Remotes
    /\ Kinds \subseteq AllKinds /\ Kinds # {}
    /\ MaxCommands \in Nat \ {0}

VARIABLES
    cmd,    \* per remote: the command in progress, with its _IdentityCheck
    wire,   \* messages sent and not yet processed by the TV (it may never be)
    log     \* history, per remote and command number: outcome and effect

vars == <<tv, changes, cmd, wire, log>>

Results == {"none", "confirmed", "unconfirmed", "not_checked", "not_sent",
            "rejected", "ambiguous", "internal_error"}

(* What a caller may ask for: a load names the content, close_app the app   *)
(* session it captured; a seek, a volume and a mute carry their argument.   *)
Requests ==
    {[kind |-> k, arg |-> 1, content |-> "none", session |-> 0] : k \in Kinds \ {"load", "close"}}
    \cup {[kind |-> k, arg |-> 1, content |-> c, session |-> 0] : k \in Kinds \cap {"load"}, c \in Contents}
    \cup {[kind |-> k, arg |-> 1, content |-> "none", session |-> s] : k \in Kinds \cap {"close"}, s \in 1..MaxSession}

Messages == [from : Remotes, n : 1..MaxCommands, kind : Kinds, arg : {1},
             content : Contents \cup {"none"}, session : 0..MaxSession]

Read == [media : Media, app : 0..MaxSession, volume : 0..2, muted : 0..2]
NoRead == [media |-> NoMedia, app |-> 0, volume |-> 2, muted |-> 2]

Commands ==
    [phase : {"idle", "target", "send", "sent", "verify", "reading", "done"},
     n : 0..MaxCommands, request : Requests, target : Media,
     contradiction : BOOLEAN, open : BOOLEAN, answer : {"none", "accepted", "refused"},
     read : Read, held : BOOLEAN, sawOther : BOOLEAN]

NoCommand ==
    [phase |-> "idle", n |-> 0, request |-> CHOOSE q \in Requests : TRUE,
     target |-> NoMedia, contradiction |-> FALSE, open |-> TRUE, answer |-> "none",
     read |-> NoRead, held |-> FALSE, sawOther |-> FALSE]

(* Types: a command addresses no media session the TV never had, and ends  *)
(* with an outcome of ControlService.                                      *)
TypeOK ==
    /\ tv \in TvStates
    /\ changes \in 0..MaxChanges
    /\ cmd \in [Remotes -> Commands]
    /\ wire \subseteq Messages
    /\ log \in [Remotes -> [1..MaxCommands ->
                  [result : Results, received : Nat, captured : 0..MaxSession,
                   hit : 0..MaxSession]]]

Init ==
    /\ TvInit
    /\ cmd = [r \in Remotes |-> NoCommand]
    /\ wire = {}
    /\ log = [r \in Remotes |-> [n \in 1..MaxCommands |->
                [result |-> "none", received |-> 0, captured |-> 0, hit |-> 0]]]

-----------------------------------------------------------------------------
(* The identity of the media a command is about.                           *)

Usable(content) == content \in Contents

HasIdentity(target) == target.present /\ Usable(target.content)

(* _identity_contradiction: another identity, explicitly reported.         *)
Contradicts(target, media) ==
    \/ Usable(media.content) /\ media.content # target.content
    \/ target.session # 0 /\ media.session # 0 /\ media.session # target.session
    \/ target.item # 0 /\ media.item # 0 /\ media.item # target.item

(* Mutant: a missing session or item passes for the same one. *)
MismatchByContentOnly(target, media) ==
    ~HasIdentity(target) \/ media.content # target.content

(* _identity_mismatch: this read alone does not show the same media.       *)
Mismatch(target, media) ==
    \/ ~HasIdentity(target)
    \/ media.content # target.content
    \/ target.session # 0 /\ media.session = 0
    \/ target.item # 0 /\ media.item = 0

(* Mutant: only the current read is looked at. *)
ContradictionForgotten(c, media) ==
    media.present /\ HasIdentity(c.target) /\ Contradicts(c.target, media)

(* _IdentityCheck.mismatch: the first contradiction is kept for the attempt. *)
ContradictionAfter(c, media) ==
    \/ c.contradiction
    \/ media.present /\ HasIdentity(c.target) /\ Contradicts(c.target, media)

SameMedia(c, media) ==
    media.present /\ ~ContradictionAfter(c, media) /\ ~Mismatch(c.target, media)

(* The predicate each command gives to _verify, over one status read.      *)
Matches(c, read) ==
    LET media == read.media
    IN  CASE c.request.kind = "play"   -> SameMedia(c, media) /\ media.state = "PLAYING"
          [] c.request.kind = "pause"  -> SameMedia(c, media) /\ media.state = "PAUSED"
          [] c.request.kind = "seek"   -> SameMedia(c, media) /\ media.pos = c.request.arg
          [] c.request.kind = "stop"   ->
                 \/ SameMedia(c, media) /\ media.state = "IDLE"
                 \/ ~media.present /\ HasIdentity(c.target) /\ ~c.contradiction
          [] c.request.kind = "load"   ->
                 /\ media.present
                 /\ media.content = c.request.content
                 /\ media.state \in LoadedStates
          [] c.request.kind = "close"  -> read.app # c.request.session
          [] c.request.kind = "volume" -> read.volume = c.request.arg
          [] c.request.kind = "mute"   -> read.muted = c.request.arg

-----------------------------------------------------------------------------
(* History: whether the TV really was in the requested state, for the very *)
(* media the command captured, at some instant since the send.             *)

Goal(c, t) ==
    LET same == /\ t.media.session = c.target.session
                /\ t.media.content = c.target.content
                /\ c.target.item \in {0, t.media.item}
    IN  CASE c.request.kind = "play"   -> same /\ t.media.state = "PLAYING"
          [] c.request.kind = "pause"  -> same /\ t.media.state = "PAUSED"
          [] c.request.kind = "seek"   -> same /\ t.media.pos = c.request.arg
          [] c.request.kind = "stop"   ->
                 t.media.session # c.target.session \/ t.media.state = "IDLE"
          [] c.request.kind = "load"   ->
                 t.media.content = c.request.content /\ t.media.state \in LoadedStates
          [] c.request.kind = "close"  -> t.app # c.request.session
          [] c.request.kind = "volume" -> t.volume = c.request.arg
          [] c.request.kind = "mute"   -> t.muted = c.request.arg

Witness(c, t) ==
    [c EXCEPT !.held = @ \/ (c.phase \in {"sent", "verify", "reading"} /\ Goal(c, t))]

-----------------------------------------------------------------------------
(* The service's steps.                                                    *)

(* The call returns or raises: what it captured and read goes with it.     *)
Finish(r, result) ==
    /\ cmd' = [cmd EXCEPT ![r] = [NoCommand EXCEPT !.phase = "done", !.n = cmd[r].n,
                                     !.request = cmd[r].request, !.held = cmd[r].held,
                                     !.sawOther = cmd[r].sawOther]]
    /\ log' = [log EXCEPT ![r][cmd[r].n].result = result]

(* A command arrives. The deadline of a playback or volume command is set  *)
(* here, before its first read; the others set theirs in _verify.          *)
Request(r) ==
    \E q \in Requests :
        /\ cmd[r].phase \in {"idle", "done"}
        /\ cmd[r].n < MaxCommands
        /\ q.session < tv.next
        /\ cmd' = [cmd EXCEPT ![r] =
             [NoCommand EXCEPT
                !.phase = IF q.kind \in PlaybackKinds \cup {"volume"} THEN "target" ELSE "send",
                !.n = cmd[r].n + 1,
                !.request = q]]
        /\ UNCHANGED <<tv, changes, wire, log>>

(* Time: the confirmation window of a command in progress closes.          *)
Expire(r) ==
    /\ r \in Confirming
    /\ cmd[r].open
    /\ \/ cmd[r].phase \in {"verify", "reading"}
       \/ /\ cmd[r].phase \in {"target", "send", "sent"}
          /\ cmd[r].request.kind \in PlaybackKinds \cup {"volume"}
    /\ cmd' = [cmd EXCEPT ![r].open = FALSE]
    /\ UNCHANGED <<tv, changes, wire, log>>

(* _playback_target: the mandatory read. A failed read, an expired budget, *)
(* no reported media session, or (seek) media that refuses seeking: the    *)
(* command ends with nothing sent.                                         *)
PlaybackTarget(r) ==
    /\ cmd[r].phase = "target"
    /\ cmd[r].request.kind \in PlaybackKinds
    /\ \/ Finish(r, "not_sent")
       \/ \E omit \in Omissions :
            LET media == FreshMediaStatus(omit)
            IN  /\ cmd[r].open
                /\ media.session # 0
                /\ cmd' = [cmd EXCEPT ![r].phase = "send", ![r].target = media]
                /\ log' = [log EXCEPT ![r][cmd[r].n].captured = media.session]
    /\ UNCHANGED <<tv, changes, wire>>

(* _volume_is_fixed: only an explicit FIXED, read in time, blocks the send. *)
VolumeIsFixed(r) ==
    /\ cmd[r].phase = "target"
    /\ cmd[r].request.kind = "volume"
    /\ \/ cmd[r].open /\ tv.fixed /\ Finish(r, "not_sent")
       \/ cmd' = [cmd EXCEPT ![r].phase = "send"] /\ UNCHANGED log
    /\ UNCHANGED <<tv, changes, wire>>

(* Mutant: the session the library last heard of is addressed. *)
AddressedToCurrent(c) ==
    CASE c.request.kind \in PlaybackKinds -> tv.media.session
      [] c.request.kind = "close" -> c.request.session
      [] OTHER -> 0

(* The session a message is addressed to: the captured one.                *)
AddressedSession(c) ==
    CASE c.request.kind \in PlaybackKinds -> c.target.session
      [] c.request.kind = "close" -> c.request.session
      [] OTHER -> 0

(* _send: the transport is invoked once. It may raise before anything      *)
(* leaves; the service cannot tell a failed connection from a lost command, *)
(* and takes a library refusal for a rejection.                            *)
Send(r) ==
    LET c == cmd[r]
    IN  /\ c.phase = "send"
        /\ \/ /\ \E result \in {"ambiguous", "rejected"} : Finish(r, result)
              /\ UNCHANGED wire
           \/ /\ cmd' = [cmd EXCEPT ![r] = Witness([c EXCEPT !.phase = "sent"], tv)]
              /\ wire' = wire \cup {[from |-> r, n |-> c.n, kind |-> c.request.kind,
                                     arg |-> c.request.arg, content |-> c.request.content,
                                     session |-> AddressedSession(c)]}
              /\ UNCHANGED log
        /\ UNCHANGED <<tv, changes>>

(* The TV processes a message, perhaps after its sender gave up waiting.   *)
(* It refuses one that addresses nothing it runs, and may refuse any other *)
(* (an invalid player state, media that cannot be paused).                 *)
TvReceives(m) ==
    /\ m \in wire
    /\ wire' = wire \ {m}
    /\ \E accepted \in BOOLEAN :
         /\ accepted => Addressed(m)
         /\ \E t \in IF accepted THEN Effects(m) ELSE {tv} :
              /\ tv' = t
              /\ cmd' = [r \in Remotes |->
                           LET c == Witness(cmd[r], t)
                           IN  IF r = m.from /\ c.n = m.n /\ c.phase = "sent"
                               THEN [c EXCEPT !.answer = IF accepted THEN "accepted" ELSE "refused"]
                               ELSE c]
         /\ log' = [log EXCEPT ![m.from][m.n].received = @ + 1,
                               ![m.from][m.n].hit =
                                   IF accepted /\ m.kind \in PlaybackKinds
                                   THEN tv.media.session ELSE @]
    /\ UNCHANGED changes

(* The transport returns. Only a load reads the answer's type: another     *)
(* refusal returns like an acceptance. Then the optional acceptance hold,  *)
(* which gives a fresh deadline, and the start of _verify.                 *)
TransportReturns(r) ==
    LET c == cmd[r]
    IN  /\ c.phase = "sent"
        /\ c.answer # "none"
        /\ IF c.request.kind = "load" /\ c.answer = "refused"
           THEN Finish(r, "rejected")
           ELSE IF r \notin Confirming
           THEN Finish(r, "not_checked")
           ELSE /\ cmd' = [cmd EXCEPT ![r].phase = "verify",
                                      ![r].open = \/ @
                                                  \/ c.request.kind \in AllKinds \ (PlaybackKinds \cup {"volume"})
                                                  \/ c.request.kind \in PlaybackKinds /\ r \in Gated]
                /\ UNCHANGED log
        /\ UNCHANGED <<tv, changes, wire>>

(* Mutant: a timed-out command is sent again. *)
TransportRetries(r) ==
    /\ cmd[r].phase = "sent"
    /\ cmd' = [cmd EXCEPT ![r].phase = "send"]
    /\ UNCHANGED <<tv, changes, wire, log>>

(* The transport raises (its own request timeout, a lost connection): the  *)
(* message may have been processed, may be later, or never.                *)
TransportRaises(r) ==
    /\ cmd[r].phase = "sent"
    /\ \E result \in {"ambiguous", "rejected"} : Finish(r, result)
    /\ UNCHANGED <<tv, changes, wire>>

(* One confirmation read: the reply describes the TV at this instant, and  *)
(* reaches _verify later. A read that fails only loops.                    *)
ReadStatus(r) ==
    /\ cmd[r].phase = "verify"
    /\ cmd[r].open
    /\ \E omit \in Omissions :
         LET receiver == ReceiverReply(omit)
         IN  cmd' = [cmd EXCEPT ![r].phase = "reading",
                                ![r].read =
                       [media |-> FreshMediaStatus(omit), app |-> receiver.app,
                        volume |-> receiver.volume, muted |-> receiver.muted]]
    /\ UNCHANGED <<tv, changes, wire, log>>

(* The read is back. Too late: it is not used. Otherwise the command's     *)
(* predicate looks at it, remembering an identity contradiction.           *)
UseRead(r) ==
    LET c == cmd[r]
        media == c.read.media
    IN  /\ c.phase = "reading"
        /\ IF ~c.open
           THEN Finish(r, "unconfirmed")
           ELSE IF Matches(c, c.read)
           THEN Finish(r, "confirmed")
           ELSE /\ cmd' = [cmd EXCEPT
                     ![r].phase = "verify",
                     ![r].read = NoRead,
                     ![r].contradiction =
                         c.request.kind \in PlaybackKinds /\ ContradictionAfter(c, media),
                     ![r].sawOther = @ \/ (media.present /\ Contradicts(c.target, media))]
                /\ UNCHANGED log
        /\ UNCHANGED <<tv, changes, wire>>

(* Mutant: the loop does not look at its deadline. *)
LateReadLoops(r) ==
    /\ cmd[r].phase = "verify"
    /\ cmd[r].open
    /\ Finish(r, "internal_error")
    /\ UNCHANGED <<tv, changes, wire>>

(* The loop ends with the window; an unexpected exception ends it earlier. *)
VerifyEnds(r) ==
    /\ cmd[r].phase = "verify"
    /\ \/ ~cmd[r].open /\ Finish(r, "unconfirmed")
       \/ Finish(r, "internal_error")
    /\ UNCHANGED <<tv, changes, wire>>

Elsewhere ==
    /\ Others
    /\ cmd' = [r \in Remotes |-> Witness(cmd[r], tv')]
    /\ UNCHANGED <<wire, log>>

ServiceStep(r) ==
    \/ PlaybackTarget(r)
    \/ VolumeIsFixed(r)
    \/ Send(r)
    \/ TransportReturns(r)
    \/ TransportRaises(r)
    \/ ReadStatus(r)
    \/ UseRead(r)
    \/ VerifyEnds(r)

Next ==
    \/ \E r \in Remotes : Request(r) \/ Expire(r) \/ ServiceStep(r)
    \/ \E m \in wire : TvReceives(m)
    \/ Elsewhere

(* The service keeps running its own code and time passes; nothing is      *)
(* assumed of the TV, of the network or of the people.                     *)
Fairness == \A r \in Remotes : WF_vars(ServiceStep(r)) /\ WF_vars(Expire(r))

Spec == Init /\ [][Next]_vars /\ Fairness

-----------------------------------------------------------------------------
(* A command reported CONFIRMED (_verify) really had its effect: since the *)
(* send, the TV was at some instant in the requested state, for the very   *)
(* content, session and queue item captured before the send. It takes a    *)
(* second remote that swaps the media between the reads to violate it.     *)
ConfirmedWasTrue ==
    \A r \in Remotes :
        (cmd[r].phase = "done" /\ log[r][cmd[r].n].result = "confirmed") => cmd[r].held

(* Once a read of the attempt explicitly showed another content, session   *)
(* or item (_IdentityCheck), that attempt never ends CONFIRMED, even when  *)
(* a later read is back in the original identity or shows no media at all. *)
NoConfirmationAfterContradiction ==
    \A r \in Remotes :
        (/\ cmd[r].phase = "done"
         /\ log[r][cmd[r].n].result = "confirmed"
         /\ cmd[r].request.kind \in PlaybackKinds) => ~cmd[r].sawOther

(* Nothing is ever resent (_send): the TV processes each command at most   *)
(* once, and one reported as not sent is never processed, then or later.   *)
SentAtMostOnce ==
    \A r \in Remotes, n \in 1..MaxCommands :
        LET pending == Cardinality({m \in wire : m.from = r /\ m.n = n})
        IN  /\ log[r][n].received + pending <= 1
            /\ log[r][n].result = "not_sent" => log[r][n].received + pending = 0

(* A playback command acts on the session its own read captured, never on  *)
(* one that replaced it between that read and the arrival of the message.  *)
OnlyTheCapturedSession ==
    \A r \in Remotes, n \in 1..MaxCommands :
        log[r][n].hit \in {0, log[r][n].captured}

(* Every command a caller issued ends with an outcome, whatever the TV,    *)
(* the network and the other remotes do (the confirmation budget is strict). *)
EveryCommandEnds ==
    \A r \in Remotes : (cmd[r].phase # "idle") ~> (cmd[r].phase = "done")
=============================================================================
