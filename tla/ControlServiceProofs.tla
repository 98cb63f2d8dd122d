------------------------ MODULE ControlServiceProofs ------------------------
(***************************************************************************)
(* ControlService, for any remotes, contents, sessions and commands: what  *)
(* a command may still say after it was captured, sent and confirmed.      *)
(***************************************************************************)
EXTENDS ControlService, FiniteSetTheorems, TLAPS

(* What is loaded on the receiver is nothing, or a session of some content. *)
Sane(t) ==
    IF t.media.present
    THEN /\ t.media.session # 0
         /\ t.media.content \in Contents
         /\ t.media.item \in 1..2
         /\ t.media.state \in PlayStates
    ELSE t.media = NoMedia

(* The command number n of remote r has been handed to the transport.      *)
Issued(r, n) ==
    \/ n < cmd[r].n
    \/ n = cmd[r].n /\ cmd[r].phase \notin {"idle", "target", "send"}

(* A message on the way is the only trace of its command at the TV so far. *)
OnItsWay(m) ==
    /\ Issued(m.from, m.n)
    /\ log[m.from][m.n].received = 0
    /\ log[m.from][m.n].result # "not_sent"
    /\ m.kind = "load" => m.content \in Contents
    /\ m.kind \in PlaybackKinds => m.session = log[m.from][m.n].captured

(* What the log says of a command that was not processed, or was.          *)
Processed(r, n) ==
    /\ ~Issued(r, n) => log[r][n].result = "none"
    /\ log[r][n].received \in {0, 1}
    /\ log[r][n].received = 0 => log[r][n].hit = 0
    /\ log[r][n].received = 1 => Issued(r, n) /\ log[r][n].result # "not_sent"

(* What a command in progress knows of its target, the session it captured *)
(* before the send.                                                        *)
Knows(c, captured) ==
    /\ c.phase = "idle" \/ c.n >= 1
    /\ c.phase \in {"target", "send", "sent"} => ~c.sawOther
    /\ c.request.kind \in PlaybackKinds =>
         /\ c.phase \in {"verify", "reading"} =>
              (c.sawOther => c.contradiction \/ ~HasIdentity(c.target))
         /\ c.phase \in {"send", "sent", "verify", "reading"} => c.target.session # 0
         /\ c.phase = "send" => c.target.session = captured

Captured(r) == Knows(cmd[r], log[r][cmd[r].n].captured)

OnePerCommand ==
    \A m1, m2 \in wire : m1.from = m2.from /\ m1.n = m2.n => m1 = m2

IInv ==
    /\ TypeOK
    /\ Sane(tv)
    /\ OnePerCommand
    /\ \A m \in wire : OnItsWay(m)
    /\ \A r \in Remotes, n \in 1..MaxCommands : Processed(r, n)
    /\ \A r \in Remotes : Captured(r)
    /\ OnlyTheCapturedSession
    /\ NoConfirmationAfterContradiction

-----------------------------------------------------------------------------
(* Types of the values a step computes.                                    *)

(* The constants, as the steps below use them.                             *)
LEMMA Bounds ==
    /\ MaxSession \in Nat /\ MaxSession >= 1
    /\ MaxCommands \in Nat /\ MaxCommands >= 1
    /\ MaxChanges \in Nat
    /\ Kinds \subseteq AllKinds /\ Kinds # {}
    /\ Contents # {} /\ "none" \notin Contents /\ "blank" \notin Contents
BY CastTvAssumption, ControlServiceAssumption

(* The next command has a number, and a number that is used is at least 1. *)
LEMMA NumberOfCommand ==
    ASSUME NEW n \in 0..MaxCommands
    PROVE  /\ n >= 1 => n \in 1..MaxCommands
           /\ n < MaxCommands => n + 1 \in 0..MaxCommands /\ n + 1 >= 1
BY Bounds

(* The contents a TV may report, and no report at all, are of their types. *)
LEMMA MediaTypes ==
    /\ NoMedia \in Media
    /\ \A s \in 0..MaxSession, c \in Contents, i \in 0..2 : Playing(s, c, i) \in Media
    /\ NoRead \in Read
<1>1. NoMedia \in Media
  BY Bounds DEF NoMedia, Media, PlayStates
<1>2. \A s \in 0..MaxSession, c \in Contents, i \in 0..2 : Playing(s, c, i) \in Media
  BY Bounds DEF Playing, Media, PlayStates
<1>3. NoRead \in Read
  BY <1>1, Bounds DEF NoRead, Read
<1> QED BY <1>1, <1>2, <1>3

(* There is something to ask for.                                          *)
LEMMA SomeRequest == Requests # {}
<1>1. PICK k \in Kinds : TRUE
  BY Bounds
<1>2. PICK c \in Contents : TRUE
  BY Bounds
<1>3. 1 \in 1..MaxSession
  BY Bounds
<1>4. CASE k = "load"
  <2>1. [kind |-> k, arg |-> 1, content |-> c, session |-> 0] \in Requests
    BY <1>4 DEF Requests
  <2> QED BY <2>1
<1>5. CASE k = "close"
  <2>1. [kind |-> k, arg |-> 1, content |-> "none", session |-> 1] \in Requests
    BY <1>3, <1>5 DEF Requests
  <2> QED BY <2>1
<1>6. CASE k \notin {"load", "close"}
  <2>1. [kind |-> k, arg |-> 1, content |-> "none", session |-> 0] \in Requests
    BY <1>6 DEF Requests
  <2> QED BY <2>1
<1> QED BY <1>4, <1>5, <1>6

(* What a request is, whichever way it was made.                           *)
LEMMA RequestShape ==
    ASSUME NEW q \in Requests
    PROVE  /\ q \in [kind : Kinds, arg : {1}, content : Contents \cup {"none"},
                     session : 0..MaxSession]
           /\ q.kind = "load" => q.content \in Contents
           /\ q.kind \in AllKinds
BY Bounds DEF Requests, AllKinds, PlaybackKinds

(* A remote that asked for nothing has a command of the right type.        *)
LEMMA NoCommandType == NoCommand \in Commands
<1>1. (CHOOSE q \in Requests : TRUE) \in Requests
  BY SomeRequest
<1> QED BY <1>1, MediaTypes, Bounds DEF NoCommand, Commands

(* Whatever a reply leaves out, a read has its type.                       *)
LEMMA ReadTypes ==
    ASSUME TypeOK, NEW omit \in Omissions
    PROVE  /\ FreshMediaStatus(omit) \in Media
           /\ [media |-> FreshMediaStatus(omit), app |-> ReceiverReply(omit).app,
               volume |-> ReceiverReply(omit).volume, muted |-> ReceiverReply(omit).muted] \in Read
<1>1. tv.media \in Media /\ tv \in TvStates
  BY DEF TypeOK, TvStates
<1>2. CheckedEntry(tv.media, omit) \in Media
  BY <1>1, Bounds DEF CheckedEntry, Media
<1>3. FreshMediaStatus(omit) \in Media
  BY <1>2, MediaTypes DEF FreshMediaStatus, Reported
<1>4. ReceiverReply(omit) \in [app : 0..MaxSession, volume : 0..2, muted : 0..2]
  BY <1>1, Bounds DEF ReceiverReply, ReportedSound, TvStates
<1> QED BY <1>3, <1>4 DEF Read

(* The history of a command is all that Witness adds to it.                *)
LEMMA WitnessType ==
    ASSUME NEW c \in Commands, NEW t
    PROVE  /\ Witness(c, t) \in Commands
           /\ Witness(c, t).phase = c.phase /\ Witness(c, t).n = c.n
           /\ Witness(c, t).request = c.request /\ Witness(c, t).target = c.target
           /\ Witness(c, t).contradiction = c.contradiction
           /\ Witness(c, t).sawOther = c.sawOther /\ Witness(c, t).read = c.read
           /\ c.held => Witness(c, t).held
           /\ c.phase \in {"sent", "verify", "reading"} /\ Goal(c, t) => Witness(c, t).held
<1>1. (c.held \/ (c.phase \in {"sent", "verify", "reading"} /\ Goal(c, t))) \in BOOLEAN
  OBVIOUS
<1>2. Witness(c, t) = [c EXCEPT !.held = c.held \/ (c.phase \in {"sent", "verify", "reading"} /\ Goal(c, t))]
  BY DEF Witness
<1> DEFINE h == c.held \/ (c.phase \in {"sent", "verify", "reading"} /\ Goal(c, t))
<1>3. h \in BOOLEAN /\ Witness(c, t) = [c EXCEPT !.held = h]
  BY <1>1, <1>2
<1>4. c.held => h
  OBVIOUS
<1>5. c.phase \in {"sent", "verify", "reading"} /\ Goal(c, t) => h
  OBVIOUS
<1> HIDE DEF h
<1>6. [c EXCEPT !.held = h] \in Commands
  BY <1>3 DEF Commands
<1>7. [c EXCEPT !.held = h].held = h
  BY DEF Commands
<1> QED BY <1>3, <1>4, <1>5, <1>6, <1>7 DEF Commands

-----------------------------------------------------------------------------
(* The receiver stays sane, whoever acts on it.                            *)

(* The receiver t with other media, another application and session count. *)
Opened(t, md, a, x) == [t EXCEPT !.media = md, !.app = a, !.next = x]

(* An app that opens leaves a TV, with the media it opened.                *)
LEMMA OpenedIsATv ==
    \A t \in TvStates, md \in Media, a \in 0..MaxSession, x \in 1..(MaxSession + 1) :
        Opened(t, md, a, x) \in TvStates /\ Opened(t, md, a, x).media = md
<1> SUFFICES ASSUME NEW t \in TvStates, NEW md \in Media, NEW a \in 0..MaxSession,
                    NEW x \in 1..(MaxSession + 1)
             PROVE  Opened(t, md, a, x) \in TvStates /\ Opened(t, md, a, x).media = md
  OBVIOUS
<1>1. Opened(t, md, a, x) \in TvStates
  BY DEF TvStates, Opened
<1>2. Opened(t, md, a, x).media = md
  BY DEF TvStates, Opened
<1> QED BY <1>1, <1>2

(* The receiver t with its media in another state or at another position.  *)
Replayed(t, st, p) == Opened(t, [t.media EXCEPT !.state = st, !.pos = p], t.app, t.next)

(* Play, pause and seek leave a TV with the session it had.                *)
LEMMA ReplayedIsATv ==
    ASSUME NEW t \in TvStates, Sane(t), t.media.present, NEW st \in PlayStates, NEW p \in 0..2
    PROVE  Replayed(t, st, p) \in TvStates /\ Sane(Replayed(t, st, p))
<1> DEFINE new == [t.media EXCEPT !.state = st, !.pos = p]
<1>1. t.media \in Media /\ t.app \in 0..MaxSession /\ t.next \in 1..(MaxSession + 1)
  BY DEF TvStates
<1>2. new \in Media /\ new.present /\ new.session = t.media.session
      /\ new.content = t.media.content /\ new.item = t.media.item /\ new.state = st
  BY <1>1 DEF Media
<1> HIDE DEF new
<1>3. Opened(t, new, t.app, t.next) \in TvStates /\ Opened(t, new, t.app, t.next).media = new
  BY <1>1, <1>2, OpenedIsATv
<1>4. Replayed(t, st, p) = Opened(t, new, t.app, t.next)
  BY DEF Replayed, new
<1> QED BY <1>2, <1>3, <1>4 DEF Sane

(* What an addressed message does leaves nothing loaded, or a session of   *)
(* some content.                                                           *)
LEMMA EffectsAreSane ==
    ASSUME TypeOK, Sane(tv), NEW m \in Messages, Addressed(m),
           m.kind = "load" => m.content \in Contents,
           NEW t \in Effects(m)
    PROVE  t \in TvStates /\ Sane(t)
<1>1. /\ tv \in TvStates /\ tv.media \in Media
      /\ tv.app \in 0..MaxSession /\ tv.next \in 1..(MaxSession + 1)
      /\ m.kind \in AllKinds /\ m.arg = 1
  BY Bounds DEF TypeOK, TvStates, Messages
<1>2. CASE m.kind \in {"play", "pause", "seek"} \/ (m.kind = "stop" /\ t = [tv EXCEPT !.media.state = "IDLE"])
  <2>1. tv.media.present /\ tv.media.pos \in 0..2
    BY <1>1, <1>2 DEF Addressed, Media
  <2>2. \E st \in PlayStates, p \in 0..2 : t = Replayed(tv, st, p)
    <3>1. CASE m.kind = "seek"
      <4>1. t = [tv EXCEPT !.media.pos = 1, !.media.state = "PLAYING"]
        BY <1>1, <3>1 DEF Effects
      <4>2. t = Replayed(tv, "PLAYING", 1)
        BY <1>1, <4>1 DEF PlayStates, Replayed, Opened, TvStates, Media
      <4> QED BY <4>2 DEF PlayStates
    <3>2. CASE m.kind # "seek"
      <4>1. PICK st \in PlayStates : t = [tv EXCEPT !.media.state = st]
        BY <1>2, <3>2 DEF Effects, PlayStates
      <4>2. t = Replayed(tv, st, tv.media.pos)
        BY <1>1, <2>1, <4>1 DEF Replayed, Opened, TvStates, Media
      <4> QED BY <2>1, <4>2
    <3> QED BY <3>1, <3>2
  <2> QED BY <1>1, <2>1, <2>2, ReplayedIsATv
<1>3. CASE m.kind = "load"
  <2>1. tv.next <= MaxSession
    BY <1>3 DEF Addressed
  <2>2. /\ tv.next \in 0..MaxSession /\ tv.next + 1 \in 1..(MaxSession + 1) /\ tv.next # 0
        /\ 1 \in 0..2
    BY <1>1, <2>1, Bounds
  <2> DEFINE new == Playing(tv.next, m.content, 1)
  <2>3. t = [tv EXCEPT !.media = new, !.app = tv.next, !.next = tv.next + 1]
    BY <1>3 DEF Effects
  <2>4. new \in Media /\ new.present /\ new.session = tv.next /\ new.content = m.content
        /\ new.item = 1 /\ new.state = "PLAYING"
    BY <1>3, <2>2, MediaTypes DEF Playing
  <2> HIDE DEF new
  <2>5. t = Opened(tv, new, tv.next, tv.next + 1)
    BY <1>1, <2>3 DEF Opened, TvStates
  <2>6. t \in TvStates /\ t.media = new
    BY <1>1, <2>2, <2>4, <2>5, OpenedIsATv
  <2> QED BY <1>3, <2>2, <2>4, <2>6 DEF Sane, PlayStates
<1>4. CASE (m.kind = "stop" /\ t = [tv EXCEPT !.media = NoMedia]) \/ m.kind = "close"
  <2>1. t = Opened(tv, NoMedia, tv.app, tv.next) \/ t = Opened(tv, NoMedia, 0, tv.next)
    <3>1. CASE t = [tv EXCEPT !.media = NoMedia]
      BY <1>1, <3>1 DEF Opened, TvStates
    <3>2. CASE t = [tv EXCEPT !.media = NoMedia, !.app = 0]
      BY <1>1, <3>2 DEF Opened, TvStates
    <3> QED BY <1>4, <3>1, <3>2 DEF Effects
  <2>2. 0 \in 0..MaxSession
    BY Bounds
  <2>3. t \in TvStates /\ t.media = NoMedia
    BY <1>1, <2>1, <2>2, OpenedIsATv, MediaTypes
  <2> QED BY <2>3 DEF Sane, NoMedia
<1>5. CASE m.kind \in {"volume", "mute"}
  <2>1. PICK v \in 0..1, u \in 0..1 : t = [tv EXCEPT !.volume = v, !.muted = u]
    <3>1. tv.volume \in 0..1 /\ tv.muted \in 0..1 /\ 1 \in 0..1
      BY <1>1 DEF TvStates
    <3>2. CASE m.kind = "volume"
      <4>1. t = [tv EXCEPT !.volume = IF tv.fixed THEN tv.volume ELSE 1, !.muted = tv.muted]
        BY <1>1, <3>2 DEF Effects, TvStates
      <4> QED BY <3>1, <4>1
    <3>3. CASE m.kind = "mute"
      <4>1. t = [tv EXCEPT !.volume = tv.volume, !.muted = 1]
        BY <1>1, <3>3 DEF Effects, TvStates
      <4> QED BY <3>1, <4>1
    <3> QED BY <1>5, <3>2, <3>3
  <2>2. t \in TvStates /\ t.media = tv.media
    BY <1>1, <2>1 DEF TvStates
  <2> QED BY <2>2 DEF Sane
<1>6. m.kind = "stop" => t \in {[tv EXCEPT !.media.state = "IDLE"], [tv EXCEPT !.media = NoMedia]}
  BY DEF Effects
<1> QED BY <1>1, <1>2, <1>3, <1>4, <1>5, <1>6 DEF AllKinds, PlaybackKinds

(* What other people do to the TV leaves nothing loaded, or a session of   *)
(* some content.                                                           *)
LEMMA OthersAreSane ==
    ASSUME TypeOK, Sane(tv), Others
    PROVE  tv' \in TvStates /\ Sane(tv') /\ changes' \in 0..MaxChanges
<1>1. /\ tv \in TvStates /\ tv.media \in Media /\ changes \in 0..MaxChanges
      /\ tv.app \in 0..MaxSession /\ tv.next \in 1..(MaxSession + 1)
  BY DEF TypeOK, TvStates
<1>2. changes' \in 0..MaxChanges
  <2>1. changes < MaxChanges /\ changes' = changes + 1
    BY DEF Others, OtherLoads, OtherNextItem, OtherPlayback, OtherEnds, OtherSound, OtherChange
  <2> QED BY <1>1, <2>1, Bounds
<1>3. CASE OtherLoads
  <2>1. PICK c \in Contents : /\ tv.next <= MaxSession
                              /\ tv' = [tv EXCEPT !.media = Playing(tv.next, c, 1),
                                                  !.app = tv.next, !.next = tv.next + 1]
    BY <1>3 DEF OtherLoads, OtherChange
  <2> DEFINE new == Playing(tv.next, c, 1)
  <2>2. /\ tv.next \in 0..MaxSession /\ tv.next + 1 \in 1..(MaxSession + 1) /\ tv.next # 0
        /\ 1 \in 0..2
    BY <1>1, <2>1, Bounds
  <2>3. new \in Media /\ new.present /\ new.session = tv.next /\ new.content = c
        /\ new.item = 1 /\ new.state = "PLAYING"
    BY <2>2, MediaTypes DEF Playing
  <2>4. tv' = Opened(tv, new, tv.next, tv.next + 1)
    BY <1>1, <2>1 DEF Opened, TvStates
  <2> HIDE DEF new
  <2>5. tv' \in TvStates /\ tv'.media = new
    BY <1>1, <2>2, <2>3, <2>4, OpenedIsATv
  <2> QED BY <1>2, <2>2, <2>3, <2>5 DEF Sane, PlayStates
<1>4. CASE OtherNextItem
  <2>1. PICK c \in Contents : /\ tv.media.present
                              /\ tv' = [tv EXCEPT !.media = Playing(tv.media.session, c, 3 - tv.media.item)]
    BY <1>4 DEF OtherNextItem, OtherChange
  <2> DEFINE new == Playing(tv.media.session, c, 3 - tv.media.item)
  <2>2. tv.media.item \in 1..2 /\ tv.media.session \in 0..MaxSession /\ tv.media.session # 0
    BY <1>1, <2>1 DEF Sane, Media
  <2>3. 3 - tv.media.item \in 1..2 /\ 3 - tv.media.item \in 0..2
    BY <2>2
  <2>4. new \in Media /\ new.present /\ new.session = tv.media.session /\ new.content = c
        /\ new.item = 3 - tv.media.item /\ new.state = "PLAYING"
    BY <2>2, <2>3, MediaTypes DEF Playing
  <2>5. tv' = Opened(tv, new, tv.app, tv.next)
    BY <1>1, <2>1 DEF Opened, TvStates
  <2> HIDE DEF new
  <2>6. tv' \in TvStates /\ tv'.media = new
    BY <1>1, <2>4, <2>5, OpenedIsATv
  <2> QED BY <1>2, <2>2, <2>3, <2>4, <2>6 DEF Sane, PlayStates
<1>5. CASE OtherPlayback
  <2>1. PICK s \in PlayStates, p \in 0..1 :
          /\ tv.media.present
          /\ tv' = [tv EXCEPT !.media.state = s, !.media.pos = p]
    BY <1>5 DEF OtherPlayback, OtherChange
  <2>2. p \in 0..2
    OBVIOUS
  <2>3. tv' = Replayed(tv, s, p)
    BY <1>1, <2>1, <2>2 DEF Replayed, Opened, TvStates, Media
  <2> QED BY <1>1, <1>2, <2>1, <2>2, <2>3, ReplayedIsATv
<1>6. CASE OtherEnds
  <2>1. PICK a \in {0, tv.app} : tv' = [tv EXCEPT !.media = NoMedia, !.app = a]
    BY <1>6 DEF OtherEnds, OtherChange
  <2>2. a \in 0..MaxSession
    BY <1>1, Bounds
  <2>3. tv' = Opened(tv, NoMedia, a, tv.next)
    BY <1>1, <2>1 DEF Opened, TvStates
  <2>4. tv' \in TvStates /\ tv'.media = NoMedia
    BY <1>1, <2>2, <2>3, MediaTypes, OpenedIsATv
  <2> QED BY <1>2, <2>4 DEF Sane, NoMedia
<1>7. CASE OtherSound
  <2>1. PICK v \in 0..1, u \in 0..1 : tv' = [tv EXCEPT !.volume = v, !.muted = u]
    BY <1>7, CastTvAssumption DEF OtherSound, OtherChange
  <2>2. tv' \in TvStates /\ tv'.media = tv.media
    BY <1>1, <2>1 DEF TvStates
  <2> QED BY <1>2, <2>2 DEF Sane
<1> QED BY <1>3, <1>4, <1>5, <1>6, <1>7 DEF Others

-----------------------------------------------------------------------------
(* What the steps have in common.                                          *)

Outcomes == [result : Results, received : Nat, captured : 0..MaxSession, hit : 0..MaxSession]

(* The invariant holds before the first command.                           *)
LEMMA InitInv == Init => IInv
<1> SUFFICES ASSUME Init PROVE IInv
  OBVIOUS
<1>1. PICK c \in Contents, fx \in FixedVolume :
        tv = [media |-> Playing(1, c, 1), app |-> 1, next |-> 2, volume |-> 0, muted |-> 0, fixed |-> fx]
  BY DEF Init, TvInit
<1>2. /\ 1 \in 0..MaxSession /\ 2 \in 1..(MaxSession + 1) /\ 0 \in 0..MaxSession
      /\ 1 \in 0..2 /\ fx \in BOOLEAN /\ 0 \in 0..MaxChanges
  BY Bounds, CastTvAssumption
<1>3. tv.media = Playing(1, c, 1) /\ Playing(1, c, 1) \in Media
  BY <1>1, <1>2, MediaTypes
<1>4. tv \in TvStates
  BY <1>1, <1>2, <1>3 DEF TvStates
<1>5. Sane(tv)
  BY <1>3 DEF Sane, Playing, PlayStates
<1>6. TypeOK
  <2>1. log \in [Remotes -> [1..MaxCommands -> Outcomes]]
    BY <1>2 DEF Init, Outcomes, Results
  <2> QED BY <1>2, <1>4, <2>1, NoCommandType DEF Init, TvInit, TypeOK, Outcomes
<1>7. OnePerCommand /\ \A m \in wire : OnItsWay(m)
  BY DEF Init, OnePerCommand
<1>8. \A r \in Remotes, n \in 1..MaxCommands : Processed(r, n)
  BY DEF Init, Processed, Issued
<1>9. \A r \in Remotes : Captured(r)
  BY DEF Init, Captured, Knows, NoCommand
<1>10. OnlyTheCapturedSession
  BY DEF Init, OnlyTheCapturedSession
<1>11. NoConfirmationAfterContradiction
  BY DEF Init, NoConfirmationAfterContradiction, NoCommand
<1> QED BY <1>5, <1>6, <1>7, <1>8, <1>9, <1>10, <1>11 DEF IInv

(* A command is only ever handed over once more, never taken back.         *)
Onward(r, c) ==
    \/ /\ c.n = cmd[r].n
       /\ cmd[r].phase \notin {"idle", "target", "send"} => c.phase \notin {"idle", "target", "send"}
    \/ c.n = cmd[r].n + 1

(* A step that changes only one command in progress.                       *)
LEMMA CommandStep ==
    ASSUME IInv, NEW r \in Remotes, NEW c \in Commands,
           cmd' = [cmd EXCEPT ![r] = c],
           Onward(r, c), c.phase # "done",
           Knows(c, log[r][c.n].captured),
           UNCHANGED <<tv, changes, wire, log>>
    PROVE  IInv'
<1>1. TypeOK /\ cmd \in [Remotes -> Commands] /\ cmd[r] \in Commands
  BY DEF IInv, TypeOK
<1>2. TypeOK'
  BY <1>1 DEF TypeOK
<1>3. cmd'[r] = c /\ \A q \in Remotes \ {r} : cmd'[q] = cmd[q]
  BY <1>1
<1>4. \A q \in Remotes, n \in 1..MaxCommands : Issued(q, n) => Issued(q, n)'
  <2> SUFFICES ASSUME NEW q \in Remotes, NEW n \in 1..MaxCommands, Issued(q, n)
               PROVE  Issued(q, n)'
    OBVIOUS
  <2>1. CASE q # r
    BY <1>3, <2>1 DEF Issued
  <2>2. CASE q = r
    BY <1>1, <1>3, <2>2, Bounds DEF Issued, Onward, Commands
  <2> QED BY <2>1, <2>2
<1>5. wire \subseteq Messages /\ \A m \in wire : m.from \in Remotes /\ m.n \in 1..MaxCommands
  BY <1>1 DEF TypeOK, Messages
<1>6. \A m \in wire' : OnItsWay(m)'
  BY <1>4, <1>5 DEF IInv, OnItsWay
<1>7. \A q \in Remotes, n \in 1..MaxCommands : Processed(q, n)'
  BY <1>4 DEF IInv, Processed
<1>8. \A q \in Remotes : Captured(q)'
  BY <1>3 DEF IInv, Captured
<1>9. NoConfirmationAfterContradiction'
  BY <1>3 DEF IInv, NoConfirmationAfterContradiction
<1> QED BY <1>2, <1>6, <1>7, <1>8, <1>9 DEF IInv, OnePerCommand, OnlyTheCapturedSession

(* The command ends. Nothing was sent when the outcome says so, and a      *)
(* confirmation saw no other media.                                        *)
LEMMA FinishStep ==
    ASSUME IInv, NEW r \in Remotes, NEW result \in Results,
           Finish(r, result), cmd[r].phase # "idle",
           result = "not_sent" => cmd[r].phase = "target",
           result = "confirmed" /\ cmd[r].request.kind \in PlaybackKinds => ~cmd[r].sawOther,
           UNCHANGED <<tv, changes, wire>>
    PROVE  IInv'
<1>1. TypeOK /\ cmd \in [Remotes -> Commands] /\ cmd[r] \in Commands
      /\ log \in [Remotes -> [1..MaxCommands -> Outcomes]]
  BY DEF IInv, TypeOK, Outcomes
<1> DEFINE c == [NoCommand EXCEPT !.phase = "done", !.n = cmd[r].n, !.request = cmd[r].request,
                                  !.held = cmd[r].held, !.sawOther = cmd[r].sawOther]
           k == cmd[r].n
<1>2. c \in Commands /\ c.phase = "done" /\ c.n = k /\ c.request = cmd[r].request
      /\ c.sawOther = cmd[r].sawOther
  BY <1>1, NoCommandType DEF Commands
<1>3. k \in 1..MaxCommands
  BY <1>1, NumberOfCommand DEF IInv, Captured, Knows, Commands
<1>4. cmd' = [cmd EXCEPT ![r] = c]
  BY DEF Finish
<1> HIDE DEF c
<1>5. cmd'[r] = c /\ \A q \in Remotes \ {r} : cmd'[q] = cmd[q]
  BY <1>1, <1>4
<1>6. /\ log' \in [Remotes -> [1..MaxCommands -> Outcomes]]
      /\ \A q \in Remotes, n \in 1..MaxCommands :
           /\ log'[q][n].received = log[q][n].received
           /\ log'[q][n].captured = log[q][n].captured
           /\ log'[q][n].hit = log[q][n].hit
           /\ log'[q][n].result = IF q = r /\ n = k THEN result ELSE log[q][n].result
  <2>1. log' = [log EXCEPT ![r][k].result = result]
    BY DEF Finish
  <2> DEFINE o == [log[r][k] EXCEPT !.result = result]
  <2>2. o \in Outcomes /\ o.received = log[r][k].received /\ o.captured = log[r][k].captured
        /\ o.hit = log[r][k].hit /\ o.result = result
    <3>1. log[r][k] \in Outcomes
      BY <1>1, <1>3
    <3> QED BY <3>1 DEF Outcomes
  <2>3. log' = [log EXCEPT ![r] = [log[r] EXCEPT ![k] = o]]
    BY <2>1, <1>1, <1>3
  <2> HIDE DEF o
  <2>4. log' \in [Remotes -> [1..MaxCommands -> Outcomes]]
    BY <2>2, <2>3, <1>1, <1>3
  <2>5. ASSUME NEW q \in Remotes, NEW n \in 1..MaxCommands
        PROVE  log'[q][n] = IF q = r /\ n = k THEN o ELSE log[q][n]
    BY <2>3, <1>1, <1>3
  <2> QED BY <2>2, <2>4, <2>5
<1>7. TypeOK'
  BY <1>1, <1>2, <1>4, <1>6 DEF TypeOK, Outcomes
<1>8. \A q \in Remotes, n \in 1..MaxCommands : Issued(q, n) => Issued(q, n)'
  BY <1>2, <1>5 DEF Issued
<1>9. \A n \in 1..MaxCommands : result = "not_sent" /\ n = k => ~Issued(r, n)
  BY <1>1, <1>3, Bounds DEF Issued, Commands
<1>10. wire \subseteq Messages /\ \A m \in wire : m.from \in Remotes /\ m.n \in 1..MaxCommands
  BY <1>1 DEF TypeOK, Messages
<1>11. \A m \in wire' : OnItsWay(m)'
  BY <1>6, <1>8, <1>9, <1>10 DEF IInv, OnItsWay
<1>12. \A q \in Remotes, n \in 1..MaxCommands : Processed(q, n)'
  <2>1. ASSUME NEW n \in 1..MaxCommands, n = k PROVE Issued(r, n)'
    BY <1>2, <1>5, <2>1 DEF Issued
  <2> QED BY <1>6, <1>8, <1>9, <2>1 DEF IInv, Processed
<1>13. \A q \in Remotes : Captured(q)'
  <2>1. Captured(r)'
    BY <1>2, <1>3, <1>5, Bounds DEF Captured, Knows
  <2>2. ASSUME NEW q \in Remotes \ {r} PROVE Captured(q)'
    <3>1. cmd'[q] = cmd[q] /\ Captured(q) /\ cmd[q] \in Commands
      BY <1>1, <1>5 DEF IInv
    <3>2. cmd[q].phase # "idle" => log'[q][cmd[q].n].captured = log[q][cmd[q].n].captured
      BY <1>6, <3>1, NumberOfCommand DEF Captured, Knows, Commands
    <3> QED BY <3>1, <3>2 DEF Captured, Knows
  <2> QED BY <2>1, <2>2
<1>14. OnlyTheCapturedSession'
  BY <1>6 DEF IInv, OnlyTheCapturedSession
<1>15. NoConfirmationAfterContradiction'
  <2> SUFFICES ASSUME NEW q \in Remotes, cmd'[q].phase = "done",
                      log'[q][cmd'[q].n].result = "confirmed",
                      cmd'[q].request.kind \in PlaybackKinds
               PROVE  ~cmd'[q].sawOther
    BY DEF NoConfirmationAfterContradiction
  <2>1. CASE q = r
    BY <1>2, <1>3, <1>5, <1>6, <2>1
  <2>2. CASE q # r
    <3>1. cmd'[q] = cmd[q] /\ cmd[q] \in Commands /\ cmd[q].n \in 1..MaxCommands
      BY <1>1, <1>5, <2>2, NumberOfCommand DEF IInv, Captured, Knows, Commands
    <3> QED BY <1>6, <2>2, <3>1 DEF IInv, NoConfirmationAfterContradiction
  <2> QED BY <2>1, <2>2
<1> QED BY <1>7, <1>11, <1>12, <1>13, <1>14, <1>15 DEF IInv, OnePerCommand

-----------------------------------------------------------------------------
(* One lemma per step.                                                     *)

(* A remote asks for a command, under a new number.                        *)
LEMMA RequestInv ==
    ASSUME IInv, NEW r \in Remotes, Request(r) PROVE IInv'
<1>1. cmd[r] \in Commands /\ NoCommand \in Commands
  BY NoCommandType DEF IInv, TypeOK
<1>2. PICK q \in Requests :
        /\ cmd[r].phase \in {"idle", "done"} /\ cmd[r].n < MaxCommands
        /\ cmd' = [cmd EXCEPT ![r] =
             [NoCommand EXCEPT
                !.phase = IF q.kind \in PlaybackKinds \cup {"volume"} THEN "target" ELSE "send",
                !.n = cmd[r].n + 1, !.request = q]]
        /\ UNCHANGED <<tv, changes, wire, log>>
  BY DEF Request
<1> DEFINE c == [NoCommand EXCEPT
                   !.phase = IF q.kind \in PlaybackKinds \cup {"volume"} THEN "target" ELSE "send",
                   !.n = cmd[r].n + 1, !.request = q]
<1>3. cmd[r].n \in 0..MaxCommands /\ cmd[r].n + 1 \in 0..MaxCommands /\ cmd[r].n + 1 >= 1
  BY <1>1, <1>2, NumberOfCommand DEF Commands
<1>4. c \in Commands
  BY <1>1, <1>3 DEF Commands
<1>5. /\ c.phase = IF q.kind \in PlaybackKinds \cup {"volume"} THEN "target" ELSE "send"
      /\ c.n = cmd[r].n + 1 /\ c.request = q
  BY <1>1 DEF Commands
<1>6. ~c.sawOther
  BY DEF NoCommand
<1>7. cmd' = [cmd EXCEPT ![r] = c]
  BY <1>2
<1> HIDE DEF c
<1>8. Knows(c, log[r][c.n].captured)
  BY <1>3, <1>5, <1>6 DEF Knows
<1> QED BY <1>2, <1>4, <1>5, <1>7, <1>8, CommandStep DEF Onward

(* A command's time is over.                                               *)
LEMMA ExpireInv ==
    ASSUME IInv, NEW r \in Remotes, Expire(r) PROVE IInv'
<1>1. cmd[r] \in Commands /\ cmd \in [Remotes -> Commands]
  BY DEF IInv, TypeOK
<1> DEFINE c == [cmd[r] EXCEPT !.open = FALSE]
<1>2. c \in Commands
  BY <1>1 DEF Commands
<1>3. /\ c.phase = cmd[r].phase /\ c.n = cmd[r].n /\ c.request = cmd[r].request
      /\ c.target = cmd[r].target /\ c.sawOther = cmd[r].sawOther
      /\ c.contradiction = cmd[r].contradiction
  BY <1>1 DEF Commands
<1>4. cmd' = [cmd EXCEPT ![r] = c] /\ cmd[r].phase # "done" /\ UNCHANGED <<tv, changes, wire, log>>
  BY <1>1 DEF Expire
<1> HIDE DEF c
<1>5. Knows(c, log[r][c.n].captured)
  BY <1>3 DEF IInv, Captured, Knows
<1> QED BY <1>2, <1>3, <1>4, <1>5, CommandStep DEF Onward

(* The read before a playback command captures its session.                *)
LEMMA PlaybackTargetInv ==
    ASSUME IInv, NEW r \in Remotes, PlaybackTarget(r) PROVE IInv'
<1>1. /\ TypeOK /\ cmd[r] \in Commands /\ cmd \in [Remotes -> Commands]
      /\ log \in [Remotes -> [1..MaxCommands -> Outcomes]]
  BY DEF IInv, TypeOK, Outcomes
<1>2. cmd[r].phase = "target" /\ UNCHANGED <<tv, changes, wire>>
  BY DEF PlaybackTarget
<1>3. CASE Finish(r, "not_sent")
  BY <1>2, <1>3, FinishStep DEF Results
<1>4. CASE ~Finish(r, "not_sent")
  <2>1. PICK omit \in Omissions :
          /\ FreshMediaStatus(omit).session # 0
          /\ cmd' = [cmd EXCEPT ![r].phase = "send", ![r].target = FreshMediaStatus(omit)]
          /\ log' = [log EXCEPT ![r][cmd[r].n].captured = FreshMediaStatus(omit).session]
    BY <1>4 DEF PlaybackTarget
  <2> DEFINE md == FreshMediaStatus(omit)
             c == [cmd[r] EXCEPT !.phase = "send", !.target = md]
             k == cmd[r].n
  <2>2. md \in Media /\ md.session \in 0..MaxSession
    BY <1>1, ReadTypes DEF Media
  <2>3. cmd' = [cmd EXCEPT ![r] = c]
    BY <1>1, <2>1
  <2>4. md.session # 0 /\ log' = [log EXCEPT ![r][k].captured = md.session]
    BY <2>1
  <2> HIDE DEF md
  <2>5. c \in Commands /\ c.phase = "send" /\ c.n = k /\ c.target = md
        /\ c.sawOther = cmd[r].sawOther /\ c.request = cmd[r].request
    BY <1>1, <2>2 DEF Commands
  <2> HIDE DEF c
  <2>6. cmd'[r] = c /\ \A q \in Remotes \ {r} : cmd'[q] = cmd[q]
    BY <1>1, <2>3
  <2>7. k \in 1..MaxCommands
    BY <1>1, <1>2, NumberOfCommand DEF IInv, Captured, Knows, Commands
  <2>8. /\ log' \in [Remotes -> [1..MaxCommands -> Outcomes]]
        /\ \A q \in Remotes, n \in 1..MaxCommands :
             /\ log'[q][n].received = log[q][n].received
             /\ log'[q][n].result = log[q][n].result
             /\ log'[q][n].hit = log[q][n].hit
             /\ log'[q][n].captured = IF q = r /\ n = k THEN md.session ELSE log[q][n].captured
    <3> DEFINE o == [log[r][k] EXCEPT !.captured = md.session]
    <3>1. log[r][k] \in Outcomes
      BY <1>1, <2>7
    <3>2. o \in Outcomes /\ o.received = log[r][k].received /\ o.result = log[r][k].result
          /\ o.hit = log[r][k].hit /\ o.captured = md.session
      BY <3>1, <2>2 DEF Outcomes
    <3>3. log' = [log EXCEPT ![r] = [log[r] EXCEPT ![k] = o]]
      BY <2>4, <1>1, <2>7
    <3> HIDE DEF o
    <3>4. log' \in [Remotes -> [1..MaxCommands -> Outcomes]]
      BY <3>2, <3>3, <1>1, <2>7
    <3>5. ASSUME NEW q \in Remotes, NEW n \in 1..MaxCommands
          PROVE  log'[q][n] = IF q = r /\ n = k THEN o ELSE log[q][n]
      BY <3>3, <1>1, <2>7
    <3> QED BY <3>2, <3>4, <3>5
  <2>9. ~Issued(r, k)
    BY <1>1, <1>2, Bounds DEF Issued, Commands
  <2>10. \A q \in Remotes, n \in 1..MaxCommands : Issued(q, n) => Issued(q, n)'
    BY <1>2, <2>5, <2>6 DEF Issued
  <2>11. TypeOK'
    BY <1>1, <1>2, <2>3, <2>5, <2>8 DEF TypeOK, Outcomes
  <2>12. wire \subseteq Messages /\ \A m \in wire : m.from \in Remotes /\ m.n \in 1..MaxCommands
    BY <1>1 DEF TypeOK, Messages
  <2>13. \A m \in wire' : OnItsWay(m)'
    BY <1>2, <2>8, <2>9, <2>10, <2>12 DEF IInv, OnItsWay
  <2>14. \A q \in Remotes, n \in 1..MaxCommands : Processed(q, n)'
    BY <2>8, <2>10 DEF IInv, Processed
  <2>15. \A q \in Remotes : Captured(q)'
    <3>1. Captured(r)'
      BY <1>2, <2>4, <2>5, <2>6, <2>7, <2>8, Bounds DEF IInv, Captured, Knows
    <3>2. ASSUME NEW q \in Remotes \ {r} PROVE Captured(q)'
      <4>1. cmd'[q] = cmd[q] /\ Captured(q) /\ cmd[q] \in Commands
        BY <1>1, <2>6 DEF IInv
      <4>2. cmd[q].phase # "idle" => log'[q][cmd[q].n].captured = log[q][cmd[q].n].captured
        BY <2>8, <4>1, NumberOfCommand DEF Captured, Knows, Commands
      <4> QED BY <4>1, <4>2 DEF Captured, Knows
    <3> QED BY <3>1, <3>2
  <2>16. OnlyTheCapturedSession'
    <3>1. log[r][k].hit = 0
      BY <2>7, <2>9 DEF IInv, Processed
    <3> QED BY <2>8, <3>1 DEF IInv, OnlyTheCapturedSession
  <2>17. NoConfirmationAfterContradiction'
    <3> SUFFICES ASSUME NEW q \in Remotes, cmd'[q].phase = "done",
                        log'[q][cmd'[q].n].result = "confirmed",
                        cmd'[q].request.kind \in PlaybackKinds
                 PROVE  ~cmd'[q].sawOther
      BY DEF NoConfirmationAfterContradiction
    <3>1. q # r
      BY <2>5, <2>6
    <3>2. cmd'[q] = cmd[q] /\ cmd[q] \in Commands /\ cmd[q].n \in 1..MaxCommands
      BY <1>1, <2>6, <3>1, NumberOfCommand DEF IInv, Captured, Knows, Commands
    <3> QED BY <2>8, <3>1, <3>2 DEF IInv, NoConfirmationAfterContradiction
  <2> QED BY <1>2, <2>11, <2>13, <2>14, <2>15, <2>16, <2>17 DEF IInv, OnePerCommand
<1> QED BY <1>3, <1>4

(* A volume command to a TV whose volume is fixed is not sent.             *)
LEMMA VolumeIsFixedInv ==
    ASSUME IInv, NEW r \in Remotes, VolumeIsFixed(r) PROVE IInv'
<1>1. cmd[r] \in Commands /\ cmd \in [Remotes -> Commands]
  BY DEF IInv, TypeOK
<1>2. cmd[r].phase = "target" /\ cmd[r].request.kind = "volume" /\ UNCHANGED <<tv, changes, wire>>
  BY DEF VolumeIsFixed
<1>3. CASE Finish(r, "not_sent")
  BY <1>2, <1>3, FinishStep DEF Results
<1>4. CASE ~Finish(r, "not_sent")
  <2> DEFINE c == [cmd[r] EXCEPT !.phase = "send"]
  <2>1. c \in Commands /\ c.phase = "send" /\ c.n = cmd[r].n /\ c.request = cmd[r].request
        /\ c.sawOther = cmd[r].sawOther
    BY <1>1 DEF Commands
  <2>2. cmd' = [cmd EXCEPT ![r] = c] /\ UNCHANGED log
    BY <1>1, <1>4 DEF VolumeIsFixed
  <2> HIDE DEF c
  <2>3. Knows(c, log[r][c.n].captured)
    BY <1>2, <2>1 DEF IInv, Captured, Knows, PlaybackKinds
  <2> QED BY <1>2, <2>1, <2>2, <2>3, CommandStep DEF Onward
<1> QED BY <1>3, <1>4

(* A message leaves, once, for the session that was captured.              *)
LEMMA SendInv ==
    ASSUME IInv, NEW r \in Remotes, Send(r) PROVE IInv'
<1>1. /\ TypeOK /\ cmd[r] \in Commands /\ cmd \in [Remotes -> Commands]
      /\ log \in [Remotes -> [1..MaxCommands -> Outcomes]]
  BY DEF IInv, TypeOK, Outcomes
<1>2. cmd[r].phase = "send" /\ UNCHANGED <<tv, changes>>
  BY DEF Send
<1>3. CASE \E result \in {"ambiguous", "rejected"} : Finish(r, result) /\ UNCHANGED wire
  BY <1>2, <1>3, FinishStep DEF Results
<1> DEFINE sent == [cmd[r] EXCEPT !.phase = "sent"]
           c == Witness(sent, tv)
           k == cmd[r].n
           m == [from |-> r, n |-> k, kind |-> cmd[r].request.kind, arg |-> cmd[r].request.arg,
                 content |-> cmd[r].request.content, session |-> AddressedSession(cmd[r])]
<1>4. CASE cmd' = [cmd EXCEPT ![r] = c] /\ wire' = wire \cup {m} /\ UNCHANGED log
  <2>1. sent \in Commands /\ sent.phase = "sent" /\ sent.n = k /\ sent.request = cmd[r].request
        /\ sent.target = cmd[r].target /\ sent.sawOther = cmd[r].sawOther
    BY <1>1 DEF Commands
  <2> HIDE DEF sent
  <2>2. c \in Commands /\ c.phase = "sent" /\ c.n = k /\ c.request = cmd[r].request
        /\ c.target = cmd[r].target /\ c.sawOther = cmd[r].sawOther
    BY <2>1, WitnessType
  <2> HIDE DEF c
  <2>3. k \in 1..MaxCommands /\ k \in Nat
    BY <1>1, <1>2, NumberOfCommand, Bounds DEF IInv, Captured, Knows, Commands
  <2>4. cmd[r].request \in Requests /\ cmd[r].target \in Media
    BY <1>1 DEF Commands
  <2>5. AddressedSession(cmd[r]) \in 0..MaxSession
    BY <2>4, RequestShape, Bounds DEF AddressedSession, Media
  <2>6. m \in Messages /\ m.from = r /\ m.n = k /\ m.kind = cmd[r].request.kind
        /\ m.content = cmd[r].request.content /\ m.session = AddressedSession(cmd[r])
    <3>1. /\ cmd[r].request.kind \in Kinds /\ cmd[r].request.arg \in {1}
          /\ cmd[r].request.content \in Contents \cup {"none"}
      BY <2>4, RequestShape
    <3> QED BY <2>3, <2>5, <3>1 DEF Messages
  <2>7. /\ m.kind = "load" => m.content \in Contents
        /\ m.kind \in PlaybackKinds => m.session = log[r][k].captured
    <3>1. m.kind = "load" => m.content \in Contents
      BY <2>4, <2>6, RequestShape
    <3>2. Knows(cmd[r], log[r][k].captured)
      BY DEF IInv, Captured
    <3>3. cmd[r].request.kind \in PlaybackKinds => AddressedSession(cmd[r]) = cmd[r].target.session
      BY DEF AddressedSession, PlaybackKinds
    <3> HIDE DEF m
    <3> QED BY <1>2, <2>6, <3>1, <3>2, <3>3 DEF Knows
  <2> HIDE DEF m
  <2>8. cmd'[r] = c /\ \A q \in Remotes \ {r} : cmd'[q] = cmd[q]
    BY <1>1, <1>4
  <2>9. TypeOK'
    BY <1>1, <1>2, <1>4, <2>2, <2>6 DEF TypeOK
  <2>10. ~Issued(r, k)
    BY <1>2, <2>3 DEF Issued
  <2>11. \A q \in Remotes, n \in 1..MaxCommands : Issued(q, n) => Issued(q, n)'
    BY <1>2, <2>2, <2>8 DEF Issued
  <2>13. wire \subseteq Messages /\ \A x \in wire : x.from \in Remotes /\ x.n \in 1..MaxCommands
    BY <1>1 DEF TypeOK, Messages
  <2>14. \A x \in wire : ~(x.from = r /\ x.n = k)
    BY <2>10 DEF IInv, OnItsWay
  <2>15. OnePerCommand'
    BY <1>4, <2>6, <2>14 DEF IInv, OnePerCommand
  <2>16. log[r][k].received = 0 /\ log[r][k].result # "not_sent"
    BY <2>3, <2>10 DEF IInv, Processed
  <2>17. \A x \in wire' : OnItsWay(x)'
    <3>1. ASSUME NEW x, x = m PROVE OnItsWay(x)'
      <4>1. x.from = r /\ x.n = k /\ UNCHANGED log
        BY <1>4, <2>6, <3>1
      <4>2. Issued(x.from, x.n)'
        BY <2>2, <2>8, <4>1 DEF Issued
      <4> QED BY <2>7, <2>16, <3>1, <4>1, <4>2 DEF OnItsWay
    <3>2. \A x \in wire : OnItsWay(x)'
      BY <1>4, <2>11, <2>13 DEF IInv, OnItsWay
    <3> QED BY <1>4, <3>1, <3>2
  <2>18. \A q \in Remotes, n \in 1..MaxCommands : Processed(q, n)'
    BY <1>4, <2>11 DEF IInv, Processed
  <2>19. \A q \in Remotes : Captured(q)'
    BY <1>2, <1>4, <2>2, <2>8 DEF IInv, Captured, Knows
  <2>20. NoConfirmationAfterContradiction'
    BY <1>4, <2>2, <2>8 DEF IInv, NoConfirmationAfterContradiction
  <2> QED BY <1>2, <1>4, <2>9, <2>15, <2>17, <2>18, <2>19, <2>20 DEF IInv, OnlyTheCapturedSession
<1> QED BY <1>3, <1>4 DEF Send

(* What every remote keeps when the receiver changes: its history only.    *)
Watched ==
    /\ cmd' \in [Remotes -> Commands]
    /\ \A q \in Remotes :
         /\ cmd'[q].phase = cmd[q].phase /\ cmd'[q].n = cmd[q].n
         /\ cmd'[q].request = cmd[q].request /\ cmd'[q].target = cmd[q].target
         /\ cmd'[q].contradiction = cmd[q].contradiction
         /\ cmd'[q].sawOther = cmd[q].sawOther

(* The TV processes a message that was on its way.                         *)
LEMMA TvReceivesInv ==
    ASSUME IInv, NEW m \in wire, TvReceives(m) PROVE IInv'
<1>1. /\ TypeOK /\ cmd \in [Remotes -> Commands] /\ tv \in TvStates /\ wire \subseteq Messages
      /\ log \in [Remotes -> [1..MaxCommands -> Outcomes]]
  BY DEF IInv, TypeOK, Outcomes
<1>2. m \in Messages /\ m.from \in Remotes /\ m.n \in 1..MaxCommands
  BY <1>1 DEF Messages
<1>3. PICK accepted \in BOOLEAN :
        /\ accepted => Addressed(m)
        /\ \E t \in IF accepted THEN Effects(m) ELSE {tv} :
             /\ tv' = t
             /\ cmd' = [q \in Remotes |->
                          LET c == Witness(cmd[q], t)
                          IN  IF q = m.from /\ c.n = m.n /\ c.phase = "sent"
                              THEN [c EXCEPT !.answer = IF accepted THEN "accepted" ELSE "refused"]
                              ELSE c]
        /\ log' = [log EXCEPT ![m.from][m.n].received = @ + 1,
                              ![m.from][m.n].hit =
                                  IF accepted /\ m.kind \in PlaybackKinds
                                  THEN tv.media.session ELSE @]
  BY DEF TvReceives
<1>4. PICK t \in (IF accepted THEN Effects(m) ELSE {tv}) :
         /\ tv' = t
         /\ cmd' = [q \in Remotes |->
                      LET c == Witness(cmd[q], t)
                      IN  IF q = m.from /\ c.n = m.n /\ c.phase = "sent"
                          THEN [c EXCEPT !.answer = IF accepted THEN "accepted" ELSE "refused"]
                          ELSE c]
  BY <1>3
<1>5. tv' \in TvStates /\ Sane(tv')
  <2>1. m.kind = "load" => m.content \in Contents
    BY DEF IInv, OnItsWay
  <2>2. CASE accepted
    BY <1>2, <1>3, <1>4, <2>1, <2>2, EffectsAreSane DEF IInv
  <2>3. CASE ~accepted
    BY <1>1, <1>4, <2>3 DEF IInv
  <2> QED BY <2>2, <2>3
<1>6. Watched
  <2> DEFINE w(q) == Witness(cmd[q], t)
             b == IF accepted THEN "accepted" ELSE "refused"
             c(q) == IF q = m.from /\ w(q).n = m.n /\ w(q).phase = "sent"
                     THEN [w(q) EXCEPT !.answer = b] ELSE w(q)
  <2>1. cmd' = [q \in Remotes |-> c(q)]
    BY <1>4
  <2>2. ASSUME NEW q \in Remotes
        PROVE  /\ c(q) \in Commands /\ c(q).phase = cmd[q].phase /\ c(q).n = cmd[q].n
               /\ c(q).request = cmd[q].request /\ c(q).target = cmd[q].target
               /\ c(q).contradiction = cmd[q].contradiction /\ c(q).sawOther = cmd[q].sawOther
    <3>1. /\ w(q) \in Commands /\ w(q).phase = cmd[q].phase /\ w(q).n = cmd[q].n
          /\ w(q).request = cmd[q].request /\ w(q).target = cmd[q].target
          /\ w(q).contradiction = cmd[q].contradiction /\ w(q).sawOther = cmd[q].sawOther
      BY <1>1, WitnessType
    <3>2. b \in {"none", "accepted", "refused"}
      OBVIOUS
    <3> HIDE DEF w, b
    <3>3. [w(q) EXCEPT !.answer = b] \in Commands
      BY <3>1, <3>2 DEF Commands
    <3> QED BY <3>1, <3>3 DEF Commands
  <2> HIDE DEF c
  <2> QED BY <2>1, <2>2 DEF Watched
<1>7. /\ log' \in [Remotes -> [1..MaxCommands -> Outcomes]]
      /\ \A q \in Remotes, n \in 1..MaxCommands :
           /\ log'[q][n].captured = log[q][n].captured
           /\ log'[q][n].result = log[q][n].result
           /\ ~(q = m.from /\ n = m.n) => log'[q][n] = log[q][n]
      /\ log'[m.from][m.n].received = log[m.from][m.n].received + 1
      /\ log'[m.from][m.n].hit = IF accepted /\ m.kind \in PlaybackKinds
                                 THEN tv.media.session ELSE log[m.from][m.n].hit
  <2> DEFINE h == IF accepted /\ m.kind \in PlaybackKinds
                  THEN tv.media.session ELSE log[m.from][m.n].hit
             d == log[m.from][m.n].received + 1
             o == [log[m.from][m.n] EXCEPT !.received = d, !.hit = h]
  <2>1. log[m.from][m.n] \in Outcomes
    BY <1>1, <1>2
  <2>2. h \in 0..MaxSession /\ d \in Nat
    BY <1>1, <2>1 DEF Outcomes, TvStates, Media
  <2>3. log' = [log EXCEPT ![m.from] = [log[m.from] EXCEPT ![m.n] = o]]
    BY <1>1, <1>2, <1>3, <2>1 DEF Outcomes
  <2> HIDE DEF h, d
  <2>4. o \in Outcomes /\ o.received = d /\ o.hit = h /\ o.result = log[m.from][m.n].result
        /\ o.captured = log[m.from][m.n].captured
    BY <2>1, <2>2 DEF Outcomes
  <2> HIDE DEF o
  <2>5. log' \in [Remotes -> [1..MaxCommands -> Outcomes]]
    BY <1>1, <1>2, <2>3, <2>4
  <2>6. ASSUME NEW q \in Remotes, NEW n \in 1..MaxCommands
        PROVE  log'[q][n] = IF q = m.from /\ n = m.n THEN o ELSE log[q][n]
    BY <1>1, <1>2, <2>3
  <2> QED BY <1>2, <2>4, <2>5, <2>6 DEF h, d
<1>8. wire' = wire \ {m} /\ UNCHANGED changes
  BY DEF TvReceives
<1>9. TypeOK'
  BY <1>1, <1>5, <1>6, <1>7, <1>8 DEF TypeOK, Watched, Outcomes
<1>10. \A q \in Remotes, n \in 1..MaxCommands : Issued(q, n) <=> Issued(q, n)'
  BY <1>6 DEF Watched, Issued
<1>11. \A x \in wire' : OnItsWay(x)'
  <2> SUFFICES ASSUME NEW x \in wire, x # m PROVE OnItsWay(x)'
    BY <1>8
  <2>1. x.from \in Remotes /\ x.n \in 1..MaxCommands
    BY <1>1 DEF Messages
  <2>2. ~(x.from = m.from /\ x.n = m.n)
    BY DEF IInv, OnePerCommand
  <2>3. log'[x.from][x.n] = log[x.from][x.n] /\ OnItsWay(x)
    BY <1>7, <2>1, <2>2 DEF IInv
  <2> QED BY <1>10, <2>1, <2>3 DEF OnItsWay
<1>12. OnePerCommand'
  BY <1>8 DEF IInv, OnePerCommand
<1>13. OnItsWay(m)
  BY DEF IInv
<1>14. \A q \in Remotes, n \in 1..MaxCommands : Processed(q, n)'
  <2> SUFFICES ASSUME NEW q \in Remotes, NEW n \in 1..MaxCommands PROVE Processed(q, n)'
    OBVIOUS
  <2>1. CASE q = m.from /\ n = m.n
    <3>1. log'[q][n].received = 1
      BY <1>2, <1>7, <1>13, <2>1 DEF OnItsWay
    <3>2. Issued(q, n)' /\ log'[q][n].result # "not_sent"
      BY <1>7, <1>10, <1>13, <2>1 DEF OnItsWay
    <3> QED BY <3>1, <3>2 DEF Processed
  <2>2. CASE ~(q = m.from /\ n = m.n)
    BY <1>7, <1>10, <2>2 DEF IInv, Processed
  <2> QED BY <2>1, <2>2
<1>15. \A q \in Remotes : Captured(q)'
  <2> SUFFICES ASSUME NEW q \in Remotes PROVE Captured(q)'
    OBVIOUS
  <2>1. Captured(q) /\ cmd[q] \in Commands
    BY <1>1 DEF IInv
  <2>2. cmd[q].phase # "idle" => log'[q][cmd[q].n].captured = log[q][cmd[q].n].captured
    BY <1>7, <2>1, NumberOfCommand DEF Captured, Knows, Commands
  <2> QED BY <1>6, <2>1, <2>2 DEF Watched, Captured, Knows
<1>16. OnlyTheCapturedSession'
  <2>1. accepted /\ m.kind \in PlaybackKinds => tv.media.session = log[m.from][m.n].captured
    BY <1>3, <1>13 DEF Addressed, OnItsWay, PlaybackKinds
  <2>2. ASSUME NEW q \in Remotes, NEW n \in 1..MaxCommands
        PROVE  log'[q][n].hit \in {0, log'[q][n].captured}
    <3>1. CASE q = m.from /\ n = m.n
      BY <1>7, <2>1, <3>1 DEF IInv, OnlyTheCapturedSession
    <3>2. CASE ~(q = m.from /\ n = m.n)
      BY <1>7, <3>2 DEF IInv, OnlyTheCapturedSession
    <3> QED BY <3>1, <3>2
  <2> QED BY <2>2 DEF OnlyTheCapturedSession
<1>17. NoConfirmationAfterContradiction'
  <2> SUFFICES ASSUME NEW q \in Remotes, cmd'[q].phase = "done",
                      log'[q][cmd'[q].n].result = "confirmed",
                      cmd'[q].request.kind \in PlaybackKinds
               PROVE  ~cmd'[q].sawOther
    BY DEF NoConfirmationAfterContradiction
  <2>1. cmd[q].phase = "done" /\ cmd[q] \in Commands /\ cmd[q].n \in 1..MaxCommands
    BY <1>1, <1>6, NumberOfCommand DEF Watched, IInv, Captured, Knows, Commands
  <2> QED BY <1>6, <1>7, <2>1 DEF Watched, IInv, NoConfirmationAfterContradiction
<1> QED BY <1>5, <1>9, <1>11, <1>12, <1>14, <1>15, <1>16, <1>17 DEF IInv

(* Other people change the TV while commands run.                          *)
LEMMA ElsewhereInv ==
    ASSUME IInv, Elsewhere PROVE IInv'
<1>1. TypeOK /\ cmd \in [Remotes -> Commands] /\ Sane(tv)
  BY DEF IInv, TypeOK
<1>2. tv' \in TvStates /\ Sane(tv') /\ changes' \in 0..MaxChanges
  BY <1>1, OthersAreSane DEF Elsewhere
<1>3. cmd' = [q \in Remotes |-> Witness(cmd[q], tv')] /\ UNCHANGED <<wire, log>>
  BY DEF Elsewhere
<1>4. Watched
  BY <1>1, <1>3, WitnessType DEF Watched
<1>5. TypeOK'
  BY <1>1, <1>2, <1>3, <1>4 DEF TypeOK, Watched
<1>6. \A m \in wire : OnItsWay(m)'
  <2>1. \A m \in wire : m.from \in Remotes
    BY <1>1 DEF TypeOK, Messages
  <2> QED BY <1>3, <1>4, <2>1 DEF Watched, IInv, OnItsWay, Issued
<1>7. \A q \in Remotes, n \in 1..MaxCommands : Processed(q, n)'
  BY <1>3, <1>4 DEF Watched, IInv, Processed, Issued
<1>8. \A q \in Remotes : Captured(q)'
  BY <1>3, <1>4 DEF Watched, IInv, Captured, Knows
<1>9. NoConfirmationAfterContradiction'
  BY <1>3, <1>4 DEF Watched, IInv, NoConfirmationAfterContradiction
<1> QED BY <1>2, <1>3, <1>5, <1>6, <1>7, <1>8, <1>9 DEF IInv, OnePerCommand, OnlyTheCapturedSession

(* The transport returned: the command is over, or is verified.            *)
LEMMA TransportReturnsInv ==
    ASSUME IInv, NEW r \in Remotes, TransportReturns(r) PROVE IInv'
<1>1. cmd[r] \in Commands /\ cmd \in [Remotes -> Commands]
  BY DEF IInv, TypeOK
<1>2. cmd[r].phase = "sent" /\ UNCHANGED <<tv, changes, wire>>
  BY DEF TransportReturns
<1>3. CASE Finish(r, "rejected") \/ Finish(r, "not_checked")
  BY <1>2, <1>3, FinishStep DEF Results
<1>4. CASE ~(Finish(r, "rejected") \/ Finish(r, "not_checked"))
  <2>1. PICK o \in BOOLEAN : cmd' = [cmd EXCEPT ![r].phase = "verify", ![r].open = o]
    <3> DEFINE o == \/ cmd[r].open
                    \/ cmd[r].request.kind \in AllKinds \ (PlaybackKinds \cup {"volume"})
                    \/ cmd[r].request.kind \in PlaybackKinds /\ r \in Gated
    <3>1. cmd' = [cmd EXCEPT ![r].phase = "verify", ![r].open = o]
      BY <1>1, <1>4 DEF TransportReturns
    <3>2. o \in BOOLEAN
      OBVIOUS
    <3> QED BY <3>1, <3>2
  <2> DEFINE c == [cmd[r] EXCEPT !.phase = "verify", !.open = o]
  <2>2. c \in Commands /\ c.phase = "verify" /\ c.n = cmd[r].n /\ c.request = cmd[r].request
        /\ c.target = cmd[r].target /\ c.sawOther = cmd[r].sawOther
    BY <1>1 DEF Commands
  <2>3. cmd' = [cmd EXCEPT ![r] = c] /\ UNCHANGED log
    BY <1>1, <1>4, <2>1 DEF TransportReturns
  <2> HIDE DEF c
  <2>4. Knows(c, log[r][c.n].captured)
    BY <1>2, <2>2 DEF IInv, Captured, Knows
  <2> QED BY <1>2, <2>2, <2>3, <2>4, CommandStep DEF Onward
<1> QED BY <1>3, <1>4

(* The transport raised: the command is over.                              *)
LEMMA TransportRaisesInv ==
    ASSUME IInv, NEW r \in Remotes, TransportRaises(r) PROVE IInv'
BY FinishStep DEF TransportRaises, Results

(* The status is read again.                                               *)
LEMMA ReadStatusInv ==
    ASSUME IInv, NEW r \in Remotes, ReadStatus(r) PROVE IInv'
<1>1. TypeOK /\ cmd[r] \in Commands /\ cmd \in [Remotes -> Commands]
  BY DEF IInv, TypeOK
<1>2. cmd[r].phase = "verify" /\ UNCHANGED <<tv, changes, wire, log>>
  BY DEF ReadStatus
<1>3. PICK rd \in Read : cmd' = [cmd EXCEPT ![r].phase = "reading", ![r].read = rd]
  BY <1>1, ReadTypes DEF ReadStatus
<1> DEFINE c == [cmd[r] EXCEPT !.phase = "reading", !.read = rd]
<1>4. c \in Commands /\ c.phase = "reading" /\ c.n = cmd[r].n /\ c.request = cmd[r].request
      /\ c.target = cmd[r].target /\ c.sawOther = cmd[r].sawOther
      /\ c.contradiction = cmd[r].contradiction
  BY <1>1 DEF Commands
<1>5. cmd' = [cmd EXCEPT ![r] = c]
  BY <1>1, <1>3
<1> HIDE DEF c
<1>6. Knows(c, log[r][c.n].captured)
  BY <1>2, <1>4 DEF IInv, Captured, Knows
<1> QED BY <1>2, <1>4, <1>5, <1>6, CommandStep DEF Onward

(* A confirmation of a playback command needs an identity and excludes the *)
(* contradiction it remembers.                                             *)
LEMMA MatchNeedsIdentity ==
    ASSUME NEW c \in Commands, c.request.kind \in PlaybackKinds, Matches(c, c.read)
    PROVE  HasIdentity(c.target) /\ ~c.contradiction
BY DEF Matches, SameMedia, ContradictionAfter, Mismatch, PlaybackKinds

(* A read confirms, contradicts or leaves open.                            *)
LEMMA UseReadInv ==
    ASSUME IInv, NEW r \in Remotes, UseRead(r) PROVE IInv'
<1>1. cmd[r] \in Commands /\ cmd \in [Remotes -> Commands]
  BY DEF IInv, TypeOK
<1>2. cmd[r].phase = "reading" /\ UNCHANGED <<tv, changes, wire>>
  BY DEF UseRead
<1>3. Knows(cmd[r], log[r][cmd[r].n].captured)
  BY DEF IInv, Captured
<1>4. CASE ~cmd[r].open
  BY <1>2, <1>4, FinishStep DEF UseRead, Results
<1>5. CASE cmd[r].open /\ Matches(cmd[r], cmd[r].read)
  <2>1. cmd[r].request.kind \in PlaybackKinds => ~cmd[r].sawOther
    BY <1>1, <1>2, <1>3, <1>5, MatchNeedsIdentity DEF Knows
  <2>2. Finish(r, "confirmed")
    BY <1>5 DEF UseRead
  <2> QED BY <1>2, <2>1, <2>2, FinishStep DEF Results
<1>6. CASE cmd[r].open /\ ~Matches(cmd[r], cmd[r].read)
  <2> DEFINE md == cmd[r].read.media
             d == cmd[r].request.kind \in PlaybackKinds /\ ContradictionAfter(cmd[r], md)
             w == cmd[r].sawOther \/ (md.present /\ Contradicts(cmd[r].target, md))
             c == [cmd[r] EXCEPT !.phase = "verify", !.read = NoRead, !.contradiction = d,
                                 !.sawOther = w]
  <2>1. cmd' = [cmd EXCEPT ![r] = c] /\ UNCHANGED log
    BY <1>1, <1>6 DEF UseRead
  <2>2. d \in BOOLEAN /\ w \in BOOLEAN
    OBVIOUS
  <2>3. cmd[r].request.kind \in PlaybackKinds /\ w => d \/ ~HasIdentity(cmd[r].target)
    BY <1>2, <1>3 DEF Knows, ContradictionAfter
  <2> HIDE DEF d, w
  <2>4. c \in Commands /\ c.phase = "verify" /\ c.n = cmd[r].n /\ c.request = cmd[r].request
        /\ c.target = cmd[r].target /\ c.sawOther = w /\ c.contradiction = d
    BY <1>1, <2>2, MediaTypes DEF Commands
  <2> HIDE DEF c
  <2>5. Knows(c, log[r][c.n].captured)
    BY <1>2, <1>3, <2>3, <2>4 DEF Knows
  <2> QED BY <1>2, <2>1, <2>4, <2>5, CommandStep DEF Onward
<1> QED BY <1>4, <1>5, <1>6, <1>1 DEF Commands

(* The verification ends with no confirmation.                             *)
LEMMA VerifyEndsInv ==
    ASSUME IInv, NEW r \in Remotes, VerifyEnds(r) PROVE IInv'
BY FinishStep DEF VerifyEnds, Results

(* A step that changes nothing keeps the invariant.                        *)
LEMMA StutterInv ==
    ASSUME IInv, UNCHANGED vars PROVE IInv'
BY DEF vars, IInv, TypeOK, Sane, OnePerCommand, OnItsWay, Issued, Processed, Captured,
       OnlyTheCapturedSession, NoConfirmationAfterContradiction

(* The invariant of the service, for any remotes, contents and bounds:     *)
(* what is on its way was issued and not yet processed, what was processed *)
(* was issued once, a command knows the session its read captured, and a   *)
(* contradiction it saw is kept (service.py, _send and _IdentityCheck).    *)
THEOREM Inductive == Spec => []IInv
<1>1. IInv /\ [Next]_vars => IInv'
  <2> SUFFICES ASSUME IInv, [Next]_vars PROVE IInv'
    OBVIOUS
  <2>1. ASSUME NEW r \in Remotes, Request(r) \/ Expire(r) \/ ServiceStep(r) PROVE IInv'
    BY <2>1, RequestInv, ExpireInv, PlaybackTargetInv, VolumeIsFixedInv, SendInv,
       TransportReturnsInv, TransportRaisesInv, ReadStatusInv, UseReadInv, VerifyEndsInv
       DEF ServiceStep
  <2> QED BY <2>1, TvReceivesInv, ElsewhereInv, StutterInv DEF Next
<1> QED BY InitInv, <1>1, PTL DEF Spec

(* Every variable keeps its type: a command's number, target and read, the *)
(* messages on the way and the outcome of each command.                    *)
THEOREM TypeCorrect == Spec => []TypeOK
<1>1. IInv => TypeOK
  BY DEF IInv
<1> QED BY <1>1, Inductive, PTL

(* A playback command acts on the session its own read captured, however   *)
(* many remotes and people replace that session meanwhile (_send).         *)
THEOREM CapturedSessionOnly == Spec => []OnlyTheCapturedSession
<1>1. IInv => OnlyTheCapturedSession
  BY DEF IInv
<1> QED BY <1>1, Inductive, PTL

(* An attempt that once read another content, session or item never ends   *)
(* CONFIRMED (_IdentityCheck), whatever its later reads say.               *)
THEOREM ContradictionIsFinal == Spec => []NoConfirmationAfterContradiction
<1>1. IInv => NoConfirmationAfterContradiction
  BY DEF IInv
<1> QED BY <1>1, Inductive, PTL

(* Nothing is resent: of each command the TV holds or has processed at most *)
(* one message, and none of a command reported as not sent (_send).        *)
THEOREM AtMostOneSend == Spec => []SentAtMostOnce
<1>1. IInv => SentAtMostOnce
  <2> SUFFICES ASSUME IInv, NEW r \in Remotes, NEW n \in 1..MaxCommands
               PROVE  LET pending == Cardinality({m \in wire : m.from = r /\ m.n = n})
                      IN  /\ log[r][n].received + pending <= 1
                          /\ log[r][n].result = "not_sent" => log[r][n].received + pending = 0
    BY DEF SentAtMostOnce
  <2> DEFINE P == {m \in wire : m.from = r /\ m.n = n}
  <2>1. Processed(r, n) /\ log[r][n].received \in {0, 1}
    BY DEF IInv, Processed
  <2>2. CASE P = {}
    <3>1. Cardinality(P) = 0
      BY <2>2, FS_EmptySet
    <3> HIDE DEF P
    <3> QED BY <2>1, <3>1 DEF Processed, P
  <2>3. CASE P # {}
    <3>1. PICK m \in P : TRUE
      BY <2>3
    <3>2. P = {m}
      BY <3>1 DEF IInv, OnePerCommand
    <3>3. Cardinality(P) = 1
      BY <3>2, FS_Singleton
    <3>4. log[r][n].received = 0 /\ log[r][n].result # "not_sent"
      BY <3>1 DEF IInv, OnItsWay
    <3> HIDE DEF P
    <3> QED BY <3>3, <3>4 DEF P
  <2> QED BY <2>2, <2>3
<1> QED BY <1>1, Inductive, PTL

-----------------------------------------------------------------------------
(* A confirmation was true. Every reply that leaves the content out names  *)
(* the player state: a reply that says neither is taken for "no media",    *)
(* and a stop is then confirmed while the media plays.                     *)

RepliesSpeak == \A omit \in Omissions : ~({"content", "state"} \subseteq omit)

(* Since the send, the history records the instants the request was true;  *)
(* a read that will confirm the command was taken at such an instant.      *)
Recorded(r) ==
    LET c == cmd[r]
    IN  /\ c.phase \in {"sent", "verify", "reading"} /\ Goal(c, tv) => c.held
        /\ c.phase = "reading" /\ Matches(c, c.read) => c.held

HeldInv == (\A r \in Remotes : Recorded(r)) /\ ConfirmedWasTrue

(* What a reply of the receiver shows of it.                               *)
LEMMA ReplyShows ==
    ASSUME RepliesSpeak, Sane(tv), tv \in TvStates, NEW omit \in Omissions
    PROVE  LET md == FreshMediaStatus(omit)
           IN  /\ md.present =>
                    /\ tv.media.present
                    /\ md.session # 0 => md.session = tv.media.session
                    /\ md.item # 0 => md.item = tv.media.item
                    /\ md.content \in Contents => md.content = tv.media.content
                    /\ md.state # "UNREPORTED" => md.state = tv.media.state
                    /\ md.pos # 2 => md.pos = tv.media.pos
               /\ ~md.present => ~tv.media.present \/ tv.media.state = "IDLE"
<1> DEFINE e == CheckedEntry(tv.media, omit)
<1>1. e.present = tv.media.present
  BY DEF CheckedEntry
<1>2. /\ e.session # 0 => e.session = tv.media.session
      /\ e.item # 0 => e.item = tv.media.item
      /\ e.state # "UNREPORTED" => e.state = tv.media.state
      /\ e.pos # 2 => e.pos = tv.media.pos
  BY DEF CheckedEntry
<1>3. e.content \in Contents => e.content = tv.media.content
  BY Bounds DEF CheckedEntry
<1>4. /\ tv.media.present /\ e.content = "none" => "content" \in omit
      /\ e.state = "UNREPORTED" /\ tv.media.present => "state" \in omit
  BY Bounds DEF CheckedEntry, Sane, PlayStates
<1>5. ~("content" \in omit /\ "state" \in omit)
  BY DEF RepliesSpeak
<1> HIDE DEF e
<1>6. FreshMediaStatus(omit) = IF ~e.present \/ (e.content = "none" /\ e.state \in {"IDLE", "UNREPORTED"})
                               THEN NoMedia ELSE e
  BY DEF FreshMediaStatus, Reported, e
<1>7. ~NoMedia.present
  BY DEF NoMedia
<1>8. CASE ~e.present
  BY <1>1, <1>6, <1>7, <1>8
<1>9. CASE e.present /\ e.content = "none" /\ e.state \in {"IDLE", "UNREPORTED"}
  BY <1>1, <1>2, <1>4, <1>5, <1>6, <1>7, <1>9
<1>10. CASE e.present /\ ~(e.content = "none" /\ e.state \in {"IDLE", "UNREPORTED"})
  BY <1>1, <1>2, <1>3, <1>6, <1>10
<1> QED BY <1>8, <1>9, <1>10

(* A read that satisfies the command's predicate was taken while the       *)
(* receiver was in the requested state, for the captured media.            *)
LEMMA MatchWasTrue ==
    ASSUME RepliesSpeak, IInv, NEW c \in Commands, NEW omit \in Omissions,
           c.request.kind \in PlaybackKinds => c.target.session # 0,
           Matches(c, [media |-> FreshMediaStatus(omit), app |-> ReceiverReply(omit).app,
                       volume |-> ReceiverReply(omit).volume, muted |-> ReceiverReply(omit).muted])
    PROVE  Goal(c, tv)
<1>1. /\ tv \in TvStates /\ Sane(tv) /\ c.request \in Requests /\ c.target \in Media
      /\ tv.media \in Media
  BY DEF IInv, TypeOK, Commands, TvStates
<1>2. c.request.kind \in AllKinds /\ c.request.arg = 1
      /\ (c.request.kind = "load" => c.request.content \in Contents)
  BY <1>1, RequestShape
<1> DEFINE md == FreshMediaStatus(omit)
           rd == [media |-> md, app |-> ReceiverReply(omit).app,
                  volume |-> ReceiverReply(omit).volume, muted |-> ReceiverReply(omit).muted]
<1>3. /\ md.present =>
          /\ tv.media.present
          /\ md.session # 0 => md.session = tv.media.session
          /\ md.item # 0 => md.item = tv.media.item
          /\ md.content \in Contents => md.content = tv.media.content
          /\ md.state # "UNREPORTED" => md.state = tv.media.state
          /\ md.pos # 2 => md.pos = tv.media.pos
      /\ ~md.present => ~tv.media.present \/ tv.media.state = "IDLE"
  BY <1>1, ReplyShows
<1>4. /\ rd.media = md /\ rd.app = tv.app
      /\ rd.volume = 1 => tv.volume = 1
      /\ rd.muted = 1 => tv.muted = 1
  BY DEF ReceiverReply, ReportedSound
<1>5. Matches(c, rd)
  OBVIOUS
<1> HIDE DEF md, rd
<1> DEFINE same == /\ tv.media.session = c.target.session
                   /\ tv.media.content = c.target.content
                   /\ c.target.item \in {0, tv.media.item}
<1>6. SameMedia(c, md) /\ c.request.kind \in PlaybackKinds => same
  <2> SUFFICES ASSUME SameMedia(c, md), c.request.kind \in PlaybackKinds PROVE same
    OBVIOUS
  <2>1. md.present /\ HasIdentity(c.target) /\ ~Mismatch(c.target, md) /\ ~Contradicts(c.target, md)
    BY DEF SameMedia, ContradictionAfter, Mismatch
  <2>2. md.content = c.target.content /\ c.target.content \in Contents
    BY <2>1 DEF Mismatch, HasIdentity, Usable
  <2>3. md.session = c.target.session /\ md.session # 0
    BY <2>1 DEF Mismatch, Contradicts
  <2>4. c.target.item # 0 => md.item = c.target.item
    BY <2>1 DEF Mismatch, Contradicts
  <2> QED BY <1>3, <2>1, <2>2, <2>3, <2>4
<1> HIDE DEF same
<1>7. CASE c.request.kind = "play"
  <2>1. SameMedia(c, md) /\ md.state = "PLAYING"
    BY <1>4, <1>5, <1>7 DEF Matches
  <2>2. same /\ tv.media.state = "PLAYING"
    BY <1>3, <1>6, <1>7, <2>1 DEF PlaybackKinds, SameMedia
  <2> QED BY <1>7, <2>2 DEF Goal, same
<1>8. CASE c.request.kind = "pause"
  <2>1. SameMedia(c, md) /\ md.state = "PAUSED"
    BY <1>4, <1>5, <1>8 DEF Matches
  <2>2. same /\ tv.media.state = "PAUSED"
    BY <1>3, <1>6, <1>8, <2>1 DEF PlaybackKinds, SameMedia
  <2> QED BY <1>8, <2>2 DEF Goal, same
<1>9. CASE c.request.kind = "seek"
  <2>1. SameMedia(c, md) /\ md.pos = 1
    BY <1>2, <1>4, <1>5, <1>9 DEF Matches
  <2>2. same /\ tv.media.pos = 1
    BY <1>3, <1>6, <1>9, <2>1 DEF PlaybackKinds, SameMedia
  <2> QED BY <1>2, <1>9, <2>2 DEF Goal, same
<1>10. CASE c.request.kind = "stop"
  <2>1. (SameMedia(c, md) /\ md.state = "IDLE") \/ ~md.present
    BY <1>4, <1>5, <1>10 DEF Matches
  <2>2. ~tv.media.present => tv.media.session = 0
    BY <1>1 DEF Sane, NoMedia
  <2>3. tv.media.session # c.target.session \/ tv.media.state = "IDLE"
    BY <1>3, <1>10, <2>1, <2>2 DEF SameMedia, PlaybackKinds
  <2> QED BY <1>10, <2>3 DEF Goal
<1>11. CASE c.request.kind = "load"
  <2>1. md.present /\ md.content = c.request.content /\ md.state \in LoadedStates
    BY <1>4, <1>5, <1>11 DEF Matches
  <2>2. tv.media.content = c.request.content /\ tv.media.state \in LoadedStates
    BY <1>2, <1>3, <1>11, <2>1 DEF LoadedStates
  <2> QED BY <1>11, <2>2 DEF Goal
<1>12. CASE c.request.kind = "close"
  BY <1>4, <1>5, <1>12 DEF Matches, Goal
<1>13. CASE c.request.kind = "volume"
  BY <1>2, <1>4, <1>5, <1>13 DEF Matches, Goal
<1>14. CASE c.request.kind = "mute"
  BY <1>2, <1>4, <1>5, <1>14 DEF Matches, Goal
<1> QED BY <1>2, <1>7, <1>8, <1>9, <1>10, <1>11, <1>12, <1>13, <1>14 DEF AllKinds, PlaybackKinds

(* Goal and Matches look only at the request, the target and what was      *)
(* remembered of it.                                                       *)
LEMMA SameGoal ==
    ASSUME NEW c, NEW d, NEW t, c.request = d.request, c.target = d.target
    PROVE  Goal(c, t) <=> Goal(d, t)
BY DEF Goal

(* Whether a read matches depends on the request, the target and the       *)
(* contradiction only.                                                     *)
LEMMA SameMatch ==
    ASSUME NEW c, NEW d, NEW rd, c.request = d.request, c.target = d.target,
           c.contradiction = d.contradiction
    PROVE  Matches(c, rd) <=> Matches(d, rd)
BY DEF Matches, SameMedia, ContradictionAfter

(* What Recorded says of the command c when the receiver is t.             *)
RecordedFor(c, t) ==
    /\ c.phase \in {"sent", "verify", "reading"} /\ Goal(c, t) => c.held
    /\ c.phase = "reading" /\ Matches(c, c.read) => c.held

(* A command that goes on records what it asked for and the TV had.        *)
LEMMA HeldCommand ==
    ASSUME IInv, HeldInv, NEW r \in Remotes, NEW c \in Commands,
           cmd' = [cmd EXCEPT ![r] = c], c.phase # "done",
           RecordedFor(c, tv), UNCHANGED <<tv, log>>
    PROVE  HeldInv'
<1>1. cmd \in [Remotes -> Commands]
  BY DEF IInv, TypeOK
<1>2. cmd'[r] = c /\ \A q \in Remotes \ {r} : cmd'[q] = cmd[q]
  BY <1>1
<1>3. ASSUME NEW q \in Remotes PROVE Recorded(q)'
  BY <1>2 DEF HeldInv, Recorded, RecordedFor
<1>4. ConfirmedWasTrue'
  BY <1>2 DEF HeldInv, ConfirmedWasTrue
<1> QED BY <1>3, <1>4 DEF HeldInv

(* A command that ends as confirmed held what it asked for.                *)
LEMMA HeldFinish ==
    ASSUME IInv, HeldInv, NEW r \in Remotes, NEW result \in Results,
           Finish(r, result), cmd[r].phase # "idle",
           result = "confirmed" => cmd[r].held, UNCHANGED tv
    PROVE  HeldInv'
<1>1. cmd \in [Remotes -> Commands] /\ cmd[r] \in Commands
      /\ log \in [Remotes -> [1..MaxCommands -> Outcomes]]
  BY DEF IInv, TypeOK, Outcomes
<1> DEFINE c == [NoCommand EXCEPT !.phase = "done", !.n = cmd[r].n, !.request = cmd[r].request,
                                  !.held = cmd[r].held, !.sawOther = cmd[r].sawOther]
           k == cmd[r].n
<1>2. c.phase = "done" /\ c.n = k /\ c.held = cmd[r].held
  BY <1>1, NoCommandType DEF Commands
<1>3. k \in 1..MaxCommands
  BY <1>1, NumberOfCommand DEF IInv, Captured, Knows, Commands
<1>4. cmd' = [cmd EXCEPT ![r] = c]
  BY DEF Finish
<1> HIDE DEF c
<1>5. cmd'[r] = c /\ \A q \in Remotes \ {r} : cmd'[q] = cmd[q]
  BY <1>1, <1>4
<1>6. /\ log'[r][k].result = result
      /\ \A q \in Remotes \ {r} : log'[q] = log[q]
  <2>1. log' = [log EXCEPT ![r] = [log[r] EXCEPT ![k] = [log[r][k] EXCEPT !.result = result]]]
    BY <1>1, <1>3 DEF Finish
  <2>2. log[r][k] \in Outcomes
    BY <1>1, <1>3
  <2>3. log'[r][k] = [log[r][k] EXCEPT !.result = result]
    BY <1>1, <1>3, <2>1
  <2>4. [log[r][k] EXCEPT !.result = result].result = result
    BY <2>2 DEF Outcomes
  <2> QED BY <1>1, <2>1, <2>3, <2>4
<1>7. ASSUME NEW q \in Remotes PROVE Recorded(q)'
  BY <1>2, <1>5 DEF HeldInv, Recorded
<1>8. ConfirmedWasTrue'
  <2> SUFFICES ASSUME NEW q \in Remotes, cmd'[q].phase = "done",
                      log'[q][cmd'[q].n].result = "confirmed"
               PROVE  cmd'[q].held
    BY DEF ConfirmedWasTrue
  <2>1. CASE q = r
    BY <1>2, <1>5, <1>6, <2>1
  <2>2. CASE q # r
    BY <1>5, <1>6, <2>2 DEF HeldInv, ConfirmedWasTrue
  <2> QED BY <2>1, <2>2
<1> QED BY <1>7, <1>8 DEF HeldInv

(* The receiver changes: every waiting command looks at it.                *)
LEMMA HeldWatch ==
    ASSUME IInv, HeldInv, IInv', NEW t, tv' = t,
           \A q \in Remotes :
               /\ cmd'[q].phase = cmd[q].phase /\ cmd'[q].n = cmd[q].n
               /\ cmd'[q].request = cmd[q].request /\ cmd'[q].target = cmd[q].target
               /\ cmd'[q].contradiction = cmd[q].contradiction /\ cmd'[q].read = cmd[q].read
               /\ cmd'[q].held = Witness(cmd[q], t).held,
           \A q \in Remotes, n \in 1..MaxCommands : log'[q][n].result = log[q][n].result
    PROVE  HeldInv'
<1>1. ASSUME NEW q \in Remotes PROVE cmd[q] \in Commands
  BY DEF IInv, TypeOK
<1>2. ASSUME NEW q \in Remotes PROVE Recorded(q)'
  <2>1. Goal(cmd'[q], t) <=> Goal(cmd[q], t)
    BY SameGoal
  <2>2. Matches(cmd'[q], cmd'[q].read) <=> Matches(cmd[q], cmd[q].read)
    BY SameMatch
  <2>3. /\ cmd[q].held => cmd'[q].held
        /\ cmd[q].phase \in {"sent", "verify", "reading"} /\ Goal(cmd[q], t) => cmd'[q].held
    BY <1>1, WitnessType
  <2> QED BY <2>1, <2>2, <2>3 DEF HeldInv, Recorded
<1>3. ConfirmedWasTrue'
  <2> SUFFICES ASSUME NEW q \in Remotes, cmd'[q].phase = "done",
                      log'[q][cmd'[q].n].result = "confirmed"
               PROVE  cmd'[q].held
    BY DEF ConfirmedWasTrue
  <2>1. cmd[q].n \in 1..MaxCommands /\ cmd[q].phase = "done"
    BY <1>1, NumberOfCommand DEF IInv, Captured, Knows, Commands
  <2>2. cmd[q].held
    BY <2>1 DEF HeldInv, ConfirmedWasTrue
  <2> QED BY <1>1, <2>2, WitnessType
<1> QED BY <1>2, <1>3 DEF HeldInv

(* A message that the TV processes is recorded by the commands that watch. *)
LEMMA HeldTvReceives ==
    ASSUME IInv, HeldInv, IInv', NEW m \in wire, TvReceives(m)
    PROVE  HeldInv'
<1>1. /\ cmd \in [Remotes -> Commands] /\ wire \subseteq Messages
      /\ log \in [Remotes -> [1..MaxCommands -> Outcomes]]
  BY DEF IInv, TypeOK, Outcomes
<1>p. PICK accepted \in BOOLEAN : \E t :
        /\ tv' = t
        /\ cmd' = [q \in Remotes |->
                     LET c == Witness(cmd[q], t)
                     IN  IF q = m.from /\ c.n = m.n /\ c.phase = "sent"
                         THEN [c EXCEPT !.answer = IF accepted THEN "accepted" ELSE "refused"]
                         ELSE c]
        /\ log' = [log EXCEPT ![m.from][m.n].received = @ + 1,
                              ![m.from][m.n].hit =
                                  IF accepted /\ m.kind \in PlaybackKinds
                                  THEN tv.media.session ELSE @]
  BY DEF TvReceives
<1>2. PICK t :
        /\ tv' = t
        /\ cmd' = [q \in Remotes |->
                     LET c == Witness(cmd[q], t)
                     IN  IF q = m.from /\ c.n = m.n /\ c.phase = "sent"
                         THEN [c EXCEPT !.answer = IF accepted THEN "accepted" ELSE "refused"]
                         ELSE c]
        /\ log' = [log EXCEPT ![m.from][m.n].received = @ + 1,
                              ![m.from][m.n].hit =
                                  IF accepted /\ m.kind \in PlaybackKinds
                                  THEN tv.media.session ELSE @]
  BY <1>p
<1>3. ASSUME NEW q \in Remotes
      PROVE  /\ cmd'[q].phase = cmd[q].phase /\ cmd'[q].n = cmd[q].n
             /\ cmd'[q].request = cmd[q].request /\ cmd'[q].target = cmd[q].target
             /\ cmd'[q].contradiction = cmd[q].contradiction /\ cmd'[q].read = cmd[q].read
             /\ cmd'[q].held = Witness(cmd[q], t).held
  <2> DEFINE w == Witness(cmd[q], t)
  <2>1. w \in Commands /\ w.phase = cmd[q].phase /\ w.n = cmd[q].n
        /\ w.request = cmd[q].request /\ w.target = cmd[q].target
        /\ w.contradiction = cmd[q].contradiction /\ w.read = cmd[q].read
    BY <1>1, WitnessType
  <2>2. \/ cmd'[q] = w
        \/ \E b : cmd'[q] = [w EXCEPT !.answer = b]
    BY <1>2
  <2> HIDE DEF w
  <2>3. /\ cmd'[q].phase = w.phase /\ cmd'[q].n = w.n
        /\ cmd'[q].request = w.request /\ cmd'[q].target = w.target
        /\ cmd'[q].contradiction = w.contradiction /\ cmd'[q].read = w.read
        /\ cmd'[q].held = w.held
    BY <2>1, <2>2 DEF Commands
  <2> QED BY <2>1, <2>3 DEF w
<1>4. ASSUME NEW q \in Remotes, NEW n \in 1..MaxCommands
      PROVE  log'[q][n].result = log[q][n].result
  <2>1. m.from \in Remotes /\ m.n \in 1..MaxCommands
    BY <1>1 DEF Messages
  <2>2. log[m.from][m.n] \in Outcomes /\ log[q][n] \in Outcomes
    BY <1>1, <2>1
  <2> DEFINE a == log[m.from][m.n].received + 1
             h == IF accepted /\ m.kind \in PlaybackKinds
                  THEN tv.media.session ELSE log[m.from][m.n].hit
  <2>3. log' = [log EXCEPT ![m.from] = [log[m.from] EXCEPT ![m.n] =
                              [log[m.from][m.n] EXCEPT !.received = a, !.hit = h]]]
    BY <1>1, <1>2, <2>1, <2>2 DEF Outcomes
  <2> HIDE DEF a, h
  <2>4. log'[q][n] = IF q = m.from /\ n = m.n
                     THEN [log[m.from][m.n] EXCEPT !.received = a, !.hit = h] ELSE log[q][n]
    BY <1>1, <2>1, <2>3
  <2>5. [log[m.from][m.n] EXCEPT !.received = a, !.hit = h].result = log[m.from][m.n].result
    BY <2>2 DEF Outcomes
  <2> QED BY <2>4, <2>5
<1> QED BY <1>2, <1>3, <1>4, HeldWatch

(* Other people's changes are recorded by the commands that watch.         *)
LEMMA HeldElsewhere ==
    ASSUME IInv, HeldInv, IInv', Elsewhere PROVE HeldInv'
<1>1. cmd' = [q \in Remotes |-> Witness(cmd[q], tv')] /\ UNCHANGED log
      /\ cmd \in [Remotes -> Commands]
  BY DEF Elsewhere, IInv, TypeOK
<1>2. PICK t : t = tv'
  OBVIOUS
<1>3. ASSUME NEW q \in Remotes
      PROVE  /\ cmd'[q].phase = cmd[q].phase /\ cmd'[q].n = cmd[q].n
             /\ cmd'[q].request = cmd[q].request /\ cmd'[q].target = cmd[q].target
             /\ cmd'[q].contradiction = cmd[q].contradiction /\ cmd'[q].read = cmd[q].read
             /\ cmd'[q].held = Witness(cmd[q], t).held
  <2>1. cmd'[q] = Witness(cmd[q], t)
    BY <1>1, <1>2
  <2> QED BY <1>1, <2>1, WitnessType
<1> QED BY <1>1, <1>2, <1>3, HeldWatch

(* The service's own steps confirm only what the TV held.                  *)
LEMMA HeldService ==
    ASSUME RepliesSpeak, IInv, HeldInv, IInv', NEW r \in Remotes,
           Request(r) \/ Expire(r) \/ ServiceStep(r)
    PROVE  HeldInv'
<1>1. /\ TypeOK /\ cmd \in [Remotes -> Commands] /\ cmd[r] \in Commands
      /\ NoCommand \in Commands /\ Recorded(r) /\ Captured(r)
  BY NoCommandType DEF IInv, TypeOK, HeldInv
<1>2. CASE Request(r)
  <2>1. PICK q \in Requests :
          /\ cmd' = [cmd EXCEPT ![r] =
               [NoCommand EXCEPT
                  !.phase = IF q.kind \in PlaybackKinds \cup {"volume"} THEN "target" ELSE "send",
                  !.n = cmd[r].n + 1, !.request = q]]
          /\ cmd[r].n < MaxCommands
          /\ UNCHANGED <<tv, log>>
    BY <1>2 DEF Request
  <2> DEFINE c == [NoCommand EXCEPT
                     !.phase = IF q.kind \in PlaybackKinds \cup {"volume"} THEN "target" ELSE "send",
                     !.n = cmd[r].n + 1, !.request = q]
  <2>2. cmd[r].n + 1 \in 0..MaxCommands
    BY <1>1, <2>1, NumberOfCommand DEF Commands
  <2>3. c \in Commands /\ c.phase \in {"target", "send"}
    BY <1>1, <2>2 DEF Commands
  <2>4. cmd' = [cmd EXCEPT ![r] = c]
    BY <2>1
  <2> HIDE DEF c
  <2>5. RecordedFor(c, tv)
    BY <2>3 DEF RecordedFor
  <2> QED BY <2>1, <2>3, <2>4, <2>5, HeldCommand
<1>3. CASE Expire(r)
  <2> DEFINE c == [cmd[r] EXCEPT !.open = FALSE]
  <2>1. c \in Commands /\ c.phase = cmd[r].phase /\ c.request = cmd[r].request
        /\ c.target = cmd[r].target /\ c.contradiction = cmd[r].contradiction
        /\ c.held = cmd[r].held /\ c.read = cmd[r].read
    BY <1>1 DEF Commands
  <2>2. cmd' = [cmd EXCEPT ![r] = c] /\ c.phase # "done" /\ UNCHANGED <<tv, log>>
    BY <1>1, <1>3, <2>1 DEF Expire
  <2> HIDE DEF c
  <2>3. (Goal(c, tv) <=> Goal(cmd[r], tv)) /\ (Matches(c, c.read) <=> Matches(cmd[r], cmd[r].read))
    BY <2>1, SameGoal, SameMatch
  <2>4. RecordedFor(c, tv)
    BY <1>1, <2>1, <2>3 DEF Recorded, RecordedFor
  <2> QED BY <2>1, <2>2, <2>4, HeldCommand
<1>4. CASE PlaybackTarget(r)
  <2>1. CASE Finish(r, "not_sent")
    BY <1>4, <2>1, HeldFinish DEF PlaybackTarget, Results
  <2>2. CASE ~Finish(r, "not_sent")
    <3>1. PICK md : /\ cmd' = [cmd EXCEPT ![r].phase = "send", ![r].target = md]
                    /\ log' = [log EXCEPT ![r][cmd[r].n].captured = md.session]
                    /\ UNCHANGED tv
      BY <1>4, <2>2 DEF PlaybackTarget
    <3>2. cmd'[r].phase = "send" /\ \A q \in Remotes \ {r} : cmd'[q] = cmd[q]
      <4>1. cmd' = [cmd EXCEPT ![r] = [cmd[r] EXCEPT !.phase = "send", !.target = md]]
        BY <1>1, <3>1
      <4>2. [cmd[r] EXCEPT !.phase = "send", !.target = md].phase = "send"
        BY <1>1 DEF Commands
      <4> QED BY <1>1, <4>1, <4>2
    <3>3. \A q \in Remotes \ {r} : log'[q] = log[q]
      BY <3>1 DEF IInv, TypeOK
    <3>4. \A q \in Remotes : Recorded(q)'
      BY <3>1, <3>2 DEF HeldInv, Recorded
    <3>5. ConfirmedWasTrue'
      BY <3>2, <3>3 DEF HeldInv, ConfirmedWasTrue
    <3> QED BY <3>4, <3>5 DEF HeldInv
  <2> QED BY <2>1, <2>2
<1>5. CASE VolumeIsFixed(r)
  <2>1. CASE Finish(r, "not_sent")
    BY <1>5, <2>1, HeldFinish DEF VolumeIsFixed, Results
  <2>2. CASE ~Finish(r, "not_sent")
    <3> DEFINE c == [cmd[r] EXCEPT !.phase = "send"]
    <3>1. c \in Commands /\ c.phase = "send"
      BY <1>1 DEF Commands
    <3>2. cmd' = [cmd EXCEPT ![r] = c] /\ UNCHANGED <<tv, log>>
      BY <1>1, <1>5, <2>2 DEF VolumeIsFixed
    <3> HIDE DEF c
    <3> QED BY <3>1, <3>2, HeldCommand DEF RecordedFor
  <2> QED BY <2>1, <2>2
<1>6. CASE Send(r)
  <2>1. CASE \E result \in {"ambiguous", "rejected"} : Finish(r, result)
    BY <1>6, <2>1, HeldFinish DEF Send, Results
  <2>2. CASE ~\E result \in {"ambiguous", "rejected"} : Finish(r, result)
    <3> DEFINE sent == [cmd[r] EXCEPT !.phase = "sent"]
               c == Witness(sent, tv)
    <3>1. sent \in Commands /\ sent.phase = "sent"
      BY <1>1 DEF Commands
    <3>2. cmd' = [cmd EXCEPT ![r] = c] /\ UNCHANGED <<tv, log>>
      BY <1>6, <2>2 DEF Send
    <3> HIDE DEF sent
    <3>3. c \in Commands /\ c.phase = "sent" /\ c.request = sent.request /\ c.target = sent.target
          /\ (Goal(sent, tv) => c.held)
      BY <3>1, WitnessType
    <3> HIDE DEF c
    <3>4. Goal(c, tv) <=> Goal(sent, tv)
      BY <3>3, SameGoal
    <3> QED BY <3>2, <3>3, <3>4, HeldCommand DEF RecordedFor
  <2> QED BY <2>1, <2>2
<1>7. CASE TransportReturns(r)
  <2>1. CASE Finish(r, "rejected") \/ Finish(r, "not_checked")
    BY <1>7, <2>1, HeldFinish DEF TransportReturns, Results
  <2>2. CASE ~(Finish(r, "rejected") \/ Finish(r, "not_checked"))
    <3> DEFINE o == \/ cmd[r].open
                    \/ cmd[r].request.kind \in AllKinds \ (PlaybackKinds \cup {"volume"})
                    \/ cmd[r].request.kind \in PlaybackKinds /\ r \in Gated
               c == [cmd[r] EXCEPT !.phase = "verify", !.open = o]
    <3>1. cmd' = [cmd EXCEPT ![r] = c] /\ UNCHANGED <<tv, log>> /\ cmd[r].phase = "sent"
      BY <1>1, <1>7, <2>2 DEF TransportReturns
    <3>2. o \in BOOLEAN
      OBVIOUS
    <3> HIDE DEF o
    <3>3. c \in Commands /\ c.phase = "verify" /\ c.request = cmd[r].request
          /\ c.target = cmd[r].target /\ c.held = cmd[r].held
      BY <1>1, <3>2 DEF Commands
    <3> HIDE DEF c
    <3>4. Goal(c, tv) <=> Goal(cmd[r], tv)
      BY <3>3, SameGoal
    <3>5. RecordedFor(c, tv)
      BY <1>1, <3>1, <3>3, <3>4 DEF Recorded, RecordedFor
    <3> QED BY <3>1, <3>3, <3>5, HeldCommand
  <2> QED BY <2>1, <2>2
<1>8. CASE TransportRaises(r)
  BY <1>8, HeldFinish DEF TransportRaises, Results
<1>9. CASE ReadStatus(r)
  <2>1. PICK omit \in Omissions :
          cmd' = [cmd EXCEPT ![r].phase = "reading",
                             ![r].read = [media |-> FreshMediaStatus(omit),
                                          app |-> ReceiverReply(omit).app,
                                          volume |-> ReceiverReply(omit).volume,
                                          muted |-> ReceiverReply(omit).muted]]
    BY <1>9 DEF ReadStatus
  <2> DEFINE rd == [media |-> FreshMediaStatus(omit), app |-> ReceiverReply(omit).app,
                    volume |-> ReceiverReply(omit).volume, muted |-> ReceiverReply(omit).muted]
             c == [cmd[r] EXCEPT !.phase = "reading", !.read = rd]
  <2>2. rd \in Read
    BY <1>1, ReadTypes
  <2>3. cmd' = [cmd EXCEPT ![r] = c]
    BY <1>1, <2>1
  <2>4. cmd[r].phase = "verify" /\ UNCHANGED <<tv, log>>
    BY <1>9 DEF ReadStatus
  <2>5. cmd[r].request.kind \in PlaybackKinds => cmd[r].target.session # 0
    BY <1>1, <2>4 DEF Captured, Knows
  <2>6. Matches(cmd[r], rd) => Goal(cmd[r], tv)
    BY <1>1, <2>5, MatchWasTrue
  <2> HIDE DEF rd
  <2>7. c \in Commands /\ c.phase = "reading" /\ c.request = cmd[r].request
        /\ c.target = cmd[r].target /\ c.held = cmd[r].held /\ c.read = rd
        /\ c.contradiction = cmd[r].contradiction
    BY <1>1, <2>2 DEF Commands
  <2> HIDE DEF c
  <2>8. (Goal(c, tv) <=> Goal(cmd[r], tv)) /\ (Matches(c, c.read) <=> Matches(cmd[r], rd))
    BY <2>7, SameGoal, SameMatch
  <2>9. RecordedFor(c, tv)
    BY <1>1, <2>4, <2>6, <2>7, <2>8 DEF Recorded, RecordedFor
  <2> QED BY <2>3, <2>4, <2>7, <2>9, HeldCommand
<1>10. CASE UseRead(r)
  <2>1. cmd[r].phase = "reading" /\ UNCHANGED tv
    BY <1>10 DEF UseRead
  <2>2. CASE ~cmd[r].open
    BY <1>10, <2>1, <2>2, HeldFinish DEF UseRead, Results
  <2>3. CASE cmd[r].open /\ Matches(cmd[r], cmd[r].read)
    <3>1. Finish(r, "confirmed")
      BY <1>10, <2>3 DEF UseRead
    <3>2. cmd[r].held
      BY <1>1, <2>1, <2>3 DEF Recorded
    <3> QED BY <2>1, <3>1, <3>2, HeldFinish DEF Results
  <2>4. CASE cmd[r].open /\ ~Matches(cmd[r], cmd[r].read)
    <3> DEFINE md == cmd[r].read.media
               d == cmd[r].request.kind \in PlaybackKinds /\ ContradictionAfter(cmd[r], md)
               w == cmd[r].sawOther \/ (md.present /\ Contradicts(cmd[r].target, md))
               c == [cmd[r] EXCEPT !.phase = "verify", !.read = NoRead, !.contradiction = d,
                                   !.sawOther = w]
    <3>1. cmd' = [cmd EXCEPT ![r] = c] /\ UNCHANGED <<tv, log>>
      BY <1>1, <1>10, <2>4 DEF UseRead
    <3>2. d \in BOOLEAN /\ w \in BOOLEAN
      OBVIOUS
    <3> HIDE DEF d, w
    <3>3. c \in Commands /\ c.phase = "verify" /\ c.request = cmd[r].request
          /\ c.target = cmd[r].target /\ c.held = cmd[r].held
      BY <1>1, <3>2, MediaTypes DEF Commands
    <3> HIDE DEF c
    <3>4. Goal(c, tv) <=> Goal(cmd[r], tv)
      BY <3>3, SameGoal
    <3>5. RecordedFor(c, tv)
      BY <1>1, <2>1, <3>3, <3>4 DEF Recorded, RecordedFor
    <3> QED BY <3>1, <3>3, <3>5, HeldCommand
  <2> QED BY <1>1, <2>2, <2>3, <2>4 DEF Commands
<1>11. CASE VerifyEnds(r)
  BY <1>11, HeldFinish DEF VerifyEnds, Results
<1> QED BY <1>2, <1>3, <1>4, <1>5, <1>6, <1>7, <1>8, <1>9, <1>10, <1>11 DEF ServiceStep

(* A command reported CONFIRMED (_verify) had its effect: at some instant  *)
(* since the send the TV was in the requested state, for the very content, *)
(* session and item captured before it, whatever the others did between.   *)
THEOREM ConfirmationWasTrue ==
    ASSUME RepliesSpeak
    PROVE  Spec => []ConfirmedWasTrue
<1>1. Init => HeldInv
  BY DEF Init, HeldInv, Recorded, ConfirmedWasTrue, NoCommand
<1>2. IInv /\ HeldInv /\ IInv' /\ [Next]_vars => HeldInv'
  <2> SUFFICES ASSUME IInv, HeldInv, IInv', [Next]_vars PROVE HeldInv'
    OBVIOUS
  <2>1. CASE UNCHANGED vars
    BY <2>1 DEF vars, HeldInv, Recorded, ConfirmedWasTrue
  <2> QED BY <2>1, HeldService, HeldTvReceives, HeldElsewhere DEF Next
<1>3. HeldInv => ConfirmedWasTrue
  BY DEF HeldInv
<1> QED BY <1>1, <1>2, <1>3, Inductive, PTL DEF Spec
=============================================================================
