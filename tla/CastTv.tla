------------------------------- MODULE CastTv -------------------------------
(***************************************************************************)
(* The TV that every remote shares: what is loaded on its Cast receiver,   *)
(* what it does with a message, and what one GET_STATUS reply says of it.  *)
(* The receiver is not part of the repository; it is modelled from how     *)
(* adapters/pychromecast.py addresses it and reads its replies.            *)
(***************************************************************************)
EXTENDS Naturals, FiniteSets

CONSTANTS
    Contents,     \* content ids the receiver can name
    MaxSession,   \* bound: media sessions and receiver app sessions ever opened
    MaxChanges,   \* bound: changes made at the TV by someone else
    Levels,       \* the volume and mute values people set at the TV
    FixedVolume,  \* whether the TV may report a fixed volume
    Omissions     \* the sets of fields that one reply may leave out

Fields == {"content", "blank", "session", "item", "state", "pos", "sound"}

ASSUME CastTvAssumption ==
    /\ MaxSession \in Nat \ {0}
    /\ MaxChanges \in Nat
    /\ Levels \subseteq 0..1
    /\ FixedVolume \subseteq BOOLEAN
    /\ Omissions \subseteq SUBSET Fields
    /\ Contents # {} /\ {"none", "blank"} \cap Contents = {}

VARIABLES
    tv,           \* the true state of the receiver
    changes       \* how many changes were made by someone else

(* 0 is "no session", "no item", "no application"; a position is one of two *)
(* points further apart than the seek tolerance, 2 standing for neither.    *)
PlayStates == {"PLAYING", "PAUSED", "IDLE"}
LoadedStates == {"PLAYING", "PAUSED"}

NoMedia == [present |-> FALSE, session |-> 0, content |-> "none", item |-> 0,
            state |-> "NONE", pos |-> 2]

Playing(s, c, i) == [present |-> TRUE, session |-> s, content |-> c, item |-> i,
                     state |-> "PLAYING", pos |-> 0]

Media == [present : BOOLEAN, session : 0..MaxSession, content : Contents \cup {"none", "blank"},
          item : 0..2, state : PlayStates \cup {"NONE", "UNREPORTED"}, pos : 0..2]

TvStates == [media : Media, app : 0..MaxSession, next : 1..(MaxSession + 1),
             volume : 0..1, muted : 0..1, fixed : BOOLEAN]

TvInit ==
    /\ changes = 0
    /\ \E c \in Contents, fx \in FixedVolume :
         tv = [media |-> Playing(1, c, 1), app |-> 1, next |-> 2,
               volume |-> 0, muted |-> 0, fixed |-> fx]

-----------------------------------------------------------------------------
(* What the receiver does with one message. A playback message names a     *)
(* media session and acts on that one only; CLOSE names an app session.    *)

Addressed(m) ==
    CASE m.kind \in {"play", "pause", "stop", "seek"} ->
             tv.media.present /\ tv.media.session = m.session
      [] m.kind = "close" -> tv.app # 0 /\ tv.app = m.session
      [] m.kind = "load" -> tv.next <= MaxSession
      [] OTHER -> TRUE

(* The states the receiver may reach by acting on an addressed message. A  *)
(* stop leaves the session idle or ends it, as receivers do either.        *)
Effects(m) ==
    CASE m.kind = "play"   -> {[tv EXCEPT !.media.state = "PLAYING"]}
      [] m.kind = "pause"  -> {[tv EXCEPT !.media.state = "PAUSED"]}
      [] m.kind = "stop"   -> {[tv EXCEPT !.media.state = "IDLE"], [tv EXCEPT !.media = NoMedia]}
      [] m.kind = "seek"   -> {[tv EXCEPT !.media.pos = m.arg, !.media.state = "PLAYING"]}
      [] m.kind = "load"   -> {[tv EXCEPT !.media = Playing(tv.next, m.content, 1),
                                          !.app = tv.next, !.next = @ + 1]}
      [] m.kind = "close"  -> {[tv EXCEPT !.media = NoMedia, !.app = 0]}
      [] m.kind = "volume" -> {[tv EXCEPT !.volume = IF tv.fixed THEN @ ELSE m.arg]}
      [] m.kind = "mute"   -> {[tv EXCEPT !.muted = m.arg]}

-----------------------------------------------------------------------------
(* Someone else at the TV: its own remote, another phone, the end of the   *)
(* media, the next item of a queue.                                        *)

OtherChange(after) ==
    /\ changes < MaxChanges
    /\ after # tv
    /\ tv' = after
    /\ changes' = changes + 1

OtherLoads ==
    \E c \in Contents :
        /\ tv.next <= MaxSession
        /\ OtherChange([tv EXCEPT !.media = Playing(tv.next, c, 1),
                                  !.app = tv.next, !.next = @ + 1])

OtherNextItem ==
    \E c \in Contents :
        /\ tv.media.present
        /\ OtherChange([tv EXCEPT !.media = Playing(@.session, c, 3 - @.item)])

OtherPlayback ==
    \E s \in PlayStates, p \in 0..1 :
        /\ tv.media.present
        /\ s = tv.media.state \/ p = tv.media.pos
        /\ OtherChange([tv EXCEPT !.media.state = s, !.media.pos = p])

OtherEnds ==
    \E a \in {0, tv.app} :
        OtherChange([tv EXCEPT !.media = NoMedia, !.app = a])

OtherSound ==
    \E v \in Levels, m \in Levels :
        OtherChange([tv EXCEPT !.volume = v, !.muted = m])

Others == OtherLoads \/ OtherNextItem \/ OtherPlayback \/ OtherEnds \/ OtherSound

-----------------------------------------------------------------------------
(* What one status read makes of the receiver's two replies. A field that   *)
(* is omitted, null or unusable is not reported, and never replaced by a    *)
(* default of the library.                                                  *)

(* checked_media_entry: the first entry of the reply, field by field.       *)
CheckedEntry(m, omit) ==
    [present |-> m.present,
     session |-> IF "session" \in omit THEN 0 ELSE m.session,
     content |-> IF "content" \in omit THEN "none" ELSE IF "blank" \in omit THEN "blank" ELSE m.content,
     item    |-> IF "item" \in omit THEN 0 ELSE m.item,
     state   |-> IF "state" \in omit THEN "UNREPORTED" ELSE m.state,
     pos     |-> IF "pos" \in omit THEN 2 ELSE m.pos]

(* _media_status: an entry that names no content and is idle, or reports no *)
(* state, is no media session.                                              *)
Reported(e) ==
    IF ~e.present \/ (e.content = "none" /\ e.state \in {"IDLE", "UNREPORTED"}) THEN NoMedia ELSE e

(* _fresh_media_status: this reply alone, not the library's merged cache.   *)
FreshMediaStatus(omit) == Reported(CheckedEntry(tv.media, omit))

(* reported_volume_level and reported_muted; 2 stands for "not reported".   *)
ReportedSound(value, omit) == IF "sound" \in omit THEN 2 ELSE value

(* _receiver_status_with_timeout: the application and the sound.            *)
ReceiverReply(omit) ==
    [app |-> tv.app, volume |-> ReportedSound(tv.volume, omit),
     muted |-> ReportedSound(tv.muted, omit)]
=============================================================================
