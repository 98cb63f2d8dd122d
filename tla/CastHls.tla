------------------------------- MODULE CastHls -------------------------------
(***************************************************************************)
(* HlsPublisher (hls_publisher.py) serves a live HLS directory for a       *)
(* bounded time, and CastHlsReceiver (cast_receiver.py) makes the TV play  *)
(* it through ControlService. The bound's timer and other senders of the   *)
(* TV act between any two steps; starts and stops may fail halfway.        *)
(***************************************************************************)
EXTENDS Integers

CONSTANTS
    Stoppers,    \* the threads that stop the stream; one of them starts it
    MaxSenders,  \* bound: what other senders do to the TV
    MaxMishaps   \* bound: calls that fail

ASSUME CastHlsAssumption ==
    "nobody" \notin Stoppers /\ MaxSenders \in Nat /\ MaxMishaps \in Nat

VARIABLES
    server,      \* the HTTP server: "none", "bound", "serving", "shut" (its loop ended), "closed"
    timer,       \* the expiry: "off", "armed", "expiring", "over"
    published,   \* the URI is in _publications
    unpublished, \* ... or in _released
    pubLock,     \* who holds publication.stopping
    media, app,  \* the TV: whose media plays, whose application session is open
    holds,       \* the receiver session is in _sessions
    disowned,    \* ... or in _released
    recLock,     \* who holds session.stopping
    at,          \* per thread: where it is
    seen,        \* per thread: the status it decides on
    hurt,        \* history: a command of ours ended another sender's media
    late,        \* history: another sender acted after the status was read
    senders, mishaps

pubvars == <<server, timer, published, unpublished, pubLock>>
tvvars == <<media, app>>
recvars == <<holds, disowned, recLock, seen>>
hvars == <<pubvars, tvvars, recvars, at, hurt, late, senders, mishaps>>

Whose == {"none", "ours", "other"}
Unseen == [media |-> "none", app |-> "none"]
PubStarting == {"thread", "timer", "register", "undo"}
RecWorking == {"look", "halt", "close"}

HlsTypeOK ==
    /\ server \in {"none", "bound", "serving", "shut", "closed"}
    /\ timer \in {"off", "armed", "expiring", "over"}
    /\ published \in BOOLEAN /\ unpublished \in BOOLEAN /\ holds \in BOOLEAN /\ disowned \in BOOLEAN
    /\ pubLock \in Stoppers \cup {"nobody"} /\ recLock \in Stoppers \cup {"nobody"}
    /\ media \in Whose /\ app \in Whose
    /\ at \in [Stoppers -> PubStarting \cup RecWorking \cup
                  {"out", "load", "pub_lock", "shutdown", "unlist", "rec_lock"}]
    /\ seen \in [Stoppers -> [media : Whose, app : Whose]]
    /\ hurt \in BOOLEAN /\ late \in BOOLEAN /\ senders \in Nat /\ mishaps \in Nat

HlsInit ==
    /\ server = "none" /\ timer = "off" /\ published = FALSE /\ unpublished = FALSE
    /\ pubLock = "nobody" /\ media \in {"none", "other"} /\ app = media
    /\ holds = FALSE /\ disowned = FALSE /\ recLock = "nobody"
    /\ at = [t \in Stoppers |-> "out"] /\ seen = [t \in Stoppers |-> Unseen]
    /\ hurt = FALSE /\ late = FALSE /\ senders = 0 /\ mishaps = 0

Move(t, place) == at' = [at EXCEPT ![t] = place]
Mishap == mishaps < MaxMishaps /\ mishaps' = mishaps + 1
PublisherOnly == UNCHANGED <<tvvars, recvars, hurt, late, senders>>

-----------------------------------------------------------------------------
(* HlsPublisher.start().                                                   *)

(* Bound: one stream at a time. What an earlier one left on the TV is now  *)
(* another's.                                                              *)
Listen(t) ==
    /\ server \in {"none", "closed"} /\ timer \in {"off", "over"}
    /\ ~published /\ ~holds /\ \A u \in Stoppers : at[u] = "out"
    /\ server' = "bound" /\ unpublished' = FALSE /\ disowned' = FALSE /\ Move(t, "thread")
    /\ media' = IF media = "ours" THEN "other" ELSE media
    /\ app' = IF app = "ours" THEN "other" ELSE app
    /\ UNCHANGED <<timer, published, pubLock, holds, recLock, seen, hurt, late, senders, mishaps>>

ServeThread(t) ==
    /\ at[t] = "thread"
    /\ server' = "serving" /\ Move(t, "timer")
    /\ PublisherOnly /\ UNCHANGED <<timer, published, unpublished, pubLock, mishaps>>

ArmExpiry(t) ==
    /\ at[t] = "timer"
    /\ timer' = "armed" /\ Move(t, "register")
    /\ PublisherOnly /\ UNCHANGED <<server, published, unpublished, pubLock, mishaps>>

Publish(t) ==
    /\ at[t] = "register"
    /\ published' = TRUE /\ unpublished' = FALSE /\ Move(t, "load")
    /\ PublisherOnly /\ UNCHANGED <<server, timer, pubLock, mishaps>>

(* Any of these fails: what was started is released.                       *)
PublishFails(t) ==
    /\ Mishap /\ at[t] \in PubStarting \ {"undo"} /\ Move(t, "undo")
    /\ PublisherOnly /\ UNCHANGED pubvars

-----------------------------------------------------------------------------
(* The session bound: _expire, in the timer's thread.                      *)

ExpiryFires ==
    /\ timer = "armed" /\ timer' = "expiring"
    /\ PublisherOnly /\ UNCHANGED <<server, published, unpublished, pubLock, at, mishaps>>

(* Mutant: the bound only stops the loop.                                  *)
ExpireLoopOnly ==
    /\ timer = "expiring" /\ timer' = "over"
    /\ server' = IF server = "serving" THEN "shut" ELSE server
    /\ PublisherOnly /\ UNCHANGED <<published, unpublished, pubLock, at, mishaps>>

Expire ==
    /\ timer = "expiring"
    /\ \/ server = "serving" /\ server' = "shut" /\ UNCHANGED timer
       \/ server # "serving" /\ server' = "closed" /\ timer' = "over"
    /\ PublisherOnly /\ UNCHANGED <<published, unpublished, pubLock, at, mishaps>>

-----------------------------------------------------------------------------
(* HlsPublisher.stop().                                                    *)

Unpublish(t) ==
    /\ at[t] = "out" /\ published /\ Move(t, "pub_lock")
    /\ PublisherOnly /\ UNCHANGED <<pubvars, mishaps>>

(* A concurrent stop may have released it; _release cancels the timer.     *)
PubLocks(t) ==
    /\ at[t] = "pub_lock" /\ pubLock = "nobody"
    /\ IF ~published THEN Move(t, "out") /\ UNCHANGED <<pubLock, timer>>
       ELSE /\ pubLock' = t /\ Move(t, "shutdown")
            /\ timer' = IF timer = "armed" THEN "over" ELSE timer
    /\ PublisherOnly /\ UNCHANGED <<server, published, unpublished, mishaps>>

(* The rest of _release, after a start that failed too.                    *)
ShutDown(t) ==
    /\ at[t] \in {"shutdown", "undo"}
    /\ server' = "closed"
    /\ timer' = IF timer = "armed" THEN "over" ELSE timer
    /\ Move(t, IF at[t] = "undo" THEN "out" ELSE "unlist")
    /\ PublisherOnly /\ UNCHANGED <<published, unpublished, pubLock, mishaps>>

Unlist(t) ==
    /\ at[t] = "unlist"
    /\ published' = FALSE /\ unpublished' = TRUE /\ pubLock' = "nobody" /\ Move(t, "out")
    /\ PublisherOnly /\ UNCHANGED <<server, timer, mishaps>>

-----------------------------------------------------------------------------
(* CastHlsReceiver.start(), and the other senders of the TV.               *)

(* Another sender opens its application, loads its own media in ours, or   *)
(* ends what plays.                                                        *)
OtherSender ==
    /\ senders < MaxSenders /\ senders' = senders + 1
    /\ \/ media' = "other" /\ app' \in {"other", app} \ {"none"}
       \/ media' = "none" /\ app' \in {"none", app}
    /\ late' = (late \/ \E t \in Stoppers : at[t] \in {"halt", "close"})
    /\ UNCHANGED <<pubvars, recvars, at, hurt, mishaps>>

(* The load is confirmed, with the application's session.                  *)
Loaded(t) ==
    /\ at[t] = "load"
    /\ media' = "ours" /\ app' = "ours"
    /\ holds' = TRUE /\ disowned' = FALSE /\ Move(t, "out")
    /\ UNCHANGED <<pubvars, recLock, seen, hurt, late, senders, mishaps>>

(* It fails, or is not confirmed: the TV may be playing it anyway. Without *)
(* an error, it is stopped while it is still this stream.                  *)
LoadFails(t) ==
    /\ Mishap /\ at[t] = "load"
    /\ \/ media' = "ours" /\ app' = "ours"
       \/ UNCHANGED tvvars
    /\ Move(t, "out") \/ Move(t, "look")
    /\ UNCHANGED <<pubvars, recvars, hurt, late, senders>>

-----------------------------------------------------------------------------
(* CastHlsReceiver.stop().                                                 *)

StopReceiver(t) ==
    /\ at[t] = "out" /\ holds /\ Move(t, "rec_lock")
    /\ UNCHANGED <<pubvars, tvvars, recvars, hurt, late, senders, mishaps>>

RecLocks(t) ==
    /\ at[t] = "rec_lock" /\ recLock = "nobody"
    /\ IF holds THEN recLock' = t /\ Move(t, "look") ELSE Move(t, "out") /\ UNCHANGED recLock
    /\ UNCHANGED <<pubvars, tvvars, holds, disowned, seen, hurt, late, senders, mishaps>>

RecFree(t) == recLock' = IF recLock = t THEN "nobody" ELSE recLock

(* The session is released; after a refused load there was none.           *)
Disown(t) ==
    /\ holds' = (holds /\ recLock # t) /\ disowned' = (disowned \/ recLock = t)
    /\ RecFree(t) /\ Move(t, "out")

(* Mutant: whatever plays is stopped.                                      *)
LookAtTvBlindly(t) ==
    /\ at[t] = "look"
    /\ seen' = [seen EXCEPT ![t] = [media |-> media, app |-> app]]
    /\ Move(t, IF media = "none" THEN "close" ELSE "halt")
    /\ UNCHANGED <<holds, disowned, recLock, pubvars, tvvars, hurt, late, senders, mishaps>>

(* _stop_if_still_ours: another item that plays is left alone.             *)
LookAtTv(t) ==
    /\ at[t] = "look"
    /\ seen' = [seen EXCEPT ![t] = [media |-> media, app |-> app]]
    /\ CASE media = "other" -> Disown(t)
         [] media = "ours" -> Move(t, "halt") /\ UNCHANGED <<holds, disowned, recLock>>
         [] media = "none" -> Move(t, "close") /\ UNCHANGED <<holds, disowned, recLock>>
    /\ UNCHANGED <<pubvars, tvvars, hurt, late, senders, mishaps>>

(* ControlService.stop stops what plays by now.                            *)
StopMedia(t) ==
    /\ at[t] = "halt"
    /\ media' = "none" /\ hurt' = (hurt \/ media = "other") /\ Move(t, "close")
    /\ UNCHANGED <<pubvars, app, recvars, late, senders, mishaps>>

(* close_app names the session: the TV closes no other. A load that was    *)
(* not confirmed may have told no session.                                 *)
CloseApp(t) ==
    /\ at[t] = "close"
    /\ \/ /\ seen[t].app = "ours" /\ app = "ours"
          /\ media' = "none" /\ app' = "none" /\ hurt' = (hurt \/ media = "other")
       \/ /\ seen[t].app = "ours" /\ app = "ours" => recLock # t
          /\ UNCHANGED <<tvvars, hurt>>
    /\ Disown(t)
    /\ UNCHANGED <<pubvars, seen, late, senders, mishaps>>

(* Mutant: the end of the stream is recorded before it is confirmed.       *)
TvRefusesQuietly(t) ==
    /\ Mishap /\ at[t] \in RecWorking
    /\ Disown(t)
    /\ UNCHANGED <<pubvars, tvvars, seen, hurt, late, senders>>

(* A status, a stop or a close fails or is not confirmed: the session is   *)
(* kept for a retry.                                                       *)
TvRefuses(t) ==
    /\ Mishap /\ at[t] \in RecWorking
    /\ RecFree(t) /\ Move(t, "out")
    /\ UNCHANGED <<pubvars, tvvars, holds, disowned, seen, hurt, late, senders>>

-----------------------------------------------------------------------------
HlsWorks(t) ==
    \/ ServeThread(t) \/ ArmExpiry(t) \/ Publish(t) \/ PubLocks(t) \/ ShutDown(t) \/ Unlist(t)
    \/ Loaded(t) \/ RecLocks(t) \/ LookAtTv(t) \/ StopMedia(t) \/ CloseApp(t)

HlsNext ==
    \/ \E t \in Stoppers : \/ HlsWorks(t) \/ Listen(t) \/ PublishFails(t) \/ Unpublish(t)
                           \/ LoadFails(t) \/ StopReceiver(t) \/ TvRefuses(t)
    \/ ExpiryFires \/ Expire \/ OtherSender

(* Threads go on, and a timer that is armed fires.                         *)
HlsFairness ==
    /\ \A t \in Stoppers : WF_hvars(HlsWorks(t))
    /\ WF_hvars(ExpiryFires) /\ WF_hvars(Expire)

HlsSpec == HlsInit /\ [][HlsNext]_hvars /\ HlsFairness

-----------------------------------------------------------------------------
(* The screen is served only by a publication somebody can still stop, and *)
(* a release that is recorded is complete: the socket is closed, and the   *)
(* TV does not play the stream any more.                                   *)
ReleasedMeansOver ==
    /\ server \in {"bound", "serving"} => published \/ \E t \in Stoppers : at[t] \in PubStarting
    /\ unpublished => server = "closed" /\ timer # "armed"
    /\ disowned => media # "ours"

(* A publication is served for a bounded time, although nobody stops it.   *)
PublicationEnds == server = "serving" ~> server = "closed"

(* Another sender's media is never stopped, nor its application closed     *)
(* (unless it comes between the status that is read and the command).      *)
OthersAreLeftAlone == hurt => late

(* A publication or a TV session recorded as released is over, and what    *)
(* another sender plays is left alone (hls_publisher.py, cast_receiver.py). *)
OnlyOursIsOver == HlsTypeOK /\ ReleasedMeansOver /\ OthersAreLeftAlone
=============================================================================
