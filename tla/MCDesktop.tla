----------------------------- MODULE MCDesktop -----------------------------
(* The components that change what runs on the owner's computer, for TLC.  *)
(* They share no state (the two encoders share ProcessGroup, in processes  *)
(* of their own): a behaviour is one of                                    *)
(*  - DisplayManager, by the owner's own layout changes,                   *)
(*  - ExtendedDisplay, by a stream,                                        *)
(*  - LiveEncoder or Screencast, which run FFmpeg.                         *)
EXTENDS MCDisplayManager, ExtendedDisplay, LiveEncoder, Screencast

VARIABLE part      \* the component this behaviour is of

(* The variables of the two encoders, ProcessGroup's apart.                *)
liveOwn == <<attached, directory, registered, freed, given, stopLock, encoder, troubles>>
castOwn == <<castState, castSession, unreclaimed, busy, step, call, after, errors>>

(* (The initial states of a component matter to its own behaviours only.)  *)
DesktopInit ==
    /\ part \in {"layout", "extension", "encoder", "cast"}
    /\ Init /\ XInit /\ LiveInit /\ CastInit
    /\ part # "extension" => output = "off"

DesktopNext ==
    /\ \/ part = "layout" /\ Next /\ UNCHANGED <<xvars, lvars, cvars>>
       \/ part = "extension" /\ XNext /\ UNCHANGED <<vars, lvars, cvars>>
       \/ part = "encoder" /\ LiveNext /\ UNCHANGED <<vars, xvars, castOwn>>
       \/ part = "cast" /\ CastNext /\ UNCHANGED <<vars, xvars, liveOwn>>
    /\ UNCHANGED part

(* The fairness of each component, in its own behaviours; a process that   *)
(* was killed is started again.                                            *)
DesktopFairness ==
    /\ \A n \in Changes : WF_vars(part = "layout" /\ (Fire(n) \/ Expire(n)))
    /\ \A h \in Hosts : WF_xvars(part = "extension" /\ (XWorks(h) \/ Starts(h)))
    /\ \A t \in Stewards : WF_cvars(part = "cast" /\ CastWorks(t))

DesktopSpec ==
    DesktopInit /\ [][DesktopNext]_<<part, vars, xvars, lvars, cvars>> /\ DesktopFairness

(* check() accepts exactly the configurations the owner can use: each      *)
(* output set once, in a mode it offers, within reach, one main screen,    *)
(* and a point of the desktop on two screens only if both show the same.   *)
(* check() depends on no state: it is judged once, as the application      *)
(* starts.                                                                 *)
CheckIsExact == part = "layout" /\ Init => Misjudged = {}

(* However a call ends, an FFmpeg group that is not reaped and the output  *)
(* of a live stream are still known to somebody who stops them; a live     *)
(* stream is released once, and two screen casts never run together        *)
(* (h264_encoder.py, screencast/service.py).                               *)
EncodersAreTracked ==
    /\ part = "cast" => CastTypeOK /\ EncoderIsNeverDropped /\ OneEncoder
    /\ part = "encoder" => LiveTypeOK /\ StreamIsTracked /\ NothingIsReleasedTwice
=============================================================================
