--------------------------- MODULE MCScreenStream ---------------------------
(* The components of the screen stream, for TLC: the bridge's controller,  *)
(* the streaming service, the HLS publication on the TV and the route of   *)
(* the sound. They share no state: a behaviour is of one of them.          *)
EXTENDS ScreenController, StreamingSession, CastHls, AudioRoute

VARIABLE part      \* the component this behaviour is of

Parts == {"controller", "session", "hls", "route"}

(* (The initial states of a component matter to its own behaviours only.)  *)
StreamInit ==
    /\ part \in Parts
    /\ CtlInit /\ Init /\ HlsInit /\ RouteInit
    /\ part # "hls" => media = "none"
    /\ part # "route" => default = CHOOSE o \in Outputs : TRUE

StreamNext ==
    /\ \/ part = "controller" /\ CtlNext /\ UNCHANGED <<vars, hvars, routevars>>
       \/ part = "session" /\ Next /\ UNCHANGED <<ctlvars, hvars, routevars>>
       \/ part = "hls" /\ HlsNext /\ UNCHANGED <<ctlvars, vars, routevars>>
       \/ part = "route" /\ RouteNext /\ UNCHANGED <<ctlvars, vars, hvars>>
    /\ UNCHANGED part

(* The fairness of each component, in its own behaviours; a process that   *)
(* was killed is started again.                                            *)
StreamFairness ==
    /\ \A t \in Threads : WF_vars(part = "session" /\ CallStep(t))
    /\ \A t \in Stoppers : WF_hvars(part = "hls" /\ HlsWorks(t))
    /\ WF_hvars(part = "hls" /\ (ExpiryFires \/ Expire))
    /\ \A h \in Hosts : WF_routevars(part = "route" /\ (Works(h) \/ Restart(h)))

StreamSpec ==
    StreamInit /\ [][StreamNext]_<<part, ctlvars, vars, hvars, routevars>>
    /\ StreamFairness
=============================================================================
