----------------------------- MODULE MCRequests -----------------------------
(* What answers the requests of the owner, for TLC: the window's bridge,   *)
(* the MCP server, the discovery of TVs, the remote channel and its        *)
(* credentials, the applications of a TV, and the traces of a command.     *)
(* They share no state: a behaviour is of one of them.                     *)
EXTENDS BridgeCall, RemoteChannel, RemoteCredentials, Discovery, AppLaunch,
        AcceptanceTrace, McpServer

VARIABLE part      \* the component this behaviour is of

Parts == {"bridge", "remote", "credentials", "discovery", "apps", "trace", "mcp"}

(* (The initial states of a component matter to its own behaviours only.)  *)
RequestsInit ==
    /\ part \in Parts
    /\ Init /\ RemoteInit /\ CredInit /\ DiscoveryInit /\ AppInit /\ TraceInit /\ McpInit
    /\ part # "bridge" => slot = 0 /\ ~embedded
    /\ part # "credentials" => ~legacy
    /\ part # "discovery" =>
         /\ owned = {}
         /\ net = CHOOSE n \in [Tvs -> Addrs] : \A t, u \in Tvs : n[t] = n[u] => t = u
    /\ part # "apps" => ~inFront /\ ~installed /\ list = [file |-> "none", partial |-> "none"]

RequestsNext ==
    /\ \/ part = "bridge" /\ Next
          /\ UNCHANGED <<rvars, dvars, yvars, avars, tvars, mvars>>
       \/ part = "remote" /\ RemoteNext
          /\ UNCHANGED <<vars, dvars, yvars, avars, tvars, mvars>>
       \/ part = "credentials" /\ CredNext
          /\ UNCHANGED <<vars, rvars, yvars, avars, tvars, mvars>>
       \/ part = "discovery" /\ DiscoveryNext
          /\ UNCHANGED <<vars, rvars, dvars, avars, tvars, mvars>>
       \/ part = "apps" /\ AppNext
          /\ UNCHANGED <<vars, rvars, dvars, yvars, tvars, mvars>>
       \/ part = "trace" /\ TraceNext
          /\ UNCHANGED <<vars, rvars, dvars, yvars, avars, mvars>>
       \/ part = "mcp" /\ McpNext
          /\ UNCHANGED <<vars, rvars, dvars, yvars, avars, tvars>>
    /\ UNCHANGED part

(* The fairness of each component, in its own behaviours.                  *)
RequestsFairness ==
    /\ \A c \in Calls :
         /\ WF_vars(part = "bridge" /\ WorkerStep(c))
         /\ WF_vars(part = "bridge" /\ (Resolve(c) \/ Timeout(c)))
         /\ WF_vars(part = "bridge" /\ Abandon(c))
    /\ \A p \in Processes : WF_vars(part = "bridge" /\ Terminate(p))
    /\ \A c \in ToolCalls : WF_mvars(part = "mcp" /\ Runs(c))

RequestsSpec ==
    RequestsInit
    /\ [][RequestsNext]_<<part, vars, rvars, dvars, yvars, avars, tvars, mvars>>
    /\ RequestsFairness
=============================================================================
