---------------------------- MODULE BridgeProofs ----------------------------
(***************************************************************************)
(* The two ways into the shared layer: call_bridge and BridgeSlot for any  *)
(* number of calls and processes, and the MCP server for any set of tool   *)
(* calls, in any order of requests and cancellations. And the evidence of  *)
(* what a command did: its trace and its gate, for any number of commands, *)
(* switches of the media and lost writes.                                  *)
(***************************************************************************)
EXTENDS BridgeCall, McpServer, AcceptanceTrace, TLAPS, WellFoundedInduction

-----------------------------------------------------------------------------
(* BridgeCall                                                              *)

InFlight == {"piped", "handled", "replied"}

(* The lock excludes, and a poisoned lock is held by nobody.               *)
LockInv ==
    /\ \A c \in Calls : worker[c] \in Holding <=> c \in owner
    /\ \A c, d \in owner : c = d
    /\ poisoned => owner = {}

(* Who settled the claim, and what was told from it.                       *)
ClaimInv ==
    \A c \in Calls :
        /\ worker[c] = "none" <=> caller[c] = "idle"
        /\ worker[c] \in {"claimed", "reading"} => claim[c] = "STARTED"
        /\ worker[c] \in {"none", "queued", "locked", "recovered", "ready"} => claim[c] # "STARTED"
        /\ stage[c] # "unwritten" => claim[c] = "STARTED" /\ worker[c] # "claimed"
        /\ returned[c] # "none" <=> worker[c] \in {"returned", "panicked"}
        /\ returned[c] = "bridge_busy" => claim[c] = "ABANDONED"
        /\ returned[c] = "backend_unavailable" => stage[c] = "unwritten"
        /\ returned[c] = "answered" => stage[c] = "read"
        /\ result[c] # "none" <=> caller[c] = "done"
        /\ result[c] = "bridge_busy" => claim[c] = "ABANDONED"
        /\ result[c] \in {"backend_unavailable", "answered"} => returned[c] = result[c]

(* A request in the pipes belongs to the worker that reads them, or to one *)
(* that panicked and whose bridge the next worker retires.                 *)
PipeInv ==
    \A c \in Calls :
        /\ worker[c] \in {"ready", "claimed", "reading"} => slot # 0 /\ writtenTo[c] = slot
        /\ stage[c] # "unwritten" => writtenTo[c] # 0 /\ process[writtenTo[c]] # "unborn"
        /\ (stage[c] \in InFlight /\ writtenTo[c] = slot) => (worker[c] = "reading" \/ poisoned)

SlotInv == slot # 0 => process[slot] # "unborn"

IInv == TypeOK /\ LockInv /\ ClaimInv /\ PipeInv /\ SlotInv /\ OneLiveBridge
-----------------------------------------------------------------------------
(* The invariant holds when the application has started its bridge.        *)
LEMMA InitInv == Init => IInv
<1> USE BridgeCallAssumption
<1> SUFFICES ASSUME Init PROVE IInv
  OBVIOUS
<1>1. TypeOK
  BY DEF Init, TypeOK, Holding, Codes, Processes
<1>2. LockInv /\ ClaimInv
  BY DEF Init, LockInv, ClaimInv, Holding
<1>3. PipeInv /\ SlotInv /\ OneLiveBridge
  BY DEF Init, PipeInv, SlotInv, OneLiveBridge, Processes, InFlight
<1> QED
  BY <1>1, <1>2, <1>3 DEF IInv

(* Every step of a worker, a caller, a terminate task or the Python        *)
(* process preserves it.                                                   *)
LEMMA StepInv == IInv /\ [Next]_vars => IInv'
<1> USE BridgeCallAssumption
<1> SUFFICES ASSUME IInv, [Next]_vars PROVE IInv'
  OBVIOUS
<1>0. TypeOK /\ LockInv /\ ClaimInv /\ PipeInv /\ SlotInv /\ OneLiveBridge
  BY DEF IInv
<1>1. ASSUME NEW c \in Calls, Call(c) PROVE IInv'
  <2>1. TypeOK'
    BY <1>0, <1>1 DEF Call, TypeOK, Holding, Codes, Processes
  <2>2. LockInv'
    BY <1>0, <1>1 DEF Call, TypeOK, LockInv, ClaimInv, Holding
  <2>3. ClaimInv'
    BY <1>0, <1>1 DEF Call, TypeOK, LockInv, ClaimInv, Holding, Codes
  <2>4. PipeInv'
    BY <1>0, <1>1 DEF Call, TypeOK, LockInv, ClaimInv, PipeInv, SlotInv, InFlight, Holding, Processes
  <2>5. SlotInv'
    BY <1>0, <1>1 DEF Call, TypeOK, LockInv, SlotInv, PipeInv, Processes
  <2>6. OneLiveBridge'
    BY <1>0, <1>1 DEF Call, TypeOK, PipeInv, SlotInv, OneLiveBridge, Processes
  <2> QED
    BY <2>1, <2>2, <2>3, <2>4, <2>5, <2>6 DEF IInv
<1>2. ASSUME NEW c \in Calls, Lock(c) PROVE IInv'
  <2>1. TypeOK'
    BY <1>0, <1>2 DEF Lock, Retire, Killed, TypeOK, Holding, Codes, Processes
  <2>2. LockInv'
    BY <1>0, <1>2 DEF Lock, Retire, Killed, TypeOK, LockInv, Holding
  <2>3. ClaimInv'
    BY <1>0, <1>2 DEF Lock, Retire, Killed, TypeOK, LockInv, ClaimInv, Holding, Codes
  <2>4. PipeInv'
    BY <1>0, <1>2 DEF Lock, Retire, Killed, TypeOK, LockInv, ClaimInv, PipeInv, SlotInv, InFlight, Holding, Processes
  <2>5. SlotInv'
    BY <1>0, <1>2 DEF Lock, Retire, Killed, TypeOK, LockInv, SlotInv, PipeInv, Processes
  <2>6. OneLiveBridge'
    BY <1>0, <1>2 DEF Lock, Retire, Killed, TypeOK, PipeInv, SlotInv, OneLiveBridge, Processes
  <2> QED
    BY <2>1, <2>2, <2>3, <2>4, <2>5, <2>6 DEF IInv
<1>3. ASSUME NEW c \in Calls, Recover(c) PROVE IInv'
  <2>1. TypeOK'
    BY <1>0, <1>3 DEF Recover, Unborn, TypeOK, Holding, Codes, Processes
  <2>2. LockInv'
    BY <1>0, <1>3 DEF Recover, Unborn, TypeOK, LockInv, Holding
  <2>3. ClaimInv'
    BY <1>0, <1>3 DEF Recover, Unborn, TypeOK, LockInv, ClaimInv, Holding, Codes
  <2>4. PipeInv'
    BY <1>0, <1>3 DEF Recover, Unborn, TypeOK, LockInv, ClaimInv, PipeInv, SlotInv, InFlight, Holding, Processes
  <2>5. SlotInv'
    BY <1>0, <1>3 DEF Recover, Unborn, TypeOK, LockInv, SlotInv, PipeInv, Processes
  <2>6. OneLiveBridge'
    BY <1>0, <1>3 DEF Recover, Unborn, TypeOK, PipeInv, SlotInv, OneLiveBridge, Processes
  <2> QED
    BY <2>1, <2>2, <2>3, <2>4, <2>5, <2>6 DEF IInv
<1>4. ASSUME NEW c \in Calls, UseBridge(c) PROVE IInv'
  <2>1. TypeOK'
    <3>1. CASE slot = 0
      BY <1>0, <1>4, <3>1 DEF UseBridge, Return, TypeOK, Holding, Codes, Processes
    <3>2. CASE slot # 0
      BY <1>0, <1>4, <3>2 DEF UseBridge, Return, TypeOK, Holding, Codes, Processes
    <3> QED
      BY <3>1, <3>2
  <2>2. LockInv'
    BY <1>0, <1>4 DEF UseBridge, Return, TypeOK, LockInv, Holding
  <2>3. ClaimInv'
    BY <1>0, <1>4 DEF UseBridge, Return, TypeOK, LockInv, ClaimInv, Holding, Codes
  <2>4. PipeInv'
    BY <1>0, <1>4 DEF UseBridge, Return, TypeOK, LockInv, ClaimInv, PipeInv, SlotInv, InFlight, Holding, Processes
  <2>5. SlotInv'
    BY <1>0, <1>4 DEF UseBridge, Return, TypeOK, LockInv, SlotInv, PipeInv, Processes
  <2>6. OneLiveBridge'
    BY <1>0, <1>4 DEF UseBridge, Return, TypeOK, PipeInv, SlotInv, OneLiveBridge, Processes
  <2> QED
    BY <2>1, <2>2, <2>3, <2>4, <2>5, <2>6 DEF IInv
<1>5. ASSUME NEW c \in Calls, Claim(c) PROVE IInv'
  <2>1. TypeOK'
    <3>1. CASE claim[c] = "PENDING"
      BY <1>0, <1>5, <3>1 DEF Claim, TypeOK, Holding
    <3>2. CASE claim[c] # "PENDING"
      BY <1>0, <1>5, <3>2 DEF Claim, Return, TypeOK, Codes
    <3> QED
      BY <3>1, <3>2
  <2>2. LockInv'
    BY <1>0, <1>5 DEF Claim, Return, TypeOK, LockInv, Holding
  <2>3. ClaimInv'
    BY <1>0, <1>5 DEF Claim, Return, TypeOK, LockInv, ClaimInv, Holding, Codes
  <2>4. PipeInv'
    BY <1>0, <1>5 DEF Claim, Return, TypeOK, LockInv, ClaimInv, PipeInv, SlotInv, InFlight, Holding, Processes
  <2>5. SlotInv'
    BY <1>0, <1>5 DEF Claim, Return, TypeOK, LockInv, SlotInv, PipeInv, Processes
  <2>6. OneLiveBridge'
    BY <1>0, <1>5 DEF Claim, Return, TypeOK, PipeInv, SlotInv, OneLiveBridge, Processes
  <2> QED
    BY <2>1, <2>2, <2>3, <2>4, <2>5, <2>6 DEF IInv
<1>6. ASSUME NEW c \in Calls, Write(c) PROVE IInv'
  <2>1. TypeOK'
    <3>1. stage' \in [Calls -> {"unwritten", "piped", "handled", "replied", "read"}]
      BY <1>0, <1>6 DEF Write, TypeOK
    <3>2. worker' \in [Calls -> Holding \cup {"none", "queued", "returned", "panicked"}]
      BY <1>0, <1>6 DEF Write, Return, TypeOK, Holding
    <3>3. returned' \in [Calls -> Codes \cup {"none"}] /\ owner' \subseteq Calls
      BY <1>0, <1>6 DEF Write, Return, TypeOK, Codes
    <3>4. slot' \in Processes \cup {0} /\ process' \in [Processes -> {"unborn", "alive", "exited"}]
      BY <1>0, <1>6 DEF Write, Retire, Killed, TypeOK
    <3> QED
      BY <1>0, <1>6, <3>1, <3>2, <3>3, <3>4 DEF Write, TypeOK
  <2>2. LockInv'
    BY <1>0, <1>6 DEF Write, Return, Retire, Killed, TypeOK, LockInv, Holding
  <2>3. ClaimInv'
    BY <1>0, <1>6 DEF Write, Return, Retire, Killed, TypeOK, LockInv, ClaimInv, Holding, Codes
  <2>4. PipeInv'
    BY <1>0, <1>6 DEF Write, Return, Retire, Killed, TypeOK, LockInv, ClaimInv, PipeInv, SlotInv, InFlight, Holding, Processes
  <2>5. SlotInv'
    BY <1>0, <1>6 DEF Write, Return, Retire, Killed, TypeOK, LockInv, SlotInv, PipeInv, Processes
  <2>6. OneLiveBridge'
    BY <1>0, <1>6 DEF Write, Return, Retire, Killed, TypeOK, PipeInv, SlotInv, OneLiveBridge, Processes
  <2> QED
    BY <2>1, <2>2, <2>3, <2>4, <2>5, <2>6 DEF IInv
<1>7. ASSUME NEW c \in Calls, EmbeddedRejects(c) PROVE IInv'
  <2>1. TypeOK'
    BY <1>0, <1>7 DEF EmbeddedRejects, Return, Retire, Killed, TypeOK, Holding, Codes, Processes
  <2>2. LockInv'
    BY <1>0, <1>7 DEF EmbeddedRejects, Return, Retire, Killed, TypeOK, LockInv, Holding
  <2>3. ClaimInv'
    BY <1>0, <1>7 DEF EmbeddedRejects, Return, Retire, Killed, TypeOK, LockInv, ClaimInv, Holding, Codes
  <2>4. PipeInv'
    BY <1>0, <1>7 DEF EmbeddedRejects, Return, Retire, Killed, TypeOK, LockInv, ClaimInv, PipeInv, SlotInv, InFlight, Holding, Processes
  <2>5. SlotInv'
    BY <1>0, <1>7 DEF EmbeddedRejects, Return, Retire, Killed, TypeOK, LockInv, SlotInv, PipeInv, Processes
  <2>6. OneLiveBridge'
    BY <1>0, <1>7 DEF EmbeddedRejects, Return, Retire, Killed, TypeOK, PipeInv, SlotInv, OneLiveBridge, Processes
  <2> QED
    BY <2>1, <2>2, <2>3, <2>4, <2>5, <2>6 DEF IInv
<1>8. ASSUME NEW c \in Calls, ReadReply(c) PROVE IInv'
  <2>1. TypeOK'
    <3>1. stage' \in [Calls -> {"unwritten", "piped", "handled", "replied", "read"}]
      BY <1>0, <1>8 DEF ReadReply, TypeOK
    <3>2. worker' \in [Calls -> Holding \cup {"none", "queued", "returned", "panicked"}]
      BY <1>0, <1>8 DEF ReadReply, Return, TypeOK, Holding
    <3>3. returned' \in [Calls -> Codes \cup {"none"}] /\ owner' \subseteq Calls
      BY <1>0, <1>8 DEF ReadReply, Return, TypeOK, Codes
    <3>4. slot' \in Processes \cup {0} /\ process' \in [Processes -> {"unborn", "alive", "exited"}]
      BY <1>0, <1>8 DEF ReadReply, Retire, Killed, TypeOK
    <3> QED
      BY <1>0, <1>8, <3>1, <3>2, <3>3, <3>4 DEF ReadReply, TypeOK
  <2>2. LockInv'
    BY <1>0, <1>8 DEF ReadReply, Return, Retire, Killed, TypeOK, LockInv, Holding
  <2>3. ClaimInv'
    BY <1>0, <1>8 DEF ReadReply, Return, Retire, Killed, TypeOK, LockInv, ClaimInv, Holding, Codes
  <2>4. PipeInv'
    BY <1>0, <1>8 DEF ReadReply, Return, Retire, Killed, TypeOK, LockInv, ClaimInv, PipeInv, SlotInv, InFlight, Holding, Processes
  <2>5. SlotInv'
    BY <1>0, <1>8 DEF ReadReply, Return, Retire, Killed, TypeOK, LockInv, SlotInv, PipeInv, Processes
  <2>6. OneLiveBridge'
    BY <1>0, <1>8 DEF ReadReply, Return, Retire, Killed, TypeOK, PipeInv, SlotInv, OneLiveBridge, Processes
  <2> QED
    BY <2>1, <2>2, <2>3, <2>4, <2>5, <2>6 DEF IInv
<1>9. ASSUME NEW c \in Calls, ReadEof(c) PROVE IInv'
  <2>1. TypeOK'
    BY <1>0, <1>9 DEF ReadEof, Return, Retire, Killed, TypeOK, Holding, Codes, Processes
  <2>2. LockInv'
    BY <1>0, <1>9 DEF ReadEof, Return, Retire, Killed, TypeOK, LockInv, Holding
  <2>3. ClaimInv'
    BY <1>0, <1>9 DEF ReadEof, Return, Retire, Killed, TypeOK, LockInv, ClaimInv, Holding, Codes
  <2>4. PipeInv'
    BY <1>0, <1>9 DEF ReadEof, Return, Retire, Killed, TypeOK, LockInv, ClaimInv, PipeInv, SlotInv, InFlight, Holding, Processes
  <2>5. SlotInv'
    BY <1>0, <1>9 DEF ReadEof, Return, Retire, Killed, TypeOK, LockInv, SlotInv, PipeInv, Processes
  <2>6. OneLiveBridge'
    BY <1>0, <1>9 DEF ReadEof, Return, Retire, Killed, TypeOK, PipeInv, SlotInv, OneLiveBridge, Processes
  <2> QED
    BY <2>1, <2>2, <2>3, <2>4, <2>5, <2>6 DEF IInv
<1>10. ASSUME NEW c \in Calls, Panic(c) PROVE IInv'
  <2>1. TypeOK'
    BY <1>0, <1>10 DEF Panic, TypeOK, Holding, Codes, Processes
  <2>2. LockInv'
    BY <1>0, <1>10 DEF Panic, TypeOK, LockInv, Holding
  <2>3. ClaimInv'
    BY <1>0, <1>10 DEF Panic, TypeOK, LockInv, ClaimInv, Holding, Codes
  <2>4. PipeInv'
    BY <1>0, <1>10 DEF Panic, TypeOK, LockInv, ClaimInv, PipeInv, SlotInv, InFlight, Holding, Processes
  <2>5. SlotInv'
    BY <1>0, <1>10 DEF Panic, TypeOK, LockInv, SlotInv, PipeInv, Processes
  <2>6. OneLiveBridge'
    BY <1>0, <1>10 DEF Panic, TypeOK, PipeInv, SlotInv, OneLiveBridge, Processes
  <2> QED
    BY <2>1, <2>2, <2>3, <2>4, <2>5, <2>6 DEF IInv
<1>11. ASSUME NEW c \in Calls, Resolve(c) PROVE IInv'
  <2>1. TypeOK'
    BY <1>0, <1>11 DEF Resolve, TypeOK, Holding, Codes, Processes
  <2>2. LockInv'
    BY <1>0, <1>11 DEF Resolve, TypeOK, LockInv, Holding
  <2>3. ClaimInv'
    BY <1>0, <1>11 DEF Resolve, TypeOK, LockInv, ClaimInv, Holding, Codes
  <2>4. PipeInv'
    BY <1>0, <1>11 DEF Resolve, TypeOK, LockInv, ClaimInv, PipeInv, SlotInv, InFlight, Holding, Processes
  <2>5. SlotInv'
    BY <1>0, <1>11 DEF Resolve, TypeOK, LockInv, SlotInv, PipeInv, Processes
  <2>6. OneLiveBridge'
    BY <1>0, <1>11 DEF Resolve, TypeOK, PipeInv, SlotInv, OneLiveBridge, Processes
  <2> QED
    BY <2>1, <2>2, <2>3, <2>4, <2>5, <2>6 DEF IInv
<1>12. ASSUME NEW c \in Calls, Timeout(c) PROVE IInv'
  <2>1. TypeOK'
    BY <1>0, <1>12 DEF Timeout, TypeOK, Holding, Codes, Processes
  <2>2. LockInv'
    BY <1>0, <1>12 DEF Timeout, TypeOK, LockInv, Holding
  <2>3. ClaimInv'
    BY <1>0, <1>12 DEF Timeout, TypeOK, LockInv, ClaimInv, Holding, Codes
  <2>4. PipeInv'
    BY <1>0, <1>12 DEF Timeout, TypeOK, LockInv, ClaimInv, PipeInv, SlotInv, InFlight, Holding, Processes
  <2>5. SlotInv'
    BY <1>0, <1>12 DEF Timeout, TypeOK, LockInv, SlotInv, PipeInv, Processes
  <2>6. OneLiveBridge'
    BY <1>0, <1>12 DEF Timeout, TypeOK, PipeInv, SlotInv, OneLiveBridge, Processes
  <2> QED
    BY <2>1, <2>2, <2>3, <2>4, <2>5, <2>6 DEF IInv
<1>13. ASSUME NEW c \in Calls, Abandon(c) PROVE IInv'
  <2>1. TypeOK'
    BY <1>0, <1>13 DEF Abandon, TypeOK, Holding, Codes, Processes
  <2>2. LockInv'
    BY <1>0, <1>13 DEF Abandon, TypeOK, LockInv, Holding
  <2>3. ClaimInv'
    BY <1>0, <1>13 DEF Abandon, TypeOK, LockInv, ClaimInv, Holding, Codes
  <2>4. PipeInv'
    BY <1>0, <1>13 DEF Abandon, TypeOK, LockInv, ClaimInv, PipeInv, SlotInv, InFlight, Holding, Processes
  <2>5. SlotInv'
    BY <1>0, <1>13 DEF Abandon, TypeOK, LockInv, SlotInv, PipeInv, Processes
  <2>6. OneLiveBridge'
    BY <1>0, <1>13 DEF Abandon, TypeOK, PipeInv, SlotInv, OneLiveBridge, Processes
  <2> QED
    BY <2>1, <2>2, <2>3, <2>4, <2>5, <2>6 DEF IInv
<1>14. ASSUME NEW c \in Calls, Handle(c) PROVE IInv'
  <2>1. TypeOK'
    BY <1>0, <1>14 DEF Handle, TypeOK, Holding, Codes, Processes
  <2>2. LockInv'
    BY <1>0, <1>14 DEF Handle, TypeOK, LockInv, Holding
  <2>3. ClaimInv'
    BY <1>0, <1>14 DEF Handle, TypeOK, LockInv, ClaimInv, Holding, Codes
  <2>4. PipeInv'
    BY <1>0, <1>14 DEF Handle, TypeOK, LockInv, ClaimInv, PipeInv, SlotInv, InFlight, Holding, Processes
  <2>5. SlotInv'
    BY <1>0, <1>14 DEF Handle, TypeOK, LockInv, SlotInv, PipeInv, Processes
  <2>6. OneLiveBridge'
    BY <1>0, <1>14 DEF Handle, TypeOK, PipeInv, SlotInv, OneLiveBridge, Processes
  <2> QED
    BY <2>1, <2>2, <2>3, <2>4, <2>5, <2>6 DEF IInv
<1>15. ASSUME NEW c \in Calls, Reply(c) PROVE IInv'
  <2>1. TypeOK'
    BY <1>0, <1>15 DEF Reply, TypeOK, Holding, Codes, Processes
  <2>2. LockInv'
    BY <1>0, <1>15 DEF Reply, TypeOK, LockInv, Holding
  <2>3. ClaimInv'
    BY <1>0, <1>15 DEF Reply, TypeOK, LockInv, ClaimInv, Holding, Codes
  <2>4. PipeInv'
    BY <1>0, <1>15 DEF Reply, TypeOK, LockInv, ClaimInv, PipeInv, SlotInv, InFlight, Holding, Processes
  <2>5. SlotInv'
    BY <1>0, <1>15 DEF Reply, TypeOK, LockInv, SlotInv, PipeInv, Processes
  <2>6. OneLiveBridge'
    BY <1>0, <1>15 DEF Reply, TypeOK, PipeInv, SlotInv, OneLiveBridge, Processes
  <2> QED
    BY <2>1, <2>2, <2>3, <2>4, <2>5, <2>6 DEF IInv
<1>16. ASSUME NEW p \in Processes, Terminate(p) PROVE IInv'
  <2>1. TypeOK'
    BY <1>0, <1>16 DEF Terminate, Killed, TypeOK, Holding, Codes, Processes
  <2>2. LockInv'
    BY <1>0, <1>16 DEF Terminate, Killed, TypeOK, LockInv, Holding
  <2>3. ClaimInv'
    BY <1>0, <1>16 DEF Terminate, Killed, TypeOK, LockInv, ClaimInv, Holding, Codes
  <2>4. PipeInv'
    BY <1>0, <1>16 DEF Terminate, Killed, TypeOK, LockInv, ClaimInv, PipeInv, SlotInv, InFlight, Holding, Processes
  <2>5. SlotInv'
    BY <1>0, <1>16 DEF Terminate, Killed, TypeOK, LockInv, SlotInv, PipeInv, Processes
  <2>6. OneLiveBridge'
    BY <1>0, <1>16 DEF Terminate, Killed, TypeOK, PipeInv, SlotInv, OneLiveBridge, Processes
  <2> QED
    BY <2>1, <2>2, <2>3, <2>4, <2>5, <2>6 DEF IInv
<1>17. ASSUME NEW p \in Processes, Exit(p) PROVE IInv'
  <2>1. TypeOK'
    BY <1>0, <1>17 DEF Exit, TypeOK, Holding, Codes, Processes
  <2>2. LockInv'
    BY <1>0, <1>17 DEF Exit, TypeOK, LockInv, Holding
  <2>3. ClaimInv'
    BY <1>0, <1>17 DEF Exit, TypeOK, LockInv, ClaimInv, Holding, Codes
  <2>4. PipeInv'
    BY <1>0, <1>17 DEF Exit, TypeOK, LockInv, ClaimInv, PipeInv, SlotInv, InFlight, Holding, Processes
  <2>5. SlotInv'
    BY <1>0, <1>17 DEF Exit, TypeOK, LockInv, SlotInv, PipeInv, Processes
  <2>6. OneLiveBridge'
    BY <1>0, <1>17 DEF Exit, TypeOK, PipeInv, SlotInv, OneLiveBridge, Processes
  <2> QED
    BY <2>1, <2>2, <2>3, <2>4, <2>5, <2>6 DEF IInv
<1>18. ASSUME UNCHANGED vars PROVE IInv'
  BY <1>0, <1>18 DEF vars, IInv, TypeOK, LockInv, ClaimInv, PipeInv, SlotInv, OneLiveBridge, InFlight
<1> QED
  BY <1>1, <1>2, <1>3, <1>4, <1>5, <1>6, <1>7, <1>8, <1>9, <1>10, <1>11, <1>12, <1>13, <1>14, <1>15, <1>16, <1>17, <1>18 DEF Next, WorkerStep

-----------------------------------------------------------------------------
(* call_bridge and BridgeSlot never leave the states listed in TypeOK.     *)
THEOREM TypeCorrect == Spec => []TypeOK
<1>1. IInv => TypeOK
  BY DEF IInv
<1> QED
  BY InitInv, StepInv, <1>1, PTL DEF Spec

(* "Not sent" is true and stays true: a call told bridge_busy or           *)
(* backend_unavailable was not written, and its worker will not write it.  *)
THEOREM NotSent == Spec => []NotSentIsNeverWritten
<1>1. IInv => NotSentIsNeverWritten
  BY DEF IInv, TypeOK, LockInv, ClaimInv, NotSentIsNeverWritten, Holding, Codes
<1> QED
  BY InitInv, StepInv, <1>1, PTL DEF Spec

(* However many times the bridge is replaced, the only Python process that *)
(* may be alive is the one in the slot.                                    *)
THEOREM OneBridge == Spec => []OneLiveBridge
<1>1. IInv => OneLiveBridge
  BY DEF IInv
<1> QED
  BY InitInv, StepInv, <1>1, PTL DEF Spec

(* No worker ever reads a pipe that holds another request or its reply.    *)
THEOREM NoCrossing == Spec => []RepliesDoNotCross
<1>1. IInv => RepliesDoNotCross
  BY DEF IInv, TypeOK, LockInv, PipeInv, RepliesDoNotCross, Holding, InFlight
<1> QED
  BY InitInv, StepInv, <1>1, PTL DEF Spec

-----------------------------------------------------------------------------
(* A worker whose caller gave up is not left with a Python that hangs: a    *)
(* request that is not claimed yet never will be, and the process that is   *)
(* read is dead or about to be killed (where one can be killed).            *)
StuckReaderIsFreed ==
    \A c \in Calls : caller[c] = "done" =>
        /\ claim[c] = "PENDING" => worker[c] \in {"returned", "panicked"}
        /\ worker[c] \in {"claimed", "reading"} =>
             embedded \/ writtenTo[c] \in killing \/ process[writtenTo[c]] = "exited"

(* What is dead stays dead, and what is to be killed is killed first.       *)
LEMMA DoomedStayDoomed ==
    ASSUME IInv, [Next]_vars, NEW p \in Processes, ~embedded,
           p \in killing \/ process[p] = "exited"
    PROVE  p \in killing' \/ process'[p] = "exited"
<1> USE DEF Killed, Retire
<1>0. process \in [Processes -> {"unborn", "alive", "exited"}] /\ slot \in Processes \cup {0}
  BY DEF IInv, TypeOK
<1>1. ASSUME NEW c \in Calls, Recover(c) PROVE p \in killing' \/ process'[p] = "exited"
  BY <1>0, <1>1 DEF Recover, Unborn
<1>2. ASSUME NEW c \in Calls, Lock(c) \/ Write(c) \/ ReadReply(c) \/ ReadEof(c) \/ EmbeddedRejects(c)
      PROVE  p \in killing' \/ process'[p] = "exited"
  BY <1>0, <1>2 DEF Lock, Write, ReadReply, ReadEof, EmbeddedRejects
<1>3. ASSUME NEW c \in Calls, Call(c) \/ UseBridge(c) \/ Claim(c) \/ Panic(c) \/ Resolve(c)
                                \/ Timeout(c) \/ Abandon(c) \/ Handle(c) \/ Reply(c)
      PROVE  p \in killing' \/ process'[p] = "exited"
  BY <1>3 DEF Call, UseBridge, Claim, Panic, Resolve, Timeout, Abandon, Handle, Reply
<1>4. ASSUME NEW q \in Processes, Terminate(q) \/ Exit(q)
      PROVE  p \in killing' \/ process'[p] = "exited"
  BY <1>0, <1>4 DEF Terminate, Exit
<1>5. CASE UNCHANGED vars
  BY <1>5 DEF vars
<1> QED
  BY <1>1, <1>2, <1>3, <1>4, <1>5 DEF Next, WorkerStep

(* A call that nothing touches, and whose claim stands, keeps its part.     *)
LEMMA OtherCallsAreFreed ==
    ASSUME IInv, StuckReaderIsFreed, [Next]_vars, NEW c \in Calls,
           caller'[c] = "done" => caller[c] = "done",
           worker'[c] = worker[c] \/ worker'[c] \in {"returned", "panicked"},
           claim'[c] = claim[c] \/ claim'[c] # "PENDING", writtenTo'[c] = writtenTo[c]
    PROVE  caller'[c] = "done" =>
             /\ claim'[c] = "PENDING" => worker'[c] \in {"returned", "panicked"}
             /\ worker'[c] \in {"claimed", "reading"} =>
                  embedded' \/ writtenTo'[c] \in killing' \/ process'[writtenTo'[c]] = "exited"
<1>1. embedded' = embedded
  BY DEF Next, vars, WorkerStep, Call, Lock, Recover, UseBridge, Claim, Write, ReadReply, ReadEof,
         EmbeddedRejects, Panic, Resolve, Timeout, Abandon, Handle, Reply, Terminate, Exit
<1>2. worker[c] \in {"claimed", "reading"} => writtenTo[c] \in Processes
  BY DEF IInv, TypeOK, PipeInv
<1> QED
  BY <1>1, <1>2, DoomedStayDoomed DEF StuckReaderIsFreed

(* Every step preserves it.                                                 *)
LEMMA FreedStep == IInv /\ StuckReaderIsFreed /\ [Next]_vars => StuckReaderIsFreed'
<1> SUFFICES ASSUME IInv, StuckReaderIsFreed, [Next]_vars PROVE StuckReaderIsFreed'
  OBVIOUS
<1> DEFINE Freed(c) ==
             caller[c] = "done" =>
               /\ claim[c] = "PENDING" => worker[c] \in {"returned", "panicked"}
               /\ worker[c] \in {"claimed", "reading"} =>
                    embedded \/ writtenTo[c] \in killing \/ process[writtenTo[c]] = "exited"
<1>0. /\ caller \in [Calls -> {"idle", "waiting", "expired", "done"}]
      /\ worker \in [Calls -> Holding \cup {"none", "queued", "returned", "panicked"}]
      /\ claim \in [Calls -> {"PENDING", "STARTED", "ABANDONED"}]
      /\ writtenTo \in [Calls -> Processes \cup {0}]
      /\ ClaimInv /\ PipeInv
  BY DEF IInv, TypeOK
<1>1. ASSUME NEW c \in Calls, NEW d \in Calls, Call(c) PROVE Freed(d)'
  BY <1>0, <1>1, OtherCallsAreFreed DEF Call
<1>2. ASSUME NEW c \in Calls, NEW d \in Calls, Lock(c) \/ Recover(c) \/ UseBridge(c)
      PROVE  Freed(d)'
  <2>1. CASE d = c
    <3>1. /\ worker[c] \in {"queued", "locked", "recovered"} /\ UNCHANGED <<caller, claim>>
          /\ worker'[c] \notin {"claimed", "reading"}
      BY <1>0, <1>2 DEF Lock, Recover, UseBridge, Return
    <3> QED
      BY <2>1, <3>1 DEF StuckReaderIsFreed
  <2>2. CASE d # c
    <3>1. /\ worker'[d] = worker[d] /\ writtenTo'[d] = writtenTo[d] /\ UNCHANGED <<caller, claim>>
      BY <1>0, <1>2, <2>2 DEF Lock, Recover, UseBridge, Return
    <3> QED
      BY <3>1, OtherCallsAreFreed
  <2> QED
    BY <2>1, <2>2
<1>3. ASSUME NEW c \in Calls, NEW d \in Calls, Claim(c) PROVE Freed(d)'
  <2>1. CASE d = c /\ claim[c] = "PENDING"
    <3>1. caller[c] # "done" /\ caller' = caller
      BY <1>3, <2>1 DEF Claim, StuckReaderIsFreed
    <3> QED
      BY <2>1, <3>1
  <2>2. CASE d # c \/ claim[c] # "PENDING"
    <3>1. /\ worker'[d] = worker[d] \/ worker'[d] = "returned"
          /\ claim'[d] = claim[d] /\ UNCHANGED <<caller, writtenTo>>
      BY <1>0, <1>3, <2>2 DEF Claim, Return
    <3> QED
      BY <3>1, OtherCallsAreFreed
  <2> QED
    BY <2>1, <2>2
<1>4. ASSUME NEW c \in Calls, NEW d \in Calls, Write(c) PROVE Freed(d)'
  <2>1. UNCHANGED <<caller, claim, writtenTo, killing, embedded>>
    BY <1>4 DEF Write
  <2>2. CASE d = c /\ process[slot] = "alive"
    <3>1. /\ worker[c] = "claimed" /\ worker'[c] = "reading" /\ UNCHANGED process
      BY <1>0, <1>4, <2>2 DEF Write
    <3> QED
      BY <2>1, <2>2, <3>1 DEF StuckReaderIsFreed
  <2>3. CASE d # c \/ process[slot] # "alive"
    <3>1. worker'[d] = worker[d] \/ worker'[d] = "returned"
      BY <1>0, <1>4, <2>3 DEF Write, Return
    <3> QED
      BY <2>1, <3>1, OtherCallsAreFreed
  <2> QED
    BY <2>2, <2>3
<1>5. ASSUME NEW c \in Calls, NEW d \in Calls,
             ReadReply(c) \/ ReadEof(c) \/ EmbeddedRejects(c) \/ Panic(c)
      PROVE  Freed(d)'
  <2>1. /\ worker'[d] = worker[d] \/ worker'[d] \in {"returned", "panicked"}
        /\ UNCHANGED <<caller, claim, writtenTo>>
    BY <1>0, <1>5 DEF ReadReply, ReadEof, EmbeddedRejects, Panic, Return
  <2> QED
    BY <2>1, OtherCallsAreFreed
<1>6. ASSUME NEW c \in Calls, NEW d \in Calls, Resolve(c) PROVE Freed(d)'
  <2>1. CASE d = c
    BY <1>6, <2>1 DEF Resolve
  <2>2. CASE d # c
    <3>1. caller'[d] = caller[d] /\ UNCHANGED <<worker, claim, writtenTo>>
      BY <1>0, <1>6, <2>2 DEF Resolve
    <3> QED
      BY <3>1, OtherCallsAreFreed
  <2> QED
    BY <2>1, <2>2
<1>7. ASSUME NEW c \in Calls, NEW d \in Calls, Timeout(c) PROVE Freed(d)'
  <2>1. (caller'[d] = "done" => caller[d] = "done") /\ UNCHANGED <<worker, claim, writtenTo>>
    BY <1>0, <1>7 DEF Timeout
  <2> QED
    BY <2>1, OtherCallsAreFreed
<1>8. ASSUME NEW c \in Calls, NEW d \in Calls, Abandon(c) PROVE Freed(d)'
  <2>1. UNCHANGED <<worker, writtenTo, process, embedded>>
    BY <1>8 DEF Abandon
  <2>2. CASE d = c
    <3>1. worker[c] \in {"claimed", "reading"} => claim[c] = "STARTED" /\ writtenTo[c] \in Processes
      BY <1>0 DEF ClaimInv, PipeInv
    <3>2. claim'[c] # "PENDING"
      BY <1>0, <1>8 DEF Abandon
    <3>3. worker[c] \in {"claimed", "reading"} => writtenTo[c] \in killing'
      BY <1>8, <3>1 DEF Abandon
    <3> QED
      BY <2>1, <2>2, <3>2, <3>3
  <2>3. CASE d # c
    <3>1. caller'[d] = caller[d] /\ claim'[d] = claim[d]
      BY <1>0, <1>8, <2>3 DEF Abandon
    <3> QED
      BY <2>1, <3>1, OtherCallsAreFreed
  <2> QED
    BY <2>2, <2>3
<1>9. ASSUME NEW d \in Calls,
             \/ \E c \in Calls : Handle(c) \/ Reply(c)
             \/ \E p \in Processes : Terminate(p) \/ Exit(p)
             \/ UNCHANGED vars
      PROVE  Freed(d)'
  <2>1. UNCHANGED <<caller, worker, claim, writtenTo>>
    BY <1>9 DEF Handle, Reply, Terminate, Exit, vars
  <2> QED
    BY <2>1, OtherCallsAreFreed
<1>10. ASSUME NEW d \in Calls PROVE Freed(d)'
  BY <1>1, <1>2, <1>3, <1>4, <1>5, <1>6, <1>7, <1>8, <1>9 DEF Next, WorkerStep
<1> QED
  BY <1>10 DEF StuckReaderIsFreed

(* A Python that hangs holds the bridge no longer than its caller waits:    *)
(* whoever gives up has its process killed, or wins the claim before the    *)
(* worker (call_bridge, terminate). This is what NobodyWaitsForever needs   *)
(* of the states.                                                           *)
THEOREM TheBridgeIsFreed == Spec => []StuckReaderIsFreed
<1>1. Init => StuckReaderIsFreed
  BY DEF Init, StuckReaderIsFreed
<1> QED
  BY <1>1, InitInv, StepInv, FreedStep, PTL DEF Spec

-----------------------------------------------------------------------------
(* Before any call, nothing is delivered and nobody was told anything.     *)
LEMMA PromiseInit == Init => Promise!Init
  BY DEF Init, Promise!Init, DeliveredCalls, ToldOutcome, Told

(* Only the process taking a request delivers, only a caller's own end     *)
(* tells an outcome: every step is a step of Delivery or changes nothing   *)
(* it can see.                                                             *)
LEMMA PromiseStep ==
    IInv /\ [Next]_vars => [Promise!Next]_<<DeliveredCalls, ToldOutcome>>
<1> USE BridgeCallAssumption
<1> SUFFICES ASSUME IInv, [Next]_vars
             PROVE [Promise!Next]_<<DeliveredCalls, ToldOutcome>>
  OBVIOUS
<1>0. TypeOK /\ ClaimInv
  BY DEF IInv
<1>a. ASSUME result' = result PROVE ToldOutcome' = ToldOutcome
  BY <1>a DEF ToldOutcome
<1>b. ASSUME stage' = stage PROVE DeliveredCalls' = DeliveredCalls
  BY <1>b DEF DeliveredCalls
<1>1. ASSUME NEW c \in Calls, Handle(c)
      PROVE Promise!Deliver(c)
  <2>1. c \notin DeliveredCalls /\ DeliveredCalls' = DeliveredCalls \cup {c}
    BY <1>0, <1>1 DEF Handle, DeliveredCalls, TypeOK
  <2>2. result[c] \notin {"bridge_busy", "backend_unavailable"}
    BY <1>0, <1>1 DEF Handle, ClaimInv
  <2>3. ToldOutcome[c] # "not_sent"
    BY <1>0, <2>2 DEF ToldOutcome, Told, TypeOK, Codes
  <2> QED
    BY <1>a, <1>1, <2>1, <2>3 DEF Handle, Promise!Deliver
<1>2. ASSUME NEW c \in Calls, NEW code \in Codes, result[c] = "none", stage' = stage,
             result' = [result EXCEPT ![c] = code],
             code = "answered" => c \in DeliveredCalls,
             code \in {"bridge_busy", "backend_unavailable"} => c \notin DeliveredCalls
      PROVE \E o \in Promise!Outcomes \ {"none"} : Promise!Tell(c, o)
  <2>1. Told(code) \in Promise!Outcomes \ {"none"}
    BY <1>2 DEF Codes, Promise!Outcomes, Told
  <2>2. ToldOutcome[c] = "none"
    BY <1>2 DEF ToldOutcome, Told
  <2>3. ToldOutcome' = [ToldOutcome EXCEPT ![c] = Told(code)]
    BY <1>0, <1>2 DEF ToldOutcome, TypeOK
  <2>4. /\ Told(code) = "answered" => code = "answered"
        /\ Told(code) = "not_sent" => code \in {"bridge_busy", "backend_unavailable"}
    BY <1>2 DEF Codes, Told
  <2>5. Promise!Tell(c, Told(code))
    BY <1>b, <1>2, <2>2, <2>3, <2>4 DEF Promise!Tell
  <2> QED
    BY <2>1, <2>5
<1>3. ASSUME NEW c \in Calls, Resolve(c)
      PROVE \E o \in Promise!Outcomes \ {"none"} : Promise!Tell(c, o)
  <2>1. returned[c] \in Codes /\ result[c] = "none"
    BY <1>0, <1>3 DEF Resolve, ClaimInv, TypeOK
  <2>2. returned[c] = "answered" => c \in DeliveredCalls
    BY <1>0 DEF ClaimInv, DeliveredCalls
  <2>3. returned[c] \in {"bridge_busy", "backend_unavailable"} => c \notin DeliveredCalls
    BY <1>0 DEF ClaimInv, DeliveredCalls
  <2> QED
    BY <1>2, <1>3, <2>1, <2>2, <2>3 DEF Resolve
<1>4. ASSUME NEW c \in Calls, Abandon(c)
      PROVE \E o \in Promise!Outcomes \ {"none"} : Promise!Tell(c, o)
  <2>1. result[c] = "none" /\ stage' = stage
    BY <1>0, <1>4 DEF Abandon, ClaimInv
  <2>2. CASE claim[c] = "PENDING"
    <3>1. c \notin DeliveredCalls
      BY <1>0, <2>2 DEF ClaimInv, DeliveredCalls
    <3>2. result' = [result EXCEPT ![c] = "bridge_busy"]
      BY <1>4, <2>2 DEF Abandon
    <3> QED
      BY <1>2, <2>1, <3>1, <3>2 DEF Codes
  <2>3. CASE claim[c] # "PENDING"
    <3>1. result' = [result EXCEPT ![c] = "bridge_timeout"]
      BY <1>4, <2>3 DEF Abandon
    <3> QED
      BY <1>2, <2>1, <3>1 DEF Codes
  <2> QED
    BY <2>2, <2>3
<1>5. ASSUME NEW c \in Calls, Write(c) \/ Reply(c) \/ ReadReply(c)
      PROVE DeliveredCalls' = DeliveredCalls
  <2>1. ASSUME Write(c) PROVE DeliveredCalls' = DeliveredCalls
    BY <1>0, <2>1 DEF Write, ClaimInv, TypeOK, DeliveredCalls
  <2>2. ASSUME Reply(c) PROVE DeliveredCalls' = DeliveredCalls
    BY <1>0, <2>2 DEF Reply, TypeOK, DeliveredCalls
  <2>3. ASSUME ReadReply(c) PROVE DeliveredCalls' = DeliveredCalls
    <3>1. PICK d \in Calls : stage[d] = "replied" /\ stage' = [stage EXCEPT ![d] = "read"]
      BY <2>3 DEF ReadReply
    <3> QED
      BY <1>0, <3>1 DEF TypeOK, DeliveredCalls
  <2> QED
    BY <1>5, <2>1, <2>2, <2>3
<1>6. ASSUME NEW c \in Calls, Write(c) \/ Reply(c) \/ ReadReply(c)
      PROVE UNCHANGED <<DeliveredCalls, ToldOutcome>>
  BY <1>5, <1>6, <1>a DEF Write, Reply, ReadReply
<1>7. ASSUME NEW c \in Calls,
             \/ Call(c) \/ Lock(c) \/ Recover(c) \/ UseBridge(c) \/ Claim(c)
             \/ EmbeddedRejects(c) \/ ReadEof(c) \/ Panic(c) \/ Timeout(c)
      PROVE UNCHANGED <<DeliveredCalls, ToldOutcome>>
  BY <1>7, <1>a, <1>b DEF Call, Lock, Recover, UseBridge, Claim, EmbeddedRejects,
     ReadEof, Panic, Timeout
<1>8. ASSUME NEW p \in Processes, Terminate(p) \/ Exit(p)
      PROVE UNCHANGED <<DeliveredCalls, ToldOutcome>>
  BY <1>8, <1>a, <1>b DEF Terminate, Exit
<1>9. ASSUME UNCHANGED vars PROVE UNCHANGED <<DeliveredCalls, ToldOutcome>>
  BY <1>9, <1>a, <1>b DEF vars
<1> QED
  BY <1>1, <1>3, <1>4, <1>6, <1>7, <1>8, <1>9 DEF Next, WorkerStep, Promise!Next

(* call_bridge implements Delivery: through panics, kills, timeouts and    *)
(* restarts each call is delivered at most once and told the truth.        *)
THEOREM Implements == Spec => KeepsThePromise
  BY InitInv, StepInv, PromiseInit, PromiseStep, PTL DEF Spec, KeepsThePromise, Promise!Spec

-----------------------------------------------------------------------------
(* McpServer                                                               *)

(* The lock is held from the moment it is taken until the thread has ended: *)
(* a call in the shared layer, or returned from it and not yet answered,    *)
(* holds it. (The call that returned is what makes this inductive: it is    *)
(* the one that releases the lock.)                                         *)
LockHeld ==
    \A c \in ToolCalls : InService(c) \/ place[c] = "returned" => holder = c

McpInv ==
    /\ place \in [ToolCalls -> Places]
    /\ LockHeld

(* The server starts with its invariant.                                   *)
LEMMA McpInitInv == McpInit => McpInv
BY DEF McpInit, McpInv, LockHeld, InService, Places

(* Every step keeps the lock with the call that is inside.                  *)
LEMMA McpStepInv == McpInv /\ [McpNext]_mvars => McpInv'
<1> SUFFICES ASSUME McpInv, [McpNext]_mvars PROVE McpInv'
    OBVIOUS
<1> USE McpAssumption DEF McpInv, LockHeld, InService, Places
<1>1. CASE UNCHANGED mvars
    BY <1>1 DEF mvars
<1>2. ASSUME NEW c \in ToolCalls, Ask(c) PROVE McpInv'
    BY <1>2 DEF Ask, Move, Tools
<1>3. ASSUME NEW c \in ToolCalls, TakesLock(c) PROVE McpInv'
    BY <1>3 DEF TakesLock, Move
<1>4. ASSUME NEW c \in ToolCalls, Validate(c) PROVE McpInv'
    BY <1>4 DEF Validate, DispatchReturns, Move
<1>5. ASSUME NEW c \in ToolCalls, ReadTarget(c) PROVE McpInv'
    BY <1>5 DEF ReadTarget, DispatchReturns, Move
<1>6. ASSUME NEW c \in ToolCalls, SendOnce(c) PROVE McpInv'
    BY <1>6 DEF SendOnce, DispatchReturns, Move
<1>7. ASSUME NEW c \in ToolCalls, VerifySent(c) PROVE McpInv'
    BY <1>7 DEF VerifySent, DispatchReturns, Move
<1>8. ASSUME NEW c \in ToolCalls, Answers(c) PROVE McpInv'
    BY <1>8 DEF Answers, Move
<1>9. ASSUME NEW c \in ToolCalls, Cancel(c) PROVE McpInv'
    BY <1>9 DEF Cancel, Move
<1>. QED
    BY <1>1, <1>2, <1>3, <1>4, <1>5, <1>6, <1>7, <1>8, <1>9 DEF McpNext, Runs

(* Whatever the clients ask and cancel, two tool calls are never inside     *)
(* the shared layer, and the one that is holds the lock                     *)
(* (mcp_server.py, ControlTvTools.call).                                    *)
THEOREM SingleFlight == McpSpec => []McpIsSingleFlight
<1>1. McpInv => McpIsSingleFlight
    BY DEF McpInv, LockHeld, McpIsSingleFlight
<1>. QED
    BY <1>1, McpInitInv, McpStepInv, PTL DEF McpSpec

-----------------------------------------------------------------------------
(* The lane holds each waiting call once, and no other.                     *)
LaneInv ==
    /\ \A i \in DOMAIN lane : place[lane[i]] = "waiting"
    /\ \A i, j \in DOMAIN lane : lane[i] = lane[j] => i = j

(* What a call's place says of its command and of what its client knows: a  *)
(* command has left only from its send on, a client holds an answer before  *)
(* the end only if it cancelled, and then an uncertain one.                 *)
KnownInv ==
    \A c \in ToolCalls :
        /\ place[c] \in {"new", "waiting", "dispatch", "target", "send"} => c \notin left
        /\ place[c] = "verify" => c \in left
        /\ c \in cancelled => place[c] \notin {"new", "waiting"}
        /\ told[c] # "none" => place[c] = "ended" \/ c \in cancelled
        /\ InService(c) \/ place[c] = "returned" => told[c] \in {"none", "uncertain"}

(* An error whose table says "not_sent" is raised before the command left.  *)
ResponseInv ==
    \A c \in ToolCalls :
        place[c] = "returned" /\ tool[c] \in CommandTools =>
            /\ response[c].code = "ok" => c \in left
            /\ c \in left =>
                 /\ response[c].delivery = "none"
                 /\ response[c].code \in {"ok", "timeout", "device_unavailable",
                                         "command_rejected", "internal_error"}

Responses == [code : ErrorCodes \cup {"none", "ok"}, delivery : {"none", "not_sent"}]

PromiseInv == McpTypeOK /\ LaneInv /\ KnownInv /\ ResponseInv

(* Before the first request nothing is promised.                           *)
LEMMA PromiseInitInv == McpInit => PromiseInv
BY DEF McpInit, PromiseInv, McpTypeOK, LaneInv, KnownInv, ResponseInv, InService, Places,
       NoResponse, ErrorCodes, Tools, CommandTools

(* The lane keeps its order when a call leaves it.                          *)
LEMMA LaneWithout ==
    ASSUME lane \in Seq(ToolCalls), NEW c \in ToolCalls,
           \A i, j \in DOMAIN lane : lane[i] = lane[j] => i = j
    PROVE  /\ Without(c) \in Seq(ToolCalls)
           /\ \A i \in DOMAIN Without(c) :
                \E k \in DOMAIN lane : Without(c)[i] = lane[k] /\ lane[k] # c
           /\ \A i, j \in DOMAIN Without(c) : Without(c)[i] = Without(c)[j] => i = j
<1>1. CASE \A i \in DOMAIN lane : lane[i] # c
    BY <1>1 DEF Without
<1>2. CASE \E i \in DOMAIN lane : lane[i] = c
    <2> DEFINE at == CHOOSE i \in DOMAIN lane : lane[i] = c
               rest == [i \in 1..(Len(lane) - 1) |-> IF i < at THEN lane[i] ELSE lane[i + 1]]
    <2>1. at \in DOMAIN lane /\ lane[at] = c
        BY <1>2
    <2>2. Without(c) = rest
        BY <1>2 DEF Without
    <2> HIDE DEF at
    <2>3. at \in 1..Len(lane) /\ Len(lane) \in Nat /\ DOMAIN lane = 1..Len(lane)
        BY <2>1
    <2>4. rest \in Seq(ToolCalls) /\ DOMAIN rest = 1..(Len(lane) - 1)
        BY <2>3
    <2>5. ASSUME NEW i \in 1..(Len(lane) - 1)
          PROVE  \E k \in DOMAIN lane : rest[i] = lane[k] /\ lane[k] # c
        BY <2>1, <2>3
    <2>6. ASSUME NEW i \in 1..(Len(lane) - 1), NEW j \in 1..(Len(lane) - 1), rest[i] = rest[j]
          PROVE  i = j
        BY <2>1, <2>3, <2>6
    <2> HIDE DEF rest
    <2> QED
        BY <2>2, <2>4, <2>5, <2>6
<1>. QED
    BY <1>1, <1>2

(* A response that agrees with what left is all that a return has to give.  *)
LEMMA ReturnKeepsResponses ==
    ASSUME PromiseInv, NEW c \in ToolCalls, NEW code \in ErrorCodes \cup {"ok"},
           NEW delivery \in {"none", "not_sent"}, DispatchReturns(c, code, delivery),
           tool' = tool, left' \in {left, left \cup {c}},
           tool[c] \in CommandTools =>
             /\ code = "ok" => c \in left'
             /\ c \in left' =>
                  /\ delivery = "none"
                  /\ code \in {"ok", "timeout", "device_unavailable", "command_rejected",
                               "internal_error"}
    PROVE  /\ ResponseInv'
           /\ response' \in [ToolCalls -> Responses]
<1>1. /\ response'[c] = [code |-> code, delivery |-> delivery]
      /\ \A d \in ToolCalls \ {c} : response'[d] = response[d] /\ place'[d] = place[d]
    BY DEF DispatchReturns, Move, PromiseInv, McpTypeOK
<1>2. response'[c].code = code /\ response'[c].delivery = delivery
    BY <1>1
<1>3. ASSUME NEW d \in ToolCalls, place'[d] = "returned", tool[d] \in CommandTools
      PROVE  /\ response'[d].code = "ok" => d \in left'
             /\ d \in left' =>
                  /\ response'[d].delivery = "none"
                  /\ response'[d].code \in {"ok", "timeout", "device_unavailable",
                                            "command_rejected", "internal_error"}
    <2>1. CASE d = c
        BY <1>2, <1>3, <2>1
    <2>2. CASE d # c
        BY <1>1, <1>3, <2>2 DEF PromiseInv, ResponseInv
    <2> QED
        BY <2>1, <2>2
<1>4. response' \in [ToolCalls -> Responses]
    BY DEF DispatchReturns, PromiseInv, McpTypeOK, Responses
<1> QED
    BY <1>3, <1>4 DEF ResponseInv

(* A move to any other place leaves the responses alone.                    *)
LEMMA MoveKeepsResponses ==
    ASSUME PromiseInv, NEW c \in ToolCalls, NEW p \in Places \ {"returned"}, Move(c, p),
           response' = response, tool' = tool, left' \in {left, left \cup {c}}
    PROVE  ResponseInv'
<1>1. \A d \in ToolCalls : place'[d] = "returned" => d # c /\ place[d] = "returned"
    BY DEF Move, PromiseInv, McpTypeOK
<1> QED
    BY <1>1 DEF PromiseInv, ResponseInv

(* Each action keeps the invariant, conjunct by conjunct.                   *)
LEMMA PromiseStepInv == PromiseInv /\ [McpNext]_mvars => PromiseInv'
<1> SUFFICES ASSUME PromiseInv, [McpNext]_mvars PROVE PromiseInv'
    OBVIOUS
<1> USE McpAssumption DEF PromiseInv, InService, Places
<1>1. CASE UNCHANGED mvars
    BY <1>1 DEF mvars, McpTypeOK, LaneInv, KnownInv, ResponseInv
<1>2. ASSUME NEW c \in ToolCalls, Ask(c) PROVE PromiseInv'
    <2>0. /\ \/ lane' = lane
             \/ place'[c] = "waiting" /\ lane' = Append(lane, c)
          /\ \A d \in ToolCalls \ {c} : place'[d] = place[d]
        BY <1>2 DEF Ask, Move, McpTypeOK
    <2>00. PICK t \in Tools :
              /\ tool' = [tool EXCEPT ![c] = t]
              /\ \/ /\ Move(c, "ended") /\ lane' = lane
                    /\ told' = [told EXCEPT ![c] = "not_sent"]
                 \/ Move(c, "waiting") /\ lane' = Append(lane, c) /\ told' = told
        BY <1>2 DEF Ask, CommandDelivery
    <2>a. UNCHANGED <<holder, cancelled, response, left>>
        BY <1>2 DEF Ask
    <2>b. lane' \in Seq(ToolCalls)
        BY <2>00 DEF McpTypeOK
    <2>1. McpTypeOK'
        BY <2>00, <2>a, <2>b DEF McpTypeOK, Move
    <2>2. LaneInv'
        <3>1. place[c] = "new" /\ \A i \in DOMAIN lane : lane[i] \in ToolCalls /\ lane[i] # c
            BY <1>2 DEF Ask, LaneInv, McpTypeOK
        <3>2. CASE lane' = lane
            BY <2>0, <3>1, <3>2 DEF LaneInv
        <3>3. CASE place'[c] = "waiting" /\ lane' = Append(lane, c)
            <4>1. /\ DOMAIN lane' = 1..(Len(lane) + 1) /\ DOMAIN lane = 1..Len(lane)
                  /\ Len(lane) \in Nat /\ lane'[Len(lane) + 1] = c
                  /\ \A i \in 1..Len(lane) : lane'[i] = lane[i]
                BY <3>3 DEF McpTypeOK
            <4> QED
                BY <2>0, <3>1, <3>3, <4>1 DEF LaneInv
        <3> QED
            BY <2>0, <3>2, <3>3
    <2>3. KnownInv'
        BY <1>2 DEF McpTypeOK, KnownInv, Ask, Move, Tools, CommandTools, CommandDelivery
    <2>4. ResponseInv'
        BY <1>2 DEF McpTypeOK, ResponseInv, Ask, Move
    <2> QED
        BY <2>1, <2>2, <2>3, <2>4
<1>3. ASSUME NEW c \in ToolCalls, TakesLock(c) PROVE PromiseInv'
    <2>0. /\ DOMAIN lane = 1..Len(lane) /\ Len(lane) \in Nat \ {0} /\ c = lane[1]
          /\ lane' \in Seq(ToolCalls) /\ DOMAIN lane' = 1..(Len(lane) - 1)
          /\ \A i \in DOMAIN lane' : lane'[i] = lane[i + 1]
        BY <1>3 DEF TakesLock, McpTypeOK
    <2>1. McpTypeOK'
        BY <2>0, <1>3 DEF McpTypeOK, LaneInv, TakesLock, Move
    <2>2. LaneInv'
        <3>1. \A d \in ToolCalls \ {c} : place'[d] = place[d]
            BY <1>3 DEF McpTypeOK, TakesLock, Move
        <3>2. ASSUME NEW i \in DOMAIN lane'
              PROVE  i + 1 \in DOMAIN lane /\ lane'[i] = lane[i + 1] /\ i + 1 # 1 /\ i \in Nat
            BY <2>0, <3>2
        <3>3. ASSUME NEW i \in DOMAIN lane' PROVE place'[lane'[i]] = "waiting"
            <4>1. lane[i + 1] # c
                BY <2>0, <3>2 DEF LaneInv
            <4>2. lane[i + 1] \in ToolCalls /\ place[lane[i + 1]] = "waiting"
                BY <3>2 DEF LaneInv, McpTypeOK
            <4> QED
                BY <3>1, <3>2, <4>1, <4>2
        <3>4. ASSUME NEW i \in DOMAIN lane', NEW j \in DOMAIN lane', lane'[i] = lane'[j]
              PROVE  i = j
            <4>1. i + 1 = j + 1
                BY <3>2, <3>4 DEF LaneInv
            <4> QED
                BY <3>2, <4>1
        <3> QED
            BY <3>3, <3>4 DEF LaneInv
    <2>3. KnownInv'
        BY <2>0, <1>3 DEF McpTypeOK, KnownInv, LaneInv, TakesLock, Move
    <2>4. ResponseInv'
        BY <2>0, <1>3 DEF McpTypeOK, ResponseInv, LaneInv, TakesLock, Move
    <2> QED
        BY <2>1, <2>2, <2>3, <2>4
<1>4. ASSUME NEW c \in ToolCalls, Validate(c) PROVE PromiseInv'
    <2>a. tool' = tool /\ left' = left /\ c \notin left
        BY <1>4 DEF Validate, KnownInv
    <2>b. ASSUME NEW code \in ErrorCodes \cup {"ok"}, DispatchReturns(c, code, "none"),
                 code = "ok" => tool[c] \notin CommandTools
          PROVE  ResponseInv' /\ response' \in [ToolCalls -> Responses]
        BY <2>b, <2>a, ReturnKeepsResponses
    <2>c. ASSUME NEW p \in Places \ {"returned"}, Move(c, p), response' = response
          PROVE  ResponseInv' /\ response' \in [ToolCalls -> Responses]
        BY <2>c, <2>a, MoveKeepsResponses DEF McpTypeOK, Responses
    <2>0. ResponseInv' /\ response' \in [ToolCalls -> Responses]
        BY <2>a, <2>b, <2>c, <1>4 DEF Validate, McpTypeOK, ErrorCodes, CommandTools
    <2>1. McpTypeOK'
        BY <2>0, <1>4 DEF McpTypeOK, Responses, Validate, DispatchReturns, Move
    <2>2. LaneInv'
        BY <1>4 DEF McpTypeOK, LaneInv, Validate, DispatchReturns, Move, CommandTools, ErrorCodes
    <2>3. KnownInv'
        BY <1>4 DEF McpTypeOK, KnownInv, Validate, DispatchReturns, Move, CommandTools, ErrorCodes
    <2>4. ResponseInv'
        BY <2>0
    <2> QED
        BY <2>1, <2>2, <2>3, <2>4
<1>5. ASSUME NEW c \in ToolCalls, ReadTarget(c) PROVE PromiseInv'
    <2>a. tool' = tool /\ left' = left /\ c \notin left
        BY <1>5 DEF ReadTarget, KnownInv
    <2>b. ASSUME NEW code \in ErrorCodes, NEW delivery \in {"none", "not_sent"},
                 DispatchReturns(c, code, delivery), code # "ok"
          PROVE  ResponseInv' /\ response' \in [ToolCalls -> Responses]
        BY <2>b, <2>a, ReturnKeepsResponses
    <2>c. ASSUME NEW p \in Places \ {"returned"}, Move(c, p), response' = response
          PROVE  ResponseInv' /\ response' \in [ToolCalls -> Responses]
        BY <2>c, <2>a, MoveKeepsResponses DEF McpTypeOK, Responses
    <2>0. ResponseInv' /\ response' \in [ToolCalls -> Responses]
        BY <2>a, <2>b, <2>c, <1>5 DEF ReadTarget, McpTypeOK, ErrorCodes, CommandTools
    <2>1. McpTypeOK'
        BY <2>0, <1>5 DEF McpTypeOK, Responses, ReadTarget, DispatchReturns, Move
    <2>2. LaneInv'
        BY <1>5 DEF McpTypeOK, LaneInv, ReadTarget, DispatchReturns, Move, ErrorCodes
    <2>3. KnownInv'
        BY <1>5 DEF McpTypeOK, KnownInv, ReadTarget, DispatchReturns, Move, ErrorCodes
    <2>4. ResponseInv'
        BY <2>0
    <2> QED
        BY <2>1, <2>2, <2>3, <2>4
<1>6. ASSUME NEW c \in ToolCalls, SendOnce(c) PROVE PromiseInv'
    <2>a. tool' = tool /\ left' \in {left, left \cup {c}} /\ c \notin left
        BY <1>6 DEF SendOnce, KnownInv
    <2>b. ASSUME NEW code \in ErrorCodes, code # "ok", DispatchReturns(c, code, "none"),
                 c \in left' => code \in {"timeout", "device_unavailable",
                                          "command_rejected", "internal_error"}
          PROVE  ResponseInv' /\ response' \in [ToolCalls -> Responses]
        BY <2>b, <2>a, ReturnKeepsResponses
    <2>c. ASSUME NEW p \in Places \ {"returned"}, Move(c, p), response' = response
          PROVE  ResponseInv' /\ response' \in [ToolCalls -> Responses]
        BY <2>c, <2>a, MoveKeepsResponses DEF McpTypeOK, Responses
    <2>0. ResponseInv' /\ response' \in [ToolCalls -> Responses]
        BY <2>a, <2>b, <2>c, <1>6 DEF SendOnce, McpTypeOK, ErrorCodes, CommandTools
    <2>1. McpTypeOK'
        BY <2>0, <1>6 DEF McpTypeOK, Responses, SendOnce, DispatchReturns, Move
    <2>2. LaneInv'
        BY <1>6 DEF McpTypeOK, LaneInv, SendOnce, DispatchReturns, Move, ErrorCodes
    <2>3. KnownInv'
        BY <1>6 DEF McpTypeOK, KnownInv, SendOnce, DispatchReturns, Move, ErrorCodes
    <2>4. ResponseInv'
        BY <2>0
    <2> QED
        BY <2>1, <2>2, <2>3, <2>4
<1>7. ASSUME NEW c \in ToolCalls, VerifySent(c) PROVE PromiseInv'
    <2>a. tool' = tool /\ left' = left /\ c \in left
        BY <1>7 DEF VerifySent, KnownInv
    <2>b. ASSUME NEW code \in {"ok", "internal_error"}, DispatchReturns(c, code, "none")
          PROVE  ResponseInv' /\ response' \in [ToolCalls -> Responses]
        BY <2>b, <2>a, ReturnKeepsResponses DEF ErrorCodes
    <2>0. ResponseInv' /\ response' \in [ToolCalls -> Responses]
        BY <2>a, <2>b, <1>7 DEF VerifySent, McpTypeOK, ErrorCodes, CommandTools
    <2>1. McpTypeOK'
        BY <2>0, <1>7 DEF McpTypeOK, Responses, VerifySent, DispatchReturns, Move
    <2>2. LaneInv'
        BY <1>7 DEF McpTypeOK, LaneInv, VerifySent, DispatchReturns, Move, ErrorCodes
    <2>3. KnownInv'
        BY <1>7 DEF McpTypeOK, KnownInv, VerifySent, DispatchReturns, Move, ErrorCodes
    <2>4. ResponseInv'
        BY <2>0
    <2> QED
        BY <2>1, <2>2, <2>3, <2>4
<1>8. ASSUME NEW c \in ToolCalls, Answers(c) PROVE PromiseInv'
    <2>1. McpTypeOK'
        <3>1. Presented(response[c]) \in {"answered", "not_sent", "uncertain"}
            BY DEF McpTypeOK, Presented, PresentCommand, PresentError, CommandDelivery
        <3>2. told' \in [ToolCalls -> {"none", "answered", "not_sent", "uncertain"}]
            BY <1>8, <3>1 DEF Answers, McpTypeOK, CommandDelivery
        <3>3. NoResponse \in Responses
            BY DEF NoResponse, Responses
        <3> QED
            BY <1>8, <3>2, <3>3 DEF Answers, McpTypeOK, Responses, Move
    <2>2. LaneInv'
        BY <1>8 DEF McpTypeOK, LaneInv, Answers, Move, Presented, PresentCommand, PresentError, CommandDelivery, NoResponse
    <2>3. KnownInv'
        BY <1>8 DEF McpTypeOK, KnownInv, Answers, Move, Presented, PresentCommand, PresentError, CommandDelivery, NoResponse
    <2>4. ResponseInv'
        BY <1>8 DEF McpTypeOK, ResponseInv, Answers, Move, Presented, PresentCommand, PresentError, CommandDelivery, NoResponse
    <2> QED
        BY <2>1, <2>2, <2>3, <2>4
<1>9. ASSUME NEW c \in ToolCalls, Cancel(c) PROVE PromiseInv'
    <2>0. /\ Without(c) \in Seq(ToolCalls)
          /\ \A i \in DOMAIN Without(c) :
                \E k \in DOMAIN lane : Without(c)[i] = lane[k] /\ lane[k] # c
          /\ \A i, j \in DOMAIN Without(c) : Without(c)[i] = Without(c)[j] => i = j
        BY LaneWithout DEF McpTypeOK, LaneInv
    <2>1. McpTypeOK'
        BY <2>0, <1>9 DEF McpTypeOK, Cancel, Move
    <2>2. LaneInv'
        BY <2>0, <1>9 DEF McpTypeOK, LaneInv, Cancel, Move
    <2>3. KnownInv'
        BY <2>0, <1>9 DEF McpTypeOK, KnownInv, Cancel, Move
    <2>4. ResponseInv'
        BY <2>0, <1>9 DEF McpTypeOK, ResponseInv, Cancel, Move
    <2> QED
        BY <2>1, <2>2, <2>3, <2>4
<1>. QED
    BY <1>1, <1>2, <1>3, <1>4, <1>5, <1>6, <1>7, <1>8, <1>9 DEF McpNext, Runs

-----------------------------------------------------------------------------
(* The initial states are those of what the server promises.               *)
LEMMA McpPromiseInit == McpInit => McpPromise!Init
BY DEF McpInit, McpPromise!Init, CommandTold, CommandTools

(* Only SendOnce delivers; only Answers and Cancel tell the client of a     *)
(* command what became of it.                                               *)
LEMMA McpPromiseStep ==
    PromiseInv /\ [McpNext]_mvars => [McpPromise!Next]_<<left, CommandTold>>
<1> SUFFICES ASSUME PromiseInv, [McpNext]_mvars
             PROVE  [McpPromise!Next]_<<left, CommandTold>>
    OBVIOUS
<1> USE DEF PromiseInv
<1>a. ASSUME tool' = tool, told' = told PROVE CommandTold' = CommandTold
    BY <1>a DEF CommandTold
<1>b. ASSUME NEW c \in ToolCalls, NEW o \in {"answered", "not_sent", "uncertain"},
             tool' = tool, left' = left, told' = [told EXCEPT ![c] = o],
             tool[c] \in CommandTools =>
                /\ told[c] = "none"
                /\ o = "answered" => c \in left
                /\ o = "not_sent" => c \notin left
      PROVE  [McpPromise!Next]_<<left, CommandTold>>
    <2>1. CASE tool[c] \in CommandTools
        <3>1. CommandTold[c] = "none" /\ CommandTold' = [CommandTold EXCEPT ![c] = o]
            BY <1>b, <2>1 DEF CommandTold, McpTypeOK
        <3>2. McpPromise!Tell(c, o)
            BY <1>b, <2>1, <3>1 DEF McpPromise!Tell
        <3> QED
            BY <3>2 DEF McpPromise!Next, McpPromise!Outcomes
    <2>2. CASE tool[c] \notin CommandTools
        BY <1>b, <2>2 DEF CommandTold, McpTypeOK
    <2> QED
        BY <2>1, <2>2
<1>1. CASE UNCHANGED mvars
    BY <1>1, <1>a DEF mvars
<1>2. ASSUME NEW c \in ToolCalls, Ask(c) PROVE UNCHANGED <<left, CommandTold>>
    <2>1. told[c] = "none" /\ left' = left
        BY <1>2 DEF Ask, KnownInv
    <2>2. \A d \in ToolCalls \ {c} : tool'[d] = tool[d] /\ told'[d] = told[d]
        BY <1>2 DEF Ask, McpTypeOK
    <2>3. tool'[c] \in CommandTools => told'[c] = "none"
        BY <1>2, <2>1 DEF Ask, McpTypeOK, CommandTools
    <2> QED
        BY <2>1, <2>2, <2>3 DEF CommandTold
<1>3. ASSUME NEW c \in ToolCalls,
             TakesLock(c) \/ Validate(c) \/ ReadTarget(c) \/ VerifySent(c)
      PROVE  UNCHANGED <<left, CommandTold>>
    BY <1>3, <1>a DEF TakesLock, Validate, ReadTarget, VerifySent
<1>4. ASSUME NEW c \in ToolCalls, SendOnce(c) PROVE [McpPromise!Next]_<<left, CommandTold>>
    <2>1. CommandTold' = CommandTold /\ c \notin left /\ left' \in {left, left \cup {c}}
        BY <1>4, <1>a DEF SendOnce, KnownInv
    <2>2. CommandTold[c] # "not_sent"
        BY <1>4 DEF SendOnce, KnownInv, InService, CommandTold
    <2>3. left' = left \cup {c} => McpPromise!Deliver(c)
        BY <2>1, <2>2 DEF McpPromise!Deliver
    <2> QED
        BY <2>1, <2>3 DEF McpPromise!Next
<1>5. ASSUME NEW c \in ToolCalls, Answers(c) PROVE [McpPromise!Next]_<<left, CommandTold>>
    <2>1. tool' = tool /\ left' = left
        BY <1>5 DEF Answers
    <2>2. CASE c \in cancelled
        BY <1>5, <1>a, <2>1, <2>2 DEF Answers
    <2>3. CASE c \notin cancelled
        <3>1. PICK o \in {Presented(response[c]), CommandDelivery("internal_error")} :
                 told' = [told EXCEPT ![c] = o]
            BY <1>5, <2>3 DEF Answers
        <3>2. o \in {"answered", "not_sent", "uncertain"}
            BY DEF McpTypeOK, Presented, PresentCommand, PresentError, CommandDelivery
        <3>3. told[c] = "none" /\ place[c] = "returned"
            BY <1>5, <2>3 DEF Answers, KnownInv
        <3>4. ASSUME tool[c] \in CommandTools
              PROVE  /\ o = "answered" => c \in left
                     /\ o = "not_sent" => c \notin left
            <4>1. /\ response[c].code = "ok" => c \in left
                  /\ c \in left =>
                       /\ response[c].delivery = "none"
                       /\ response[c].code \in {"ok", "timeout", "device_unavailable",
                                               "command_rejected", "internal_error"}
                BY <3>3, <3>4 DEF ResponseInv
            <4>2. response[c].delivery \in {"none", "not_sent"}
                BY DEF McpTypeOK
            <4> QED
                BY <4>1, <4>2 DEF Presented, PresentCommand, PresentError, CommandDelivery
        <3> QED
            BY <1>b, <2>1, <3>1, <3>2, <3>3, <3>4
    <2> QED
        BY <2>2, <2>3
<1>6. ASSUME NEW c \in ToolCalls, Cancel(c) PROVE [McpPromise!Next]_<<left, CommandTold>>
    <2>1. /\ tool' = tool /\ left' = left /\ told[c] = "none"
          /\ place[c] = "waiting" => c \notin left
        BY <1>6 DEF Cancel, KnownInv
    <2>2. told' = [told EXCEPT ![c] = IF place[c] = "waiting" THEN "not_sent" ELSE "uncertain"]
        BY <1>6 DEF Cancel
    <2> QED
        BY <1>b, <2>1, <2>2
<1>. QED
    BY <1>1, <1>2, <1>3, <1>4, <1>5, <1>6 DEF McpNext, Runs

(* Every behaviour of the MCP server is one of Delivery: a command is sent  *)
(* at most once, and "Nothing was sent to the TV" stays true, although      *)
(* clients cancel at any moment (mcp_server.py, present_error).             *)
THEOREM McpImplements == McpSpec => McpKeepsThePromise
BY PromiseInitInv, PromiseStepInv, McpPromiseInit, McpPromiseStep, PTL
   DEF McpSpec, McpKeepsThePromise, McpPromise!Spec

-----------------------------------------------------------------------------
(* Nobody is stranded in the lane: a call that waits has its place in it,   *)
(* and the lock is free or is held by a call that is at work, which gives   *)
(* it back.                                                                 *)
NobodyIsStranded ==
    /\ \A c \in ToolCalls : place[c] = "waiting" => \E i \in DOMAIN lane : lane[i] = c
    /\ holder # "nobody" => InService(holder) \/ place[holder] = "returned"

(* Only c leaves the lane with c.                                           *)
LEMMA OthersStayInLane ==
    ASSUME lane \in Seq(ToolCalls), NEW c \in ToolCalls, NEW d \in ToolCalls, d # c,
           NEW k \in DOMAIN lane, lane[k] = d
    PROVE  \E i \in DOMAIN Without(c) : Without(c)[i] = d
<1>1. CASE ~\E i \in DOMAIN lane : lane[i] = c
    BY <1>1 DEF Without
<1>2. CASE \E i \in DOMAIN lane : lane[i] = c
    <2> DEFINE at == CHOOSE i \in DOMAIN lane : lane[i] = c
               rest == [i \in 1..(Len(lane) - 1) |-> IF i < at THEN lane[i] ELSE lane[i + 1]]
    <2>1. at \in DOMAIN lane /\ lane[at] = c
        BY <1>2
    <2>2. Without(c) = rest
        BY <1>2 DEF Without
    <2> HIDE DEF at
    <2>3. at \in 1..Len(lane) /\ k \in 1..Len(lane) /\ Len(lane) \in Nat /\ k # at
        BY <2>1
    <2>4. CASE k < at
        <3>1. k \in DOMAIN rest /\ rest[k] = d
            BY <2>3, <2>4
        <3> QED
            BY <2>2, <3>1
    <2>5. CASE ~(k < at)
        <3>1. k - 1 \in DOMAIN rest /\ rest[k - 1] = d
            BY <2>3, <2>5
        <3> QED
            BY <2>2, <3>1
    <2> QED
        BY <2>4, <2>5
<1> QED
    BY <1>1, <1>2

(* A call inside the shared layer moves on, or comes back from it.          *)
LEMMA MovesInside ==
    ASSUME PromiseInv, McpInv, NobodyIsStranded, NEW c \in ToolCalls, InService(c),
           NEW p \in {"target", "send", "verify", "returned"}, Move(c, p),
           UNCHANGED <<lane, holder>>
    PROVE  NobodyIsStranded'
<1>1. /\ place'[c] = p /\ \A d \in ToolCalls \ {c} : place'[d] = place[d]
      /\ holder = c
    BY DEF Move, PromiseInv, McpTypeOK, McpInv, LockHeld
<1> QED
    BY <1>1 DEF NobodyIsStranded, InService

(* Every step keeps the lane whole and the lock with a call at work.        *)
LEMMA StrandedStep ==
    PromiseInv /\ McpInv /\ NobodyIsStranded /\ [McpNext]_mvars => NobodyIsStranded'
<1> SUFFICES ASSUME PromiseInv, McpInv, NobodyIsStranded, [McpNext]_mvars
             PROVE  NobodyIsStranded'
    OBVIOUS
<1> USE McpAssumption
<1>0. /\ place \in [ToolCalls -> Places] /\ lane \in Seq(ToolCalls)
      /\ holder \in ToolCalls \cup {"nobody"}
      /\ DOMAIN lane = 1..Len(lane) /\ Len(lane) \in Nat
    BY DEF PromiseInv, McpTypeOK
<1>1. CASE UNCHANGED mvars
    BY <1>1 DEF mvars, NobodyIsStranded, InService
<1>2. ASSUME NEW c \in ToolCalls, Ask(c) PROVE NobodyIsStranded'
    <2>1. /\ place[c] = "new" /\ holder' = holder
          /\ \/ place'[c] = "ended" /\ lane' = lane
             \/ place'[c] = "waiting" /\ lane' = Append(lane, c)
          /\ \A d \in ToolCalls \ {c} : place'[d] = place[d]
        BY <1>0, <1>2 DEF Ask, Move
    <2>2. ASSUME NEW d \in ToolCalls, place'[d] = "waiting"
          PROVE  \E i \in DOMAIN lane' : lane'[i] = d
        <3>1. CASE d = c
            <4>1. lane' = Append(lane, c)
                BY <2>1, <2>2, <3>1
            <4>2. Len(lane) + 1 \in DOMAIN lane' /\ lane'[Len(lane) + 1] = c
                BY <1>0, <4>1
            <4> QED
                BY <3>1, <4>2
        <3>2. CASE d # c
            <4>1. PICK i \in DOMAIN lane : lane[i] = d
                BY <2>1, <2>2, <3>2 DEF NobodyIsStranded
            <4>2. i \in DOMAIN lane' /\ lane'[i] = d
                BY <1>0, <2>1, <4>1
            <4> QED
                BY <4>2
        <3> QED
            BY <3>1, <3>2
    <2>3. holder' # "nobody" => holder' # c
        BY <2>1 DEF NobodyIsStranded, InService
    <2> QED
        BY <1>0, <2>1, <2>2, <2>3 DEF NobodyIsStranded, InService
<1>3. ASSUME NEW c \in ToolCalls, TakesLock(c) PROVE NobodyIsStranded'
    <2>1. /\ lane # <<>> /\ c = lane[1] /\ lane' = Tail(lane) /\ holder' = c
          /\ place'[c] = "dispatch" /\ \A d \in ToolCalls \ {c} : place'[d] = place[d]
        BY <1>0, <1>3 DEF TakesLock, Move
    <2>2. ASSUME NEW d \in ToolCalls, place'[d] = "waiting"
          PROVE  \E i \in DOMAIN lane' : lane'[i] = d
        <3>1. d # c
            BY <2>1, <2>2
        <3>2. PICK i \in DOMAIN lane : lane[i] = d
            BY <2>1, <2>2, <3>1 DEF NobodyIsStranded
        <3>3. i # 1
            BY <2>1, <3>1, <3>2
        <3>4. i - 1 \in DOMAIN lane' /\ lane'[i - 1] = d
            BY <1>0, <2>1, <3>2, <3>3
        <3> QED
            BY <3>4
    <2> QED
        BY <2>1, <2>2 DEF NobodyIsStranded, InService
<1>4. ASSUME NEW c \in ToolCalls, Validate(c) \/ ReadTarget(c) \/ SendOnce(c) \/ VerifySent(c)
      PROVE  NobodyIsStranded'
    <2>1. /\ InService(c) /\ UNCHANGED <<lane, holder>>
          /\ \E p \in {"target", "send", "verify", "returned"} : Move(c, p)
        BY <1>4 DEF Validate, ReadTarget, SendOnce, VerifySent, DispatchReturns, InService
    <2> QED
        BY <2>1, MovesInside
<1>5. ASSUME NEW c \in ToolCalls, Answers(c) PROVE NobodyIsStranded'
    <2>1. holder = c
        BY <1>5 DEF Answers, McpInv, LockHeld
    <2>2. /\ lane' = lane /\ holder' = "nobody" /\ place'[c] = "ended"
          /\ \A d \in ToolCalls \ {c} : place'[d] = place[d]
        BY <1>0, <1>5, <2>1 DEF Answers, Move
    <2> QED
        BY <2>2 DEF NobodyIsStranded
<1>6. ASSUME NEW c \in ToolCalls, Cancel(c) PROVE NobodyIsStranded'
    <2>1. /\ lane' = Without(c) /\ holder' = holder
          /\ place'[c] = (IF place[c] = "waiting" THEN "ended" ELSE place[c])
          /\ \A d \in ToolCalls \ {c} : place'[d] = place[d]
        BY <1>0, <1>6 DEF Cancel, Move
    <2>3. ASSUME NEW d \in ToolCalls, place'[d] = "waiting"
          PROVE  \E i \in DOMAIN lane' : lane'[i] = d
        <3>1. d # c /\ place[d] = "waiting"
            BY <2>1, <2>3
        <3>2. PICK k \in DOMAIN lane : lane[k] = d
            BY <3>1 DEF NobodyIsStranded
        <3> QED
            BY <1>0, <2>1, <3>1, <3>2, OthersStayInLane
    <2>4. ASSUME holder # "nobody" PROVE place'[holder] = place[holder]
        BY <1>0, <2>1, <2>4 DEF NobodyIsStranded, InService
    <2> QED
        BY <2>1, <2>3, <2>4 DEF NobodyIsStranded, InService
<1> QED
    BY <1>1, <1>2, <1>3, <1>4, <1>5, <1>6 DEF McpNext, Runs

(* However many calls are cancelled while they wait or run, none of the     *)
(* others is left in the lane behind a lock that nobody will give back      *)
(* (mcp_server.py, ControlTvTools.call): what EveryToolCallEnds needs of    *)
(* the states.                                                              *)
THEOREM LaneKeepsMoving == McpSpec => []NobodyIsStranded
<1>1. McpInit => NobodyIsStranded
    BY DEF McpInit, NobodyIsStranded
<1>2. PromiseInv /\ McpInv /\ NobodyIsStranded /\ [McpNext]_mvars => NobodyIsStranded'
    BY StrandedStep
<1> QED
    BY <1>1, <1>2, McpInitInv, McpStepInv, PromiseInitInv, PromiseStepInv, PTL DEF McpSpec

-----------------------------------------------------------------------------
(* The traces of the commands, and the gate that holds a confirmation        *)

(* The events of a trace, as they are recorded and as they are filed.       *)
TraceNames == Terminal \cup
    {"trace_incomplete", "command_prepared", "pre_status", "command_failed", "send_attempt",
     "transport_response", "confirmation_held", "confirmation_released",
     "confirmation_hold_timeout", "confirmation_status", "confirmation_session_changed",
     "confirmation_read_failed", "observer_hold_seen", "observer_session_already_changed",
     "independent_session_change", "observer_timeout", "observer_release_sent"}

TraceEvents == [event : TraceNames, session : 0..(MaxSwitches + 1), token : 0..1]

Entries == [index : Nat, e : TraceEvents]

Traces == [file : [Commands -> Seq(Entries)], next : [Commands -> Nat],
           incomplete : SUBSET Commands, marked : BOOLEAN]

TraceTypes ==
    /\ session \in Sessions
    /\ cmd \in [r : 0..MaxCommands, old : 0..(MaxSwitches + 1), todo : Seq(TraceEvents),
                at : {"idle", "capture", "send", "sent", "hold", "held", "verify"}]
    /\ obs \in [r : 0..MaxCommands, old : 0..(MaxSwitches + 1), todo : Seq(TraceEvents),
                at : {"watch", "first", "change", "release", "done"}]
    /\ hold \in [held : [r : 0..MaxCommands, old : 0..(MaxSwitches + 1)],
                 release : [Commands -> 0..1]]
    /\ trace \in [TraceClients -> Traces]
    /\ losses \in 0..MaxLosses /\ lost \subseteq (TraceClients \X Commands)
    /\ sends \in [Commands -> 0..1] /\ changed \subseteq Commands

Given(r) == trace["remote"].next[r]

Log(r) == trace["remote"].file[r]

(* Where the command at work stands: an outcome is the last that is recorded of it, and *)
(* from its first event on its index is taken.                                          *)
AtWork ==
    /\ cmd.r = 0 => cmd = NoTraced
    /\ \A i \in DOMAIN cmd.todo :
          /\ cmd.todo[i].event \in Terminal => cmd.at = "idle" /\ i = Len(cmd.todo)
          /\ cmd.todo[i].event = "confirmation_released" => cmd.r \in changed
    /\ cmd.r # 0 /\ (cmd.at # "capture" \/ cmd.todo = <<>>) => Given(cmd.r) > 0
    /\ cmd.at \in {"hold", "held", "verify"} => sends[cmd.r] = 1

(* A file with an index out of place, and one without an outcome.                       *)
Gap(file) == \E i \in DOMAIN file : file[i].index # i - 1

NoOutcome(file) == \A i \in DOMAIN file : file[i].e.event \notin Terminal

(* The file of one command: an event that is lost leaves its index behind, so what is   *)
(* written after it is out of place, and nothing is written after an outcome.           *)
LogIs(r) ==
    /\ Len(Log(r)) <= Given(r)
    /\ <<"remote", r>> \in lost => Len(Log(r)) < Given(r)
    /\ cmd.r = r => NoOutcome(Log(r))
    /\ <<"remote", r>> \in lost => Gap(Log(r)) \/ NoOutcome(Log(r))
    /\ \A i \in DOMAIN Log(r) :
          Log(r)[i].e.event = "confirmation_released" => r \in changed

(* The gate: the observer and its token belong to a command that was held on the        *)
(* session it captured, and while it is held the token says that the session changed.   *)
Gate ==
    /\ hold.held.r # 0 => cmd.r = hold.held.r /\ cmd.at = "held" /\ cmd.old = hold.held.old
    /\ obs.at = "watch" <=> obs.r = 0
    /\ obs.r = 0 => obs.todo = <<>>
    /\ obs.r # 0 =>
          /\ Given(obs.r) > 0
          /\ cmd.r = obs.r => cmd.at \in {"held", "verify", "idle"}
          /\ cmd.r = obs.r /\ cmd.at = "held" =>
                /\ obs.old = cmd.old
                /\ obs.at = "change" => session = obs.old \/ cmd.r \in changed
                /\ obs.at = "release" => cmd.r \in changed
    /\ \A r \in Commands : hold.release[r] # 0 =>
          /\ Given(r) > 0
          /\ cmd.r = r => cmd.at \in {"held", "verify", "idle"}
          /\ cmd.r = r /\ cmd.at = "held" => r \in changed

EvidenceInv == TraceTypes /\ AtWork /\ (\A r \in Commands : LogIs(r)) /\ Gate

(* A file H after an event e was recorded: the events of F are where they   *)
(* were, and the ones after them took indexes from n on.                    *)
Longer(F, H, n, e, ok) ==
    /\ Len(F) <= Len(H)
    /\ \A i \in 1..Len(F) : H[i] = F[i]
    /\ \A i \in (Len(F) + 1)..Len(H) :
          /\ H[i].index >= n
          /\ H[i].e.event = "trace_incomplete" \/ (ok /\ H[i].e = e)

(* What recording e for request r makes of a client's trace t.              *)
Adds(t, w, r, e, ok) ==
    /\ w \in Traces /\ w.next[r] > t.next[r]
    /\ \A q \in Commands : q # r => w.file[q] = t.file[q] /\ w.next[q] = t.next[q]
    /\ Len(t.file[r]) <= t.next[r] => Len(w.file[r]) <= w.next[r]
    /\ Len(t.file[r]) <= t.next[r] /\ (Len(t.file[r]) < t.next[r] \/ ~ok)
         => Len(w.file[r]) < w.next[r]
    /\ Longer(t.file[r], w.file[r], t.next[r], e, ok)

(* What one write does to the trace of a client: the index is taken whether *)
(* or not the event is written (JsonLinesTraceSink.write).                  *)
LEMMA WriteIs ==
    ASSUME NEW t \in Traces, NEW r \in Commands, NEW e \in TraceEvents,
           NEW ok \in BOOLEAN, NEW marks \in BOOLEAN,
           NEW w, w = WriteEvent(t, r, e, ok, marks)
    PROVE  /\ w \in Traces /\ w.next[r] = t.next[r] + 1
           /\ w.file[r] = IF ok THEN Append(t.file[r], [index |-> t.next[r], e |-> e])
                          ELSE t.file[r]
           /\ \A q \in Commands : q # r => w.file[q] = t.file[q] /\ w.next[q] = t.next[q]
<1> DEFINE entry == [index |-> t.next[r], e |-> e]
           next == [t.next EXCEPT ![r] = @ + 1]
           file == [t.file EXCEPT ![r] = Append(@, entry)]
<1>1. /\ t.next \in [Commands -> Nat] /\ t.file \in [Commands -> Seq(Entries)]
      /\ t.incomplete \in SUBSET Commands /\ t.marked \in BOOLEAN
    BY DEF Traces
<1>2. entry \in Entries
    BY <1>1 DEF Entries
<1>3. /\ next \in [Commands -> Nat] /\ next[r] = t.next[r] + 1
      /\ \A q \in Commands : q # r => next[q] = t.next[q]
    BY <1>1
<1>4. /\ file \in [Commands -> Seq(Entries)] /\ file[r] = Append(t.file[r], entry)
      /\ \A q \in Commands : q # r => file[q] = t.file[q]
    <2> HIDE DEF entry
    <2>1. Append(t.file[r], entry) \in Seq(Entries)
        BY <1>1, <1>2
    <2> QED BY <1>1, <2>1
<1>5. CASE ok
    <2> DEFINE inc == IF e.event = "trace_incomplete" THEN t.incomplete \ {r} ELSE t.incomplete
    <2>1. inc \in SUBSET Commands
        BY <1>1
    <2>2. w = [t EXCEPT !.next = next, !.file = file, !.incomplete = inc]
        BY <1>5 DEF WriteEvent
    <2> HIDE DEF next, file, inc
    <2>3. w \in Traces /\ w.next = next /\ w.file = file
        BY <2>1, <2>2, <1>3, <1>4 DEF Traces
    <2> QED BY <2>3, <1>3, <1>4, <1>5
<1>6. CASE ~ok
    <2> DEFINE inc == t.incomplete \cup {r}
               marked == t.marked \/ marks
    <2>1. inc \in SUBSET Commands /\ marked \in BOOLEAN
        BY <1>1
    <2>2. w = [t EXCEPT !.next = next, !.incomplete = inc, !.marked = marked]
        BY <1>6 DEF WriteEvent
    <2> HIDE DEF next, inc, marked
    <2>3. w \in Traces /\ w.next = next /\ w.file = t.file
        BY <2>1, <2>2, <1>3, <1>1 DEF Traces
    <2> QED BY <2>3, <1>3, <1>1, <1>6
<1> QED BY <1>5, <1>6

(* What record adds to the file of a request: at most the note of a loss    *)
(* and the event, neither under an index that was given before.             *)
LEMMA RecordIs ==
    ASSUME NEW t \in Traces, NEW r \in Commands, NEW e \in TraceEvents,
           NEW tells \in BOOLEAN, NEW ok \in BOOLEAN, NEW marks \in BOOLEAN,
           NEW w, w = Recorded(t, r, e, tells, ok, marks)
    PROVE  Adds(t, w, r, e, ok)
<1> DEFINE note == Event("trace_incomplete", 0, 0)
           wrote == WriteEvent(t, r, note, tells, marks)
           noted == IF r \in t.incomplete THEN wrote ELSE t
<1>1. w = WriteEvent(noted, r, e, ok, marks)
    BY DEF Recorded
<1>2. note \in TraceEvents /\ note.event = "trace_incomplete"
    <2>1. 0 \in 0..(MaxSwitches + 1) /\ 0 \in 0..1
        BY TraceAssumption
    <2>2. note = [event |-> "trace_incomplete", session |-> 0, token |-> 0]
        BY DEF Event
    <2> HIDE DEF note
    <2> QED BY <2>1, <2>2 DEF TraceEvents, TraceNames
<1> HIDE DEF note
<1>3. /\ wrote \in Traces /\ wrote.next[r] = t.next[r] + 1
      /\ wrote.file[r] = IF tells THEN Append(t.file[r], [index |-> t.next[r], e |-> note])
                         ELSE t.file[r]
      /\ \A q \in Commands : q # r => wrote.file[q] = t.file[q] /\ wrote.next[q] = t.next[q]
    BY <1>2, WriteIs
<1>4. /\ t.next[r] \in Nat /\ t.file[r] \in Seq(Entries)
    BY DEF Traces
<1>5. noted = wrote \/ noted = t
    OBVIOUS
<1> HIDE DEF wrote, noted
<1>6. /\ noted \in Traces /\ noted.next[r] \in {t.next[r], t.next[r] + 1}
      /\ \A q \in Commands : q # r => noted.file[q] = t.file[q] /\ noted.next[q] = t.next[q]
      /\ \/ noted.file[r] = t.file[r]
         \/ /\ noted.file[r] = Append(t.file[r], [index |-> t.next[r], e |-> note])
            /\ noted.next[r] = t.next[r] + 1
    BY <1>3, <1>5
<1>7. /\ w \in Traces /\ w.next[r] = noted.next[r] + 1
      /\ \A q \in Commands : q # r => w.file[q] = noted.file[q] /\ w.next[q] = noted.next[q]
      /\ w.file[r] = IF ok THEN Append(noted.file[r], [index |-> noted.next[r], e |-> e])
                     ELSE noted.file[r]
    BY <1>1, <1>6, WriteIs
<1>8. w \in Traces /\ w.next[r] > t.next[r]
      /\ \A q \in Commands : q # r => w.file[q] = t.file[q] /\ w.next[q] = t.next[q]
    BY <1>4, <1>6, <1>7
<1> DEFINE F == t.file[r]  G == noted.file[r]  H == w.file[r]
           first == [index |-> t.next[r], e |-> note]
           second == [index |-> noted.next[r], e |-> e]
<1>9. /\ F \in Seq(Entries) /\ t.next[r] \in Nat /\ noted.next[r] \in Nat /\ G \in Seq(Entries)
      /\ first.index = t.next[r] /\ first.e = note
      /\ second.index = noted.next[r] /\ second.e = e
      /\ w.next[r] = noted.next[r] + 1
      /\ noted.next[r] = t.next[r] \/ noted.next[r] = t.next[r] + 1
      /\ G = F \/ (G = Append(F, first) /\ noted.next[r] = t.next[r] + 1)
      /\ ok => H = Append(G, second)
      /\ ~ok => H = G
    <2>1. F \in Seq(Entries) /\ G \in Seq(Entries) /\ noted.next[r] \in Nat
        BY <1>4, <1>6 DEF Traces
    <2>2. /\ first.index = t.next[r] /\ first.e = note
          /\ second.index = noted.next[r] /\ second.e = e
        OBVIOUS
    <2> HIDE DEF first, second
    <2>3. (ok => H = Append(G, second)) /\ (~ok => H = G)
        BY <1>7 DEF second
    <2>4. G = F \/ (G = Append(F, first) /\ noted.next[r] = t.next[r] + 1)
        <3>1. CASE G = F
            BY <3>1
        <3>2. CASE G # F
            BY <3>2, <1>6 DEF first
        <3> QED BY <3>1, <3>2
    <2> QED BY <2>1, <2>2, <2>3, <2>4, <1>4, <1>6, <1>7
<1> HIDE DEF F, G, H, first, second
<1>10. /\ Len(F) \in Nat /\ Len(F) <= Len(G)
       /\ \A i \in 1..Len(F) : G[i] = F[i]
       /\ \A i \in (Len(F) + 1)..Len(G) :
             G[i].index >= t.next[r] /\ G[i].e.event = "trace_incomplete"
       /\ Len(F) <= t.next[r] => Len(G) <= noted.next[r]
       /\ Len(F) < t.next[r] => Len(G) < noted.next[r]
       /\ Len(G) \in Nat
    <2>1. CASE G = F
        BY <2>1, <1>9
    <2>2. CASE G = Append(F, first) /\ noted.next[r] = t.next[r] + 1
        <3>1. /\ Len(G) = Len(F) + 1 /\ G[Len(F) + 1] = first /\ Len(F) \in Nat
              /\ \A i \in 1..Len(F) : G[i] = F[i]
            BY <2>2, <1>9
        <3> QED BY <3>1, <2>2, <1>9, <1>2
    <2> QED BY <2>1, <2>2, <1>9
<1>11. /\ Len(F) <= Len(H)
       /\ \A i \in 1..Len(F) : H[i] = F[i]
       /\ \A i \in (Len(F) + 1)..Len(H) :
             H[i].index >= t.next[r] /\ (H[i].e.event = "trace_incomplete" \/ (ok /\ H[i].e = e))
       /\ Len(F) <= t.next[r] => Len(H) <= w.next[r]
       /\ Len(F) <= t.next[r] /\ (Len(F) < t.next[r] \/ ~ok) => Len(H) < w.next[r]
    <2>1. CASE ~ok
        <3>1. H = G
            BY <2>1, <1>9
        <3>2. Len(F) <= Len(H) /\ \A i \in 1..Len(F) : H[i] = F[i]
            BY <3>1, <1>10
        <3>3. \A i \in (Len(F) + 1)..Len(H) :
                 H[i].index >= t.next[r] /\ H[i].e.event = "trace_incomplete"
            BY <3>1, <1>10
        <3>4. Len(F) <= t.next[r] => Len(H) < w.next[r]
            BY <3>1, <1>9, <1>10
        <3>5. Len(H) \in Nat /\ w.next[r] \in Nat
            BY <3>1, <1>9, <1>10
        <3>6. Len(F) <= t.next[r] => Len(H) <= w.next[r]
            BY <3>4, <3>5
        <3> QED BY <3>2, <3>3, <3>4, <3>6
    <2>2. CASE ok
        <3>1. /\ Len(H) = Len(G) + 1 /\ H[Len(G) + 1] = second
              /\ \A i \in 1..Len(G) : H[i] = G[i]
            BY <2>2, <1>9, <1>10
        <3>2. /\ Len(F) <= Len(H) /\ \A i \in 1..Len(F) : H[i] = F[i]
            BY <3>1, <1>10
        <3>3. ASSUME NEW i \in (Len(F) + 1)..Len(H)
              PROVE  H[i].index >= t.next[r] /\ (H[i].e.event = "trace_incomplete" \/ H[i].e = e)
            <4>1. CASE i = Len(G) + 1
                BY <4>1, <3>1, <1>9
            <4>2. CASE i # Len(G) + 1
                <5>1. i \in (Len(F) + 1)..Len(G) /\ i \in 1..Len(G)
                    BY <4>2, <3>1, <1>10
                <5> QED BY <5>1, <3>1, <1>10
            <4> QED BY <4>1, <4>2
        <3>4. /\ Len(F) <= t.next[r] => Len(H) <= w.next[r]
              /\ Len(F) < t.next[r] => Len(H) < w.next[r]
            BY <3>1, <1>9, <1>10
        <3> QED BY <3>2, <3>3, <3>4, <2>2
    <2> QED BY <2>1, <2>2
<1>12. Longer(F, H, t.next[r], e, ok)
    BY <1>11 DEF Longer
<1> QED BY <1>8, <1>11, <1>12 DEF F, H, Adds

(* An event of a known name, over a session and a token.                    *)
LEMMA EventIs ==
    ASSUME NEW e \in TraceNames, NEW s \in 0..(MaxSwitches + 1), NEW k \in 0..1
    PROVE  Event(e, s, k) \in TraceEvents /\ Event(e, s, k).event = e
BY DEF Event, TraceEvents

(* The numbers that stand for nothing yet.                                  *)
LEMMA TraceNumbers ==
    /\ 0 \in 0..(MaxSwitches + 1) /\ 0 \in 0..1 /\ 1 \in 0..1 /\ 0 \in 0..MaxCommands
    /\ 0 \in 0..MaxLosses /\ 0 \notin Commands /\ Commands \subseteq 0..MaxCommands
    /\ \A r \in 0..MaxCommands : r # 0 => r \in Commands
    /\ Sessions \subseteq 0..(MaxSwitches + 1) /\ 1 \in Sessions /\ 0 \in Nat
    /\ "remote" \in TraceClients /\ "observer" \in TraceClients
BY TraceAssumption DEF Commands, Sessions, TraceClients

(* Before anything is recorded the invariant holds.                         *)
LEMMA EvidenceInit == TraceInit => EvidenceInv
<1> SUFFICES ASSUME TraceInit PROVE EvidenceInv
    OBVIOUS
<1> DEFINE blank == [file |-> [r \in Commands |-> <<>>], next |-> [r \in Commands |-> 0],
                     incomplete |-> {}, marked |-> FALSE]
<1>1. blank \in Traces /\ \A r \in Commands : blank.next[r] = 0 /\ blank.file[r] = <<>>
    BY DEF Traces
<1>2. trace = [c \in TraceClients |-> blank]
    BY DEF TraceInit
<1> HIDE DEF blank
<1>3. /\ trace \in [TraceClients -> Traces]
      /\ \A r \in Commands : Given(r) = 0 /\ Log(r) = <<>>
    BY <1>1, <1>2, TraceNumbers DEF Given, Log
<1>4. TraceTypes
    <2>1. /\ cmd = [r |-> 0, at |-> "idle", old |-> 0, todo |-> <<>>]
          /\ obs = [r |-> 0, at |-> "watch", old |-> 0, todo |-> <<>>]
          /\ hold = [held |-> [r |-> 0, old |-> 0], release |-> [r \in Commands |-> 0]]
        BY DEF TraceInit, NoTraced, NoHold
    <2>2. <<>> \in Seq(TraceEvents)
        OBVIOUS
    <2>3. /\ cmd \in [r : 0..MaxCommands, old : 0..(MaxSwitches + 1), todo : Seq(TraceEvents),
                      at : {"idle", "capture", "send", "sent", "hold", "held", "verify"}]
          /\ obs \in [r : 0..MaxCommands, old : 0..(MaxSwitches + 1), todo : Seq(TraceEvents),
                      at : {"watch", "first", "change", "release", "done"}]
        BY <2>1, <2>2, TraceNumbers
    <2>4. hold \in [held : [r : 0..MaxCommands, old : 0..(MaxSwitches + 1)],
                    release : [Commands -> 0..1]]
        BY <2>1, TraceNumbers
    <2>5. /\ session \in Sessions /\ losses \in 0..MaxLosses
          /\ lost \subseteq (TraceClients \X Commands)
          /\ sends \in [Commands -> 0..1] /\ changed \subseteq Commands
        BY TraceNumbers DEF TraceInit
    <2> QED BY <2>3, <2>4, <2>5, <1>3 DEF TraceTypes
<1>5. AtWork
    BY DEF TraceInit, AtWork, NoTraced
<1>6. \A r \in Commands : LogIs(r)
    BY <1>3 DEF LogIs, TraceInit, NoOutcome
<1>7. Gate
    BY DEF TraceInit, Gate, NoTraced, NoHold
<1> QED BY <1>4, <1>5, <1>6, <1>7 DEF EvidenceInv

(* What is left to record stays in order when its first event is recorded.  *)
LEMMA RestOfTodo ==
    ASSUME NEW todo \in Seq(TraceEvents), todo # <<>>
    PROVE  /\ Head(todo) \in TraceEvents /\ Head(todo) = todo[1] /\ 1 \in DOMAIN todo
           /\ Len(todo) \in Nat /\ Len(todo) > 0
           /\ Tail(todo) \in Seq(TraceEvents) /\ Len(Tail(todo)) = Len(todo) - 1
           /\ \A i \in DOMAIN Tail(todo) :
                 i + 1 \in DOMAIN todo /\ Tail(todo)[i] = todo[i + 1]
OBVIOUS

(* A client's record changes its own trace, of that request, only.          *)
LEMMA RecordsOf ==
    ASSUME TraceTypes, NEW c \in TraceClients, NEW r \in Commands, NEW e \in TraceEvents,
           Records(c, r, e)
    PROVE  /\ losses' \in 0..MaxLosses /\ trace' \in [TraceClients -> Traces]
           /\ lost' \subseteq (TraceClients \X Commands)
           /\ \A d \in TraceClients : d # c => trace'[d] = trace[d]
           /\ \E tells, ok, marks \in BOOLEAN :
                 /\ trace'[c] = Recorded(trace[c], r, e, tells, ok, marks)
                 /\ lost' = IF ok THEN lost ELSE lost \cup {<<c, r>>}
<1>1. PICK tells \in BOOLEAN, ok \in BOOLEAN, marks \in BOOLEAN :
        LET failed == (IF ok THEN 0 ELSE 1)
                      + (IF r \in trace[c].incomplete /\ ~tells THEN 1 ELSE 0)
        IN  /\ losses + failed <= MaxLosses /\ losses' = losses + failed
            /\ MarkerLost \/ marks
            /\ trace' = [trace EXCEPT ![c] = Recorded(@, r, e, tells, ok, marks)]
            /\ lost' = IF ok THEN lost ELSE lost \cup {<<c, r>>}
    BY DEF Records
<1> DEFINE failed == (IF ok THEN 0 ELSE 1)
                     + (IF r \in trace[c].incomplete /\ ~tells THEN 1 ELSE 0)
           w == Recorded(trace[c], r, e, tells, ok, marks)
<1>2. failed \in Nat
    OBVIOUS
<1>3. losses + failed <= MaxLosses /\ losses' = losses + failed
    BY <1>1
<1>4. losses' \in 0..MaxLosses
    <2> HIDE DEF failed
    <2> QED BY <1>2, <1>3, TraceAssumption DEF TraceTypes
<1>5. trace' = [trace EXCEPT ![c] = w]
    BY <1>1
<1>6. lost' = IF ok THEN lost ELSE lost \cup {<<c, r>>}
    BY <1>1
<1>7. trace \in [TraceClients -> Traces] /\ lost \subseteq (TraceClients \X Commands)
    BY DEF TraceTypes
<1>8. w \in Traces
    BY <1>7, RecordIs DEF Adds
<1>9. lost' \subseteq (TraceClients \X Commands)
    BY <1>6, <1>7
<1>10. /\ trace' \in [TraceClients -> Traces] /\ trace'[c] = w
       /\ \A d \in TraceClients : d # c => trace'[d] = trace[d]
    <2> HIDE DEF w
    <2> QED BY <1>5, <1>7, <1>8
<1> QED BY <1>4, <1>6, <1>9, <1>10

(* The file of a command says what it must after one more record of it.     *)
LEMMA LogGrows ==
    ASSUME NEW F \in Seq(Entries), NEW H \in Seq(Entries), NEW n \in Nat,
           NEW e \in TraceEvents, NEW ok \in BOOLEAN, NEW was \in BOOLEAN,
           Len(F) <= n, was => Len(F) < n,
           NoOutcome(F),
           Longer(F, H, n, e, ok)
    PROVE  was \/ ~ok => Gap(H) \/ NoOutcome(H)
<1> USE DEF Longer, Gap, NoOutcome
<1>1. /\ DOMAIN F = 1..Len(F) /\ DOMAIN H = 1..Len(H) /\ Len(F) \in Nat /\ Len(H) \in Nat
      /\ \A i \in DOMAIN H : H[i].index \in Nat
    <2>1. \A i \in DOMAIN H : H[i] \in Entries
        OBVIOUS
    <2>2. \A i \in DOMAIN H : H[i].index \in Nat
        BY <2>1 DEF Entries
    <2> QED BY <2>2
<1>2. CASE Len(H) = Len(F)
    BY <1>1, <1>2
<1>3. ASSUME was, Len(H) # Len(F)
      PROVE  \E i \in DOMAIN H : H[i].index # i - 1
    <2>1. Len(F) + 1 \in DOMAIN H /\ Len(F) + 1 \in (Len(F) + 1)..Len(H)
        <3>1. Len(F) < Len(H)
            <4>1. Len(F) \in Nat /\ Len(H) \in Nat /\ Len(F) <= Len(H)
                BY <1>1
            <4> QED BY <4>1, <1>3
        <3> QED BY <3>1, <1>1
    <2>2. H[Len(F) + 1].index >= n /\ H[Len(F) + 1].index \in Nat /\ Len(F) < n
        BY <2>1, <1>1, <1>3
    <2>3. H[Len(F) + 1].index # (Len(F) + 1) - 1
        BY <2>2, <1>1
    <2> QED BY <2>1, <2>3
<1>4. CASE ~ok
    <2>1. ASSUME NEW i \in DOMAIN H
          PROVE  H[i].e.event \notin Terminal
        <3>1. CASE i \in 1..Len(F)
            BY <3>1, <1>1
        <3>2. CASE i \in (Len(F) + 1)..Len(H)
            <4>1. H[i].e.event = "trace_incomplete"
                BY <3>2, <1>4
            <4> QED BY <4>1 DEF Terminal
        <3> QED BY <3>1, <3>2, <1>1
    <2> QED BY <2>1
<1> QED BY <1>2, <1>3, <1>4

(* The remote records the first event it is about to.                       *)
LEMMA RemoteRecordsInv == EvidenceInv /\ RemoteRecords => EvidenceInv'
<1> SUFFICES ASSUME EvidenceInv, RemoteRecords PROVE EvidenceInv'
    OBVIOUS
<1>1. /\ TraceTypes /\ AtWork /\ Gate /\ \A q \in Commands : LogIs(q)
      /\ cmd.todo # <<>> /\ Records("remote", cmd.r, Head(cmd.todo))
      /\ cmd' = IF cmd.at = "idle" /\ Len(cmd.todo) = 1
                THEN NoTraced ELSE [cmd EXCEPT !.todo = Tail(@)]
      /\ session' = session /\ obs' = obs /\ hold' = hold /\ sends' = sends
      /\ changed' = changed
    BY DEF EvidenceInv, RemoteRecords
<1>2. /\ cmd \in [r : 0..MaxCommands, old : 0..(MaxSwitches + 1), todo : Seq(TraceEvents),
                  at : {"idle", "capture", "send", "sent", "hold", "held", "verify"}]
      /\ trace \in [TraceClients -> Traces] /\ cmd.todo \in Seq(TraceEvents)
    BY <1>1 DEF TraceTypes
<1>3. PICK r \in Commands : r = cmd.r
    <2>1. cmd.r # 0
        BY <1>1 DEF AtWork, NoTraced
    <2> QED BY <2>1, <1>2, TraceNumbers
<1> DEFINE e == Head(cmd.todo)
<1>4. /\ e \in TraceEvents /\ e = cmd.todo[1] /\ 1 \in DOMAIN cmd.todo
      /\ Len(cmd.todo) \in Nat /\ Len(cmd.todo) > 0
      /\ Tail(cmd.todo) \in Seq(TraceEvents) /\ Len(Tail(cmd.todo)) = Len(cmd.todo) - 1
      /\ \A i \in DOMAIN Tail(cmd.todo) :
            i + 1 \in DOMAIN cmd.todo /\ Tail(cmd.todo)[i] = cmd.todo[i + 1]
    BY <1>1, <1>2, RestOfTodo
<1> HIDE DEF e
<1>5. /\ losses' \in 0..MaxLosses /\ trace' \in [TraceClients -> Traces]
      /\ lost' \subseteq (TraceClients \X Commands)
      /\ \E tells, ok, marks \in BOOLEAN :
            /\ trace'["remote"] = Recorded(trace["remote"], r, e, tells, ok, marks)
            /\ lost' = IF ok THEN lost ELSE lost \cup {<<"remote", r>>}
    BY <1>1, <1>3, <1>4, RecordsOf, TraceNumbers
<1>6. PICK tells \in BOOLEAN, ok \in BOOLEAN, marks \in BOOLEAN :
        /\ trace'["remote"] = Recorded(trace["remote"], r, e, tells, ok, marks)
        /\ lost' = IF ok THEN lost ELSE lost \cup {<<"remote", r>>}
    BY <1>5
<1> DEFINE t == trace["remote"]
           w == trace'["remote"]
<1>7. t \in Traces
    BY <1>2, TraceNumbers
<1>8. Adds(t, w, r, e, ok)
    <2>1. w = Recorded(t, r, e, tells, ok, marks) /\ t \in Traces /\ e \in TraceEvents
        BY <1>4, <1>6, <1>7
    <2> HIDE DEF t, w
    <2> QED BY <2>1, RecordIs
<1> DEFINE F == t.file[r]
           H == w.file[r]
<1>9. /\ F \in Seq(Entries) /\ H \in Seq(Entries) /\ t.next[r] \in Nat /\ w.next[r] \in Nat
      /\ \A q \in Commands : t.next[q] \in Nat
    BY <1>3, <1>7, <1>8 DEF Adds, Traces
<1>10. /\ cmd' \in [r : 0..MaxCommands, old : 0..(MaxSwitches + 1), todo : Seq(TraceEvents),
                    at : {"idle", "capture", "send", "sent", "hold", "held", "verify"}]
       /\ \/ /\ cmd.at = "idle" /\ Len(cmd.todo) = 1
             /\ cmd' = NoTraced
          \/ /\ ~(cmd.at = "idle" /\ Len(cmd.todo) = 1)
             /\ cmd'.r = r /\ cmd'.at = cmd.at /\ cmd'.old = cmd.old
             /\ cmd'.todo = Tail(cmd.todo)
    <2>1. CASE cmd.at = "idle" /\ Len(cmd.todo) = 1
        <3>1. cmd' = NoTraced
            BY <2>1, <1>1
        <3>2. <<>> \in Seq(TraceEvents)
            OBVIOUS
        <3> QED BY <2>1, <3>1, <3>2, TraceNumbers DEF NoTraced
    <2>2. CASE ~(cmd.at = "idle" /\ Len(cmd.todo) = 1)
        <3>1. cmd' = [cmd EXCEPT !.todo = Tail(cmd.todo)]
            BY <2>2, <1>1
        <3> QED BY <2>2, <3>1, <1>2, <1>3, <1>4
    <2> QED BY <2>1, <2>2
<1>11. TraceTypes'
    BY <1>1, <1>5, <1>10 DEF TraceTypes
<1>12. \A q \in Commands : Given(q)' >= Given(q)
    BY <1>8, <1>9 DEF Given, Adds
<1>13. Given(r)' > 0
    BY <1>8, <1>9 DEF Given, Adds
<1>14. AtWork'
    <2>1. CASE cmd' = NoTraced
        <3>1. cmd'.r = 0 /\ cmd'.at = "idle" /\ cmd'.todo = <<>>
            BY <2>1 DEF NoTraced
        <3> QED BY <2>1, <3>1 DEF AtWork, NoTraced
    <2>2. CASE cmd'.r = r /\ cmd'.at = cmd.at /\ cmd'.todo = Tail(cmd.todo)
        <3>1. cmd'.r # 0
            BY <2>2, <1>3, TraceNumbers
        <3>2. ASSUME NEW i \in DOMAIN cmd'.todo
              PROVE  /\ cmd'.todo[i].event \in Terminal
                          => cmd'.at = "idle" /\ i = Len(cmd'.todo)
                     /\ cmd'.todo[i].event = "confirmation_released" => cmd'.r \in changed'
            <4>1. i \in Nat /\ i + 1 \in DOMAIN cmd.todo /\ cmd'.todo[i] = cmd.todo[i + 1]
                  /\ Len(cmd'.todo) = Len(cmd.todo) - 1 /\ Len(cmd.todo) \in Nat
                BY <2>2, <1>4
            <4>2. /\ cmd.todo[i + 1].event \in Terminal => cmd.at = "idle" /\ i + 1 = Len(cmd.todo)
                  /\ cmd.todo[i + 1].event = "confirmation_released" => cmd.r \in changed
                BY <4>1, <1>1 DEF AtWork
            <4> QED BY <4>1, <4>2, <2>2, <1>1
        <3>3. cmd'.at \in {"hold", "held", "verify"} => sends'[cmd'.r] = 1
            BY <2>2, <1>1 DEF AtWork
        <3> QED BY <3>1, <3>2, <3>3, <2>2, <1>13 DEF AtWork
    <2> QED BY <2>1, <2>2, <1>10
<1>15. ASSUME NEW q \in Commands, q # r
       PROVE  LogIs(q)'
    <2>1. /\ Log(q)' = Log(q) /\ Given(q)' = Given(q) /\ changed' = changed
          /\ <<"remote", q>> \in lost' <=> <<"remote", q>> \in lost
        BY <1>15, <1>8, <1>6, <1>1 DEF Log, Given, Adds
    <2>2. cmd'.r # q
        BY <1>15, <1>10, TraceNumbers DEF NoTraced
    <2>3. LogIs(q)
        BY <1>1
    <2> QED BY <2>1, <2>2, <2>3 DEF LogIs
<1>16. LogIs(r)'
    <2>1. LogIs(r) /\ F = Log(r) /\ t.next[r] = Given(r) /\ H = Log(r)' /\ w.next[r] = Given(r)'
        BY <1>1, <1>3 DEF Log, Given
    <2> DEFINE was == <<"remote", r>> \in lost
    <2>2. /\ Len(F) <= t.next[r] /\ (was => Len(F) < t.next[r]) /\ NoOutcome(F)
          /\ \A i \in DOMAIN F : F[i].e.event = "confirmation_released" => r \in changed
        <3>1. /\ Len(Log(r)) <= Given(r)
              /\ <<"remote", r>> \in lost => Len(Log(r)) < Given(r)
              /\ NoOutcome(Log(r))
              /\ \A i \in DOMAIN Log(r) :
                    Log(r)[i].e.event = "confirmation_released" => r \in changed
            BY <2>1, <1>3 DEF LogIs
        <3> HIDE DEF F, t
        <3> QED BY <3>1, <2>1
    <2>3. /\ Len(F) \in Nat /\ Len(H) \in Nat /\ DOMAIN F = 1..Len(F) /\ DOMAIN H = 1..Len(H)
          /\ Longer(F, H, t.next[r], e, ok)
          /\ Len(H) <= w.next[r]
          /\ was \/ ~ok => Len(H) < w.next[r]
        BY <1>8, <1>9, <2>2 DEF Adds
    <2>4. <<"remote", r>> \in lost' => was \/ ~ok
        BY <1>6
    <2> HIDE DEF was, F, H, t, w
    <2>5. was \/ ~ok => Gap(H) \/ NoOutcome(H)
        <3>1. was \in BOOLEAN
            BY DEF was
        <3> QED BY <3>1, <1>4, <1>9, <2>2, <2>3, LogGrows
    <2>6. ASSUME NEW i \in DOMAIN H
          PROVE  /\ cmd'.r = r => H[i].e.event \notin Terminal
                 /\ H[i].e.event = "confirmation_released" => r \in changed
        <3>1. CASE i \in 1..Len(F)
            BY <3>1, <2>2, <2>3 DEF Longer, NoOutcome
        <3>2. CASE i \in (Len(F) + 1)..Len(H) /\ H[i].e.event = "trace_incomplete"
            BY <3>2 DEF Terminal
        <3>3. CASE H[i].e = e
            <4>1. /\ e.event \in Terminal => cmd.at = "idle" /\ 1 = Len(cmd.todo)
                  /\ e.event = "confirmation_released" => r \in changed
                BY <1>1, <1>3, <1>4 DEF AtWork
            <4>2. cmd'.r = r => ~(cmd.at = "idle" /\ Len(cmd.todo) = 1)
                BY <1>10, <1>3, TraceNumbers DEF NoTraced
            <4> QED BY <3>3, <4>1, <4>2
        <3> QED BY <3>1, <3>2, <3>3, <2>3 DEF Longer
    <2>7. cmd'.r = r => NoOutcome(H)
        BY <2>6 DEF NoOutcome
    <2> QED BY <2>1, <2>3, <2>4, <2>5, <2>6, <2>7, <1>1 DEF LogIs
<1>17. Gate'
    <2>1. cmd'.r = 0 \/ (cmd'.r = cmd.r /\ cmd'.at = cmd.at /\ cmd'.old = cmd.old)
        BY <1>3, <1>10 DEF NoTraced
    <2>2. obs.r # 0 => obs.r \in Commands
        BY <1>1, TraceNumbers DEF TraceTypes
    <2>3. \A q \in Commands : Given(q) > 0 => Given(q)' > 0
        BY <1>12, <1>9, <1>8 DEF Given, Adds, Traces
    <2>4. cmd'.r = 0 => cmd.at = "idle"
        BY <1>10, <1>3, TraceNumbers
    <2> QED BY <2>1, <2>2, <2>3, <2>4, <1>1, TraceNumbers DEF Gate
<1> QED BY <1>11, <1>14, <1>15, <1>16, <1>17 DEF EvidenceInv

(* What does not touch the remote's file keeps what the files say; a        *)
(* command begins with an empty one.                                        *)
LEMMA LogsKept ==
    ASSUME EvidenceInv, trace'["remote"] = trace["remote"],
           \A r \in Commands : <<"remote", r>> \in lost' => <<"remote", r>> \in lost,
           changed \subseteq changed',
           \A r \in Commands : cmd'.r = r => cmd.r = r \/ Given(r) = 0
    PROVE  \A r \in Commands : LogIs(r)' /\ Given(r)' = Given(r)
<1> SUFFICES ASSUME NEW r \in Commands PROVE LogIs(r)' /\ Given(r)' = Given(r)
    OBVIOUS
<1>1. LogIs(r) /\ Log(r)' = Log(r) /\ Given(r)' = Given(r)
    BY DEF EvidenceInv, Log, Given
<1>2. Given(r) = 0 => NoOutcome(Log(r))
    <2>1. Log(r) \in Seq(Entries)
        BY TraceNumbers DEF EvidenceInv, TraceTypes, Traces, Log
    <2>2. Given(r) = 0 => Len(Log(r)) = 0
        BY <2>1, <1>1 DEF LogIs
    <2> QED BY <2>1, <2>2 DEF NoOutcome
<1> QED BY <1>1, <1>2 DEF LogIs

(* Steps of the gate and the observer alone keep what is known of the       *)
(* remote's command.                                                        *)
LEMMA RemoteKept ==
    ASSUME EvidenceInv, cmd' = cmd, trace'["remote"] = trace["remote"], sends' = sends,
           \A r \in Commands : <<"remote", r>> \in lost' => <<"remote", r>> \in lost,
           changed \subseteq changed'
    PROVE  AtWork' /\ \A r \in Commands : LogIs(r)' /\ Given(r)' = Given(r)
<1>1. \A r \in Commands : LogIs(r)' /\ Given(r)' = Given(r)
    BY LogsKept
<1>2. cmd.r # 0 => cmd.r \in Commands
    BY TraceNumbers DEF EvidenceInv, TraceTypes
<1>3. AtWork'
    BY <1>1, <1>2 DEF EvidenceInv, AtWork, NoTraced
<1> QED BY <1>1, <1>3

(* The observer records.                                                    *)
LEMMA ObserverRecordsInv == EvidenceInv /\ ObserverRecords => EvidenceInv'
<1> SUFFICES ASSUME EvidenceInv, ObserverRecords PROVE EvidenceInv'
    OBVIOUS
<1>1. /\ TraceTypes /\ Gate /\ obs.todo # <<>> /\ Records("observer", obs.r, Head(obs.todo))
      /\ obs' = [obs EXCEPT !.todo = Tail(@)]
      /\ session' = session /\ cmd' = cmd /\ hold' = hold /\ sends' = sends
      /\ changed' = changed
    BY DEF EvidenceInv, ObserverRecords
<1>2. obs.todo \in Seq(TraceEvents) /\ obs.r \in 0..MaxCommands
    BY <1>1 DEF TraceTypes
<1>3. obs.r \in Commands
    BY <1>1, <1>2, TraceNumbers DEF Gate
<1>4. Head(obs.todo) \in TraceEvents /\ Tail(obs.todo) \in Seq(TraceEvents)
    BY <1>1, <1>2, RestOfTodo
<1>5. /\ losses' \in 0..MaxLosses /\ trace' \in [TraceClients -> Traces]
      /\ lost' \subseteq (TraceClients \X Commands)
      /\ \A d \in TraceClients : d # "observer" => trace'[d] = trace[d]
      /\ lost' = lost \/ lost' = lost \cup {<<"observer", obs.r>>}
    BY <1>1, <1>3, <1>4, RecordsOf, TraceNumbers
<1>6. /\ trace'["remote"] = trace["remote"]
      /\ \A r \in Commands : <<"remote", r>> \in lost' => <<"remote", r>> \in lost
    BY <1>5, TraceNumbers
<1>7. /\ obs' \in [r : 0..MaxCommands, old : 0..(MaxSwitches + 1), todo : Seq(TraceEvents),
                   at : {"watch", "first", "change", "release", "done"}]
      /\ obs'.r = obs.r /\ obs'.old = obs.old /\ obs'.at = obs.at
    BY <1>1, <1>4 DEF TraceTypes
<1>8. TraceTypes'
    BY <1>1, <1>5, <1>7 DEF TraceTypes
<1>9. AtWork' /\ \A r \in Commands : LogIs(r)' /\ Given(r)' = Given(r)
    BY <1>1, <1>6, RemoteKept
<1>10. Gate'
    BY <1>1, <1>3, <1>7, <1>9 DEF Gate
<1> QED BY <1>8, <1>9, <1>10 DEF EvidenceInv

(* What is kept by a step of the remote that records nothing: its files and *)
(* its place, if what it is about to record is in order.                    *)
LEMMA RemoteMoves ==
    ASSUME EvidenceInv, cmd.r \in Commands, cmd.at # "idle", cmd.todo = <<>>,
           NEW at \in {"idle", "send", "sent", "hold", "held", "verify"},
           NEW old \in 0..(MaxSwitches + 1), NEW todo \in Seq(TraceEvents),
           cmd' = [r |-> cmd.r, at |-> at, old |-> old, todo |-> todo],
           Same, sends' \in [Commands -> 0..1],
           at \in {"hold", "held", "verify"} => sends'[cmd.r] = 1,
           \A i \in DOMAIN todo :
              /\ todo[i].event \in Terminal => at = "idle" /\ i = Len(todo)
              /\ todo[i].event = "confirmation_released" => cmd.r \in changed,
           hold' \in [held : [r : 0..MaxCommands, old : 0..(MaxSwitches + 1)],
                      release : [Commands -> 0..1]]
    PROVE  /\ TraceTypes' /\ AtWork' /\ cmd'.r = cmd.r /\ cmd'.at = at /\ cmd'.old = old
           /\ \A r \in Commands : LogIs(r)' /\ Given(r)' = Given(r)
<1>1. cmd'.r = cmd.r /\ cmd'.at = at /\ cmd'.old = old /\ cmd'.todo = todo
    OBVIOUS
<1>2. /\ trace' = trace /\ lost' = lost /\ changed' = changed /\ session' = session
      /\ obs' = obs /\ losses' = losses
    BY DEF Same
<1>3. \A r \in Commands : LogIs(r)' /\ Given(r)' = Given(r)
    BY <1>1, <1>2, LogsKept
<1>4. cmd' \in [r : 0..MaxCommands, old : 0..(MaxSwitches + 1), todo : Seq(TraceEvents),
                at : {"idle", "capture", "send", "sent", "hold", "held", "verify"}]
    BY TraceNumbers
<1>5. TraceTypes'
    BY <1>2, <1>4 DEF EvidenceInv, TraceTypes
<1>6. Given(cmd.r) > 0
    BY TraceNumbers DEF EvidenceInv, AtWork
<1>7. Given(cmd.r)' > 0
    <2>1. PICK r \in Commands : r = cmd.r
        OBVIOUS
    <2>2. Given(r)' > 0
        BY <2>1, <1>3, <1>6
    <2> QED BY <2>1, <2>2, <1>1 DEF Given
<1>8. AtWork'
    BY <1>1, <1>2, <1>7, TraceNumbers DEF AtWork
<1> QED BY <1>1, <1>3, <1>5, <1>8

(* Away from the hold, the gate is as it was.                               *)
LEMMA GateKept ==
    ASSUME EvidenceInv, cmd.at # "held", cmd'.at # "held", cmd'.r = cmd.r, cmd.r # 0,
           cmd'.at = "idle" \/ cmd.at \notin {"held", "verify", "idle"},
           hold' = hold, Same, \A r \in Commands : Given(r)' = Given(r)
    PROVE  Gate'
<1>1. Gate /\ obs' = obs /\ session' = session /\ changed' = changed
    BY DEF EvidenceInv, Same
<1>2. obs.r # 0 => obs.r \in Commands
    BY TraceNumbers DEF EvidenceInv, TraceTypes
<1>3. hold.held.r = 0
    BY <1>1 DEF Gate
<1>4. obs.r # 0 => Given(obs.r)' > 0
    <2>1. SUFFICES ASSUME obs.r # 0 PROVE Given(obs.r)' > 0
        BY <1>1
    <2>2. PICK r \in Commands : r = obs.r
        BY <1>2, <2>1
    <2>3. Given(r) > 0 /\ Given(r)' = Given(r)
        BY <1>1, <2>2, <2>1 DEF Gate
    <2> QED BY <1>1, <2>2, <2>3 DEF Given
<1>6. \A r \in Commands : hold.release[r] # 0 =>
         Given(r)' > 0 /\ (cmd'.r = r => cmd'.at \in {"held", "verify", "idle"})
    BY <1>1 DEF Gate
<1>7. obs.r # 0 /\ cmd'.r = obs.r => cmd'.at \in {"held", "verify", "idle"}
    BY <1>1 DEF Gate
<1> QED BY <1>1, <1>3, <1>4, <1>6, <1>7 DEF Gate

(* One, two and three events to record.                                     *)
LEMMA Todo ==
    /\ \A e \in TraceEvents :
          /\ <<e>> \in Seq(TraceEvents) /\ Len(<<e>>) = 1
          /\ \A i \in DOMAIN <<e>> : i = 1 /\ <<e>>[i] = e
    /\ \A e, f \in TraceEvents :
          /\ <<e, f>> \in Seq(TraceEvents) /\ Len(<<e, f>>) = 2
          /\ \A i \in DOMAIN <<e, f>> :
                \/ i = 1 /\ <<e, f>>[i] = e
                \/ i = 2 /\ <<e, f>>[i] = f
    /\ \A e, f, g \in TraceEvents :
          /\ <<e, f, g>> \in Seq(TraceEvents) /\ Len(<<e, f, g>>) = 3
          /\ \A i \in DOMAIN <<e, f, g>> :
                \/ i = 1 /\ <<e, f, g>>[i] = e
                \/ i = 2 /\ <<e, f, g>>[i] = f
                \/ i = 3 /\ <<e, f, g>>[i] = g
    /\ <<>> \in Seq(TraceEvents)
OBVIOUS

(* A command that is at work is one of the commands, and was captured on a  *)
(* session.                                                                 *)
LEMMA CommandAtWork ==
    ASSUME EvidenceInv, cmd.at # "idle"
    PROVE  /\ cmd.r \in Commands /\ cmd.r # 0 /\ cmd.old \in 0..(MaxSwitches + 1)
           /\ session \in 0..(MaxSwitches + 1)
           /\ cmd = [r |-> cmd.r, at |-> cmd.at, old |-> cmd.old, todo |-> cmd.todo]
           /\ hold \in [held : [r : 0..MaxCommands, old : 0..(MaxSwitches + 1)],
                        release : [Commands -> 0..1]]
           /\ sends \in [Commands -> 0..1]
<1>1. cmd \in [r : 0..MaxCommands, old : 0..(MaxSwitches + 1), todo : Seq(TraceEvents),
               at : {"idle", "capture", "send", "sent", "hold", "held", "verify"}]
    BY DEF EvidenceInv, TraceTypes
<1>2. cmd.r # 0
    BY DEF EvidenceInv, AtWork, NoTraced
<1> QED BY <1>1, <1>2, TraceNumbers DEF EvidenceInv, TraceTypes

(* The steps of the remote away from the hold.                              *)
LEMMA RemoteStep ==
    ASSUME EvidenceInv, cmd.at \in {"capture", "send", "sent", "verify"}, cmd.todo = <<>>,
           NEW at \in {"idle", "send", "sent", "hold"},
           cmd.at = "verify" => at = "idle",
           NEW old \in 0..(MaxSwitches + 1), NEW todo \in Seq(TraceEvents),
           cmd' = [r |-> cmd.r, at |-> at, old |-> old, todo |-> todo],
           \A i \in DOMAIN todo :
              /\ todo[i].event \in Terminal => at = "idle" /\ i = Len(todo)
              /\ todo[i].event = "confirmation_released" => cmd.r \in changed,
           Same, hold' = hold,
           sends' \in [Commands -> 0..1], at = "hold" => sends'[cmd.r] = 1
    PROVE  EvidenceInv'
<1>1. /\ cmd.r \in Commands /\ cmd.r # 0
      /\ hold' \in [held : [r : 0..MaxCommands, old : 0..(MaxSwitches + 1)],
                    release : [Commands -> 0..1]]
    BY CommandAtWork
<1>2. /\ TraceTypes' /\ AtWork' /\ cmd'.r = cmd.r /\ cmd'.at = at
      /\ \A r \in Commands : LogIs(r)' /\ Given(r)' = Given(r)
    BY <1>1, RemoteMoves
<1>3. Gate'
    BY <1>1, <1>2, GateKept
<1> QED BY <1>2, <1>3 DEF EvidenceInv

(* A command begins.                                                        *)
LEMMA CommandInv == ASSUME EvidenceInv, NEW r \in Commands, Command(r) PROVE EvidenceInv'
<1>1. /\ cmd = NoTraced /\ Given(r) = 0
      /\ cmd' = [r |-> r, at |-> "capture", old |-> 0,
                 todo |-> <<Event("command_prepared", 0, 0)>>]
      /\ trace' = trace /\ lost' = lost /\ changed' = changed /\ session' = session
      /\ obs' = obs /\ losses' = losses /\ hold' = hold /\ sends' = sends
    BY DEF Command, Same, Given
<1>2. /\ Event("command_prepared", 0, 0) \in TraceEvents
      /\ Event("command_prepared", 0, 0).event = "command_prepared"
    BY EventIs, TraceNumbers DEF TraceNames
<1>3. /\ cmd'.todo \in Seq(TraceEvents)
      /\ \A i \in DOMAIN cmd'.todo : cmd'.todo[i].event = "command_prepared"
      /\ cmd'.todo # <<>>
    BY <1>1, <1>2, Todo
<1>4. cmd'.r = r /\ cmd'.at = "capture"
    BY <1>1
<1>5. cmd' \in [r : 0..MaxCommands, old : 0..(MaxSwitches + 1), todo : Seq(TraceEvents),
                at : {"idle", "capture", "send", "sent", "hold", "held", "verify"}]
    BY <1>1, <1>3, TraceNumbers
<1>6. TraceTypes'
    BY <1>1, <1>5 DEF EvidenceInv, TraceTypes
<1>7. AtWork'
    BY <1>3, <1>4, TraceNumbers DEF AtWork, Terminal
<1>8. \A q \in Commands : LogIs(q)' /\ Given(q)' = Given(q)
    BY <1>1, <1>4, LogsKept
<1>9. Gate'
    <2>1. /\ Gate /\ cmd.r = 0 /\ cmd.at = "idle"
          /\ obs.r # 0 => obs.r \in Commands
        BY <1>1, TraceNumbers DEF EvidenceInv, TraceTypes, NoTraced
    <2>2. hold.held.r = 0
        BY <2>1 DEF Gate
    <2>3. obs.r # r /\ hold.release[r] = 0
        BY <2>1, <1>1, TraceNumbers DEF Gate
    <2>4. obs.r # 0 => Given(obs.r) > 0
        BY <2>1 DEF Gate
    <2>5. obs.r # 0 => Given(obs.r)' > 0
        BY <2>4, <1>1 DEF Given
    <2>6. \A q \in Commands : hold.release[q] # 0 => Given(q)' > 0 /\ q # r
        BY <2>1, <2>3, <1>8 DEF Gate
    <2> QED BY <1>1, <1>4, <2>1, <2>2, <2>3, <2>5, <2>6 DEF Gate
<1> QED BY <1>6, <1>7, <1>8, <1>9 DEF EvidenceInv

(* The session is captured, or the command is given up.                     *)
LEMMA CaptureInv == EvidenceInv /\ Capture => EvidenceInv'
<1> SUFFICES ASSUME EvidenceInv, Capture PROVE EvidenceInv'
    OBVIOUS
<1>1. cmd.at = "capture" /\ cmd.todo = <<>> /\ Same /\ hold' = hold /\ sends' = sends
    BY DEF Capture
<1>2. /\ session \in 0..(MaxSwitches + 1) /\ cmd.old \in 0..(MaxSwitches + 1)
      /\ sends' \in [Commands -> 0..1]
      /\ cmd = [r |-> cmd.r, at |-> cmd.at, old |-> cmd.old, todo |-> cmd.todo]
    BY <1>1, CommandAtWork
<1>3. CASE cmd' = [cmd EXCEPT !.at = "send", !.old = session,
                              !.todo = <<Event("pre_status", session, 0)>>]
    <2> DEFINE e == Event("pre_status", session, 0)
    <2>1. e \in TraceEvents /\ e.event = "pre_status"
        BY <1>2, EventIs, TraceNumbers DEF TraceNames
    <2>2. cmd' = [r |-> cmd.r, at |-> "send", old |-> session, todo |-> <<e>>]
        BY <1>2, <1>3
    <2> HIDE DEF e
    <2>3. /\ <<e>> \in Seq(TraceEvents)
          /\ \A i \in DOMAIN <<e>> :
                /\ <<e>>[i].event \in Terminal => "send" = "idle" /\ i = Len(<<e>>)
                /\ <<e>>[i].event = "confirmation_released" => cmd.r \in changed
        BY <2>1, Todo DEF Terminal
    <2> QED BY <1>1, <1>2, <2>2, <2>3, RemoteStep
<1>4. CASE Moves("idle", <<Event("command_failed", 0, 0), Event("not_sent", 0, 0)>>)
    <2> DEFINE e == Event("command_failed", 0, 0)
               f == Event("not_sent", 0, 0)
    <2>1. /\ e \in TraceEvents /\ e.event = "command_failed"
          /\ f \in TraceEvents /\ f.event = "not_sent"
        BY EventIs, TraceNumbers DEF TraceNames, Terminal
    <2>2. cmd' = [r |-> cmd.r, at |-> "idle", old |-> cmd.old, todo |-> <<e, f>>]
        BY <1>2, <1>4 DEF Moves
    <2> HIDE DEF e, f
    <2>3. /\ <<e, f>> \in Seq(TraceEvents)
          /\ \A i \in DOMAIN <<e, f>> :
                /\ <<e, f>>[i].event \in Terminal => "idle" = "idle" /\ i = Len(<<e, f>>)
                /\ <<e, f>>[i].event = "confirmation_released" => cmd.r \in changed
        BY <2>1, Todo DEF Terminal
    <2> QED BY <1>1, <1>2, <2>2, <2>3, RemoteStep
<1> QED BY <1>3, <1>4 DEF Capture

(* The attempt is recorded before the transport.                            *)
LEMMA SendAttemptInv == EvidenceInv /\ SendAttempt => EvidenceInv'
<1> SUFFICES ASSUME EvidenceInv, SendAttempt PROVE EvidenceInv'
    OBVIOUS
<1>1. /\ cmd.at = "send" /\ cmd.todo = <<>> /\ Same /\ hold' = hold /\ sends' = sends
      /\ Moves("sent", <<Event("send_attempt", cmd.old, 0)>>)
    BY DEF SendAttempt
<1>2. /\ cmd.old \in 0..(MaxSwitches + 1) /\ sends' \in [Commands -> 0..1]
      /\ cmd = [r |-> cmd.r, at |-> cmd.at, old |-> cmd.old, todo |-> cmd.todo]
    BY <1>1, CommandAtWork
<1> DEFINE e == Event("send_attempt", cmd.old, 0)
<1>3. e \in TraceEvents /\ e.event = "send_attempt"
    BY <1>2, EventIs, TraceNumbers DEF TraceNames
<1>4. cmd' = [r |-> cmd.r, at |-> "sent", old |-> cmd.old, todo |-> <<e>>]
    BY <1>1, <1>2 DEF Moves
<1> HIDE DEF e
<1>5. /\ <<e>> \in Seq(TraceEvents)
      /\ \A i \in DOMAIN <<e>> :
            /\ <<e>>[i].event \in Terminal => "sent" = "idle" /\ i = Len(<<e>>)
            /\ <<e>>[i].event = "confirmation_released" => cmd.r \in changed
    BY <1>3, Todo DEF Terminal
<1> QED BY <1>1, <1>2, <1>4, <1>5, RemoteStep

(* The transport answers.                                                   *)
LEMMA TransportInv == EvidenceInv /\ Transport => EvidenceInv'
<1> SUFFICES ASSUME EvidenceInv, Transport PROVE EvidenceInv'
    OBVIOUS
<1>1. /\ cmd.at = "sent" /\ cmd.todo = <<>> /\ Same /\ hold' = hold
      /\ sends' = [sends EXCEPT ![cmd.r] = 1]
    BY DEF Transport
<1>2. /\ cmd.r \in Commands /\ cmd.old \in 0..(MaxSwitches + 1)
      /\ sends \in [Commands -> 0..1]
      /\ cmd = [r |-> cmd.r, at |-> cmd.at, old |-> cmd.old, todo |-> cmd.todo]
    BY <1>1, CommandAtWork
<1>3. sends' \in [Commands -> 0..1] /\ sends'[cmd.r] = 1
    BY <1>1, <1>2, TraceNumbers
<1>4. CASE Moves("hold", <<Event("transport_response", cmd.old, 0)>>)
    <2> DEFINE e == Event("transport_response", cmd.old, 0)
    <2>1. e \in TraceEvents /\ e.event = "transport_response"
        BY <1>2, EventIs, TraceNumbers DEF TraceNames
    <2>2. cmd' = [r |-> cmd.r, at |-> "hold", old |-> cmd.old, todo |-> <<e>>]
        BY <1>2, <1>4 DEF Moves
    <2> HIDE DEF e
    <2>3. /\ <<e>> \in Seq(TraceEvents)
          /\ \A i \in DOMAIN <<e>> :
                /\ <<e>>[i].event \in Terminal => "hold" = "idle" /\ i = Len(<<e>>)
                /\ <<e>>[i].event = "confirmation_released" => cmd.r \in changed
        BY <2>1, Todo DEF Terminal
    <2> QED BY <1>1, <1>2, <1>3, <2>2, <2>3, RemoteStep
<1>5. ASSUME NEW outcome \in {"not_sent", "command_rejected", "ambiguous_result"},
             Moves("idle", <<Event("command_failed", cmd.old, 0), Event(outcome, cmd.old, 0)>>)
      PROVE  EvidenceInv'
    <2> DEFINE e == Event("command_failed", cmd.old, 0)
               f == Event(outcome, cmd.old, 0)
    <2>1. /\ e \in TraceEvents /\ e.event = "command_failed"
          /\ f \in TraceEvents /\ f.event = outcome
        BY <1>2, EventIs, TraceNumbers DEF TraceNames, Terminal
    <2>2. cmd' = [r |-> cmd.r, at |-> "idle", old |-> cmd.old, todo |-> <<e, f>>]
        BY <1>2, <1>5 DEF Moves
    <2> HIDE DEF e, f
    <2>3. /\ <<e, f>> \in Seq(TraceEvents)
          /\ \A i \in DOMAIN <<e, f>> :
                /\ <<e, f>>[i].event \in Terminal => "idle" = "idle" /\ i = Len(<<e, f>>)
                /\ <<e, f>>[i].event = "confirmation_released" => cmd.r \in changed
        BY <2>1, Todo DEF Terminal
    <2> QED BY <1>1, <1>2, <1>3, <2>2, <2>3, RemoteStep
<1> QED BY <1>4, <1>5 DEF Transport

(* The confirmation is held: the gate names the command and its session.    *)
LEMMA HoldInv == EvidenceInv /\ Hold => EvidenceInv'
<1> SUFFICES ASSUME EvidenceInv, Hold PROVE EvidenceInv'
    OBVIOUS
<1>1. /\ cmd.at = "hold" /\ cmd.todo = <<>> /\ Same /\ sends' = sends
      /\ Moves("held", <<Event("confirmation_held", cmd.old, 0)>>)
      /\ hold' = [hold EXCEPT !.held = [r |-> cmd.r, old |-> cmd.old]]
    BY DEF Hold
<1>2. /\ cmd.r \in Commands /\ cmd.r # 0 /\ cmd.old \in 0..(MaxSwitches + 1)
      /\ sends \in [Commands -> 0..1] /\ cmd.r \in 0..MaxCommands
      /\ cmd = [r |-> cmd.r, at |-> cmd.at, old |-> cmd.old, todo |-> cmd.todo]
      /\ hold \in [held : [r : 0..MaxCommands, old : 0..(MaxSwitches + 1)],
                   release : [Commands -> 0..1]]
    BY <1>1, CommandAtWork, TraceNumbers
<1> DEFINE e == Event("confirmation_held", cmd.old, 0)
<1>3. e \in TraceEvents /\ e.event = "confirmation_held"
    BY <1>2, EventIs, TraceNumbers DEF TraceNames
<1>4. cmd' = [r |-> cmd.r, at |-> "held", old |-> cmd.old, todo |-> <<e>>]
    BY <1>1, <1>2 DEF Moves
<1> HIDE DEF e
<1>5. /\ <<e>> \in Seq(TraceEvents)
      /\ \A i \in DOMAIN <<e>> :
            /\ <<e>>[i].event \in Terminal => "held" = "idle" /\ i = Len(<<e>>)
            /\ <<e>>[i].event = "confirmation_released" => cmd.r \in changed
    BY <1>3, Todo DEF Terminal
<1>6. /\ hold' \in [held : [r : 0..MaxCommands, old : 0..(MaxSwitches + 1)],
                    release : [Commands -> 0..1]]
      /\ hold'.held.r = cmd.r /\ hold'.held.old = cmd.old /\ hold'.release = hold.release
    BY <1>1, <1>2
<1>7. sends'[cmd.r] = 1 /\ sends' \in [Commands -> 0..1]
    BY <1>1, <1>2 DEF EvidenceInv, AtWork
<1>8. /\ TraceTypes' /\ AtWork' /\ cmd'.r = cmd.r /\ cmd'.at = "held" /\ cmd'.old = cmd.old
      /\ \A r \in Commands : LogIs(r)' /\ Given(r)' = Given(r)
    BY <1>1, <1>2, <1>4, <1>5, <1>6, <1>7, RemoteMoves
<1>9. Gate'
    <2>1. /\ Gate /\ obs' = obs /\ session' = session /\ changed' = changed /\ trace' = trace
        BY <1>1 DEF EvidenceInv, Same
    <2>2. obs.r # cmd.r /\ hold.release[cmd.r] = 0
        BY <2>1, <1>1, <1>2 DEF Gate
    <2>3. obs.r # 0 => Given(obs.r)' > 0
        BY <2>1 DEF Gate, Given
    <2>4. \A r \in Commands : hold'.release[r] # 0 => r # cmd.r /\ Given(r)' > 0
        BY <2>1, <2>2, <1>6, <1>8 DEF Gate
    <2> QED BY <1>6, <1>8, <2>1, <2>2, <2>3, <2>4 DEF Gate
<1> QED BY <1>8, <1>9 DEF EvidenceInv

(* The hold ends, by the observer's token or by itself.                     *)
LEMMA HoldEndsInv == EvidenceInv /\ HoldEnds => EvidenceInv'
<1> SUFFICES ASSUME EvidenceInv, HoldEnds PROVE EvidenceInv'
    OBVIOUS
<1>1. /\ cmd.at = "held" /\ cmd.todo = <<>> /\ Same /\ sends' = sends
      /\ hold' = [held |-> NoHold, release |-> [hold.release EXCEPT ![cmd.r] = 0]]
    BY DEF HoldEnds
<1>2. /\ cmd.r \in Commands /\ cmd.r # 0 /\ cmd.old \in 0..(MaxSwitches + 1)
      /\ sends \in [Commands -> 0..1] /\ cmd.r \in 0..MaxCommands
      /\ cmd = [r |-> cmd.r, at |-> cmd.at, old |-> cmd.old, todo |-> cmd.todo]
      /\ hold \in [held : [r : 0..MaxCommands, old : 0..(MaxSwitches + 1)],
                   release : [Commands -> 0..1]]
    BY <1>1, CommandAtWork, TraceNumbers
<1>3. PICK e \in TraceEvents :
        /\ Moves("verify", <<e>>) /\ e.event \notin Terminal
        /\ e.event = "confirmation_released" => cmd.r \in changed
    <2>1. CASE /\ hold.release[cmd.r] # 0
               /\ Moves("verify", <<Event("confirmation_released", cmd.old,
                                          hold.release[cmd.r])>>)
        <3>1. cmd.r \in changed
            BY <2>1, <1>1, <1>2 DEF EvidenceInv, Gate
        <3>2. hold.release[cmd.r] \in 0..1
            BY <1>2
        <3>3. /\ Event("confirmation_released", cmd.old, hold.release[cmd.r]) \in TraceEvents
              /\ Event("confirmation_released", cmd.old, hold.release[cmd.r]).event
                   = "confirmation_released"
            BY <1>2, <3>2, EventIs DEF TraceNames
        <3> QED BY <2>1, <3>1, <3>3 DEF Terminal
    <2>2. CASE Moves("verify", <<Event("confirmation_hold_timeout", cmd.old, 0)>>)
        <3>1. /\ Event("confirmation_hold_timeout", cmd.old, 0) \in TraceEvents
              /\ Event("confirmation_hold_timeout", cmd.old, 0).event
                   = "confirmation_hold_timeout"
            BY <1>2, EventIs, TraceNumbers DEF TraceNames
        <3> QED BY <2>2, <3>1 DEF Terminal
    <2> QED BY <2>1, <2>2 DEF HoldEnds
<1>4. cmd' = [r |-> cmd.r, at |-> "verify", old |-> cmd.old, todo |-> <<e>>]
    BY <1>2, <1>3 DEF Moves
<1>5. /\ <<e>> \in Seq(TraceEvents)
      /\ \A i \in DOMAIN <<e>> :
            /\ <<e>>[i].event \in Terminal => "verify" = "idle" /\ i = Len(<<e>>)
            /\ <<e>>[i].event = "confirmation_released" => cmd.r \in changed
    BY <1>3, Todo
<1>6. /\ hold' \in [held : [r : 0..MaxCommands, old : 0..(MaxSwitches + 1)],
                    release : [Commands -> 0..1]]
      /\ hold'.held.r = 0 /\ hold'.release[cmd.r] = 0
      /\ \A r \in Commands : r # cmd.r => hold'.release[r] = hold.release[r]
    <2> DEFINE rel == [hold.release EXCEPT ![cmd.r] = 0]
    <2>1. /\ rel \in [Commands -> 0..1] /\ rel[cmd.r] = 0
          /\ \A r \in Commands : r # cmd.r => rel[r] = hold.release[r]
        BY <1>2, TraceNumbers
    <2>2. hold' = [held |-> [r |-> 0, old |-> 0], release |-> rel]
        BY <1>1 DEF NoHold
    <2> HIDE DEF rel
    <2> QED BY <2>1, <2>2, TraceNumbers
<1>7. sends'[cmd.r] = 1 /\ sends' \in [Commands -> 0..1]
    BY <1>1, <1>2 DEF EvidenceInv, AtWork
<1>8. /\ TraceTypes' /\ AtWork' /\ cmd'.r = cmd.r /\ cmd'.at = "verify"
      /\ \A r \in Commands : LogIs(r)' /\ Given(r)' = Given(r)
    <2> DEFINE todo == <<e>>
    <2>1. /\ todo \in Seq(TraceEvents)
          /\ \A i \in DOMAIN todo :
                /\ todo[i].event \in Terminal => "verify" = "idle" /\ i = Len(todo)
                /\ todo[i].event = "confirmation_released" => cmd.r \in changed
        BY <1>5
    <2>2. cmd' = [r |-> cmd.r, at |-> "verify", old |-> cmd.old, todo |-> todo]
        BY <1>4
    <2> HIDE DEF todo
    <2> QED BY <1>1, <1>2, <1>6, <1>7, <2>1, <2>2, RemoteMoves
<1>9. Gate'
    <2>1. /\ Gate /\ obs' = obs /\ session' = session /\ changed' = changed /\ trace' = trace
        BY <1>1 DEF EvidenceInv, Same
    <2>2. obs.r # 0 => Given(obs.r)' > 0
        BY <2>1 DEF Gate, Given
    <2>3. \A r \in Commands : hold'.release[r] # 0 => r # cmd.r /\ Given(r)' > 0
        BY <2>1, <1>6, <1>8 DEF Gate
    <2> QED BY <1>6, <1>8, <2>1, <2>2, <2>3 DEF Gate
<1> QED BY <1>8, <1>9 DEF EvidenceInv

(* The verdict on the command is recorded.                                  *)
LEMMA VerifyInv == EvidenceInv /\ Verify => EvidenceInv'
<1> SUFFICES ASSUME EvidenceInv, Verify PROVE EvidenceInv'
    OBVIOUS
<1>1. cmd.at = "verify" /\ cmd.todo = <<>> /\ Same /\ hold' = hold /\ sends' = sends
    BY DEF Verify
<1>2. /\ session \in 0..(MaxSwitches + 1) /\ cmd.old \in 0..(MaxSwitches + 1)
      /\ sends' \in [Commands -> 0..1]
      /\ cmd = [r |-> cmd.r, at |-> cmd.at, old |-> cmd.old, todo |-> cmd.todo]
    BY <1>1, CommandAtWork
<1>3. ASSUME NEW todo \in Seq(TraceEvents), Moves("idle", todo),
             \A i \in DOMAIN todo : /\ todo[i].event \in Terminal => i = Len(todo)
                                    /\ todo[i].event # "confirmation_released"
      PROVE  EvidenceInv'
    <2>1. cmd' = [r |-> cmd.r, at |-> "idle", old |-> cmd.old, todo |-> todo]
        BY <1>2, <1>3 DEF Moves
    <2> QED BY <1>1, <1>2, <1>3, <2>1, RemoteStep
<1>4. ASSUME NEW x \in {"confirmation_status", "confirmation_read_failed"},
             NEW y \in {"command_confirmed", "command_unconfirmed"},
             NEW s \in 0..(MaxSwitches + 1),
             Moves("idle", <<Event(x, s, 0), Event(y, s, 0)>>)
      PROVE  EvidenceInv'
    <2> DEFINE e == Event(x, s, 0)
               f == Event(y, s, 0)
    <2>1. /\ e \in TraceEvents /\ e.event = x /\ f \in TraceEvents /\ f.event = y
        BY EventIs, TraceNumbers DEF TraceNames, Terminal
    <2> HIDE DEF e, f
    <2>2. /\ <<e, f>> \in Seq(TraceEvents)
          /\ \A i \in DOMAIN <<e, f>> :
                /\ <<e, f>>[i].event \in Terminal => i = Len(<<e, f>>)
                /\ <<e, f>>[i].event # "confirmation_released"
        BY <2>1, Todo DEF Terminal
    <2> QED BY <1>3, <1>4, <2>2 DEF e, f
<1>5. CASE Moves("idle", <<Event("confirmation_session_changed", session, 0)>>
                         \o <<Event("confirmation_status", session, 0),
                              Event("command_unconfirmed", session, 0)>>)
    <2> DEFINE e == Event("confirmation_session_changed", session, 0)
               f == Event("confirmation_status", session, 0)
               g == Event("command_unconfirmed", session, 0)
    <2>1. /\ e \in TraceEvents /\ e.event = "confirmation_session_changed"
          /\ f \in TraceEvents /\ f.event = "confirmation_status"
          /\ g \in TraceEvents /\ g.event = "command_unconfirmed"
        BY <1>2, EventIs, TraceNumbers DEF TraceNames, Terminal
    <2> HIDE DEF e, f, g
    <2> DEFINE todo == <<e>> \o <<f, g>>
    <2>2. /\ <<e>> \in Seq(TraceEvents) /\ <<f, g>> \in Seq(TraceEvents)
          /\ Len(<<e>>) = 1 /\ Len(<<f, g>>) = 2 /\ <<e>>[1] = e
          /\ <<f, g>>[1] = f /\ <<f, g>>[2] = g
        BY <2>1, Todo
    <2>3. todo \in Seq(TraceEvents) /\ Len(todo) = 3
        BY <2>2
    <2>4. todo[1] = e /\ todo[2] = f
        BY <2>2
    <2> HIDE DEF todo
    <2>5. \A i \in DOMAIN todo : i = 1 \/ i = 2 \/ i = 3
        BY <2>3
    <2>6. \A i \in DOMAIN todo : /\ todo[i].event \in Terminal => i = Len(todo)
                                 /\ i # 3 => todo[i].event # "confirmation_released"
        BY <2>1, <2>3, <2>4, <2>5 DEF Terminal
    <2>7. todo[3] = g
        BY <2>2 DEF todo
    <2>8. \A i \in DOMAIN todo : todo[i].event # "confirmation_released"
        BY <2>1, <2>5, <2>6, <2>7
    <2>9. Moves("idle", todo)
        BY <1>5 DEF todo, e, f, g
    <2> QED BY <1>3, <2>3, <2>6, <2>8, <2>9
<1>6. CASE Moves("idle", <<>> \o <<Event("confirmation_status", session, 0),
                                   Event("command_unconfirmed", session, 0)>>)
    <2> DEFINE e == Event("confirmation_status", session, 0)
               f == Event("command_unconfirmed", session, 0)
    <2> HIDE DEF e, f
    <2>1. <<>> \o <<e, f>> = <<e, f>>
        OBVIOUS
    <2>2. Moves("idle", <<e, f>>)
        BY <1>6, <2>1 DEF e, f
    <2> QED BY <1>2, <1>4, <2>2 DEF e, f
<1>7. \/ Moves("idle", <<Event("confirmation_status", session, 0),
                         Event("command_confirmed", session, 0)>>)
      \/ Moves("idle", <<>> \o <<Event("confirmation_status", session, 0),
                                 Event("command_unconfirmed", session, 0)>>)
      \/ Moves("idle", <<Event("confirmation_session_changed", session, 0)>>
                       \o <<Event("confirmation_status", session, 0),
                            Event("command_unconfirmed", session, 0)>>)
      \/ Moves("idle", <<Event("confirmation_read_failed", 0, 0),
                         Event("command_unconfirmed", 0, 0)>>)
    <2>1. CASE session = cmd.old
        BY <2>1 DEF Verify
    <2>2. CASE session # cmd.old
        BY <2>2 DEF Verify
    <2> QED BY <2>1, <2>2
<1> QED BY <1>2, <1>4, <1>5, <1>6, <1>7, TraceNumbers

(* The owner starts other media: a command that is past its send and not    *)
(* yet read is one whose session changed.                                   *)
LEMMA SwitchMediaInv == EvidenceInv /\ SwitchMedia => EvidenceInv'
<1> SUFFICES ASSUME EvidenceInv, SwitchMedia PROVE EvidenceInv'
    OBVIOUS
<1>1. /\ session <= MaxSwitches /\ session' = session + 1
      /\ changed' = IF cmd.r # 0 /\ sends[cmd.r] = 1 /\ cmd.at \in {"hold", "held", "verify"}
                    THEN changed \cup {cmd.r} ELSE changed
      /\ cmd' = cmd /\ obs' = obs /\ hold' = hold /\ trace' = trace /\ losses' = losses
      /\ lost' = lost /\ sends' = sends
    BY DEF SwitchMedia
<1>2. /\ session \in Sessions /\ cmd.r \in 0..MaxCommands
      /\ changed \subseteq Commands
    BY DEF EvidenceInv, TraceTypes
<1>3. session' \in Sessions
    BY <1>1, <1>2, TraceAssumption DEF Sessions
<1>4. changed' \subseteq Commands /\ changed \subseteq changed'
    BY <1>1, <1>2, TraceNumbers
<1>5. TraceTypes'
    BY <1>1, <1>3, <1>4 DEF EvidenceInv, TraceTypes
<1>6. AtWork' /\ \A r \in Commands : LogIs(r)' /\ Given(r)' = Given(r)
    BY <1>1, <1>4, RemoteKept
<1>7. Gate'
    <2>1. Gate /\ (obs.r # 0 => Given(obs.r)' > 0)
        BY <1>1 DEF EvidenceInv, Gate, Given
    <2>2. cmd.at = "held" => cmd.r \in changed'
        BY <1>1, TraceNumbers DEF EvidenceInv, AtWork, NoTraced
    <2>3. \A r \in Commands : hold.release[r] # 0 => Given(r)' > 0
        BY <2>1, <1>6 DEF Gate
    <2> QED BY <1>1, <1>4, <2>1, <2>2, <2>3 DEF Gate
<1> QED BY <1>5, <1>6, <1>7 DEF EvidenceInv

(* A step of the observer that touches no file of the gate.                 *)
LEMMA ObserverStep ==
    ASSUME EvidenceInv, Calm, hold' = hold,
           NEW r \in 0..MaxCommands, NEW old \in 0..(MaxSwitches + 1),
           NEW at \in {"first", "change", "release", "done"},
           NEW todo \in Seq(TraceEvents),
           obs' = [r |-> r, at |-> at, old |-> old, todo |-> todo],
           r # 0, Given(r) > 0,
           cmd.r = r => cmd.at \in {"held", "verify", "idle"},
           cmd.r = r /\ cmd.at = "held" =>
              /\ old = cmd.old
              /\ at = "change" => session = old \/ cmd.r \in changed
              /\ at = "release" => cmd.r \in changed
    PROVE  EvidenceInv'
<1>1. /\ cmd' = cmd /\ trace' = trace /\ sends' = sends /\ lost' = lost /\ changed' = changed
      /\ session' = session /\ losses' = losses
    BY DEF Calm
<1>2. AtWork' /\ \A q \in Commands : LogIs(q)' /\ Given(q)' = Given(q)
    BY <1>1, RemoteKept
<1>3. /\ obs' \in [r : 0..MaxCommands, old : 0..(MaxSwitches + 1), todo : Seq(TraceEvents),
                   at : {"watch", "first", "change", "release", "done"}]
      /\ obs'.r = r /\ obs'.old = old /\ obs'.at = at
    OBVIOUS
<1>4. TraceTypes'
    BY <1>1, <1>3 DEF EvidenceInv, TraceTypes
<1>5. Given(r)' > 0 /\ \A q \in Commands : hold.release[q] # 0 => Given(q)' > 0
    BY <1>1, <1>2 DEF EvidenceInv, Gate, Given
<1>6. Given(obs.r)' > 0
    BY <1>3, <1>5 DEF Given
<1>7. Gate'
    BY <1>1, <1>3, <1>5, <1>6 DEF EvidenceInv, Gate
<1> QED BY <1>2, <1>4, <1>7 DEF EvidenceInv

(* The observer at work.                                                    *)
LEMMA ObserverAtWork ==
    ASSUME EvidenceInv
    PROVE  /\ obs.r \in 0..MaxCommands /\ obs.old \in 0..(MaxSwitches + 1)
           /\ obs.todo \in Seq(TraceEvents) /\ session \in 0..(MaxSwitches + 1)
           /\ obs = [r |-> obs.r, at |-> obs.at, old |-> obs.old, todo |-> obs.todo]
           /\ obs.at # "watch" => obs.r \in Commands /\ obs.r # 0 /\ Given(obs.r) > 0
           /\ hold.held.r \in 0..MaxCommands /\ hold.held.old \in 0..(MaxSwitches + 1)
<1>1. /\ obs \in [r : 0..MaxCommands, old : 0..(MaxSwitches + 1), todo : Seq(TraceEvents),
                  at : {"watch", "first", "change", "release", "done"}]
      /\ hold \in [held : [r : 0..MaxCommands, old : 0..(MaxSwitches + 1)],
                   release : [Commands -> 0..1]]
      /\ session \in Sessions
    BY DEF EvidenceInv, TraceTypes
<1>2. obs.at # "watch" => obs.r # 0 /\ Given(obs.r) > 0
    BY DEF EvidenceInv, Gate
<1> QED BY <1>1, <1>2, TraceNumbers

(* The observer finds the one command held.                                 *)
LEMMA WaitForHoldInv == EvidenceInv /\ WaitForHold => EvidenceInv'
<1> SUFFICES ASSUME EvidenceInv, WaitForHold PROVE EvidenceInv'
    OBVIOUS
<1>1. /\ obs.at = "watch" /\ hold.held.r # 0 /\ Calm /\ hold' = hold
      /\ obs' = [obs EXCEPT !.r = hold.held.r, !.old = hold.held.old, !.at = "first"]
    BY DEF WaitForHold
<1>2. /\ obs' = [r |-> hold.held.r, at |-> "first", old |-> hold.held.old, todo |-> obs.todo]
      /\ obs.todo \in Seq(TraceEvents)
      /\ hold.held.r \in 0..MaxCommands /\ hold.held.old \in 0..(MaxSwitches + 1)
    BY <1>1, ObserverAtWork
<1>3. cmd.r = hold.held.r /\ cmd.at = "held" /\ cmd.old = hold.held.old
    BY <1>1 DEF EvidenceInv, Gate
<1>4. Given(hold.held.r) > 0
    BY <1>1, <1>3 DEF EvidenceInv, AtWork
<1> QED BY <1>1, <1>2, <1>3, <1>4, ObserverStep

(* One reading of the observer, and what it is about to record.             *)
LEMMA ObserverReads ==
    ASSUME EvidenceInv, Calm, hold' = hold, obs.at # "watch",
           NEW at \in {"change", "release", "done"}, NEW todo \in Seq(TraceEvents),
           obs' = [obs EXCEPT !.at = at, !.todo = todo],
           at = "change" => session = obs.old,
           at = "release" => obs.at = "change" /\ session # obs.old
    PROVE  EvidenceInv'
<1>1. /\ obs' = [r |-> obs.r, at |-> at, old |-> obs.old, todo |-> todo]
      /\ obs.r \in 0..MaxCommands /\ obs.r # 0 /\ Given(obs.r) > 0
      /\ obs.old \in 0..(MaxSwitches + 1)
    BY ObserverAtWork
<1>2. /\ cmd.r = obs.r => cmd.at \in {"held", "verify", "idle"}
      /\ cmd.r = obs.r /\ cmd.at = "held" =>
            /\ obs.old = cmd.old
            /\ obs.at = "change" => session = obs.old \/ cmd.r \in changed
    BY <1>1 DEF EvidenceInv, Gate
<1> QED BY <1>1, <1>2, ObserverStep

(* The readings of the observer.                                            *)
LEMMA ObserverInv ==
    EvidenceInv /\ (SeeHold \/ SeeChange \/ ObserverTimesOut) => EvidenceInv'
<1> SUFFICES ASSUME EvidenceInv, SeeHold \/ SeeChange \/ ObserverTimesOut PROVE EvidenceInv'
    OBVIOUS
<1>1. /\ Calm /\ hold' = hold /\ obs.at # "watch"
      /\ session \in 0..(MaxSwitches + 1) /\ obs.old \in 0..(MaxSwitches + 1)
    BY ObserverAtWork DEF SeeHold, SeeChange, ObserverTimesOut
<1>2. \A x \in TraceNames, s \in 0..(MaxSwitches + 1) : Event(x, s, 0) \in TraceEvents
    BY EventIs, TraceNumbers
<1>3. CASE session = obs.old
           /\ obs' = [obs EXCEPT !.at = "change",
                                 !.todo = <<Event("observer_hold_seen", session, 0)>>]
    <2>1. Event("observer_hold_seen", session, 0) \in TraceEvents
        BY <1>1, <1>2 DEF TraceNames
    <2>2. <<Event("observer_hold_seen", session, 0)>> \in Seq(TraceEvents)
        BY <2>1
    <2> QED BY <1>1, <1>3, <2>2, ObserverReads
<1>4. CASE Done(<<Event("observer_hold_seen", session, 0),
                  Event("observer_session_already_changed", session, 0)>>)
    <2>1. /\ Event("observer_hold_seen", session, 0) \in TraceEvents
          /\ Event("observer_session_already_changed", session, 0) \in TraceEvents
        BY <1>1, <1>2 DEF TraceNames
    <2>2. <<Event("observer_hold_seen", session, 0),
            Event("observer_session_already_changed", session, 0)>> \in Seq(TraceEvents)
        BY <2>1
    <2> QED BY <1>1, <1>4, <2>2, ObserverReads DEF Done
<1>5. CASE obs.at = "change" /\ session # obs.old
           /\ obs' = [obs EXCEPT !.at = "release",
                                 !.todo = <<Event("independent_session_change", session, 0)>>]
    <2>1. <<Event("independent_session_change", session, 0)>> \in Seq(TraceEvents)
        BY <1>1, <1>2 DEF TraceNames
    <2> QED BY <1>1, <1>5, <2>1, ObserverReads
<1>6. CASE Done(<<Event("observer_timeout", 0, 0)>>)
    <2>1. <<Event("observer_timeout", 0, 0)>> \in Seq(TraceEvents)
        BY <1>2, TraceNumbers DEF TraceNames
    <2> QED BY <1>1, <1>6, <2>1, ObserverReads DEF Done
<1>7. CASE SeeHold
    <2>1. CASE session = obs.old
        BY <2>1, <1>3, <1>7 DEF SeeHold
    <2>2. CASE session # obs.old
        BY <2>2, <1>4, <1>7 DEF SeeHold
    <2> QED BY <2>1, <2>2
<1> QED BY <1>5, <1>6, <1>7 DEF SeeChange, ObserverTimesOut

(* The observer's token is written for a command that, if it is held still, *)
(* is one whose session changed.                                            *)
LEMMA ReleaseInv == EvidenceInv /\ Release => EvidenceInv'
<1> SUFFICES ASSUME EvidenceInv, Release PROVE EvidenceInv'
    OBVIOUS
<1>1. /\ obs.at = "release" /\ Calm
      /\ hold' = [hold EXCEPT !.release[obs.r] = 1]
      /\ obs' = [obs EXCEPT !.at = "done", !.todo = <<Event("observer_release_sent", 0, 1)>>]
    BY DEF Release, Done
<1>2. /\ cmd' = cmd /\ trace' = trace /\ sends' = sends /\ lost' = lost /\ changed' = changed
      /\ session' = session /\ losses' = losses
    BY <1>1 DEF Calm
<1>3. /\ obs.r \in Commands /\ obs.r # 0 /\ Given(obs.r) > 0
      /\ obs.r \in 0..MaxCommands /\ obs.old \in 0..(MaxSwitches + 1)
    BY <1>1, ObserverAtWork
<1>4. Event("observer_release_sent", 0, 1) \in TraceEvents
    BY EventIs, TraceNumbers DEF TraceNames
<1>5. <<Event("observer_release_sent", 0, 1)>> \in Seq(TraceEvents)
    BY <1>4
<1>6. /\ obs' \in [r : 0..MaxCommands, old : 0..(MaxSwitches + 1), todo : Seq(TraceEvents),
                   at : {"watch", "first", "change", "release", "done"}]
      /\ obs'.r = obs.r /\ obs'.old = obs.old /\ obs'.at = "done"
    BY <1>1, <1>3, <1>5 DEF EvidenceInv, TraceTypes
<1>7. /\ hold' \in [held : [r : 0..MaxCommands, old : 0..(MaxSwitches + 1)],
                    release : [Commands -> 0..1]]
      /\ hold'.held = hold.held
      /\ \A q \in Commands : q # obs.r => hold'.release[q] = hold.release[q]
    <2> DEFINE rel == [hold.release EXCEPT ![obs.r] = 1]
    <2>1. hold \in [held : [r : 0..MaxCommands, old : 0..(MaxSwitches + 1)],
                    release : [Commands -> 0..1]]
        BY DEF EvidenceInv, TraceTypes
    <2>2. /\ rel \in [Commands -> 0..1]
          /\ \A q \in Commands : q # obs.r => rel[q] = hold.release[q]
        BY <1>3, <2>1, TraceNumbers
    <2>3. hold' = [held |-> hold.held, release |-> rel]
        BY <1>1, <2>1
    <2> HIDE DEF rel
    <2> QED BY <2>1, <2>2, <2>3
<1>8. AtWork' /\ \A q \in Commands : LogIs(q)' /\ Given(q)' = Given(q)
    BY <1>2, RemoteKept
<1>9. TraceTypes'
    BY <1>2, <1>6, <1>7 DEF EvidenceInv, TraceTypes
<1>10. Gate'
    <2>1. Gate
        BY DEF EvidenceInv
    <2>2. Given(obs.r)' > 0
        BY <1>2, <1>3, <1>6 DEF Given
    <2>3. /\ cmd.r = obs.r => cmd.at \in {"held", "verify", "idle"}
          /\ cmd.r = obs.r /\ cmd.at = "held" => obs.old = cmd.old /\ cmd.r \in changed
        BY <2>1, <1>1, <1>3 DEF Gate
    <2>4. \A q \in Commands : hold'.release[q] # 0 =>
             /\ Given(q)' > 0
             /\ cmd.r = q => cmd.at \in {"held", "verify", "idle"}
             /\ cmd.r = q /\ cmd.at = "held" => q \in changed
        <3>1. ASSUME NEW q \in Commands, hold'.release[q] # 0
              PROVE  /\ Given(q)' > 0
                     /\ cmd.r = q => cmd.at \in {"held", "verify", "idle"}
                     /\ cmd.r = q /\ cmd.at = "held" => q \in changed
            <4>1. CASE q = obs.r
                BY <4>1, <2>3, <1>3, <1>8
            <4>2. CASE q # obs.r
                BY <4>2, <3>1, <2>1, <1>7, <1>8 DEF Gate
            <4> QED BY <4>1, <4>2
        <3> QED BY <3>1
    <2> QED BY <1>2, <1>3, <1>6, <1>7, <2>1, <2>2, <2>3, <2>4 DEF Gate
<1> QED BY <1>8, <1>9, <1>10 DEF EvidenceInv

(* A step that changes nothing of the traces.                               *)
LEMMA EvidenceStutters == EvidenceInv /\ UNCHANGED tvars => EvidenceInv'
<1> SUFFICES ASSUME EvidenceInv, UNCHANGED tvars PROVE EvidenceInv'
    OBVIOUS
<1>1. /\ cmd' = cmd /\ trace' = trace /\ sends' = sends /\ lost' = lost /\ changed' = changed
      /\ session' = session /\ losses' = losses /\ obs' = obs /\ hold' = hold
    BY DEF tvars
<1>2. AtWork' /\ \A q \in Commands : LogIs(q)' /\ Given(q)' = Given(q)
    BY <1>1, RemoteKept
<1>3. TraceTypes' /\ Gate'
    BY <1>1 DEF EvidenceInv, TraceTypes, Gate, Given
<1> QED BY <1>2, <1>3 DEF EvidenceInv

(* The first event of a name is one of that name; without one it is 0.      *)
LEMMA FirstIs ==
    ASSUME NEW stream \in Seq(Entries), NEW name
    PROVE  /\ First(stream, name) \in Nat
           /\ First(stream, name) # 0 => Holds(stream, name)
<1>1. CASE ~Holds(stream, name)
    BY <1>1 DEF First
<1>2. CASE Holds(stream, name)
    <2> DEFINE T == {i \in DOMAIN stream : stream[i].e.event = name}
               P(i) == /\ stream[i].e.event = name
                       /\ \A j \in 1..(i - 1) : stream[j].e.event # name
    <2>1. DOMAIN stream = 1..Len(stream) /\ Len(stream) \in Nat
        OBVIOUS
    <2>2. T \subseteq Nat /\ T # {}
        BY <1>2, <2>1 DEF Holds
    <2>3. PICK i \in T : \A j \in T : ~(<<j, i>> \in OpToRel(<, Nat))
        <3> HIDE DEF T
        <3> QED BY <2>2, NatLessThanWellFounded, WFMin
    <2>4. \A j \in T : ~(j < i)
        BY <2>2, <2>3 DEF OpToRel
    <2>5. i \in DOMAIN stream /\ P(i)
        BY <2>1, <2>4
    <2>6. (CHOOSE k \in DOMAIN stream : P(k)) \in DOMAIN stream
        <3> HIDE DEF P
        <3> QED BY <2>5
    <2>7. First(stream, name) = CHOOSE k \in DOMAIN stream : P(k)
        BY <1>2 DEF First
    <2> HIDE DEF P
    <2> QED BY <2>1, <2>6, <2>7, <1>2
<1> QED BY <1>1, <1>2

(* A complete trace of a command lost nothing.                              *)
LEMMA LossShows == EvidenceInv => LossIsDetected
<1> SUFFICES ASSUME EvidenceInv, NEW r \in Commands,
                    StreamComplete(Stream("remote", r), TRUE), <<"remote", r>> \in lost
             PROVE  FALSE
    BY DEF LossIsDetected
<1> DEFINE s == Stream("remote", r)
<1>1. /\ \A i \in DOMAIN s : s[i].index = i - 1
      /\ s # <<>> /\ s[Len(s)].e.event \in Terminal
    BY DEF StreamComplete
<1>2. s = Log(r)
    BY <1>1 DEF Stream, Log
<1>3. Log(r) \in Seq(Entries)
    BY TraceNumbers DEF EvidenceInv, TraceTypes, Traces, Log
<1>4. Gap(Log(r)) \/ NoOutcome(Log(r))
    BY DEF EvidenceInv, LogIs
<1> HIDE DEF s
<1>5. Len(s) \in DOMAIN s
    BY <1>1, <1>2, <1>3
<1> QED BY <1>1, <1>2, <1>4, <1>5 DEF Gap, NoOutcome

(* A pass of C6 rests on a release of the hold, and a release on a change.  *)
LEMMA PassIsCausal == EvidenceInv => C6PassIsCausal
<1> SUFFICES ASSUME EvidenceInv, NEW r \in Commands, CheckC6(r)
             PROVE  r \in changed
    BY DEF C6PassIsCausal
<1> DEFINE s == Stream("remote", r)
           At(name) == First(s, name)
<1>1. /\ s # <<>>
      /\ 0 < At("pre_status") /\ At("pre_status") < At("send_attempt")
      /\ At("send_attempt") < At("transport_response")
      /\ At("transport_response") < At("confirmation_held")
      /\ At("confirmation_held") < At("confirmation_released")
    BY DEF CheckC6, StreamComplete
<1>2. s = Log(r)
    BY <1>1 DEF Stream, Log
<1>3. Log(r) \in Seq(Entries)
    BY TraceNumbers DEF EvidenceInv, TraceTypes, Traces, Log
<1> HIDE DEF s
<1>4. \A name \in TraceNames : At(name) \in Nat /\ (At(name) # 0 => Holds(s, name))
    BY <1>2, <1>3, FirstIs
<1> HIDE DEF At
<1>5. /\ "pre_status" \in TraceNames /\ "send_attempt" \in TraceNames
      /\ "transport_response" \in TraceNames /\ "confirmation_held" \in TraceNames
      /\ "confirmation_released" \in TraceNames
    BY DEF TraceNames
<1>6. Holds(s, "confirmation_released")
    BY <1>1, <1>4, <1>5
<1> QED BY <1>2, <1>6 DEF EvidenceInv, LogIs, Holds

(* The types of the traces, as the run checks them.                         *)
LEMMA EvidenceTypes == EvidenceInv => TraceTypeOK
<1> SUFFICES ASSUME EvidenceInv PROVE TraceTypeOK
    OBVIOUS
<1>1. TraceTypes
    BY DEF EvidenceInv
<1>2. \A c \in TraceClients : \A r \in Commands :
         trace[c].next[r] \in Nat /\ trace[c].incomplete \subseteq Commands
    <2>1. \A c \in TraceClients : trace[c] \in Traces
        BY <1>1 DEF TraceTypes
    <2> QED BY <2>1 DEF Traces
<1> QED BY <1>1, <1>2 DEF TraceTypes, TraceTypeOK

(* The inductive invariant of the traces and their gate: what is missing    *)
(* leaves its index behind, and a released hold is one whose session        *)
(* changed (command_trace.py, trace_files.py, acceptance_observer.py).      *)
THEOREM EvidenceInductive == TraceSpec => []EvidenceInv
<1>1. EvidenceInv /\ [TraceNext]_tvars => EvidenceInv'
    <2> SUFFICES ASSUME EvidenceInv, [TraceNext]_tvars PROVE EvidenceInv'
        OBVIOUS
    <2>1. CASE RemoteRecords
        BY <2>1, RemoteRecordsInv
    <2>2. CASE ObserverRecords
        BY <2>2, ObserverRecordsInv
    <2>3. ASSUME NEW r \in Commands, Command(r) PROVE EvidenceInv'
        BY <2>3, CommandInv
    <2>4. CASE Capture
        BY <2>4, CaptureInv
    <2>5. CASE SendAttempt
        BY <2>5, SendAttemptInv
    <2>6. CASE Transport
        BY <2>6, TransportInv
    <2>7. CASE Hold
        BY <2>7, HoldInv
    <2>8. CASE HoldEnds
        BY <2>8, HoldEndsInv
    <2>9. CASE Verify
        BY <2>9, VerifyInv
    <2>10. CASE SwitchMedia
        BY <2>10, SwitchMediaInv
    <2>11. CASE WaitForHold
        BY <2>11, WaitForHoldInv
    <2>12. CASE SeeHold \/ SeeChange \/ ObserverTimesOut
        BY <2>12, ObserverInv
    <2>13. CASE Release
        BY <2>13, ReleaseInv
    <2>14. CASE UNCHANGED tvars
        BY <2>14, EvidenceStutters
    <2> QED BY <2>1, <2>2, <2>3, <2>4, <2>5, <2>6, <2>7, <2>8, <2>9, <2>10, <2>11, <2>12,
               <2>13, <2>14 DEF TraceNext
<1> QED BY <1>1, EvidenceInit, PTL DEF TraceSpec

(* A trace that passes has lost no event, however many writes fail, and C6  *)
(* passes only for a command whose session changed between its send and the *)
(* read that confirms it (scripts/acceptance_trace_evidence.py).            *)
THEOREM EvidenceSound == TraceSpec => []EvidenceIsSound
<1>1. EvidenceInv => EvidenceIsSound
    BY LossShows, PassIsCausal, EvidenceTypes DEF EvidenceIsSound
<1> QED BY <1>1, EvidenceInductive, PTL
=============================================================================
