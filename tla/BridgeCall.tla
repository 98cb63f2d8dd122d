----------------------------- MODULE BridgeCall -----------------------------
(***************************************************************************)
(* call_bridge and BridgeSlot (src-tauri/src/bridge.rs): every request of  *)
(* the window runs on a worker thread that takes the one bridge, replaces  *)
(* a dead Python process, claims the request, writes it once and reads the *)
(* reply, while its caller waits for at most its own timeout.              *)
(***************************************************************************)
EXTENDS Naturals, FiniteSets

CONSTANTS
    Calls,        \* the requests made by the user interface
    MaxProcess,   \* bound: Python processes ever started
    Builds        \* the builds: TRUE where Python is embedded (Android)

ASSUME BridgeCallAssumption ==
    /\ MaxProcess \in Nat
    /\ Builds \subseteq BOOLEAN

VARIABLES
    caller,      \* per call: the async command's own progress
    result,      \* per call: the code its caller got
    worker,      \* per call: the program counter of its blocking worker
    returned,    \* per call: what the worker returned
    claim,       \* per call: the claim both sides settle by compare-and-swap
    writtenTo,   \* per call: the process it is written to, 0 before that
    stage,       \* per call: how far its request line travelled
    owner,       \* the workers holding the bridge lock (at most one)
    poisoned,    \* a worker panicked while it held the lock
    slot,        \* the process of BridgeState::Ready, 0 for Unavailable
    process,     \* per process: "unborn", "alive" or "exited"
    killing,     \* processes a timed-out caller is about to terminate
    embedded     \* the build: Python runs in this process, nothing can be killed

vars == <<caller, result, worker, returned, claim, writtenTo, stage, owner,
          poisoned, slot, process,
                   killing, embedded>>

Processes == 1..MaxProcess
Codes == {"answered", "bridge_busy", "backend_unavailable", "bridge_transport",
          "bridge_timeout"}

(* The phases of a worker that holds the bridge, in the order of the code. *)
Holding == {"locked", "recovered", "ready", "claimed", "reading"}

(* Types: the slot names a process that was really started (call_bridge),  *)
(* and a caller has one of the outcomes call_bridge can return.            *)
TypeOK ==
    /\ caller \in [Calls -> {"idle", "waiting", "expired", "done"}]
    /\ result \in [Calls -> Codes \cup {"none"}]
    /\ worker \in [Calls -> Holding \cup {"none", "queued", "returned", "panicked"}]
    /\ returned \in [Calls -> Codes \cup {"none"}]
    /\ claim \in [Calls -> {"PENDING", "STARTED", "ABANDONED"}]
    /\ writtenTo \in [Calls -> Processes \cup {0}]
    /\ stage \in [Calls -> {"unwritten", "piped", "handled", "replied", "read"}]
    /\ owner \subseteq Calls
    /\ poisoned \in BOOLEAN
    /\ slot \in Processes \cup {0}
    /\ process \in [Processes -> {"unborn", "alive", "exited"}]
    /\ killing \subseteq Processes
    /\ embedded \in BOOLEAN

Unborn(p) == process[p] = "unborn"

(* BridgeSlot::new: the launcher is tried once at startup.                 *)
Init ==
    /\ caller = [c \in Calls |-> "idle"]
    /\ result = [c \in Calls |-> "none"]
    /\ worker = [c \in Calls |-> "none"]
    /\ returned = [c \in Calls |-> "none"]
    /\ claim = [c \in Calls |-> "PENDING"]
    /\ writtenTo = [c \in Calls |-> 0]
    /\ stage = [c \in Calls |-> "unwritten"]
    /\ owner = {}
    /\ poisoned = FALSE
    /\ slot \in {0, 1} \cap (Processes \cup {0})
    /\ process = [p \in Processes |-> IF p = slot THEN "alive" ELSE "unborn"]
    /\ killing = {}
    /\ embedded \in Builds

-----------------------------------------------------------------------------
(* BridgeProcess::terminate: kill and reap. An embedded bridge has nothing *)
(* to stop.                                                                *)
Killed(procs, p) ==
    IF p \in Processes /\ ~embedded THEN [procs EXCEPT ![p] = "exited"] ELSE procs

(* BridgeSlot::retire *)
Retire ==
    /\ process' = Killed(process, slot)
    /\ slot' = 0

(* The worker returns and its guard gives the bridge back.                 *)
Return(c, code) ==
    /\ worker' = [worker EXCEPT ![c] = "returned"]
    /\ returned' = [returned EXCEPT ![c] = code]
    /\ owner' = owner \ {c}

Call(c) ==
    /\ caller[c] = "idle"
    /\ caller' = [caller EXCEPT ![c] = "waiting"]
    /\ worker' = [worker EXCEPT ![c] = "queued"]
    /\ UNCHANGED <<result, returned, claim, writtenTo, stage, owner, poisoned,
                   slot, process, killing, embedded>>

(* Mutant: a poisoned lock is taken as it is. *)
LockIgnoringPoison(c) ==
    /\ worker[c] = "queued"
    /\ owner = {}
    /\ owner' = {c}
    /\ worker' = [worker EXCEPT ![c] = "locked"]
    /\ poisoned' = FALSE
    /\ UNCHANGED <<caller, result, returned, claim, writtenTo, stage, slot,
                   process, killing, embedded>>

(* The worker gets the lock; a poisoned one has its bridge retired first.  *)
Lock(c) ==
    /\ worker[c] = "queued"
    /\ owner = {}
    /\ owner' = {c}
    /\ worker' = [worker EXCEPT ![c] = "locked"]
    /\ poisoned' = FALSE
    /\ IF poisoned THEN Retire ELSE UNCHANGED <<slot, process>>
    /\ UNCHANGED <<caller, result, returned, claim, writtenTo, stage, killing, embedded>>

(* BridgeSlot::recover, only while the request is still wanted: a process  *)
(* found exited is retired, and a new one started where none runs. The     *)
(* launcher may fail.                                                      *)
Recover(c) ==
    /\ worker[c] = "locked"
    /\ worker' = [worker EXCEPT ![c] = "recovered"]
    /\ IF claim[c] # "PENDING" \/ (slot # 0 /\ process[slot] = "alive")
       THEN UNCHANGED <<slot, process>>
       ELSE \/ slot' = 0 /\ UNCHANGED process
            \/ \E p \in Processes :
                 /\ Unborn(p)
                 /\ \A q \in Processes : q < p => ~Unborn(q)
                 /\ slot' = p
                 /\ process' = [process EXCEPT ![p] = "alive"]
    /\ UNCHANGED <<caller, result, returned, claim, writtenTo, stage, owner,
                   poisoned, killing, embedded>>

(* The bridge the worker will use: its process is published in written_to  *)
(* before the claim, so that a caller that loses the claim can stop it.    *)
UseBridge(c) ==
    /\ worker[c] = "recovered"
    /\ IF slot = 0
       THEN /\ Return(c, "backend_unavailable")
            /\ UNCHANGED writtenTo
       ELSE /\ writtenTo' = [writtenTo EXCEPT ![c] = slot]
            /\ worker' = [worker EXCEPT ![c] = "ready"]
            /\ UNCHANGED <<returned, owner>>
    /\ UNCHANGED <<caller, result, claim, stage, poisoned, slot, process,
                   killing, embedded>>

(* The compare-and-swap PENDING -> STARTED.                                *)
Claim(c) ==
    /\ worker[c] = "ready"
    /\ IF claim[c] = "PENDING"
       THEN /\ claim' = [claim EXCEPT ![c] = "STARTED"]
            /\ worker' = [worker EXCEPT ![c] = "claimed"]
            /\ UNCHANGED <<returned, owner>>
       ELSE /\ Return(c, "bridge_busy")
            /\ UNCHANGED claim
    /\ UNCHANGED <<caller, result, writtenTo, stage, poisoned, slot, process,
                   killing, embedded>>

(* call_as: the request line is written to the process's stdin. A dead     *)
(* process's pipe is broken: bridge_transport, which retires the bridge.   *)
Write(c) ==
    /\ worker[c] = "claimed"
    /\ IF process[slot] = "alive"
       THEN /\ stage' = [stage EXCEPT ![c] = "piped"]
            /\ worker' = [worker EXCEPT ![c] = "reading"]
            /\ UNCHANGED <<returned, owner, slot, process>>
       ELSE /\ Return(c, "bridge_transport")
            /\ Retire
            /\ UNCHANGED stage
    /\ UNCHANGED <<caller, result, claim, writtenTo, poisoned, killing, embedded>>

(* embedded_rejection: either the embedded Python could not start, and     *)
(* nothing of the request reached the control layer, or the rejection may  *)
(* have come after the request was handled.                                *)
EmbeddedRejects(c) ==
    /\ embedded
    /\ \/ /\ worker[c] = "claimed"
          /\ Return(c, "backend_unavailable")
          /\ UNCHANGED <<slot, process>>
       \/ /\ worker[c] = "reading"
          /\ Return(c, "bridge_transport")
          /\ Retire
    /\ UNCHANGED <<caller, result, claim, writtenTo, stage, poisoned, killing, embedded>>

(* One reply line. parse_response accepts only its own id, well formed;    *)
(* anything else is bridge_transport and retires the bridge.               *)
ReadReply(c) ==
    /\ worker[c] = "reading"
    /\ \E d \in Calls :
         /\ stage[d] = "replied"
         /\ writtenTo[d] = writtenTo[c]
         /\ stage' = [stage EXCEPT ![d] = "read"]
         /\ \/ /\ d = c
               /\ Return(c, "answered")
               /\ UNCHANGED <<slot, process>>
            \/ /\ Return(c, "bridge_transport")
               /\ Retire
    /\ UNCHANGED <<caller, result, claim, writtenTo, poisoned, killing, embedded>>

(* Mutant: an empty read passes for an answer. *)
EofIsAnAnswer(c) ==
    /\ worker[c] = "reading"
    /\ process[slot] = "exited"
    /\ \A d \in Calls : ~(stage[d] = "replied" /\ writtenTo[d] = writtenTo[c])
    /\ Return(c, "answered")
    /\ UNCHANGED <<caller, result, claim, writtenTo, stage, poisoned, slot,
                   process, killing, embedded>>

(* End of file on a dead process's stdout, once its last line is read.     *)
ReadEof(c) ==
    /\ worker[c] = "reading"
    /\ process[slot] = "exited"
    /\ \A d \in Calls : ~(stage[d] = "replied" /\ writtenTo[d] = writtenTo[c])
    /\ Return(c, "bridge_transport")
    /\ Retire
    /\ UNCHANGED <<caller, result, claim, writtenTo, stage, poisoned, killing, embedded>>

(* A worker panics while it uses the bridge: its guard poisons the lock.   *)
Panic(c) ==
    /\ worker[c] \in Holding
    /\ worker' = [worker EXCEPT ![c] = "panicked"]
    /\ returned' = [returned EXCEPT ![c] = "bridge_transport"]
    /\ owner' = owner \ {c}
    /\ poisoned' = TRUE
    /\ UNCHANGED <<caller, result, claim, writtenTo, stage, slot, process,
                   killing, embedded>>

WorkerStep(c) ==
    \/ Lock(c) \/ Recover(c) \/ UseBridge(c) \/ Claim(c) \/ Write(c)
    \/ ReadReply(c) \/ ReadEof(c)

-----------------------------------------------------------------------------
(* The caller: tokio's timeout looks at the finished worker first.         *)

Resolve(c) ==
    /\ caller[c] = "waiting"
    /\ worker[c] \in {"returned", "panicked"}
    /\ caller' = [caller EXCEPT ![c] = "done"]
    /\ result' = [result EXCEPT ![c] = returned[c]]
    /\ UNCHANGED <<worker, returned, claim, writtenTo, stage, owner, poisoned,
                   slot, process, killing, embedded>>

Timeout(c) ==
    /\ caller[c] = "waiting"
    /\ worker[c] \notin {"returned", "panicked"}
    /\ caller' = [caller EXCEPT ![c] = "expired"]
    /\ UNCHANGED <<result, worker, returned, claim, writtenTo, stage, owner,
                   poisoned, slot, process,
                   killing, embedded>>

(* Mutant: a timed-out request leaves its process running. *)
AbandonWithoutKill(c) ==
    /\ caller[c] = "expired"
    /\ caller' = [caller EXCEPT ![c] = "done"]
    /\ IF claim[c] = "PENDING"
       THEN /\ claim' = [claim EXCEPT ![c] = "ABANDONED"]
            /\ result' = [result EXCEPT ![c] = "bridge_busy"]
       ELSE /\ result' = [result EXCEPT ![c] = "bridge_timeout"]
            /\ UNCHANGED claim
    /\ UNCHANGED <<worker, returned, writtenTo, stage, owner, poisoned, slot,
                   process, killing, embedded>>

(* The compare-and-swap PENDING -> ABANDONED. When the worker won it, the  *)
(* process this request is written to is stopped, on another thread.       *)
Abandon(c) ==
    /\ caller[c] = "expired"
    /\ caller' = [caller EXCEPT ![c] = "done"]
    /\ IF claim[c] = "PENDING"
       THEN /\ claim' = [claim EXCEPT ![c] = "ABANDONED"]
            /\ result' = [result EXCEPT ![c] = "bridge_busy"]
            /\ UNCHANGED killing
       ELSE /\ result' = [result EXCEPT ![c] = "bridge_timeout"]
            /\ killing' = killing \cup ({writtenTo[c]} \cap Processes)
            /\ UNCHANGED claim
    /\ UNCHANGED <<worker, returned, writtenTo, stage, owner, poisoned, slot,
                   process, embedded>>

Terminate(p) ==
    /\ p \in killing
    /\ killing' = killing \ {p}
    /\ process' = Killed(process, p)
    /\ UNCHANGED <<caller, result, worker, returned, claim, writtenTo, stage,
                   owner, poisoned, slot, embedded>>

-----------------------------------------------------------------------------
(* The Python process: it may exit at any instant, and may stay stuck on a *)
(* request for ever.                                                       *)

Exit(p) ==
    /\ ~embedded
    /\ process[p] = "alive"
    /\ process' = [process EXCEPT ![p] = "exited"]
    /\ UNCHANGED <<caller, result, worker, returned, claim, writtenTo, stage,
                   owner, poisoned, slot, killing, embedded>>

Handle(c) ==
    /\ stage[c] = "piped"
    /\ process[writtenTo[c]] = "alive"
    /\ stage' = [stage EXCEPT ![c] = "handled"]
    /\ UNCHANGED <<caller, result, worker, returned, claim, writtenTo, owner,
                   poisoned, slot, process,
                   killing, embedded>>

Reply(c) ==
    /\ stage[c] = "handled"
    /\ process[writtenTo[c]] = "alive"
    /\ stage' = [stage EXCEPT ![c] = "replied"]
    /\ UNCHANGED <<caller, result, worker, returned, claim, writtenTo, owner,
                   poisoned, slot, process,
                   killing, embedded>>

Next ==
    \/ \E c \in Calls :
         \/ Call(c) \/ WorkerStep(c) \/ EmbeddedRejects(c) \/ Panic(c)
         \/ Resolve(c) \/ Timeout(c) \/ Abandon(c)
         \/ Handle(c) \/ Reply(c)
    \/ \E p \in Processes : Terminate(p) \/ Exit(p)

(* The runtime runs the workers, the callers' timers and the terminate     *)
(* tasks. Nothing is assumed of Python, in a process of its own or not.    *)
Fairness ==
    /\ \A c \in Calls :
         /\ WF_vars(WorkerStep(c))
         /\ WF_vars(Resolve(c) \/ Timeout(c))
         /\ WF_vars(Abandon(c))
    /\ \A p \in Processes : WF_vars(Terminate(p))

Spec == Init /\ [][Next]_vars /\ Fairness

-----------------------------------------------------------------------------
(* A call answered bridge_busy or backend_unavailable was never written,   *)
(* and no worker will write it later: the user may press again without a   *)
(* double command (call_bridge's claim).                                   *)
NotSentIsNeverWritten ==
    \A c \in Calls :
        result[c] \in {"bridge_busy", "backend_unavailable"} =>
            stage[c] = "unwritten" /\ worker[c] \notin {"claimed", "reading"}

(* Recovery never leaves two Python bridges behind it: a process that is   *)
(* still running is the one in the slot (BridgeSlot::retire, recover).     *)
OneLiveBridge ==
    embedded \/ \A p \in Processes : process[p] = "alive" => p = slot

(* A bridge has at most one request in its pipes, so a worker never meets  *)
(* the reply of another request: a worker that panicked half way, or gave  *)
(* up, always leaves a retired bridge to the next one.                     *)
RepliesDoNotCross ==
    \A c, d \in Calls :
        (worker[c] = "reading" /\ c # d) =>
            ~(writtenTo[c] = writtenTo[d] /\ stage[d] \in {"piped", "handled", "replied"})

(* The outcomes of Delivery: what the codes tell the user.                 *)
DeliveredCalls == {c \in Calls : stage[c] \in {"handled", "replied", "read"}}
Told(code) ==
    CASE code = "none" -> "none"
      [] code = "answered" -> "answered"
      [] code \in {"bridge_busy", "backend_unavailable"} -> "not_sent"
      [] code \in {"bridge_transport", "bridge_timeout"} -> "uncertain"
ToldOutcome == [c \in Calls |-> Told(result[c])]

Promise == INSTANCE Delivery WITH
    Requests <- Calls, delivered <- DeliveredCalls, outcome <- ToldOutcome

(* Through panics, kills, timeouts and restarts, every call keeps the      *)
(* promise of Delivery: at most one delivery, an honest outcome, for good. *)
KeepsThePromise == Promise!Spec

(* A stuck bridge cannot hold every later request: each caller gets its    *)
(* outcome and, where a stuck Python can be killed, each worker gives the  *)
(* bridge back.                                                            *)
NobodyWaitsForever ==
    \A c \in Calls :
        /\ (caller[c] = "waiting") ~> (caller[c] = "done")
        /\ (worker[c] = "queued" /\ ~embedded) ~> (worker[c] \in {"returned", "panicked"})
=============================================================================
