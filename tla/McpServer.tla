----------------------------- MODULE McpServer -----------------------------
(***************************************************************************)
(* mcp_server.py over bridge.dispatch: the tool calls of an MCP client.    *)
(* They come concurrently, run one at a time on a worker thread under one  *)
(* lock, may be cancelled by the client at any moment, and every failure   *)
(* is an answer that says what is known of the command's delivery.         *)
(***************************************************************************)
EXTENDS Naturals, Sequences, FiniteSets

CONSTANT ToolCalls       \* the calls the client makes in one session

ASSUME McpAssumption == "nobody" \notin ToolCalls

(* A reading tool; a playback command, whose target is read before; a       *)
(* command sent without that read (set_volume, set_muted); and a name or an *)
(* argument the server does not list.                                       *)
Tools == {"read", "playback", "sound", "unlisted"}

CommandTools == {"playback", "sound"}

(* ErrorCode and INTERNAL_ERROR_CODE; "device_not_found" stands for every   *)
(* code that no operation raises once a command was written.                *)
ErrorCodes == {"invalid_argument", "device_not_found", "timeout", "device_unavailable",
          "command_rejected", "internal_error"}

VARIABLES
    tool,        \* per call: the tool, or "none" before the call
    place,       \* per call: where it is
    lane,        \* anyio.Lock: the calls that wait for it, in order
    holder,      \* the call that holds it, or "nobody"
    cancelled,   \* the calls the client cancelled
    response,    \* per call: what dispatch returned, [code, delivery]
    left,        \* the commands given to the TV
    told         \* per call: what its client knows of its delivery

mvars == <<tool, place, lane, holder, cancelled, response, left, told>>

Places == {"new", "waiting", "dispatch", "target", "send", "verify", "returned", "ended"}

(* The worker thread of these calls is inside the shared layer.             *)
InService(c) == place[c] \in {"dispatch", "target", "send", "verify"}

NoResponse == [code |-> "none", delivery |-> "none"]

McpTypeOK ==
    /\ tool \in [ToolCalls -> Tools \cup {"none"}]
    /\ place \in [ToolCalls -> Places]
    /\ lane \in Seq(ToolCalls)
    /\ holder \in ToolCalls \cup {"nobody"}
    /\ cancelled \subseteq ToolCalls
    /\ response \in [ToolCalls -> [code : ErrorCodes \cup {"none", "ok"}, delivery : {"none", "not_sent"}]]
    /\ left \subseteq ToolCalls
    /\ told \in [ToolCalls -> {"none", "answered", "not_sent", "uncertain"}]

McpInit ==
    /\ tool = [c \in ToolCalls |-> "none"]
    /\ place = [c \in ToolCalls |-> "new"]
    /\ lane = <<>>
    /\ holder = "nobody"
    /\ cancelled = {}
    /\ response = [c \in ToolCalls |-> NoResponse]
    /\ left = {}
    /\ told = [c \in ToolCalls |-> "none"]

(* Mutant: only a timeout leaves a doubt about the delivery. *)
CommandDeliveryOfTimeout(code) == IF code = "timeout" THEN "uncertain" ELSE "not_sent"

(* _COMMAND_DELIVERY: what a failed command means, by its error code.       *)
CommandDelivery(code) ==
    IF code \in {"timeout", "device_unavailable", "command_rejected", "internal_error"}
    THEN "uncertain" ELSE "not_sent"

(* present_error: a delivery the shared layer gives goes before the table.  *)
PresentError(r) == IF r.delivery # "none" THEN r.delivery ELSE CommandDelivery(r.code)

(* present_command: a result of the shared layer is worded as sent.         *)
PresentCommand == "answered"

Presented(r) == IF r.code = "ok" THEN PresentCommand ELSE PresentError(r)

Move(c, p) == place' = [place EXCEPT ![c] = p]

(* _call: an unlisted tool or argument is refused before the lock; any      *)
(* other call takes its place in the lane.                                  *)
Ask(c) ==
    /\ place[c] = "new"
    /\ \E t \in Tools :
         /\ tool' = [tool EXCEPT ![c] = t]
         /\ IF t = "unlisted"
            THEN /\ Move(c, "ended")
                 /\ told' = [told EXCEPT ![c] = CommandDelivery("invalid_argument")]
                 /\ UNCHANGED lane
            ELSE /\ Move(c, "waiting")
                 /\ lane' = Append(lane, c)
                 /\ UNCHANGED told
    /\ UNCHANGED <<holder, cancelled, response, left>>

(* The lock goes to the first in the lane; the call then runs on a thread.  *)
TakesLock(c) ==
    /\ holder = "nobody"
    /\ lane # <<>>
    /\ c = Head(lane)
    /\ lane' = Tail(lane)
    /\ holder' = c
    /\ Move(c, "dispatch")
    /\ UNCHANGED <<tool, cancelled, response, left, told>>

DispatchReturns(c, code, delivery) ==
    /\ Move(c, "returned")
    /\ response' = [response EXCEPT ![c] = [code |-> code, delivery |-> delivery]]

(* The handlers check the arguments before they call the service; a reading *)
(* tool then answers or fails, a playback command reads its target first.   *)
Validate(c) ==
    /\ place[c] = "dispatch"
    /\ \/ DispatchReturns(c, "invalid_argument", "none")
       \/ /\ tool[c] = "read"
          /\ \E code \in ErrorCodes \cup {"ok"} : DispatchReturns(c, code, "none")
       \/ /\ tool[c] = "playback"
          /\ Move(c, "target")
          /\ UNCHANGED response
       \/ /\ tool[c] = "sound"
          /\ Move(c, "send")
          /\ UNCHANGED response
    /\ UNCHANGED <<tool, lane, holder, cancelled, left, told>>

(* _playback_target: a ControlError of the read is marked "not_sent", an    *)
(* unexpected exception is not.                                             *)
ReadTarget(c) ==
    /\ place[c] = "target"
    /\ \/ Move(c, "send") /\ UNCHANGED response
       \/ \E code \in ErrorCodes \ {"internal_error"} : DispatchReturns(c, code, "not_sent")
       \/ DispatchReturns(c, "internal_error", "none")
    /\ UNCHANGED <<tool, lane, holder, cancelled, left, told>>

(* _send, once: the transport raises before anything was written, or after  *)
(* (part of) the command was, or it returns.                                *)
SendOnce(c) ==
    /\ place[c] = "send"
    /\ \/ /\ \E code \in ErrorCodes \ {"invalid_argument"} : DispatchReturns(c, code, "none")
          /\ UNCHANGED left
       \/ /\ \E code \in {"timeout", "device_unavailable", "command_rejected", "internal_error"} :
                DispatchReturns(c, code, "none")
          /\ left' = left \cup {c}
       \/ /\ Move(c, "verify")
          /\ left' = left \cup {c}
          /\ UNCHANGED response
    /\ UNCHANGED <<tool, lane, holder, cancelled, told>>

(* _verify: it ends with a result, confirmed or not, unless a status read   *)
(* raises something unexpected.                                             *)
VerifySent(c) ==
    /\ place[c] = "verify"
    /\ \E code \in {"ok", "internal_error"} : DispatchReturns(c, code, "none")
    /\ UNCHANGED <<tool, lane, holder, cancelled, left, told>>

(* Mutant: the lock is not released for a call that was cancelled. *)
AnswersKeepingTheLock(c) ==
    /\ place[c] = "returned"
    /\ Move(c, "ended")
    /\ holder' = IF holder = c /\ c \notin cancelled THEN "nobody" ELSE holder
    /\ IF c \in cancelled
       THEN UNCHANGED told
       ELSE \E o \in {Presented(response[c]), CommandDelivery("internal_error")} :
                told' = [told EXCEPT ![c] = o]
    /\ response' = [response EXCEPT ![c] = NoResponse]
    /\ UNCHANGED <<tool, lane, cancelled, left>>

(* The thread has ended: the lock is released and the answer presented. A   *)
(* failure while it is presented is an internal error; the answer of a      *)
(* cancelled call is lost.                                                  *)
Answers(c) ==
    /\ place[c] = "returned"
    /\ Move(c, "ended")
    /\ holder' = IF holder = c THEN "nobody" ELSE holder
    /\ IF c \in cancelled
       THEN UNCHANGED told
       ELSE \E o \in {Presented(response[c]), CommandDelivery("internal_error")} :
                told' = [told EXCEPT ![c] = o]
    /\ response' = [response EXCEPT ![c] = NoResponse]
    /\ UNCHANGED <<tool, lane, cancelled, left>>

(* The lane without c, which is in it at most once.                         *)
Without(c) ==
    IF \E i \in DOMAIN lane : lane[i] = c
    THEN LET at == CHOOSE i \in DOMAIN lane : lane[i] = c
         IN  [i \in 1..(Len(lane) - 1) |-> IF i < at THEN lane[i] ELSE lane[i + 1]]
    ELSE lane

(* Mutant: the worker thread of a cancelled call is abandoned. *)
CancelAbandoning(c) ==
    /\ place[c] \notin {"new", "ended"}
    /\ c \notin cancelled
    /\ cancelled' = cancelled \cup {c}
    /\ lane' = Without(c)
    /\ IF place[c] = "waiting" THEN Move(c, "ended") ELSE UNCHANGED place
    /\ holder' = IF holder = c THEN "nobody" ELSE holder
    /\ told' = [told EXCEPT ![c] = IF place[c] = "waiting" THEN "not_sent" ELSE "uncertain"]
    /\ UNCHANGED <<tool, response, left>>

(* The client cancels. A waiting call leaves the lane and never runs; a     *)
(* running one goes on, with the lock, and only its answer is lost.         *)
Cancel(c) ==
    /\ place[c] \notin {"new", "ended"}
    /\ c \notin cancelled
    /\ cancelled' = cancelled \cup {c}
    /\ lane' = Without(c)
    /\ IF place[c] = "waiting" THEN Move(c, "ended") ELSE UNCHANGED place
    /\ told' = [told EXCEPT ![c] = IF place[c] = "waiting" THEN "not_sent" ELSE "uncertain"]
    /\ UNCHANGED <<tool, holder, response, left>>

Runs(c) == TakesLock(c) \/ Validate(c) \/ ReadTarget(c) \/ SendOnce(c) \/ VerifySent(c) \/ Answers(c)

McpNext == \E c \in ToolCalls : Ask(c) \/ Runs(c) \/ Cancel(c)

(* Every call of the shared layer is bounded by its own timeout, so a       *)
(* thread ends and the lock goes on.                                        *)
McpFairness == \A c \in ToolCalls : WF_mvars(Runs(c))

McpSpec == McpInit /\ [][McpNext]_mvars /\ McpFairness

-----------------------------------------------------------------------------
(* The shared layer is never entered by two tool calls at once, and the     *)
(* call inside it is the one that holds the lock, whatever is cancelled     *)
(* (ControlTvTools: "the lock keeps the single-flight shared layer from     *)
(* ever running two calls at once").                                        *)
McpIsSingleFlight ==
    \A c \in ToolCalls : InService(c) => holder = c

(* What the clients of commands were told.                                  *)
CommandTold == [c \in ToolCalls |-> IF tool[c] \in CommandTools THEN told[c] ELSE "none"]

McpPromise == INSTANCE Delivery WITH
    Requests <- ToolCalls, delivered <- left, outcome <- CommandTold

(* A tool call keeps the promise of Delivery: sent at most once, never      *)
(* worded as sent when it was not, and never sent once its client holds     *)
(* "Nothing was sent to the TV" or cancelled it while it waited.            *)
McpKeepsThePromise == McpPromise!Spec

(* Every call that was made ends, however many others are cancelled before  *)
(* it (ControlTvTools.call): over the finitely many calls of a session, the *)
(* server comes to rest with nobody left in the lock's queue.               *)
EveryToolCallEnds == <>[](\A c \in ToolCalls : place[c] \in {"new", "ended"})
=============================================================================
