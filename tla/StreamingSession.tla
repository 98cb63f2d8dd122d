-------------------------- MODULE StreamingSession --------------------------
(***************************************************************************)
(* StreamingSessionService (screen_streaming/service.py): start, stop and  *)
(* close of one screen stream, called by several threads of the bridge.    *)
(* The three resources are started in order and stopped in reverse order;  *)
(* a close that cannot wait is handed over to the call that holds the lock. *)
(***************************************************************************)
EXTENDS Naturals, FiniteSets

CONSTANTS
    Threads,   \* the threads that call start, stop and close
    MaxOps     \* bound: lifecycle calls per thread

ASSUME StreamingSessionAssumption == MaxOps \in Nat

VARIABLES
    closed,     \* _closed: close() was requested
    deferred,   \* _close_deferred
    lock,       \* the threads holding _lock (at most one)
    state,      \* _state
    session,    \* _owned is not None
    owned,      \* the resources recorded in _owned
    pc,         \* per thread: where its call is
    untried,    \* per thread: resources whose stop its cleanup has yet to try
    ops,        \* per thread: calls made
    live,       \* history: how many instances of each resource really run
    tried       \* history: resources whose stop was tried since the close

vars == <<closed, deferred, lock, state, session, owned, pc, untried, ops, live, tried>>

Resources == {"encoder", "publisher", "receiver"}
Startable == {"IDLE", "STOPPED", "FAILED"}

(* start() acquires encoder, publisher, receiver; _cleanup goes backwards. *)
Before(r) == CASE r = "encoder" -> {}
               [] r = "publisher" -> {"encoder"}
               [] r = "receiver" -> {"encoder", "publisher"}
After(r) == Resources \ (Before(r) \cup {r})

(* The places inside a call that holds the lock. "fail", "cancel" and      *)
(* "stop" are the three cleanups, which differ in the state they record.   *)
Cleaning == {"fail", "cancel", "stop"}
Inside == {"check", "acquire", "look", "run", "end", "release"} \cup Cleaning
Places == {"idle", "wait", "handoff"} \cup Inside

(* Types: the service is in a StreamState and each caller is at a place of *)
(* start(), stop() or close().                                             *)
TypeOK ==
    /\ closed \in BOOLEAN
    /\ deferred \in BOOLEAN
    /\ lock \subseteq Threads
    /\ state \in {"IDLE", "STARTING", "RUNNING", "STOPPING", "STOPPED", "FAILED"}
    /\ session \in BOOLEAN
    /\ owned \subseteq Resources
    /\ pc \in [Threads -> Places]
    /\ untried \in [Threads -> SUBSET Resources]
    /\ ops \in [Threads -> 0..MaxOps]
    /\ live \in [Resources -> Nat]
    /\ tried \subseteq Resources

Init ==
    /\ closed = FALSE
    /\ deferred = FALSE
    /\ lock = {}
    /\ state = "IDLE"
    /\ session = FALSE
    /\ owned = {}
    /\ pc = [t \in Threads |-> "idle"]
    /\ untried = [t \in Threads |-> {}]
    /\ ops = [t \in Threads |-> 0]
    /\ live = [r \in Resources |-> 0]
    /\ tried = {}

Goto(t, place) == pc' = [pc EXCEPT ![t] = place]

(* A cleanup begins: each recorded resource will be tried once.            *)
BeginCleanup(t, place) ==
    /\ Goto(t, place)
    /\ untried' = [untried EXCEPT ![t] = owned]

-----------------------------------------------------------------------------
(* _exclusive: start() and stop() refuse to run beside another call.       *)
Enter(t, place) ==
    /\ pc[t] = "idle"
    /\ ops[t] < MaxOps
    /\ ops' = [ops EXCEPT ![t] = @ + 1]
    /\ IF lock = {}
       THEN lock' = {t} /\ Goto(t, place)
       ELSE UNCHANGED <<lock, pc>>
    /\ UNCHANGED <<closed, deferred, state, session, owned, untried, live, tried>>

Start(t) == Enter(t, "check")
Stop(t) == Enter(t, "end")

(* start()'s checks: closed, state, leftovers, the request itself. The     *)
(* second disjunct is also the refusal of an invalid request.              *)
CheckStart(t) ==
    /\ pc[t] = "check"
    /\ \/ /\ ~closed /\ state \in Startable /\ ~session
          /\ state' = "STARTING"
          /\ session' = TRUE
          /\ owned' = {}
          /\ Goto(t, "acquire")
       \/ /\ Goto(t, "release")
          /\ UNCHANGED <<state, session, owned>>
    /\ UNCHANGED <<closed, deferred, lock, untried, ops, live, tried>>

(* One of encoder.start, publisher.start, receiver.start; it may raise.    *)
Acquire(t) ==
    /\ pc[t] = "acquire"
    /\ \/ \E r \in Resources \ owned :
            /\ Before(r) \subseteq owned
            /\ owned' = owned \cup {r}
            /\ live' = [live EXCEPT ![r] = @ + 1]
            /\ Goto(t, "look")
            /\ UNCHANGED untried
       \/ /\ BeginCleanup(t, "fail")
          /\ UNCHANGED <<owned, live>>
    /\ UNCHANGED <<closed, deferred, lock, state, session, ops, tried>>

(* _raise_if_closed after each of them.                                    *)
RaiseIfClosed(t) ==
    /\ pc[t] = "look"
    /\ IF closed
       THEN BeginCleanup(t, "cancel")
       ELSE /\ Goto(t, IF owned = Resources THEN "run" ELSE "acquire")
            /\ UNCHANGED untried
    /\ UNCHANGED <<closed, deferred, lock, state, session, owned, ops, live, tried>>

Running(t) ==
    /\ pc[t] = "run"
    /\ state' = "RUNNING"
    /\ Goto(t, "release")
    /\ UNCHANGED <<closed, deferred, lock, session, owned, untried, ops, live, tried>>

(* _stop_owned_session                                                     *)
StopOwnedSession(t) ==
    /\ pc[t] = "end"
    /\ IF session
       THEN state' = "STOPPING" /\ BeginCleanup(t, "stop")
       ELSE Goto(t, "release") /\ UNCHANGED <<state, untried>>
    /\ UNCHANGED <<closed, deferred, lock, session, owned, ops, live, tried>>

(* Mutant: a resource is forgotten although its stop failed. *)
ForgetFailedStop(t) ==
    \E r \in untried[t] :
        /\ pc[t] \in Cleaning
        /\ After(r) \cap untried[t] = {}
        /\ untried' = [untried EXCEPT ![t] = @ \ {r}]
        /\ tried' = IF closed THEN tried \cup {r} ELSE tried
        /\ owned' = owned \ {r}
        /\ \/ live' = [live EXCEPT ![r] = @ - 1]
           \/ UNCHANGED live
        /\ UNCHANGED <<closed, deferred, lock, state, session, pc, ops>>

(* _stop_owned: one stop of the cleanup, receiver first. One that fails or *)
(* is interrupted keeps its resource recorded.                             *)
StopOne(t) ==
    \E r \in untried[t] :
        /\ pc[t] \in Cleaning
        /\ After(r) \cap untried[t] = {}
        /\ untried' = [untried EXCEPT ![t] = @ \ {r}]
        /\ tried' = IF closed THEN tried \cup {r} ELSE tried
        /\ \/ /\ owned' = owned \ {r}
              /\ live' = [live EXCEPT ![r] = @ - 1]
           \/ UNCHANGED <<owned, live>>
        /\ UNCHANGED <<closed, deferred, lock, state, session, pc, ops>>

(* _settle and the state each cleanup records.                             *)
Settle(t) ==
    /\ pc[t] \in Cleaning
    /\ untried[t] = {}
    /\ session' = (owned # {})
    /\ state' = IF pc[t] = "fail" \/ owned # {} THEN "FAILED" ELSE "STOPPED"
    /\ Goto(t, "release")
    /\ UNCHANGED <<closed, deferred, lock, owned, untried, ops, live, tried>>

(* Mutant: the lock is released without looking for a deferred close. *)
ReleaseBlindly(t) ==
    /\ pc[t] = "release"
    /\ lock' = lock \ {t}
    /\ Goto(t, "idle")
    /\ UNCHANGED <<closed, deferred, state, session, owned, untried, ops, live, tried>>

(* _release, under the handoff guard: carry out a deferred close first.    *)
Release(t) ==
    /\ pc[t] = "release"
    /\ IF deferred
       THEN deferred' = FALSE /\ Goto(t, "end") /\ UNCHANGED lock
       ELSE lock' = lock \ {t} /\ Goto(t, "idle") /\ UNCHANGED deferred
    /\ UNCHANGED <<closed, state, session, owned, untried, ops, live, tried>>

-----------------------------------------------------------------------------
(* close(): recorded first, then a bounded wait for the lock.              *)
Close(t) ==
    /\ pc[t] = "idle"
    /\ ops[t] < MaxOps
    /\ ops' = [ops EXCEPT ![t] = @ + 1]
    /\ closed' = TRUE
    /\ Goto(t, "wait")
    /\ UNCHANGED <<deferred, lock, state, session, owned, untried, live, tried>>

CloseGetsLock(t) ==
    /\ pc[t] = "wait"
    /\ lock = {}
    /\ lock' = {t}
    /\ Goto(t, "end")
    /\ UNCHANGED <<closed, deferred, state, session, owned, untried, ops, live, tried>>

CloseTimesOut(t) ==
    /\ pc[t] = "wait"
    /\ Goto(t, "handoff")
    /\ UNCHANGED <<closed, deferred, lock, state, session, owned, untried, ops, live, tried>>

(* Under the handoff guard: one more try, else the holder inherits it.     *)
HandOff(t) ==
    /\ pc[t] = "handoff"
    /\ IF lock = {}
       THEN lock' = {t} /\ Goto(t, "end") /\ UNCHANGED deferred
       ELSE deferred' = TRUE /\ Goto(t, "idle") /\ UNCHANGED lock
    /\ UNCHANGED <<closed, state, session, owned, untried, ops, live, tried>>

CallStep(t) ==
    \/ CheckStart(t) \/ Acquire(t) \/ RaiseIfClosed(t) \/ Running(t)
    \/ StopOwnedSession(t) \/ StopOne(t) \/ Settle(t) \/ Release(t)
    \/ CloseGetsLock(t) \/ CloseTimesOut(t) \/ HandOff(t)

Next == \E t \in Threads : Start(t) \/ Stop(t) \/ Close(t) \/ CallStep(t)

(* A call in progress goes on: every start and stop of a resource returns  *)
(* or raises (each adapter bounds its own waits).                          *)
Fairness == \A t \in Threads : WF_vars(CallStep(t))

Spec == Init /\ [][Next]_vars /\ Fairness

-----------------------------------------------------------------------------
(* Nothing leaks and nothing is released twice: the resources that run are *)
(* exactly the recorded ones, through failed stops, cancelled starts and   *)
(* retries (_settle, the leftovers check of start()).                      *)
NothingLeaks ==
    \A r \in Resources : live[r] = IF r \in owned THEN 1 ELSE 0

(* A stream reported RUNNING has its three resources.                      *)
RunningIsComplete == state = "RUNNING" => owned = Resources

(* A close is never lost: once it was requested and nobody is inside a     *)
(* call, no stream runs, and whatever is still owned had its stop tried    *)
(* since the request (_release and the hand-over).                         *)
CloseIsCarriedOut ==
    (closed /\ \A t \in Threads : pc[t] = "idle") =>
        /\ ~deferred
        /\ state \in Startable
        /\ owned \subseteq tried

(* After a close no stream starts or runs any more, and a deferred close   *)
(* is taken over by the call it was left to.                               *)
CloseEnds ==
    /\ closed ~> [](state \notin {"STARTING", "RUNNING"})
    /\ deferred ~> ~deferred
=============================================================================
