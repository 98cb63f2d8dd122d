-------------------------- MODULE AudioRouteProofs --------------------------
(***************************************************************************)
(* AudioRoute, for any processes, outputs and bounds: the desktop's way    *)
(* back is on disk, and no process undoes another one's stream.            *)
(***************************************************************************)
EXTENDS AudioRoute, TLAPS

(* The places of a route that owns the journal.                            *)
Owning == {"reread", "capture", "leftover", "write", "load", "set", "move",
           "streaming", "undo", "giving", "clear", "tracked"}

Lock ==
    /\ \A h \in Hosts : held[h] => owner = h
    /\ \A h \in Hosts : stage[h] \in Owning => held[h]

(* What the journal and PulseAudio are while a process owns the journal.   *)
Route(h) ==
    /\ stage[h] \in Owning \ {"reread", "capture"} => previous[h] # "none"
    /\ stage[h] \in {"load", "set", "move", "streaming"} => journal = previous[h]
    /\ stage[h] \in {"set", "move", "streaming"} => tvSink
    /\ stage[h] = "giving" => restored[h] = 0
    /\ stage[h] = "clear" => ~tvSink /\ default # TV

IInv == RouteTypeOK /\ Lock /\ (\A h \in Hosts : Route(h)) /\ WayBackOnDisk

USE DEF TV

(* Nothing is routed and nothing journaled at first.                       *)
LEMMA InitInv == RouteInit => IInv
<1> SUFFICES ASSUME RouteInit PROVE IInv
  OBVIOUS
<1>1. JournalTypeOK
  BY RestoreJournalAssumption DEF RouteInit, JournalInit, JournalTypeOK
<1>2. RouteTypeOK
  <2>1. default \in Outputs \cup {TV} /\ chosen \in Outputs \cup {"any"} /\ plugged \subseteq Outputs
    BY DEF RouteInit
  <2>2. tvSink \in BOOLEAN /\ raced \in BOOLEAN /\ told \in BOOLEAN
    BY DEF RouteInit
  <2>3. /\ stage \in [Hosts -> RoutePlaces]
        /\ previous \in [Hosts -> Outputs \cup {"none"}]
        /\ restored \in [Hosts -> 0..3]
        /\ task \in [Hosts -> {"boot", "start", "undo_start", "stop"}]
        /\ events \in Nat /\ failures \in Nat /\ deaths \in Nat
    BY DEF RouteInit, RoutePlaces
  <2> QED BY <1>1, <2>1, <2>2, <2>3 DEF RouteTypeOK
<1>3. Lock
  BY DEF RouteInit, JournalInit, Lock, Owning
<1>4. \A h \in Hosts : Route(h)
  BY DEF RouteInit, Route, Owning
<1>5. WayBackOnDisk
  BY AudioRouteAssumption DEF RouteInit, WayBackOnDisk
<1> QED BY <1>2, <1>3, <1>4, <1>5 DEF IInv

(* Only the process that owns the journal can be in the middle of a route. *)
LEMMA OneOwner ==
    ASSUME IInv, NEW g \in Hosts, NEW h \in Hosts, g # h, held[h]
    PROVE  ~held[g] /\ stage[g] \notin Owning
BY DEF IInv, Lock


(* What a process does leaves the routes of the others as they are.        *)
LEMMA OtherRoutes ==
    ASSUME IInv, NEW h \in Hosts, NEW g \in Hosts, g # h,
           stage'[g] = stage[g], previous'[g] = previous[g], restored'[g] = restored[g],
           held[h] \/ UNCHANGED <<journal, tvSink, default>>
    PROVE  Route(g)'
<1>1. CASE held[h]
  BY <1>1, OneOwner DEF Route, Owning
<1>2. CASE UNCHANGED <<journal, tvSink, default>>
  BY <1>2 DEF IInv, Route
<1> QED BY <1>1, <1>2

(* Every step of a process keeps the types.                                *)
LEMMA HostType ==
    ASSUME IInv, NEW h \in Hosts, Works(h) \/ Happens(h)
    PROVE  RouteTypeOK'
<1> USE RestoreJournalAssumption, AudioRouteAssumption DEF IInv
<1>1. CASE Recover(h)
  BY <1>1 DEF Recover, RouteGoto, SameLocal, AfterRecover, file, desktop, counters,
     RouteTypeOK, JournalTypeOK, RoutePlaces
<1>2. CASE RecoverClaim(h)
  BY <1>2 DEF RecoverClaim, RouteGoto, SameLocal, AfterRecover, Claim, Taken, file,
     desktop, counters, RouteTypeOK, JournalTypeOK, RoutePlaces
<1>3. CASE Reread(h)
  <2>1. JournalTypeOK'
    BY <1>3 DEF Reread, RouteGoto, Local, AfterRecover, ReleaseClaim, file, desktop, counters,
       RouteTypeOK, JournalTypeOK
  <2>2. /\ plugged' \subseteq Outputs
        /\ default' \in Outputs \cup {TV}
        /\ chosen' \in Outputs \cup {"any"}
    BY <1>3 DEF Reread, RouteGoto, Local, AfterRecover, ReleaseClaim, file, desktop, counters,
       RouteTypeOK
  <2>3. tvSink' \in BOOLEAN /\ raced' \in BOOLEAN /\ told' \in BOOLEAN
    BY <1>3 DEF Reread, RouteGoto, Local, AfterRecover, ReleaseClaim, file, desktop, counters,
       RouteTypeOK
  <2>4. previous' \in [Hosts -> Outputs \cup {"none"}]
    BY <1>3 DEF Reread, RouteGoto, Local, AfterRecover, ReleaseClaim, file, desktop, counters,
       RouteTypeOK, JournalTypeOK
  <2>5. /\ stage' \in [Hosts -> RoutePlaces]
        /\ restored' \in [Hosts -> 0..3]
        /\ task' \in [Hosts -> {"boot", "start", "undo_start", "stop"}]
        /\ events' \in Nat /\ failures' \in Nat /\ deaths' \in Nat
    BY <1>3 DEF Reread, RouteGoto, Local, AfterRecover, ReleaseClaim, file, desktop, counters,
       RouteTypeOK, RoutePlaces
  <2> QED BY <2>1, <2>2, <2>3, <2>4, <2>5 DEF RouteTypeOK
<1>4. CASE RecoverFails(h)
  BY <1>4 DEF RecoverFails, RouteGoto, Local, Abandon, Fails, ReleaseClaim, file, desktop,
     counters, RouteTypeOK, JournalTypeOK, RoutePlaces
<1>5. CASE RouteStart(h)
  BY <1>5 DEF RouteStart, RouteGoto, file, desktop, counters, RouteTypeOK, JournalTypeOK, RoutePlaces
<1>6. CASE StartClaim(h)
  BY <1>6 DEF StartClaim, RouteGoto, SameLocal, Claim, Taken, file, desktop, counters,
     RouteTypeOK, JournalTypeOK, RoutePlaces
<1>7. CASE Capture(h)
  <2>1. JournalTypeOK'
    BY <1>7 DEF Capture, RouteGoto, Local, Abandon, ReleaseClaim, file, desktop, counters,
       RouteTypeOK, JournalTypeOK
  <2>2. /\ plugged' \subseteq Outputs
        /\ default' \in Outputs \cup {TV}
        /\ chosen' \in Outputs \cup {"any"}
    BY <1>7 DEF Capture, RouteGoto, Local, Abandon, ReleaseClaim, file, desktop, counters,
       RouteTypeOK
  <2>3. tvSink' \in BOOLEAN /\ raced' \in BOOLEAN /\ told' \in BOOLEAN
    BY <1>7 DEF Capture, RouteGoto, Local, Abandon, ReleaseClaim, file, desktop, counters,
       RouteTypeOK
  <2>4. previous' \in [Hosts -> Outputs \cup {"none"}]
    BY <1>7 DEF Capture, RouteGoto, Local, Abandon, ReleaseClaim, file, desktop, counters,
       RouteTypeOK, JournalTypeOK
  <2>5. /\ stage' \in [Hosts -> RoutePlaces]
        /\ restored' \in [Hosts -> 0..3]
        /\ task' \in [Hosts -> {"boot", "start", "undo_start", "stop"}]
        /\ events' \in Nat /\ failures' \in Nat /\ deaths' \in Nat
    BY <1>7 DEF Capture, RouteGoto, Local, Abandon, ReleaseClaim, file, desktop, counters,
       RouteTypeOK, RoutePlaces
  <2> QED BY <2>1, <2>2, <2>3, <2>4, <2>5 DEF RouteTypeOK
<1>8. CASE ForgetLeftover(h)
  BY <1>8 DEF ForgetLeftover, RouteGoto, SameLocal, Unload, FallBack, file, desktop,
     counters, RouteTypeOK, JournalTypeOK, RoutePlaces
<1>9. CASE Journal(h)
  BY <1>9 DEF Journal, RouteGoto, SameLocal, Write, file, desktop, counters, RouteTypeOK,
     JournalTypeOK, RoutePlaces
<1>10. CASE PrepareFails(h)
  <2>1. JournalTypeOK'
    BY <1>10 DEF PrepareFails, RouteGoto, Local, Abandon, Fails, ReleaseClaim, Unload,
       FallBack, file, desktop, counters, RouteTypeOK, JournalTypeOK
  <2>2. /\ plugged' \subseteq Outputs
        /\ default' \in Outputs \cup {TV}
        /\ chosen' \in Outputs \cup {"any"}
    BY <1>10 DEF PrepareFails, RouteGoto, Local, Abandon, Fails, ReleaseClaim, Unload,
       FallBack, file, desktop, counters, RouteTypeOK
  <2>3. tvSink' \in BOOLEAN /\ raced' \in BOOLEAN /\ told' \in BOOLEAN
    BY <1>10 DEF PrepareFails, RouteGoto, Local, Abandon, Fails, ReleaseClaim, Unload,
       FallBack, file, desktop, counters, RouteTypeOK
  <2>4. previous' \in [Hosts -> Outputs \cup {"none"}]
    BY <1>10 DEF PrepareFails, RouteGoto, Local, Abandon, Fails, ReleaseClaim, Unload,
       FallBack, file, desktop, counters, RouteTypeOK, JournalTypeOK
  <2>5. /\ stage' \in [Hosts -> RoutePlaces]
        /\ restored' \in [Hosts -> 0..3]
        /\ task' \in [Hosts -> {"boot", "start", "undo_start", "stop"}]
        /\ events' \in Nat /\ failures' \in Nat /\ deaths' \in Nat
    BY <1>10 DEF PrepareFails, RouteGoto, Local, Abandon, Fails, ReleaseClaim, Unload,
       FallBack, file, desktop, counters, RouteTypeOK, RoutePlaces
  <2> QED BY <2>1, <2>2, <2>3, <2>4, <2>5 DEF RouteTypeOK
<1>11. CASE LoadSink(h)
  BY <1>11 DEF LoadSink, RouteGoto, SameLocal, file, desktop, counters, RouteTypeOK,
     JournalTypeOK, RoutePlaces
<1>12. CASE SetDefault(h)
  BY <1>12 DEF SetDefault, RouteGoto, SameLocal, file, desktop, counters, RouteTypeOK,
     JournalTypeOK, RoutePlaces
<1>13. CASE MoveSounds(h)
  BY <1>13 DEF MoveSounds, RouteGoto, SameLocal, file, desktop, counters, RouteTypeOK,
     JournalTypeOK, RoutePlaces
<1>14. CASE SwitchFails(h)
  BY <1>14 DEF SwitchFails, RouteGoto, Fails, file, desktop, counters, RouteTypeOK,
     JournalTypeOK, RoutePlaces
<1>15. CASE RouteStop(h)
  BY <1>15 DEF RouteStop, RouteGoto, file, desktop, counters, RouteTypeOK, JournalTypeOK, RoutePlaces
<1>16. CASE GiveBackCheck(h)
  BY <1>16 DEF GiveBackCheck, RouteGoto, SameLocal, StepDone, file, desktop, counters,
     RouteTypeOK, JournalTypeOK, RoutePlaces
<1>17. CASE GiveBack(h)
  BY <1>17 DEF GiveBack, RouteGoto, StepDone, SetBack, file, desktop, counters, RouteTypeOK,
     JournalTypeOK, RoutePlaces, Route
<1>18. CASE MoveBack(h)
  BY <1>18 DEF MoveBack, StepDone, file, desktop, counters, RouteTypeOK, JournalTypeOK,
     RoutePlaces
<1>19. CASE UnloadSinks(h)
  <2>1. JournalTypeOK'
    BY <1>19 DEF UnloadSinks, Unload, FallBack, StepDone, file, desktop, counters,
       RouteTypeOK, JournalTypeOK
  <2>2. /\ plugged' \subseteq Outputs
        /\ default' \in Outputs \cup {TV}
        /\ chosen' \in Outputs \cup {"any"}
    BY <1>19 DEF UnloadSinks, Unload, FallBack, StepDone, file, desktop, counters,
       RouteTypeOK
  <2>3. tvSink' \in BOOLEAN /\ raced' \in BOOLEAN /\ told' \in BOOLEAN
    BY <1>19 DEF UnloadSinks, Unload, FallBack, StepDone, file, desktop, counters,
       RouteTypeOK
  <2>4. previous' \in [Hosts -> Outputs \cup {"none"}]
    BY <1>19 DEF UnloadSinks, Unload, FallBack, StepDone, file, desktop, counters,
       RouteTypeOK, JournalTypeOK
  <2>5. /\ stage' \in [Hosts -> RoutePlaces]
        /\ restored' \in [Hosts -> 0..3]
        /\ task' \in [Hosts -> {"boot", "start", "undo_start", "stop"}]
        /\ events' \in Nat /\ failures' \in Nat /\ deaths' \in Nat
    BY <1>19 DEF UnloadSinks, Unload, FallBack, StepDone, file, desktop, counters,
       RouteTypeOK, RoutePlaces
  <2> QED BY <2>1, <2>2, <2>3, <2>4, <2>5 DEF RouteTypeOK
<1>20. CASE Verify(h)
  BY <1>20 DEF Verify, RouteGoto, SameLocal, file, desktop, counters, RouteTypeOK,
     JournalTypeOK, RoutePlaces
<1>21. CASE ClearJournal(h)
  BY <1>21 DEF ClearJournal, RouteGoto, Local, AfterRecover, ReleaseClaim, Clear, file,
     desktop, counters, RouteTypeOK, JournalTypeOK, RoutePlaces
<1>22. CASE GiveBackRefused(h)
  <2>1. JournalTypeOK'
    BY <1>22 DEF GiveBackRefused, RouteGoto, Local, Abandon, ReleaseClaim, StopRaises, file,
       desktop, counters, RouteTypeOK, JournalTypeOK
  <2>2. /\ plugged' \subseteq Outputs
        /\ default' \in Outputs \cup {TV}
        /\ chosen' \in Outputs \cup {"any"}
    BY <1>22 DEF GiveBackRefused, RouteGoto, Local, Abandon, ReleaseClaim, StopRaises, file,
       desktop, counters, RouteTypeOK
  <2>3. tvSink' \in BOOLEAN /\ raced' \in BOOLEAN /\ told' \in BOOLEAN
    BY <1>22 DEF GiveBackRefused, RouteGoto, Local, Abandon, ReleaseClaim, StopRaises, file,
       desktop, counters, RouteTypeOK
  <2>4. previous' \in [Hosts -> Outputs \cup {"none"}]
    BY <1>22 DEF GiveBackRefused, RouteGoto, Local, Abandon, ReleaseClaim, StopRaises, file,
       desktop, counters, RouteTypeOK, JournalTypeOK
  <2>5. /\ stage' \in [Hosts -> RoutePlaces]
        /\ restored' \in [Hosts -> 0..3]
        /\ task' \in [Hosts -> {"boot", "start", "undo_start", "stop"}]
        /\ events' \in Nat /\ failures' \in Nat /\ deaths' \in Nat
    BY <1>22 DEF GiveBackRefused, RouteGoto, Local, Abandon, ReleaseClaim, StopRaises, file,
       desktop, counters, RouteTypeOK, RoutePlaces
  <2> QED BY <2>1, <2>2, <2>3, <2>4, <2>5 DEF RouteTypeOK
<1>23. CASE UndoFails(h)
  <2>1. JournalTypeOK'
    BY <1>23 DEF UndoFails, RouteGoto, Local, Abandon, Fails, ReleaseClaim, Unload, FallBack,
       SetBack, StopRaises, file, desktop, counters, RouteTypeOK, JournalTypeOK
  <2>2. /\ plugged' \subseteq Outputs
        /\ default' \in Outputs \cup {TV}
        /\ chosen' \in Outputs \cup {"any"}
    BY <1>23 DEF UndoFails, RouteGoto, Local, Abandon, Fails, ReleaseClaim, Unload, FallBack,
       SetBack, StopRaises, file, desktop, counters, RouteTypeOK
  <2>3. tvSink' \in BOOLEAN /\ raced' \in BOOLEAN /\ told' \in BOOLEAN
    BY <1>23 DEF UndoFails, RouteGoto, Local, Abandon, Fails, ReleaseClaim, Unload, FallBack,
       SetBack, StopRaises, file, desktop, counters, RouteTypeOK
  <2>4. previous' \in [Hosts -> Outputs \cup {"none"}]
    BY <1>23 DEF UndoFails, RouteGoto, Local, Abandon, Fails, ReleaseClaim, Unload, FallBack,
       SetBack, StopRaises, file, desktop, counters, RouteTypeOK, JournalTypeOK
  <2>5. /\ stage' \in [Hosts -> RoutePlaces]
        /\ restored' \in [Hosts -> 0..3]
        /\ task' \in [Hosts -> {"boot", "start", "undo_start", "stop"}]
        /\ events' \in Nat /\ failures' \in Nat /\ deaths' \in Nat
    BY <1>23 DEF UndoFails, RouteGoto, Local, Abandon, Fails, ReleaseClaim, Unload, FallBack,
       SetBack, StopRaises, file, desktop, counters, RouteTypeOK, RoutePlaces
  <2> QED BY <2>1, <2>2, <2>3, <2>4, <2>5 DEF RouteTypeOK
<1>24. CASE Drop(h)
  BY <1>24 DEF Drop, RouteGoto, Local, file, desktop, counters, RouteTypeOK, JournalTypeOK,
     RoutePlaces
<1>25. CASE Die(h)
  BY <1>25 DEF Die, RouteGoto, Local, Dies, file, desktop, counters, RouteTypeOK,
     JournalTypeOK, RoutePlaces
<1>26. CASE Restart(h)
  BY <1>26 DEF Restart, RouteGoto, file, desktop, counters, RouteTypeOK, JournalTypeOK, RoutePlaces
<1> QED
  BY <1>1, <1>2, <1>3, <1>4, <1>5, <1>6, <1>7, <1>8, <1>9, <1>10, <1>11, <1>12,
     <1>13, <1>14, <1>15, <1>16, <1>17, <1>18, <1>19, <1>20, <1>21, <1>22, <1>23,
     <1>24, <1>25, <1>26 DEF Works, Happens

(* ... and the rest of the invariant.                                      *)
LEMMA HostKeeps ==
    ASSUME IInv, NEW h \in Hosts, Works(h) \/ Happens(h)
    PROVE  Lock' /\ (\A g \in Hosts : Route(g)') /\ WayBackOnDisk'
<1> USE RestoreJournalAssumption, AudioRouteAssumption DEF IInv, RouteTypeOK, JournalTypeOK
<1>1. CASE Recover(h)
  <2>1. Lock'
    BY <1>1 DEF Recover, RouteGoto, SameLocal, AfterRecover, file, desktop, counters,
       Lock, Owning
  <2>2. Route(h)'
    BY <1>1 DEF Recover, RouteGoto, SameLocal, AfterRecover, file, desktop, counters,
       Lock, Route, Owning
  <2>3. ASSUME NEW g \in Hosts, g # h PROVE Route(g)'
    BY <1>1, <2>3, OtherRoutes DEF Recover, RouteGoto, SameLocal, AfterRecover, file,
       desktop, counters, Lock, Owning
  <2>4. WayBackOnDisk'
    BY <1>1 DEF Recover, RouteGoto, SameLocal, AfterRecover, file, desktop, counters,
       Route, Owning, WayBackOnDisk
  <2> QED BY <2>1, <2>2, <2>3, <2>4
<1>2. CASE RecoverClaim(h)
  <2>1. Lock'
    BY <1>2 DEF RecoverClaim, RouteGoto, SameLocal, AfterRecover, Claim, Taken, file,
       desktop, counters, Lock, Owning
  <2>2. Route(h)'
    BY <1>2 DEF RecoverClaim, RouteGoto, SameLocal, AfterRecover, Claim, Taken, file,
       desktop, counters, Lock, Route, Owning
  <2>3. ASSUME NEW g \in Hosts, g # h PROVE Route(g)'
    BY <1>2, <2>3, OtherRoutes DEF RecoverClaim, RouteGoto, SameLocal, AfterRecover,
       Claim, Taken, file, desktop, counters, Lock, Owning
  <2>4. WayBackOnDisk'
    BY <1>2 DEF RecoverClaim, RouteGoto, SameLocal, AfterRecover, Claim, Taken, file,
       desktop, counters, Route, Owning, WayBackOnDisk
  <2> QED BY <2>1, <2>2, <2>3, <2>4
<1>3. CASE Reread(h)
  <2>1. Lock'
    BY <1>3 DEF Reread, RouteGoto, Local, AfterRecover, ReleaseClaim, file, desktop, counters,
       Lock, Owning
  <2>2. Route(h)'
    BY <1>3 DEF Reread, RouteGoto, Local, AfterRecover, ReleaseClaim, file, desktop, counters,
       Lock, Route, Owning
  <2>3. ASSUME NEW g \in Hosts, g # h PROVE Route(g)'
    BY <1>3, <2>3, OtherRoutes DEF Reread, RouteGoto, Local, AfterRecover, ReleaseClaim, file,
       desktop, counters, Lock, Owning
  <2>4. WayBackOnDisk'
    BY <1>3 DEF Reread, RouteGoto, Local, AfterRecover, ReleaseClaim, file, desktop, counters,
       Route, Owning, WayBackOnDisk
  <2> QED BY <2>1, <2>2, <2>3, <2>4
<1>4. CASE RecoverFails(h)
  <2>1. Lock'
    BY <1>4 DEF RecoverFails, RouteGoto, Local, Abandon, Fails, ReleaseClaim, file, desktop,
       counters, Lock, Owning
  <2>2. Route(h)'
    BY <1>4 DEF RecoverFails, RouteGoto, Local, Abandon, Fails, ReleaseClaim, file, desktop,
       counters, Lock, Route, Owning
  <2>3. ASSUME NEW g \in Hosts, g # h PROVE Route(g)'
    BY <1>4, <2>3, OtherRoutes DEF RecoverFails, RouteGoto, Local, Abandon, Fails,
       ReleaseClaim, file, desktop, counters, Lock, Owning
  <2>4. WayBackOnDisk'
    BY <1>4 DEF RecoverFails, RouteGoto, Local, Abandon, Fails, ReleaseClaim, file, desktop,
       counters, Route, Owning, WayBackOnDisk
  <2> QED BY <2>1, <2>2, <2>3, <2>4
<1>5. CASE RouteStart(h)
  <2>1. Lock'
    BY <1>5 DEF RouteStart, RouteGoto, file, desktop, counters, Lock, Owning
  <2>2. Route(h)'
    BY <1>5 DEF RouteStart, RouteGoto, file, desktop, counters, Lock, Route, Owning
  <2>3. ASSUME NEW g \in Hosts, g # h PROVE Route(g)'
    BY <1>5, <2>3, OtherRoutes DEF RouteStart, RouteGoto, file, desktop, counters, Lock,
       Owning
  <2>4. WayBackOnDisk'
    BY <1>5 DEF RouteStart, RouteGoto, file, desktop, counters, Route, Owning, WayBackOnDisk
  <2> QED BY <2>1, <2>2, <2>3, <2>4
<1>6. CASE StartClaim(h)
  <2>1. Lock'
    BY <1>6 DEF StartClaim, RouteGoto, SameLocal, Claim, Taken, file, desktop, counters,
       Lock, Owning
  <2>2. Route(h)'
    BY <1>6 DEF StartClaim, RouteGoto, SameLocal, Claim, Taken, file, desktop, counters,
       Lock, Route, Owning
  <2>3. ASSUME NEW g \in Hosts, g # h PROVE Route(g)'
    BY <1>6, <2>3, OtherRoutes DEF StartClaim, RouteGoto, SameLocal, Claim, Taken, file,
       desktop, counters, Lock, Owning
  <2>4. WayBackOnDisk'
    BY <1>6 DEF StartClaim, RouteGoto, SameLocal, Claim, Taken, file, desktop, counters,
       Route, Owning, WayBackOnDisk
  <2> QED BY <2>1, <2>2, <2>3, <2>4
<1>7. CASE Capture(h)
  <2>1. Lock'
    BY <1>7 DEF Capture, RouteGoto, Local, Abandon, ReleaseClaim, file, desktop, counters,
       Lock, Owning
  <2>2. Route(h)'
    BY <1>7 DEF Capture, RouteGoto, Local, Abandon, ReleaseClaim, file, desktop, counters,
       Lock, Route, Owning
  <2>3. ASSUME NEW g \in Hosts, g # h PROVE Route(g)'
    BY <1>7, <2>3, OtherRoutes DEF Capture, RouteGoto, Local, Abandon, ReleaseClaim, file,
       desktop, counters, Lock, Owning
  <2>4. WayBackOnDisk'
    BY <1>7 DEF Capture, RouteGoto, Local, Abandon, ReleaseClaim, file, desktop, counters,
       Route, Owning, WayBackOnDisk
  <2> QED BY <2>1, <2>2, <2>3, <2>4
<1>8. CASE ForgetLeftover(h)
  <2>1. Lock'
    BY <1>8 DEF ForgetLeftover, RouteGoto, SameLocal, Unload, FallBack, file, desktop,
       counters, Lock, Owning
  <2>2. Route(h)'
    BY <1>8 DEF ForgetLeftover, RouteGoto, SameLocal, Unload, FallBack, file, desktop,
       counters, Lock, Route, Owning
  <2>3. ASSUME NEW g \in Hosts, g # h PROVE Route(g)'
    BY <1>8, <2>3, OtherRoutes DEF ForgetLeftover, RouteGoto, SameLocal, Unload,
       FallBack, file, desktop, counters, Lock, Owning
  <2>4. WayBackOnDisk'
    BY <1>8 DEF ForgetLeftover, RouteGoto, SameLocal, Unload, FallBack, file, desktop,
       counters, Route, Owning, WayBackOnDisk
  <2> QED BY <2>1, <2>2, <2>3, <2>4
<1>9. CASE Journal(h)
  <2>1. Lock'
    BY <1>9 DEF Journal, RouteGoto, SameLocal, Write, file, desktop, counters, Lock,
       Owning
  <2>2. Route(h)'
    BY <1>9 DEF Journal, RouteGoto, SameLocal, Write, file, desktop, counters, Lock,
       Route, Owning
  <2>3. ASSUME NEW g \in Hosts, g # h PROVE Route(g)'
    BY <1>9, <2>3, OtherRoutes DEF Journal, RouteGoto, SameLocal, Write, file, desktop,
       counters, Lock, Owning
  <2>4. WayBackOnDisk'
    BY <1>9 DEF Journal, RouteGoto, SameLocal, Write, file, desktop, counters, Route,
       Owning, WayBackOnDisk
  <2> QED BY <2>1, <2>2, <2>3, <2>4
<1>10. CASE PrepareFails(h)
  <2>1. Lock'
    BY <1>10 DEF PrepareFails, RouteGoto, Local, Abandon, Fails, ReleaseClaim, Unload,
       FallBack, file, desktop, counters, Lock, Owning
  <2>2. Route(h)'
    BY <1>10 DEF PrepareFails, RouteGoto, Local, Abandon, Fails, ReleaseClaim, Unload,
       FallBack, file, desktop, counters, Lock, Route, Owning
  <2>3. ASSUME NEW g \in Hosts, g # h PROVE Route(g)'
    BY <1>10, <2>3, OtherRoutes DEF PrepareFails, RouteGoto, Local, Abandon, Fails,
       ReleaseClaim, Unload, FallBack, file, desktop, counters, Lock, Owning
  <2>4. WayBackOnDisk'
    BY <1>10 DEF PrepareFails, RouteGoto, Local, Abandon, Fails, ReleaseClaim, Unload,
       FallBack, file, desktop, counters, Route, Owning, WayBackOnDisk
  <2> QED BY <2>1, <2>2, <2>3, <2>4
<1>11. CASE LoadSink(h)
  <2>1. Lock'
    BY <1>11 DEF LoadSink, RouteGoto, SameLocal, file, desktop, counters, Lock, Owning
  <2>2. Route(h)'
    BY <1>11 DEF LoadSink, RouteGoto, SameLocal, file, desktop, counters, Lock, Route,
       Owning
  <2>3. ASSUME NEW g \in Hosts, g # h PROVE Route(g)'
    BY <1>11, <2>3, OtherRoutes DEF LoadSink, RouteGoto, SameLocal, file, desktop,
       counters, Lock, Owning
  <2>4. WayBackOnDisk'
    BY <1>11 DEF LoadSink, RouteGoto, SameLocal, file, desktop, counters, Route, Owning,
       WayBackOnDisk
  <2> QED BY <2>1, <2>2, <2>3, <2>4
<1>12. CASE SetDefault(h)
  <2>1. Lock'
    BY <1>12 DEF SetDefault, RouteGoto, SameLocal, file, desktop, counters, Lock, Owning
  <2>2. Route(h)'
    BY <1>12 DEF SetDefault, RouteGoto, SameLocal, file, desktop, counters, Lock, Route,
       Owning
  <2>3. ASSUME NEW g \in Hosts, g # h PROVE Route(g)'
    BY <1>12, <2>3, OtherRoutes DEF SetDefault, RouteGoto, SameLocal, file, desktop,
       counters, Lock, Owning
  <2>4. WayBackOnDisk'
    BY <1>12 DEF SetDefault, RouteGoto, SameLocal, file, desktop, counters, Route,
       Owning, WayBackOnDisk
  <2> QED BY <2>1, <2>2, <2>3, <2>4
<1>13. CASE MoveSounds(h)
  <2>1. Lock'
    BY <1>13 DEF MoveSounds, RouteGoto, SameLocal, file, desktop, counters, Lock, Owning
  <2>2. Route(h)'
    BY <1>13 DEF MoveSounds, RouteGoto, SameLocal, file, desktop, counters, Lock, Route,
       Owning
  <2>3. ASSUME NEW g \in Hosts, g # h PROVE Route(g)'
    BY <1>13, <2>3, OtherRoutes DEF MoveSounds, RouteGoto, SameLocal, file, desktop,
       counters, Lock, Owning
  <2>4. WayBackOnDisk'
    BY <1>13 DEF MoveSounds, RouteGoto, SameLocal, file, desktop, counters, Route,
       Owning, WayBackOnDisk
  <2> QED BY <2>1, <2>2, <2>3, <2>4
<1>14. CASE SwitchFails(h)
  <2>1. Lock'
    BY <1>14 DEF SwitchFails, RouteGoto, Fails, file, desktop, counters, Lock, Owning
  <2>2. Route(h)'
    BY <1>14 DEF SwitchFails, RouteGoto, Fails, file, desktop, counters, Lock, Route,
       Owning
  <2>3. ASSUME NEW g \in Hosts, g # h PROVE Route(g)'
    BY <1>14, <2>3, OtherRoutes DEF SwitchFails, RouteGoto, Fails, file, desktop,
       counters, Lock, Owning
  <2>4. WayBackOnDisk'
    BY <1>14 DEF SwitchFails, RouteGoto, Fails, file, desktop, counters, Route, Owning,
       WayBackOnDisk
  <2> QED BY <2>1, <2>2, <2>3, <2>4
<1>15. CASE RouteStop(h)
  <2>1. Lock'
    BY <1>15 DEF RouteStop, RouteGoto, file, desktop, counters, Lock, Owning
  <2>2. Route(h)'
    BY <1>15 DEF RouteStop, RouteGoto, file, desktop, counters, Lock, Route, Owning
  <2>3. ASSUME NEW g \in Hosts, g # h PROVE Route(g)'
    BY <1>15, <2>3, OtherRoutes DEF RouteStop, RouteGoto, file, desktop, counters, Lock,
       Owning
  <2>4. WayBackOnDisk'
    BY <1>15 DEF RouteStop, RouteGoto, file, desktop, counters, Route, Owning, WayBackOnDisk
  <2> QED BY <2>1, <2>2, <2>3, <2>4
<1>16. CASE GiveBackCheck(h)
  <2>1. Lock'
    BY <1>16 DEF GiveBackCheck, RouteGoto, SameLocal, StepDone, file, desktop, counters,
       Lock, Owning
  <2>2. Route(h)'
    BY <1>16 DEF GiveBackCheck, RouteGoto, SameLocal, StepDone, file, desktop, counters,
       Lock, Route, Owning
  <2>3. ASSUME NEW g \in Hosts, g # h PROVE Route(g)'
    BY <1>16, <2>3, OtherRoutes DEF GiveBackCheck, RouteGoto, SameLocal, StepDone, file,
       desktop, counters, Lock, Owning
  <2>4. WayBackOnDisk'
    BY <1>16 DEF GiveBackCheck, RouteGoto, SameLocal, StepDone, file, desktop, counters,
       Route, Owning, WayBackOnDisk
  <2> QED BY <2>1, <2>2, <2>3, <2>4
<1>17. CASE GiveBack(h)
  <2>1. Lock'
    BY <1>17 DEF GiveBack, RouteGoto, StepDone, SetBack, file, desktop, counters, Lock,
       Owning
  <2>2. Route(h)'
    BY <1>17 DEF GiveBack, RouteGoto, StepDone, SetBack, file, desktop, counters, Lock,
       Route, Owning
  <2>3. ASSUME NEW g \in Hosts, g # h PROVE Route(g)'
    BY <1>17, <2>3, OtherRoutes DEF GiveBack, RouteGoto, StepDone, SetBack, file,
       desktop, counters, Lock, Owning
  <2>4. WayBackOnDisk'
    BY <1>17 DEF GiveBack, RouteGoto, StepDone, SetBack, file, desktop, counters, Route,
       Owning, WayBackOnDisk
  <2> QED BY <2>1, <2>2, <2>3, <2>4
<1>18. CASE MoveBack(h)
  <2>1. Lock'
    BY <1>18 DEF MoveBack, StepDone, file, desktop, counters, Lock, Owning
  <2>2. Route(h)'
    BY <1>18 DEF MoveBack, StepDone, file, desktop, counters, Lock, Route, Owning
  <2>3. ASSUME NEW g \in Hosts, g # h PROVE Route(g)'
    BY <1>18, <2>3, OtherRoutes DEF MoveBack, StepDone, file, desktop, counters,
       Lock, Owning
  <2>4. WayBackOnDisk'
    BY <1>18 DEF MoveBack, StepDone, file, desktop, counters, Route, Owning,
       WayBackOnDisk
  <2> QED BY <2>1, <2>2, <2>3, <2>4
<1>19. CASE UnloadSinks(h)
  <2>1. Lock'
    BY <1>19 DEF UnloadSinks, Unload, FallBack, StepDone, file, desktop, counters,
       Lock, Owning
  <2>2. Route(h)'
    BY <1>19 DEF UnloadSinks, Unload, FallBack, StepDone, file, desktop, counters,
       Lock, Route, Owning
  <2>3. ASSUME NEW g \in Hosts, g # h PROVE Route(g)'
    BY <1>19, <2>3, OtherRoutes DEF UnloadSinks, Unload, FallBack, StepDone, file,
       desktop, counters, Lock, Owning
  <2>4. WayBackOnDisk'
    BY <1>19 DEF UnloadSinks, Unload, FallBack, StepDone, file, desktop, counters,
       Route, Owning, WayBackOnDisk
  <2> QED BY <2>1, <2>2, <2>3, <2>4
<1>20. CASE Verify(h)
  <2>1. Lock'
    BY <1>20 DEF Verify, RouteGoto, SameLocal, file, desktop, counters, Lock, Owning
  <2>2. Route(h)'
    BY <1>20 DEF Verify, RouteGoto, SameLocal, file, desktop, counters, Lock, Route,
       Owning
  <2>3. ASSUME NEW g \in Hosts, g # h PROVE Route(g)'
    BY <1>20, <2>3, OtherRoutes DEF Verify, RouteGoto, SameLocal, file, desktop,
       counters, Lock, Owning
  <2>4. WayBackOnDisk'
    BY <1>20 DEF Verify, RouteGoto, SameLocal, file, desktop, counters, Route, Owning,
       WayBackOnDisk
  <2> QED BY <2>1, <2>2, <2>3, <2>4
<1>21. CASE ClearJournal(h)
  <2>1. Lock'
    BY <1>21 DEF ClearJournal, RouteGoto, Local, AfterRecover, ReleaseClaim, Clear, file,
       desktop, counters, Lock, Owning
  <2>2. Route(h)'
    BY <1>21 DEF ClearJournal, RouteGoto, Local, AfterRecover, ReleaseClaim, Clear, file,
       desktop, counters, Lock, Route, Owning
  <2>3. ASSUME NEW g \in Hosts, g # h PROVE Route(g)'
    BY <1>21, <2>3, OtherRoutes DEF ClearJournal, RouteGoto, Local, AfterRecover,
       ReleaseClaim, Clear, file, desktop, counters, Lock, Owning
  <2>4. WayBackOnDisk'
    BY <1>21 DEF ClearJournal, RouteGoto, Local, AfterRecover, ReleaseClaim, Clear, file,
       desktop, counters, Route, Owning, WayBackOnDisk
  <2> QED BY <2>1, <2>2, <2>3, <2>4
<1>22. CASE GiveBackRefused(h)
  <2>1. Lock'
    BY <1>22 DEF GiveBackRefused, RouteGoto, Local, Abandon, ReleaseClaim, StopRaises, file,
       desktop, counters, Lock, Owning
  <2>2. Route(h)'
    BY <1>22 DEF GiveBackRefused, RouteGoto, Local, Abandon, ReleaseClaim, StopRaises, file,
       desktop, counters, Lock, Route, Owning
  <2>3. ASSUME NEW g \in Hosts, g # h PROVE Route(g)'
    BY <1>22, <2>3, OtherRoutes DEF GiveBackRefused, RouteGoto, Local, Abandon, ReleaseClaim,
       StopRaises, file, desktop, counters, Lock, Owning
  <2>4. WayBackOnDisk'
    BY <1>22 DEF GiveBackRefused, RouteGoto, Local, Abandon, ReleaseClaim, StopRaises, file,
       desktop, counters, Route, Owning, WayBackOnDisk
  <2> QED BY <2>1, <2>2, <2>3, <2>4
<1>23. CASE UndoFails(h)
  <2>1. Lock'
    BY <1>23 DEF UndoFails, RouteGoto, Local, Abandon, Fails, ReleaseClaim, Unload, FallBack,
       SetBack, StopRaises, file, desktop, counters, Lock, Owning
  <2>2. Route(h)'
    BY <1>23 DEF UndoFails, RouteGoto, Local, Abandon, Fails, ReleaseClaim, Unload, FallBack,
       SetBack, StopRaises, file, desktop, counters, Lock, Route, Owning
  <2>3. ASSUME NEW g \in Hosts, g # h PROVE Route(g)'
    BY <1>23, <2>3, OtherRoutes DEF UndoFails, RouteGoto, Local, Abandon, Fails, ReleaseClaim,
       Unload, FallBack, SetBack, StopRaises, file, desktop, counters, Lock, Owning
  <2>4. WayBackOnDisk'
    BY <1>23 DEF UndoFails, RouteGoto, Local, Abandon, Fails, ReleaseClaim, Unload, FallBack,
       SetBack, StopRaises, file, desktop, counters, Route, Owning, WayBackOnDisk
  <2> QED BY <2>1, <2>2, <2>3, <2>4
<1>24. CASE Drop(h)
  <2>1. Lock'
    BY <1>24 DEF Drop, RouteGoto, Local, file, desktop, counters, Lock, Owning
  <2>2. Route(h)'
    BY <1>24 DEF Drop, RouteGoto, Local, file, desktop, counters, Lock, Route, Owning
  <2>3. ASSUME NEW g \in Hosts, g # h PROVE Route(g)'
    BY <1>24, <2>3, OtherRoutes DEF Drop, RouteGoto, Local, file, desktop, counters,
       Lock, Owning
  <2>4. WayBackOnDisk'
    BY <1>24 DEF Drop, RouteGoto, Local, file, desktop, counters, Route, Owning,
       WayBackOnDisk
  <2> QED BY <2>1, <2>2, <2>3, <2>4
<1>25. CASE Die(h)
  <2>1. Lock'
    BY <1>25 DEF Die, RouteGoto, Local, Dies, file, desktop, counters, Lock, Owning
  <2>2. Route(h)'
    BY <1>25 DEF Die, RouteGoto, Local, Dies, file, desktop, counters, Lock, Route,
       Owning
  <2>3. ASSUME NEW g \in Hosts, g # h PROVE Route(g)'
    BY <1>25, <2>3, OtherRoutes DEF Die, RouteGoto, Local, Dies, file, desktop, counters,
       Lock, Owning
  <2>4. WayBackOnDisk'
    BY <1>25 DEF Die, RouteGoto, Local, Dies, file, desktop, counters, Route, Owning,
       WayBackOnDisk
  <2> QED BY <2>1, <2>2, <2>3, <2>4
<1>26. CASE Restart(h)
  <2>1. Lock'
    BY <1>26 DEF Restart, RouteGoto, file, desktop, counters, Lock, Owning
  <2>2. Route(h)'
    BY <1>26 DEF Restart, RouteGoto, file, desktop, counters, Lock, Route, Owning
  <2>3. ASSUME NEW g \in Hosts, g # h PROVE Route(g)'
    BY <1>26, <2>3, OtherRoutes DEF Restart, RouteGoto, file, desktop, counters, Lock,
       Owning
  <2>4. WayBackOnDisk'
    BY <1>26 DEF Restart, RouteGoto, file, desktop, counters, Route, Owning,
       WayBackOnDisk
  <2> QED BY <2>1, <2>2, <2>3, <2>4
<1> QED
  BY <1>1, <1>2, <1>3, <1>4, <1>5, <1>6, <1>7, <1>8, <1>9, <1>10, <1>11, <1>12,
     <1>13, <1>14, <1>15, <1>16, <1>17, <1>18, <1>19, <1>20, <1>21, <1>22, <1>23,
     <1>24, <1>25, <1>26 DEF Works, Happens

(* The person and the outputs: no route, no journal, no null sink changes. *)
LEMMA EventKeeps ==
    ASSUME IInv, NEW o \in Outputs, Choose(o) \/ Unplug(o) \/ PlugIn(o)
    PROVE  IInv'
<1> USE RestoreJournalAssumption, AudioRouteAssumption DEF IInv, RouteTypeOK, JournalTypeOK, Event, file
<1>1. default' \in Outputs \cup {TV} /\ (default # TV => default' # TV)
  BY DEF Choose, Unplug, PlugIn, FallBack
<1>2. chosen' \in Outputs \cup {"any"} /\ plugged' \subseteq Outputs
  BY DEF Choose, Unplug, PlugIn, FallBack
<1>3. raced' \in BOOLEAN /\ events' \in Nat
  <2>1. raced' = (raced \/ \E h \in Hosts :
                    stage[h] \in {"leftover", "write", "load", "set", "giving"})
    BY Zenon DEF Choose, Unplug, PlugIn
  <2>2. raced' \in BOOLEAN
    BY <2>1, Zenon
  <2>3. events' \in Nat
    BY DEF Choose, Unplug, PlugIn
  <2> QED BY <2>2, <2>3
<1>4. UNCHANGED <<file, tvSink, stage, previous, restored, task, failures, deaths, told>>
  BY DEF Choose, Unplug, PlugIn
<1>5. RouteTypeOK'
  BY <1>1, <1>2, <1>3, <1>4
<1>6. Lock'
  BY <1>4 DEF Lock
<1>7. \A h \in Hosts : Route(h)'
  BY <1>1, <1>4 DEF Route
<1>8. WayBackOnDisk'
  BY <1>1, <1>4 DEF WayBackOnDisk
<1> QED BY <1>5, <1>6, <1>7, <1>8

(* IInv is inductive: steps of processes, of the person, and stuttering.   *)
LEMMA Inductive == IInv /\ [RouteNext]_routevars => IInv'
<1> SUFFICES ASSUME IInv, [RouteNext]_routevars PROVE IInv'
  OBVIOUS
<1>1. ASSUME NEW h \in Hosts, Works(h) \/ Happens(h) PROVE IInv'
  BY <1>1, HostType, HostKeeps DEF IInv
<1>2. ASSUME NEW o \in Outputs, Choose(o) \/ Unplug(o) \/ PlugIn(o) PROVE IInv'
  BY <1>2, EventKeeps
<1>3. CASE UNCHANGED routevars
  BY <1>3 DEF IInv, RouteTypeOK, JournalTypeOK, Lock, Route, WayBackOnDisk, routevars, file, desktop, counters
<1> QED BY <1>1, <1>2, <1>3 DEF RouteNext

(* IInv holds throughout every behaviour of the route.                     *)
LEMMA Invariant == RouteSpec => []IInv
BY InitInv, Inductive, PTL DEF RouteSpec

-----------------------------------------------------------------------------
(* The route, its journal and the sound server keep their types, for any   *)
(* processes and outputs.                                                  *)
THEOREM TypeCorrect == RouteSpec => []RouteTypeOK
<1>1. IInv => RouteTypeOK
  BY DEF IInv
<1> QED BY <1>1, Invariant, PTL

(* The null sink exists or is the default only while the journal on disk   *)
(* says how to undo it, wherever processes are killed.                     *)
THEOREM WayBackIsOnDisk == RouteSpec => []WayBackOnDisk
<1>1. IInv => WayBackOnDisk
  BY DEF IInv
<1> QED BY <1>1, Invariant, PTL

(* No recovery, of this process or another, undoes a running stream.       *)
THEOREM NoStreamUndone == RouteSpec => []StreamIsNotUndone
<1>1. IInv => StreamIsNotUndone
  BY DEF IInv, Lock, Route, Owning, StreamIsNotUndone
<1> QED BY <1>1, Invariant, PTL

-----------------------------------------------------------------------------
(* Where the sound plays.                                                  *)

(* What the default and the choice are to each other, unless the outputs   *)
(* changed between a look and its command.                                 *)
Sound ==
    /\ default \in plugged \cup {TV} /\ chosen \in plugged \cup {"any"}
    /\ ~raced => /\ default # TV => default = chosen
                 /\ default = TV => chosen \in {journal, "any"}

(* What a process knows of them.                                           *)
Knows(h) ==
    /\ stage[h] \in {"leftover", "write", "load", "set"} =>
         default # TV /\ (raced \/ previous[h] = default)
    /\ stage[h] \in {"leftover", "write", "load", "set", "move", "streaming", "giving"} =>
         restored[h] = 0
    /\ stage[h] = "giving" => raced \/ default = TV
    /\ stage[h] \in {"undo", "giving", "clear", "tracked"} => journal \in {previous[h], "none"}
    /\ stage[h] \in {"undo", "tracked"} /\ restored[h] # 0 /\ default = TV => raced \/ chosen = "any"

ChoiceInv == Sound /\ \A h \in Hosts : Knows(h)

(* A step of one process leaves what the others know.                      *)
LEMMA OthersKnow ==
    ASSUME IInv, ChoiceInv, NEW h \in Hosts, NEW g \in Hosts, g # h,
           stage'[g] = stage[g], previous'[g] = previous[g], restored'[g] = restored[g],
           held[h] \/ UNCHANGED <<journal, default, chosen>>, raced' = raced
    PROVE  Knows(g)'
<1>1. CASE held[h]
  BY <1>1, OneOwner DEF Knows, Owning
<1>2. CASE UNCHANGED <<journal, default, chosen>>
  BY <1>2 DEF ChoiceInv, Knows
<1> QED BY <1>1, <1>2

(* A step that leaves the sound and the journal.                           *)
LEMMA SameSound ==
    ASSUME ChoiceInv, UNCHANGED <<journal, plugged, default, chosen, raced>>
    PROVE  Sound'
BY DEF ChoiceInv, Sound

(* Unloading the null sink, where the default is left to nobody's choice.  *)
LEMMA UnloadSound ==
    ASSUME IInv, ChoiceInv, Unload, UNCHANGED <<plugged, raced, journal>>,
           default = TV => raced \/ chosen = "any"
    PROVE  Sound' /\ default' # TV
<1>1. TV \notin Outputs /\ "any" \notin Outputs /\ plugged \subseteq Outputs
  BY AudioRouteAssumption DEF IInv, RouteTypeOK
<1>2. CASE default = TV
  <2>1. default' \in plugged /\ (chosen = "any" => chosen' = default')
        /\ (chosen # "any" => chosen' = chosen)
    BY <1>2 DEF Unload, FallBack
  <2> QED BY <1>1, <1>2, <2>1 DEF ChoiceInv, Sound
<1>3. CASE default # TV
  <2>1. default' = default /\ chosen' = chosen
    BY <1>3 DEF Unload, FallBack
  <2> QED BY <1>1, <1>3, <2>1 DEF ChoiceInv, Sound
<1> QED BY <1>2, <1>3

(* Setting the former output back.                                         *)
LEMMA SetBackSound ==
    ASSUME IInv, ChoiceInv, NEW h \in Hosts, SetBack(h), journal' = journal
    PROVE  Sound' /\ default' # TV
<1>1. TV \notin Outputs /\ "any" \notin Outputs /\ "none" \notin Outputs /\ plugged \subseteq Outputs
  BY AudioRouteAssumption, RestoreJournalAssumption DEF IInv, RouteTypeOK
<1>2. /\ stage[h] = "giving" /\ previous[h] \in plugged /\ default' = previous[h]
      /\ chosen' = (IF chosen = "any" THEN previous[h] ELSE chosen)
      /\ UNCHANGED <<plugged, raced>>
  BY DEF SetBack
<1>3. ~raced => chosen \in {previous[h], "any"}
  <2>1. ~raced => default = TV /\ journal # "none"
    BY <1>2 DEF ChoiceInv, Knows, IInv, WayBackOnDisk
  <2>2. journal \in {previous[h], "none"}
    BY <1>2 DEF ChoiceInv, Knows
  <2> QED BY <2>1, <2>2 DEF ChoiceInv, Sound
<1>4. chosen \in plugged \cup {"any"}
  BY DEF ChoiceInv, Sound
<1> QED BY <1>1, <1>2, <1>3, <1>4 DEF Sound

(* Unloading it while the default is a real output.                        *)
LEMMA UnloadElsewhere ==
    ASSUME Unload, default # TV
    PROVE  UNCHANGED <<default, chosen>>
BY DEF Unload, FallBack

(* A host's step, or what happens to it, keeps the owner's choice of       *)
(* sound.                                                                  *)
LEMMA HostChoice ==
    ASSUME IInv, ChoiceInv, NEW h \in Hosts, Works(h) \/ Happens(h)
    PROVE  ChoiceInv'
<1> USE RestoreJournalAssumption, AudioRouteAssumption DEF IInv, RouteTypeOK, JournalTypeOK
<1>1. CASE Recover(h)
  <2>1. Sound'
    BY <1>1, SameSound DEF Recover, desktop, file
  <2>2. Knows(h)'
    BY <1>1 DEF Recover, RouteGoto, SameLocal, AfterRecover, file, desktop, counters,
       ChoiceInv, Knows, Sound, Route, Owning
  <2>3. ASSUME NEW g \in Hosts, g # h PROVE Knows(g)'
    BY <1>1, <2>3, OthersKnow DEF Recover, RouteGoto, SameLocal, AfterRecover, file,
       desktop, counters, Lock, Owning
  <2> QED BY <2>1, <2>2, <2>3 DEF ChoiceInv
<1>2. CASE RecoverClaim(h)
  <2>1. Sound'
    BY <1>2, SameSound DEF RecoverClaim, desktop, file
  <2>2. Knows(h)'
    BY <1>2 DEF RecoverClaim, RouteGoto, SameLocal, AfterRecover, Claim, Taken, file,
       desktop, counters, ChoiceInv, Knows, Sound, Route, Owning
  <2>3. ASSUME NEW g \in Hosts, g # h PROVE Knows(g)'
    BY <1>2, <2>3, OthersKnow DEF RecoverClaim, RouteGoto, SameLocal, AfterRecover, Claim,
       Taken, file, desktop, counters, Lock, Owning
  <2> QED BY <2>1, <2>2, <2>3 DEF ChoiceInv
<1>3. CASE Reread(h)
  <2>1. Sound'
    BY <1>3, SameSound DEF Reread, desktop, file
  <2>2. Knows(h)'
    BY <1>3 DEF Reread, RouteGoto, Local, AfterRecover, ReleaseClaim, file, desktop,
       counters, ChoiceInv, Knows, Sound, Route, Owning
  <2>3. ASSUME NEW g \in Hosts, g # h PROVE Knows(g)'
    BY <1>3, <2>3, OthersKnow DEF Reread, RouteGoto, Local, AfterRecover, ReleaseClaim,
       file, desktop, counters, Lock, Owning
  <2> QED BY <2>1, <2>2, <2>3 DEF ChoiceInv
<1>4. CASE RecoverFails(h)
  <2>1. Sound'
    BY <1>4, SameSound DEF RecoverFails, desktop, file
  <2>2. Knows(h)'
    BY <1>4 DEF RecoverFails, RouteGoto, Local, Abandon, Fails, ReleaseClaim, file, desktop,
       counters, ChoiceInv, Knows, Sound, Route, Owning
  <2>3. ASSUME NEW g \in Hosts, g # h PROVE Knows(g)'
    BY <1>4, <2>3, OthersKnow DEF RecoverFails, RouteGoto, Local, Abandon, Fails,
       ReleaseClaim, file, desktop, counters, Lock, Owning
  <2> QED BY <2>1, <2>2, <2>3 DEF ChoiceInv
<1>5. CASE RouteStart(h)
  <2>1. Sound'
    BY <1>5, SameSound DEF RouteStart, desktop, file
  <2>2. Knows(h)'
    BY <1>5 DEF RouteStart, RouteGoto, file, desktop, counters, ChoiceInv, Knows, Sound,
       Route, Owning
  <2>3. ASSUME NEW g \in Hosts, g # h PROVE Knows(g)'
    BY <1>5, <2>3, OthersKnow DEF RouteStart, RouteGoto, file, desktop, counters, Lock,
       Owning
  <2> QED BY <2>1, <2>2, <2>3 DEF ChoiceInv
<1>6. CASE StartClaim(h)
  <2>1. Sound'
    BY <1>6, SameSound DEF StartClaim, desktop, file
  <2>2. Knows(h)'
    BY <1>6 DEF StartClaim, RouteGoto, SameLocal, Claim, Taken, file, desktop, counters,
       ChoiceInv, Knows, Sound, Route, Owning
  <2>3. ASSUME NEW g \in Hosts, g # h PROVE Knows(g)'
    BY <1>6, <2>3, OthersKnow DEF StartClaim, RouteGoto, SameLocal, Claim, Taken, file,
       desktop, counters, Lock, Owning
  <2> QED BY <2>1, <2>2, <2>3 DEF ChoiceInv
<1>7. CASE Capture(h)
  <2>1. Sound'
    BY <1>7, SameSound DEF Capture, desktop, file
  <2>2. Knows(h)'
    BY <1>7 DEF Capture, RouteGoto, Local, Abandon, ReleaseClaim, file, desktop, counters,
       ChoiceInv, Knows, Sound, Route, Owning
  <2>3. ASSUME NEW g \in Hosts, g # h PROVE Knows(g)'
    BY <1>7, <2>3, OthersKnow DEF Capture, RouteGoto, Local, Abandon, ReleaseClaim, file,
       desktop, counters, Lock, Owning
  <2> QED BY <2>1, <2>2, <2>3 DEF ChoiceInv
<1>8. CASE ForgetLeftover(h)
  <2>1. UNCHANGED <<journal, plugged, default, chosen, raced>>
    BY <1>8, UnloadElsewhere DEF ForgetLeftover, ChoiceInv, Knows, file
  <2>2. Sound'
    BY <2>1, SameSound
  <2>3. Knows(h)'
    BY <1>8, <2>1 DEF ForgetLeftover, RouteGoto, SameLocal, ChoiceInv, Knows
  <2>4. ASSUME NEW g \in Hosts, g # h PROVE Knows(g)'
    BY <1>8, <2>1, <2>4, OthersKnow DEF ForgetLeftover, RouteGoto, SameLocal
  <2> QED BY <2>2, <2>3, <2>4 DEF ChoiceInv
<1>9. CASE Journal(h)
  <2>1. Sound'
    BY <1>9 DEF Journal, RouteGoto, SameLocal, Write, file, desktop, counters, ChoiceInv,
       Knows, Sound, Route, Owning, WayBackOnDisk
  <2>2. Knows(h)'
    BY <1>9 DEF Journal, RouteGoto, SameLocal, Write, file, desktop, counters, ChoiceInv,
       Knows, Sound, Route, Owning
  <2>3. ASSUME NEW g \in Hosts, g # h PROVE Knows(g)'
    BY <1>9, <2>3, OthersKnow DEF Journal, RouteGoto, SameLocal, Write, file, desktop,
       counters, Lock, Owning
  <2> QED BY <2>1, <2>2, <2>3 DEF ChoiceInv
<1>10. CASE PrepareFails(h)
  <2>1. /\ held[h] /\ stage'[h] = "idle" /\ stage[h] \in {"capture", "leftover", "write"}
        /\ \A g \in Hosts : g # h => /\ stage'[g] = stage[g] /\ previous'[g] = previous[g]
                                    /\ restored'[g] = restored[g]
        /\ journal' # journal => stage[h] = "write"
    BY <1>10 DEF PrepareFails, Abandon, Local, RouteGoto, Lock, Owning
  <2>2. UNCHANGED <<plugged, default, chosen, raced>>
    BY <1>10, UnloadElsewhere DEF PrepareFails, ChoiceInv, Knows, desktop
  <2>3. Sound'
    <3>1. journal' # journal => default # TV
      BY <2>1 DEF ChoiceInv, Knows
    <3> QED BY <2>2, <3>1 DEF ChoiceInv, Sound
  <2>4. Knows(h)'
    BY <2>1 DEF Knows
  <2>5. ASSUME NEW g \in Hosts, g # h PROVE Knows(g)'
    BY <2>1, <2>2, <2>5, OthersKnow
  <2> QED BY <2>3, <2>4, <2>5 DEF ChoiceInv
<1>11. CASE LoadSink(h)
  <2>1. Sound'
    BY <1>11, SameSound DEF LoadSink, desktop, file
  <2>2. Knows(h)'
    BY <1>11 DEF LoadSink, RouteGoto, SameLocal, file, desktop, counters, ChoiceInv, Knows,
       Sound, Route, Owning
  <2>3. ASSUME NEW g \in Hosts, g # h PROVE Knows(g)'
    BY <1>11, <2>3, OthersKnow DEF LoadSink, RouteGoto, SameLocal, file, desktop, counters,
       Lock, Owning
  <2> QED BY <2>1, <2>2, <2>3 DEF ChoiceInv
<1>12. CASE SetDefault(h)
  <2>1. Sound'
    BY <1>12 DEF SetDefault, RouteGoto, SameLocal, file, desktop, counters, ChoiceInv,
       Knows, Sound, Route, Owning, WayBackOnDisk
  <2>2. Knows(h)'
    BY <1>12 DEF SetDefault, RouteGoto, SameLocal, file, desktop, counters, ChoiceInv,
       Knows, Sound, Route, Owning
  <2>3. ASSUME NEW g \in Hosts, g # h PROVE Knows(g)'
    BY <1>12, <2>3, OthersKnow DEF SetDefault, RouteGoto, SameLocal, file, desktop,
       counters, Lock, Owning
  <2> QED BY <2>1, <2>2, <2>3 DEF ChoiceInv
<1>13. CASE MoveSounds(h)
  <2>1. Sound'
    BY <1>13, SameSound DEF MoveSounds, desktop, file
  <2>2. Knows(h)'
    BY <1>13 DEF MoveSounds, RouteGoto, SameLocal, file, desktop, counters, ChoiceInv,
       Knows, Sound, Route, Owning
  <2>3. ASSUME NEW g \in Hosts, g # h PROVE Knows(g)'
    BY <1>13, <2>3, OthersKnow DEF MoveSounds, RouteGoto, SameLocal, file, desktop,
       counters, Lock, Owning
  <2> QED BY <2>1, <2>2, <2>3 DEF ChoiceInv
<1>14. CASE SwitchFails(h)
  <2>1. Sound'
    BY <1>14 DEF SwitchFails, RouteGoto, Fails, file, desktop, counters, ChoiceInv, Knows,
       Sound, Route, Owning, WayBackOnDisk
  <2>2. Knows(h)'
    BY <1>14 DEF SwitchFails, RouteGoto, Fails, file, desktop, counters, ChoiceInv, Knows,
       Sound, Route, Owning
  <2>3. ASSUME NEW g \in Hosts, g # h PROVE Knows(g)'
    BY <1>14, <2>3, OthersKnow DEF SwitchFails, RouteGoto, Fails, file, desktop, counters,
       Lock, Owning
  <2> QED BY <2>1, <2>2, <2>3 DEF ChoiceInv
<1>15. CASE RouteStop(h)
  <2>1. Sound'
    BY <1>15, SameSound DEF RouteStop, desktop, file
  <2>2. Knows(h)'
    BY <1>15 DEF RouteStop, RouteGoto, file, desktop, counters, ChoiceInv, Knows, Sound,
       Route, Owning
  <2>3. ASSUME NEW g \in Hosts, g # h PROVE Knows(g)'
    BY <1>15, <2>3, OthersKnow DEF RouteStop, RouteGoto, file, desktop, counters, Lock,
       Owning
  <2> QED BY <2>1, <2>2, <2>3 DEF ChoiceInv
<1>16. CASE GiveBackCheck(h)
  <2>1. Sound'
    BY <1>16, SameSound DEF GiveBackCheck, desktop, file
  <2>2. Knows(h)'
    BY <1>16 DEF GiveBackCheck, RouteGoto, SameLocal, StepDone, file, desktop, counters,
       ChoiceInv, Knows, Sound, Route, Owning
  <2>3. ASSUME NEW g \in Hosts, g # h PROVE Knows(g)'
    BY <1>16, <2>3, OthersKnow DEF GiveBackCheck, RouteGoto, SameLocal, StepDone, file,
       desktop, counters, Lock, Owning
  <2> QED BY <2>1, <2>2, <2>3 DEF ChoiceInv
<1>17. CASE GiveBack(h)
  <2>1. Sound'
    BY <1>17 DEF GiveBack, RouteGoto, StepDone, SetBack, file, desktop, counters, ChoiceInv,
       Knows, Sound, Route, Owning, WayBackOnDisk
  <2>2. Knows(h)'
    BY <1>17 DEF GiveBack, RouteGoto, StepDone, SetBack, file, desktop, counters, ChoiceInv,
       Knows, Sound, Route, Owning
  <2>3. ASSUME NEW g \in Hosts, g # h PROVE Knows(g)'
    BY <1>17, <2>3, OthersKnow DEF GiveBack, RouteGoto, StepDone, SetBack, file, desktop,
       counters, Lock, Owning
  <2> QED BY <2>1, <2>2, <2>3 DEF ChoiceInv
<1>18. CASE MoveBack(h)
  <2>1. Sound'
    BY <1>18, SameSound DEF MoveBack, desktop, file
  <2>2. Knows(h)'
    BY <1>18 DEF MoveBack, RouteGoto, StepDone, file, desktop, counters, ChoiceInv, Knows,
       Sound, Route, Owning
  <2>3. ASSUME NEW g \in Hosts, g # h PROVE Knows(g)'
    BY <1>18, <2>3, OthersKnow DEF MoveBack, RouteGoto, StepDone, file, desktop, counters,
       Lock, Owning
  <2> QED BY <2>1, <2>2, <2>3 DEF ChoiceInv
<1>19. CASE UnloadSinks(h)
  <2>1. /\ Unload /\ UNCHANGED <<journal, plugged, raced, stage, previous>>
        /\ stage[h] = "undo" /\ restored[h] = 2 /\ held[h]
    BY <1>19 DEF UnloadSinks, StepDone, file, Lock, Owning
  <2>2. Sound' /\ default' # TV
    BY <2>1, UnloadSound DEF ChoiceInv, Knows
  <2>3. Knows(h)'
    BY <2>1, <2>2 DEF ChoiceInv, Knows
  <2>4. ASSUME NEW g \in Hosts, g # h PROVE Knows(g)'
    BY <1>19, <2>1, <2>4, OthersKnow DEF UnloadSinks, StepDone
  <2> QED BY <2>2, <2>3, <2>4 DEF ChoiceInv
<1>20. CASE Verify(h)
  <2>1. Sound'
    BY <1>20, SameSound DEF Verify, desktop, file
  <2>2. Knows(h)'
    BY <1>20 DEF Verify, RouteGoto, SameLocal, file, desktop, counters, ChoiceInv, Knows,
       Sound, Route, Owning
  <2>3. ASSUME NEW g \in Hosts, g # h PROVE Knows(g)'
    BY <1>20, <2>3, OthersKnow DEF Verify, RouteGoto, SameLocal, file, desktop, counters,
       Lock, Owning
  <2> QED BY <2>1, <2>2, <2>3 DEF ChoiceInv
<1>21. CASE ClearJournal(h)
  <2>1. Sound'
    BY <1>21 DEF ClearJournal, RouteGoto, Local, AfterRecover, Clear, ReleaseClaim, file,
       desktop, counters, ChoiceInv, Knows, Sound, Route, Owning, WayBackOnDisk
  <2>2. Knows(h)'
    BY <1>21 DEF ClearJournal, RouteGoto, Local, AfterRecover, Clear, ReleaseClaim, file,
       desktop, counters, ChoiceInv, Knows, Sound, Route, Owning
  <2>3. ASSUME NEW g \in Hosts, g # h PROVE Knows(g)'
    BY <1>21, <2>3, OthersKnow DEF ClearJournal, RouteGoto, Local, AfterRecover, Clear,
       ReleaseClaim, file, desktop, counters, Lock, Owning
  <2> QED BY <2>1, <2>2, <2>3 DEF ChoiceInv
<1>22. CASE GiveBackRefused(h)
  <2>1. Sound'
    BY <1>22, SameSound DEF GiveBackRefused, desktop, file
  <2>2. Knows(h)'
    BY <1>22 DEF GiveBackRefused, RouteGoto, StopRaises, Abandon, Local, ReleaseClaim, file,
       desktop, counters, ChoiceInv, Knows, Sound, Route, Owning
  <2>3. ASSUME NEW g \in Hosts, g # h PROVE Knows(g)'
    BY <1>22, <2>3, OthersKnow DEF GiveBackRefused, RouteGoto, StopRaises, Abandon, Local,
       ReleaseClaim, file, desktop, counters, Lock, Owning
  <2> QED BY <2>1, <2>2, <2>3 DEF ChoiceInv
<1>23. CASE UndoFails(h)
  <2>1. /\ held[h] /\ stage[h] \in {"undo", "giving", "clear"}
        /\ \A g \in Hosts : g # h => /\ stage'[g] = stage[g] /\ previous'[g] = previous[g]
                                    /\ restored'[g] = restored[g]
    BY <1>23 DEF UndoFails, StopRaises, Abandon, Local, RouteGoto, Lock, Owning
  <2>2. \/ stage'[h] = "idle"
        \/ /\ stage'[h] = "tracked" /\ previous' = previous
           /\ restored'[h] = restored[h] \/ restored'[h] = 0
    BY <1>23 DEF UndoFails, StopRaises, Abandon, Local, RouteGoto
  <2>3. journal' = journal \/ (journal' = "none" /\ stage[h] = "clear")
    BY <1>23 DEF UndoFails
  <2>4. /\ Sound' /\ raced' = raced
        /\ UNCHANGED <<default, chosen>> \/ default' # TV
    <3>1. CASE UNCHANGED desktop
      BY <2>3, <3>1 DEF desktop, ChoiceInv, Sound, Route
    <3>2. CASE SetBack(h)
      <4>1. journal' = journal
        BY <2>3, <3>2 DEF SetBack
      <4> QED BY <3>2, <4>1, SetBackSound DEF SetBack
    <3>3. CASE stage[h] = "undo" /\ restored[h] = 2 /\ Unload /\ UNCHANGED <<plugged, raced>>
      BY <2>3, <3>3, UnloadSound DEF ChoiceInv, Knows
    <3> QED BY <1>23, <3>1, <3>2, <3>3 DEF UndoFails
  <2>5. Knows(h)'
    BY <2>1, <2>2, <2>3, <2>4 DEF ChoiceInv, Knows, Route
  <2>6. ASSUME NEW g \in Hosts, g # h PROVE Knows(g)'
    BY <2>1, <2>4, <2>6, OthersKnow
  <2> QED BY <2>4, <2>5, <2>6 DEF ChoiceInv
<1>24. CASE Drop(h)
  <2>1. Sound'
    BY <1>24, SameSound DEF Drop, desktop, file
  <2>2. Knows(h)'
    BY <1>24 DEF Drop, RouteGoto, Local, file, desktop, counters, ChoiceInv, Knows, Sound,
       Route, Owning
  <2>3. ASSUME NEW g \in Hosts, g # h PROVE Knows(g)'
    BY <1>24, <2>3, OthersKnow DEF Drop, RouteGoto, Local, file, desktop, counters, Lock,
       Owning
  <2> QED BY <2>1, <2>2, <2>3 DEF ChoiceInv
<1>25. CASE Die(h)
  <2>1. Sound'
    BY <1>25, SameSound DEF Die, desktop, file, Dies
  <2>2. Knows(h)'
    BY <1>25 DEF Die, RouteGoto, Local, Dies, file, desktop, counters, ChoiceInv, Knows,
       Sound, Route, Owning
  <2>3. ASSUME NEW g \in Hosts, g # h PROVE Knows(g)'
    BY <1>25, <2>3, OthersKnow DEF Die, RouteGoto, Local, Dies, file, desktop, counters,
       Lock, Owning
  <2> QED BY <2>1, <2>2, <2>3 DEF ChoiceInv
<1>26. CASE Restart(h)
  <2>1. Sound'
    BY <1>26, SameSound DEF Restart, desktop, file
  <2>2. Knows(h)'
    BY <1>26 DEF Restart, RouteGoto, file, desktop, counters, ChoiceInv, Knows, Sound,
       Route, Owning
  <2>3. ASSUME NEW g \in Hosts, g # h PROVE Knows(g)'
    BY <1>26, <2>3, OthersKnow DEF Restart, RouteGoto, file, desktop, counters, Lock, Owning
  <2> QED BY <2>1, <2>2, <2>3 DEF ChoiceInv
<1> QED BY <1>1, <1>2, <1>3, <1>4, <1>5, <1>6, <1>7, <1>8, <1>9, <1>10, <1>11, <1>12, <1>13, <1>14, <1>15, <1>16, <1>17, <1>18, <1>19, <1>20, <1>21, <1>22, <1>23, <1>24, <1>25, <1>26
     DEF Works, Happens

(* The person's choices: the default follows them, or the null sink hides  *)
(* them until it goes.                                                     *)
LEMMA EventChoice ==
    ASSUME IInv, ChoiceInv, NEW o \in Outputs, Choose(o) \/ Unplug(o) \/ PlugIn(o)
    PROVE  ChoiceInv'
<1>1. /\ TV \notin Outputs /\ "any" \notin Outputs /\ plugged \subseteq Outputs
      /\ default \in plugged \cup {TV} /\ chosen \in plugged \cup {"any"}
      /\ ~raced => /\ default # TV => default = chosen
                   /\ default = TV => chosen \in {journal, "any"}
  BY AudioRouteAssumption DEF IInv, RouteTypeOK, ChoiceInv, Sound
<1>2. /\ UNCHANGED <<journal, stage, previous, restored>>
      /\ raced' = (raced \/ \E h \in Hosts :
                      stage[h] \in {"leftover", "write", "load", "set", "giving"})
  BY DEF Choose, Unplug, PlugIn, Event, file
<1>3. default' = TV => default = TV /\ (chosen' = chosen \/ chosen' = "any")
  BY <1>1 DEF Choose, Unplug, PlugIn, FallBack
<1>4. Sound'
  <2>1. CASE Choose(o)
    BY <1>1, <1>2, <2>1 DEF Choose, Sound
  <2>2. CASE PlugIn(o)
    BY <1>1, <1>2, <2>2 DEF PlugIn, Sound
  <2>3. CASE Unplug(o)
    <3>1. /\ plugged' = plugged \ {o}
          /\ default = o => default' \in plugged'
          /\ default # o => default' = default
          /\ chosen # o => chosen' = chosen
          /\ chosen = o => chosen' = IF default = TV THEN "any" ELSE default'
      BY <2>3 DEF Unplug, FallBack
    <3>2. default' \in plugged' \cup {TV} /\ chosen' \in plugged' \cup {"any"}
      BY <1>1, <3>1
    <3>3. ~raced' => ~raced
      BY <1>2
    <3> QED BY <1>1, <1>2, <3>1, <3>2, <3>3 DEF Sound
  <2> QED BY <2>1, <2>2, <2>3
<1>5. ASSUME NEW h \in Hosts PROVE Knows(h)'
  BY <1>2, <1>3 DEF ChoiceInv, Knows
<1> QED BY <1>4, <1>5 DEF ChoiceInv

(* Once nothing is left to restore, the sound plays where the person wants *)
(* it: for any processes, outputs, failures and deaths, unless the outputs *)
(* changed between a look of the route and its command (audio_route.py).   *)
THEOREM SoundIsBack == RouteSpec => []BackToTheChoice
<1>1. RouteInit => ChoiceInv
  <2>1. ASSUME RouteInit PROVE Sound
    BY <2>1, AudioRouteAssumption DEF RouteInit, Sound
  <2>2. ASSUME RouteInit, NEW h \in Hosts PROVE Knows(h)
    BY <2>2 DEF RouteInit, Knows
  <2> QED BY <2>1, <2>2 DEF ChoiceInv
<1>2. IInv /\ ChoiceInv /\ [RouteNext]_routevars => ChoiceInv'
  <2>1. ASSUME ChoiceInv, UNCHANGED routevars PROVE ChoiceInv'
    BY <2>1 DEF ChoiceInv, Sound, Knows, routevars, file, desktop
  <2> QED BY <2>1, HostChoice, EventChoice DEF RouteNext
<1>3. IInv /\ ChoiceInv => BackToTheChoice
  BY DEF IInv, ChoiceInv, Sound, WayBackOnDisk, BackToTheChoice
<1> QED BY <1>1, <1>2, <1>3, Invariant, PTL DEF RouteSpec
=============================================================================
