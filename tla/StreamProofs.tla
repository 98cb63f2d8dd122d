---------------------------- MODULE StreamProofs ----------------------------
(***************************************************************************)
(* The screen stream: the lifecycle of the streaming service, the HLS      *)
(* publication and its receiver, and the controller of the sessions, each  *)
(* for any number of threads, sessions and failing calls.                  *)
(***************************************************************************)
EXTENDS StreamingSession, CastHls, ScreenController, TLAPS

-----------------------------------------------------------------------------
(* StreamingSession: a call holds the lock, and owns what it records.      *)

(* The lock excludes, and a deferred close always has a holder to run it.  *)
LockInv ==
    /\ \A t \in Threads : pc[t] \in Inside <=> t \in lock
    /\ \A t, u \in lock : t = u
    /\ deferred => lock # {}

(* Recorded resources are the running ones, and a cleanup only tries those. *)
LeakInv ==
    /\ NothingLeaks
    /\ owned # {} => session
    /\ \A t \in Threads : pc[t] \in Cleaning => untried[t] \subseteq owned

(* What the state says at each place of a call.                            *)
StateInv ==
    /\ state \notin Startable => session
    /\ state = "RUNNING" => owned = Resources
    /\ \A t \in Threads :
         /\ pc[t] \in {"acquire", "look", "run", "fail", "cancel"} => state = "STARTING"
         /\ pc[t] = "stop" => state = "STOPPING"
         /\ pc[t] = "run" => owned = Resources

(* A requested close has been carried out, or is still in somebody's hands. *)
AtRest == state \in Startable /\ owned \subseteq tried
CloseInv ==
    closed => \/ AtRest
              \/ deferred
              \/ \E t \in Threads : pc[t] \in {"wait", "handoff", "end"}
              \/ \E t \in Threads : pc[t] = "stop" /\ owned \subseteq tried \cup untried[t]

IInv == TypeOK /\ LockInv /\ LeakInv /\ StateInv /\ CloseInv

-----------------------------------------------------------------------------
(* The invariant holds for a service that was just built.                  *)
LEMMA InitInv == Init => IInv
<1> USE StreamingSessionAssumption
<1> SUFFICES ASSUME Init PROVE IInv
  OBVIOUS
<1>1. TypeOK
  <2>1. pc \in [Threads -> Places] /\ untried \in [Threads -> SUBSET Resources]
    BY DEF Init, Places
  <2>2. ops \in [Threads -> 0..MaxOps] /\ live \in [Resources -> Nat]
    BY DEF Init
  <2> QED
    BY <2>1, <2>2 DEF Init, TypeOK
<1>2. LockInv /\ LeakInv
  BY DEF Init, LockInv, LeakInv, NothingLeaks, Inside, Cleaning
<1>3. StateInv /\ CloseInv
  BY DEF Init, StateInv, CloseInv, Startable
<1> QED
  BY <1>1, <1>2, <1>3 DEF IInv

(* Every step of every thread preserves it.                                *)
LEMMA StepInv == IInv /\ [Next]_vars => IInv'
<1> USE StreamingSessionAssumption
<1> SUFFICES ASSUME IInv, [Next]_vars PROVE IInv'
  OBVIOUS
<1>0. TypeOK /\ LockInv /\ LeakInv /\ StateInv /\ CloseInv
  BY DEF IInv
<1>1. ASSUME NEW t \in Threads, Start(t) PROVE IInv'
  <2>1. TypeOK'
    BY <1>0, <1>1 DEF Start, Enter, Goto, TypeOK, LeakInv, StateInv, NothingLeaks, Places, Inside, Cleaning, Resources
  <2>2. LockInv'
    BY <1>0, <1>1 DEF Start, Enter, Goto, TypeOK, LockInv, Places, Inside, Cleaning
  <2>3. LeakInv'
    BY <1>0, <1>1 DEF Start, Enter, Goto, TypeOK, LockInv, LeakInv, NothingLeaks, Inside, Cleaning, Resources
  <2>4. StateInv'
    BY <1>0, <1>1 DEF Start, Enter, Goto, TypeOK, LockInv, LeakInv, StateInv, Places, Inside, Cleaning, Startable, Resources
  <2>5. CloseInv'
    BY <1>0, <1>1 DEF Start, Enter, Goto, TypeOK, LockInv, LeakInv, StateInv, CloseInv, AtRest, Places, Inside, Cleaning, Startable
  <2> QED
    BY <2>1, <2>2, <2>3, <2>4, <2>5 DEF IInv
<1>2. ASSUME NEW t \in Threads, Stop(t) PROVE IInv'
  <2>1. TypeOK'
    BY <1>0, <1>2 DEF Stop, Enter, Goto, TypeOK, LeakInv, StateInv, NothingLeaks, Places, Inside, Cleaning, Resources
  <2>2. LockInv'
    BY <1>0, <1>2 DEF Stop, Enter, Goto, TypeOK, LockInv, Places, Inside, Cleaning
  <2>3. LeakInv'
    BY <1>0, <1>2 DEF Stop, Enter, Goto, TypeOK, LockInv, LeakInv, NothingLeaks, Inside, Cleaning, Resources
  <2>4. StateInv'
    BY <1>0, <1>2 DEF Stop, Enter, Goto, TypeOK, LockInv, LeakInv, StateInv, Places, Inside, Cleaning, Startable, Resources
  <2>5. CloseInv'
    BY <1>0, <1>2 DEF Stop, Enter, Goto, TypeOK, LockInv, LeakInv, StateInv, CloseInv, AtRest, Places, Inside, Cleaning, Startable
  <2> QED
    BY <2>1, <2>2, <2>3, <2>4, <2>5 DEF IInv
<1>3. ASSUME NEW t \in Threads, Close(t) PROVE IInv'
  <2>1. TypeOK'
    BY <1>0, <1>3 DEF Close, Goto, TypeOK, LeakInv, StateInv, NothingLeaks, Places, Inside, Cleaning, Resources
  <2>2. LockInv'
    BY <1>0, <1>3 DEF Close, Goto, TypeOK, LockInv, Places, Inside, Cleaning
  <2>3. LeakInv'
    BY <1>0, <1>3 DEF Close, Goto, TypeOK, LockInv, LeakInv, NothingLeaks, Inside, Cleaning, Resources
  <2>4. StateInv'
    BY <1>0, <1>3 DEF Close, Goto, TypeOK, LockInv, LeakInv, StateInv, Places, Inside, Cleaning, Startable, Resources
  <2>5. CloseInv'
    BY <1>0, <1>3 DEF Close, Goto, TypeOK, LockInv, LeakInv, StateInv, CloseInv, AtRest, Places, Inside, Cleaning, Startable
  <2> QED
    BY <2>1, <2>2, <2>3, <2>4, <2>5 DEF IInv
<1>4. ASSUME NEW t \in Threads, CheckStart(t) PROVE IInv'
  <2>1. TypeOK'
    BY <1>0, <1>4 DEF CheckStart, Goto, TypeOK, LeakInv, StateInv, NothingLeaks, Places, Inside, Cleaning, Resources
  <2>2. LockInv'
    BY <1>0, <1>4 DEF CheckStart, Goto, TypeOK, LockInv, Places, Inside, Cleaning
  <2>3. LeakInv'
    BY <1>0, <1>4 DEF CheckStart, Goto, TypeOK, LockInv, LeakInv, NothingLeaks, Inside, Cleaning, Resources
  <2>4. StateInv'
    BY <1>0, <1>4 DEF CheckStart, Goto, TypeOK, LockInv, LeakInv, StateInv, Places, Inside, Cleaning, Startable, Resources
  <2>5. CloseInv'
    BY <1>0, <1>4 DEF CheckStart, Goto, TypeOK, LockInv, LeakInv, StateInv, CloseInv, AtRest, Places, Inside, Cleaning, Startable
  <2> QED
    BY <2>1, <2>2, <2>3, <2>4, <2>5 DEF IInv
<1>5. ASSUME NEW t \in Threads, Acquire(t) PROVE IInv'
  <2>1. TypeOK'
    <3>1. pc' \in [Threads -> Places]
      BY <1>0, <1>5 DEF Acquire, BeginCleanup, Goto, TypeOK, Places, Inside, Cleaning
    <3>2. untried' \in [Threads -> SUBSET Resources]
      BY <1>0, <1>5 DEF Acquire, BeginCleanup, Goto, TypeOK
    <3>3. owned' \subseteq Resources
      BY <1>0, <1>5 DEF Acquire, BeginCleanup, Goto, TypeOK
    <3>4. live' \in [Resources -> Nat]
      BY <1>0, <1>5 DEF Acquire, BeginCleanup, Goto, TypeOK
    <3> QED
      BY <1>0, <1>5, <3>1, <3>2, <3>3, <3>4 DEF Acquire, TypeOK
  <2>2. LockInv'
    BY <1>0, <1>5 DEF Acquire, BeginCleanup, Goto, TypeOK, LockInv, Places, Inside, Cleaning
  <2>3. LeakInv'
    BY <1>0, <1>5 DEF Acquire, BeginCleanup, Goto, TypeOK, LockInv, LeakInv, NothingLeaks, StateInv, Startable, Inside, Cleaning, Resources
  <2>4. StateInv'
    BY <1>0, <1>5 DEF Acquire, BeginCleanup, Goto, TypeOK, LockInv, LeakInv, StateInv, Places, Inside, Cleaning, Startable, Resources
  <2>5. CloseInv'
    BY <1>0, <1>5 DEF Acquire, BeginCleanup, Goto, TypeOK, LockInv, LeakInv, StateInv, CloseInv, AtRest, Places, Inside, Cleaning, Startable
  <2> QED
    BY <2>1, <2>2, <2>3, <2>4, <2>5 DEF IInv
<1>6. ASSUME NEW t \in Threads, RaiseIfClosed(t) PROVE IInv'
  <2>1. TypeOK'
    <3>1. pc' \in [Threads -> Places]
      BY <1>0, <1>6 DEF RaiseIfClosed, BeginCleanup, Goto, TypeOK, Places, Inside, Cleaning
    <3>2. untried' \in [Threads -> SUBSET Resources]
      BY <1>0, <1>6 DEF RaiseIfClosed, BeginCleanup, TypeOK
    <3> QED
      BY <1>0, <1>6, <3>1, <3>2 DEF RaiseIfClosed, TypeOK
  <2>2. LockInv'
    BY <1>0, <1>6 DEF RaiseIfClosed, BeginCleanup, Goto, TypeOK, LockInv, Places, Inside, Cleaning
  <2>3. LeakInv'
    BY <1>0, <1>6 DEF RaiseIfClosed, BeginCleanup, Goto, TypeOK, LockInv, LeakInv, NothingLeaks, Inside, Cleaning, Resources
  <2>4. StateInv'
    BY <1>0, <1>6 DEF RaiseIfClosed, BeginCleanup, Goto, TypeOK, LockInv, LeakInv, StateInv, Places, Inside, Cleaning, Startable, Resources
  <2>5. CloseInv'
    BY <1>0, <1>6 DEF RaiseIfClosed, BeginCleanup, Goto, TypeOK, LockInv, LeakInv, StateInv, CloseInv, AtRest, Places, Inside, Cleaning, Startable
  <2> QED
    BY <2>1, <2>2, <2>3, <2>4, <2>5 DEF IInv
<1>7. ASSUME NEW t \in Threads, Running(t) PROVE IInv'
  <2>1. TypeOK'
    BY <1>0, <1>7 DEF Running, Goto, TypeOK, LeakInv, StateInv, NothingLeaks, Places, Inside, Cleaning, Resources
  <2>2. LockInv'
    BY <1>0, <1>7 DEF Running, Goto, TypeOK, LockInv, Places, Inside, Cleaning
  <2>3. LeakInv'
    BY <1>0, <1>7 DEF Running, Goto, TypeOK, LockInv, LeakInv, NothingLeaks, Inside, Cleaning, Resources
  <2>4. StateInv'
    BY <1>0, <1>7 DEF Running, Goto, TypeOK, LockInv, LeakInv, StateInv, Places, Inside, Cleaning, Startable, Resources
  <2>5. CloseInv'
    BY <1>0, <1>7 DEF Running, Goto, TypeOK, LockInv, LeakInv, StateInv, CloseInv, AtRest, Places, Inside, Cleaning, Startable
  <2> QED
    BY <2>1, <2>2, <2>3, <2>4, <2>5 DEF IInv
<1>8. ASSUME NEW t \in Threads, StopOwnedSession(t) PROVE IInv'
  <2>1. TypeOK'
    <3>1. pc' \in [Threads -> Places]
      BY <1>0, <1>8 DEF StopOwnedSession, BeginCleanup, Goto, TypeOK, Places, Inside, Cleaning
    <3>2. untried' \in [Threads -> SUBSET Resources]
      BY <1>0, <1>8 DEF StopOwnedSession, BeginCleanup, Goto, TypeOK
    <3> QED
      BY <1>0, <1>8, <3>1, <3>2 DEF StopOwnedSession, TypeOK
  <2>2. LockInv'
    BY <1>0, <1>8 DEF StopOwnedSession, BeginCleanup, Goto, TypeOK, LockInv, Places, Inside, Cleaning
  <2>3. LeakInv'
    BY <1>0, <1>8 DEF StopOwnedSession, BeginCleanup, Goto, TypeOK, LockInv, LeakInv, NothingLeaks, Inside, Cleaning, Resources
  <2>4. StateInv'
    BY <1>0, <1>8 DEF StopOwnedSession, BeginCleanup, Goto, TypeOK, LockInv, LeakInv, StateInv, Places, Inside, Cleaning, Startable, Resources
  <2>5. CloseInv'
    BY <1>0, <1>8 DEF StopOwnedSession, BeginCleanup, Goto, TypeOK, LockInv, LeakInv, StateInv, CloseInv, AtRest, Places, Inside, Cleaning, Startable
  <2> QED
    BY <2>1, <2>2, <2>3, <2>4, <2>5 DEF IInv
<1>9. ASSUME NEW t \in Threads, StopOne(t) PROVE IInv'
  <2>1. TypeOK'
    <3>1. untried' \in [Threads -> SUBSET Resources]
      BY <1>0, <1>9 DEF StopOne, TypeOK
    <3>2. owned' \subseteq Resources /\ tried' \subseteq Resources
      BY <1>0, <1>9 DEF StopOne, TypeOK
    <3>3. live' \in [Resources -> Nat]
      BY <1>0, <1>9 DEF StopOne, TypeOK, LeakInv, NothingLeaks
    <3> QED
      BY <1>0, <1>9, <3>1, <3>2, <3>3 DEF StopOne, TypeOK
  <2>2. LockInv'
    BY <1>0, <1>9 DEF StopOne, TypeOK, LockInv, Places, Inside, Cleaning
  <2>3. LeakInv'
    BY <1>0, <1>9 DEF StopOne, TypeOK, LockInv, LeakInv, NothingLeaks, Inside, Cleaning, Resources
  <2>4. StateInv'
    BY <1>0, <1>9 DEF StopOne, TypeOK, LockInv, LeakInv, StateInv, Places, Inside, Cleaning, Startable, Resources
  <2>5. CloseInv'
    BY <1>0, <1>9 DEF StopOne, TypeOK, LockInv, LeakInv, StateInv, CloseInv, AtRest, Places, Inside, Cleaning, Startable
  <2> QED
    BY <2>1, <2>2, <2>3, <2>4, <2>5 DEF IInv
<1>10. ASSUME NEW t \in Threads, Settle(t) PROVE IInv'
  <2>1. TypeOK'
    BY <1>0, <1>10 DEF Settle, Goto, TypeOK, LeakInv, StateInv, NothingLeaks, Places, Inside, Cleaning, Resources
  <2>2. LockInv'
    BY <1>0, <1>10 DEF Settle, Goto, TypeOK, LockInv, Places, Inside, Cleaning
  <2>3. LeakInv'
    BY <1>0, <1>10 DEF Settle, Goto, TypeOK, LockInv, LeakInv, NothingLeaks, Inside, Cleaning, Resources
  <2>4. StateInv'
    BY <1>0, <1>10 DEF Settle, Goto, TypeOK, LockInv, LeakInv, StateInv, Places, Inside, Cleaning, Startable, Resources
  <2>5. CloseInv'
    BY <1>0, <1>10 DEF Settle, Goto, TypeOK, LockInv, LeakInv, StateInv, CloseInv, AtRest, Places, Inside, Cleaning, Startable
  <2> QED
    BY <2>1, <2>2, <2>3, <2>4, <2>5 DEF IInv
<1>11. ASSUME NEW t \in Threads, Release(t) PROVE IInv'
  <2>1. TypeOK'
    <3>1. pc' \in [Threads -> Places]
      BY <1>0, <1>11 DEF Release, Goto, TypeOK, Places, Inside, Cleaning
    <3> QED
      BY <1>0, <1>11, <3>1 DEF Release, TypeOK
  <2>2. LockInv'
    BY <1>0, <1>11 DEF Release, Goto, TypeOK, LockInv, Places, Inside, Cleaning
  <2>3. LeakInv'
    BY <1>0, <1>11 DEF Release, Goto, TypeOK, LockInv, LeakInv, NothingLeaks, Inside, Cleaning, Resources
  <2>4. StateInv'
    BY <1>0, <1>11 DEF Release, Goto, TypeOK, LockInv, LeakInv, StateInv, Places, Inside, Cleaning, Startable, Resources
  <2>5. CloseInv'
    BY <1>0, <1>11 DEF Release, Goto, TypeOK, LockInv, LeakInv, StateInv, CloseInv, AtRest, Places, Inside, Cleaning, Startable
  <2> QED
    BY <2>1, <2>2, <2>3, <2>4, <2>5 DEF IInv
<1>12. ASSUME NEW t \in Threads, CloseGetsLock(t) PROVE IInv'
  <2>1. TypeOK'
    BY <1>0, <1>12 DEF CloseGetsLock, Goto, TypeOK, LeakInv, StateInv, NothingLeaks, Places, Inside, Cleaning, Resources
  <2>2. LockInv'
    BY <1>0, <1>12 DEF CloseGetsLock, Goto, TypeOK, LockInv, Places, Inside, Cleaning
  <2>3. LeakInv'
    BY <1>0, <1>12 DEF CloseGetsLock, Goto, TypeOK, LockInv, LeakInv, NothingLeaks, Inside, Cleaning, Resources
  <2>4. StateInv'
    BY <1>0, <1>12 DEF CloseGetsLock, Goto, TypeOK, LockInv, LeakInv, StateInv, Places, Inside, Cleaning, Startable, Resources
  <2>5. CloseInv'
    BY <1>0, <1>12 DEF CloseGetsLock, Goto, TypeOK, LockInv, LeakInv, StateInv, CloseInv, AtRest, Places, Inside, Cleaning, Startable
  <2> QED
    BY <2>1, <2>2, <2>3, <2>4, <2>5 DEF IInv
<1>13. ASSUME NEW t \in Threads, CloseTimesOut(t) PROVE IInv'
  <2>1. TypeOK'
    BY <1>0, <1>13 DEF CloseTimesOut, Goto, TypeOK, LeakInv, StateInv, NothingLeaks, Places, Inside, Cleaning, Resources
  <2>2. LockInv'
    BY <1>0, <1>13 DEF CloseTimesOut, Goto, TypeOK, LockInv, Places, Inside, Cleaning
  <2>3. LeakInv'
    BY <1>0, <1>13 DEF CloseTimesOut, Goto, TypeOK, LockInv, LeakInv, NothingLeaks, Inside, Cleaning, Resources
  <2>4. StateInv'
    BY <1>0, <1>13 DEF CloseTimesOut, Goto, TypeOK, LockInv, LeakInv, StateInv, Places, Inside, Cleaning, Startable, Resources
  <2>5. CloseInv'
    BY <1>0, <1>13 DEF CloseTimesOut, Goto, TypeOK, LockInv, LeakInv, StateInv, CloseInv, AtRest, Places, Inside, Cleaning, Startable
  <2> QED
    BY <2>1, <2>2, <2>3, <2>4, <2>5 DEF IInv
<1>14. ASSUME NEW t \in Threads, HandOff(t) PROVE IInv'
  <2>1. TypeOK'
    BY <1>0, <1>14 DEF HandOff, Goto, TypeOK, LeakInv, StateInv, NothingLeaks, Places, Inside, Cleaning, Resources
  <2>2. LockInv'
    BY <1>0, <1>14 DEF HandOff, Goto, TypeOK, LockInv, Places, Inside, Cleaning
  <2>3. LeakInv'
    BY <1>0, <1>14 DEF HandOff, Goto, TypeOK, LockInv, LeakInv, NothingLeaks, Inside, Cleaning, Resources
  <2>4. StateInv'
    BY <1>0, <1>14 DEF HandOff, Goto, TypeOK, LockInv, LeakInv, StateInv, Places, Inside, Cleaning, Startable, Resources
  <2>5. CloseInv'
    BY <1>0, <1>14 DEF HandOff, Goto, TypeOK, LockInv, LeakInv, StateInv, CloseInv, AtRest, Places, Inside, Cleaning, Startable
  <2> QED
    BY <2>1, <2>2, <2>3, <2>4, <2>5 DEF IInv
<1>15. ASSUME UNCHANGED vars PROVE IInv'
  BY <1>0, <1>15 DEF vars, IInv, TypeOK, LockInv, LeakInv, NothingLeaks, StateInv, CloseInv, AtRest
<1> QED
  BY <1>1, <1>2, <1>3, <1>4, <1>5, <1>6, <1>7, <1>8, <1>9, <1>10, <1>11, <1>12, <1>13, <1>14, <1>15 DEF Next, CallStep

-----------------------------------------------------------------------------
(* The service never leaves the states listed in TypeOK.                   *)
THEOREM TypeCorrect == Spec => []TypeOK
<1>1. IInv => TypeOK
  BY DEF IInv
<1> QED
  BY InitInv, StepInv, <1>1, PTL DEF Spec

(* What runs is what the service has recorded, whatever fails.             *)
THEOREM NoLeak == Spec => []NothingLeaks
<1>1. IInv => NothingLeaks
  BY DEF IInv, LeakInv
<1> QED
  BY InitInv, StepInv, <1>1, PTL DEF Spec

(* RUNNING is only reported for a complete stream.                         *)
THEOREM Complete == Spec => []RunningIsComplete
<1>1. IInv => RunningIsComplete
  BY DEF IInv, StateInv, RunningIsComplete
<1> QED
  BY InitInv, StepInv, <1>1, PTL DEF Spec

(* A close that could not wait is never lost.                              *)
THEOREM CloseNotLost == Spec => []CloseIsCarriedOut
<1>1. IInv => CloseIsCarriedOut
  BY DEF IInv, TypeOK, LockInv, CloseInv, AtRest, CloseIsCarriedOut, Inside, Cleaning
<1> QED
  BY InitInv, StepInv, <1>1, PTL DEF Spec

-----------------------------------------------------------------------------
(* CastHls: the publication and the stream on the TV.                      *)

StartPlaces == PubStarting \cup {"load"}
HlsPlaces ==
    PubStarting \cup RecWorking \cup {"out", "load", "pub_lock", "shutdown", "unlist", "rec_lock"}
PubPlaces == {"out", "pub_lock", "shutdown", "unlist"}

(* The thread that starts a stream starts it alone: nothing is published,  *)
(* held or released until it says so.                                      *)
StartsAlone ==
    \A t \in Stoppers :
        /\ at[t] \in PubStarting =>
             ~published /\ ~unpublished /\ \A u \in Stoppers \ {t} : at[u] = "out"
        /\ at[t] \in StartPlaces =>
             ~holds /\ ~disowned /\ \A u \in Stoppers \ {t} : at[u] \in PubPlaces

(* The locks, and what their holders have established.                     *)
PubInv ==
    /\ \A t \in Stoppers :
         /\ at[t] \in {"shutdown", "unlist"} <=> pubLock = t
         /\ at[t] \in {"shutdown", "unlist"} => published /\ timer # "armed"
         /\ at[t] = "unlist" => server = "closed"
    /\ server \in {"bound", "serving"} => published \/ \E t \in Stoppers : at[t] \in PubStarting
    /\ unpublished => server = "closed" /\ timer # "armed"

(* What plays while a thread is about to stop it, and after it closed it.  *)
TvInv ==
    /\ \A t \in Stoppers :
         /\ recLock = t => at[t] \in RecWorking
         /\ at[t] \in {"halt", "close"} => media # "other" \/ late
         /\ at[t] = "close" => media # "ours"
    /\ disowned => media # "ours"
    /\ hurt => late

HlsInv == HlsTypeOK /\ StartsAlone /\ PubInv /\ TvInv

-----------------------------------------------------------------------------
(* Nothing is published, and nothing of ours plays, to begin with.         *)
LEMMA HlsInitInv == HlsInit => HlsInv
<1> USE CastHlsAssumption
<1> SUFFICES ASSUME HlsInit PROVE HlsInv
  OBVIOUS
<1>1. HlsTypeOK
  BY DEF HlsInit, HlsTypeOK, Whose, Unseen, PubStarting, RecWorking
<1>2. StartsAlone /\ PubInv
  BY DEF HlsInit, StartsAlone, PubInv, StartPlaces, PubPlaces, PubStarting
<1>3. TvInv
  BY DEF HlsInit, TvInv, RecWorking
<1> QED
  BY <1>1, <1>2, <1>3 DEF HlsInv

(* Every step of a thread, of the timer or of another sender keeps it.     *)
LEMMA HlsStepInv == HlsInv /\ [HlsNext]_hvars => HlsInv'
<1> USE DEF Move, Mishap, PublisherOnly, pubvars, tvvars, recvars, PubStarting, RecWorking,
            HlsTypeOK, StartPlaces, PubPlaces, Whose, HlsPlaces
<1> USE CastHlsAssumption
<1> SUFFICES ASSUME HlsInv, [HlsNext]_hvars PROVE HlsInv'
  OBVIOUS
<1>0. HlsTypeOK /\ StartsAlone /\ PubInv /\ TvInv
  BY DEF HlsInv
<1>1. ASSUME NEW t \in Stoppers, ServeThread(t) PROVE HlsInv'
  <2>1. HlsTypeOK'
    <3>1. at' \in [Stoppers -> HlsPlaces]
      BY <1>0, <1>1 DEF ServeThread
    <3>2. /\ media' \in Whose /\ app' \in Whose
          /\ seen' \in [Stoppers -> [media : Whose, app : Whose]]
      BY <1>0, <1>1 DEF ServeThread
    <3>3. /\ server' \in {"none", "bound", "serving", "shut", "closed"}
          /\ timer' \in {"off", "armed", "expiring", "over"}
          /\ published' \in BOOLEAN /\ unpublished' \in BOOLEAN /\ holds' \in BOOLEAN
          /\ disowned' \in BOOLEAN /\ hurt' \in BOOLEAN /\ late' \in BOOLEAN
      BY <1>0, <1>1 DEF ServeThread
    <3>4. /\ pubLock' \in Stoppers \cup {"nobody"} /\ recLock' \in Stoppers \cup {"nobody"}
          /\ senders' \in Nat /\ mishaps' \in Nat
      BY <1>0, <1>1 DEF ServeThread
    <3> QED
      BY <3>1, <3>2, <3>3, <3>4
  <2>2. StartsAlone'
    BY <1>0, <1>1 DEF ServeThread, StartsAlone, PubInv
  <2>3. PubInv'
    BY <1>0, <1>1 DEF ServeThread, StartsAlone, PubInv
  <2>4. TvInv'
    BY <1>0, <1>1 DEF ServeThread, StartsAlone, TvInv
  <2> QED
    BY <2>1, <2>2, <2>3, <2>4 DEF HlsInv
<1>2. ASSUME NEW t \in Stoppers, ArmExpiry(t) PROVE HlsInv'
  <2>1. HlsTypeOK'
    <3>1. at' \in [Stoppers -> HlsPlaces]
      BY <1>0, <1>2 DEF ArmExpiry
    <3>2. /\ media' \in Whose /\ app' \in Whose
          /\ seen' \in [Stoppers -> [media : Whose, app : Whose]]
      BY <1>0, <1>2 DEF ArmExpiry
    <3>3. /\ server' \in {"none", "bound", "serving", "shut", "closed"}
          /\ timer' \in {"off", "armed", "expiring", "over"}
          /\ published' \in BOOLEAN /\ unpublished' \in BOOLEAN /\ holds' \in BOOLEAN
          /\ disowned' \in BOOLEAN /\ hurt' \in BOOLEAN /\ late' \in BOOLEAN
      BY <1>0, <1>2 DEF ArmExpiry
    <3>4. /\ pubLock' \in Stoppers \cup {"nobody"} /\ recLock' \in Stoppers \cup {"nobody"}
          /\ senders' \in Nat /\ mishaps' \in Nat
      BY <1>0, <1>2 DEF ArmExpiry
    <3> QED
      BY <3>1, <3>2, <3>3, <3>4
  <2>2. StartsAlone'
    BY <1>0, <1>2 DEF ArmExpiry, StartsAlone, PubInv
  <2>3. PubInv'
    BY <1>0, <1>2 DEF ArmExpiry, StartsAlone, PubInv
  <2>4. TvInv'
    BY <1>0, <1>2 DEF ArmExpiry, StartsAlone, TvInv
  <2> QED
    BY <2>1, <2>2, <2>3, <2>4 DEF HlsInv
<1>3. ASSUME NEW t \in Stoppers, Publish(t) PROVE HlsInv'
  <2>0. at' \in [Stoppers -> PubStarting \cup RecWorking \cup
                   {"out", "load", "pub_lock", "shutdown", "unlist", "rec_lock"}]
    BY <1>0, <1>3 DEF Publish
  <2>a. published' \in BOOLEAN /\ unpublished' \in BOOLEAN
    BY <1>3 DEF Publish
  <2>1. HlsTypeOK'
    <3>1. at' \in [Stoppers -> HlsPlaces]
      BY <1>0, <1>3, <2>0, <2>a DEF Publish
    <3>2. /\ media' \in Whose /\ app' \in Whose
          /\ seen' \in [Stoppers -> [media : Whose, app : Whose]]
      BY <1>0, <1>3, <2>0, <2>a DEF Publish
    <3>3. /\ server' \in {"none", "bound", "serving", "shut", "closed"}
          /\ timer' \in {"off", "armed", "expiring", "over"}
          /\ published' \in BOOLEAN /\ unpublished' \in BOOLEAN /\ holds' \in BOOLEAN
          /\ disowned' \in BOOLEAN /\ hurt' \in BOOLEAN /\ late' \in BOOLEAN
      BY <1>0, <1>3, <2>0, <2>a DEF Publish
    <3>4. /\ pubLock' \in Stoppers \cup {"nobody"} /\ recLock' \in Stoppers \cup {"nobody"}
          /\ senders' \in Nat /\ mishaps' \in Nat
      BY <1>0, <1>3, <2>0, <2>a DEF Publish
    <3> QED
      BY <3>1, <3>2, <3>3, <3>4
  <2>2. StartsAlone'
    BY <1>0, <1>3 DEF Publish, StartsAlone, PubInv
  <2>3. PubInv'
    BY <1>0, <1>3 DEF Publish, StartsAlone, PubInv
  <2>4. TvInv'
    BY <1>0, <1>3 DEF Publish, StartsAlone, TvInv
  <2> QED
    BY <2>1, <2>2, <2>3, <2>4 DEF HlsInv
<1>4. ASSUME NEW t \in Stoppers, PubLocks(t) PROVE HlsInv'
  <2>1. HlsTypeOK'
    <3>1. at' \in [Stoppers -> HlsPlaces]
      BY <1>0, <1>4 DEF PubLocks
    <3>2. /\ media' \in Whose /\ app' \in Whose
          /\ seen' \in [Stoppers -> [media : Whose, app : Whose]]
      BY <1>0, <1>4 DEF PubLocks
    <3>3. /\ server' \in {"none", "bound", "serving", "shut", "closed"}
          /\ timer' \in {"off", "armed", "expiring", "over"}
          /\ published' \in BOOLEAN /\ unpublished' \in BOOLEAN /\ holds' \in BOOLEAN
          /\ disowned' \in BOOLEAN /\ hurt' \in BOOLEAN /\ late' \in BOOLEAN
      BY <1>0, <1>4 DEF PubLocks
    <3>4. /\ pubLock' \in Stoppers \cup {"nobody"} /\ recLock' \in Stoppers \cup {"nobody"}
          /\ senders' \in Nat /\ mishaps' \in Nat
      BY <1>0, <1>4 DEF PubLocks
    <3> QED
      BY <3>1, <3>2, <3>3, <3>4
  <2>2. StartsAlone'
    BY <1>0, <1>4 DEF PubLocks, StartsAlone, PubInv
  <2>3. PubInv'
    BY <1>0, <1>4 DEF PubLocks, StartsAlone, PubInv
  <2>4. TvInv'
    BY <1>0, <1>4 DEF PubLocks, StartsAlone, TvInv
  <2> QED
    BY <2>1, <2>2, <2>3, <2>4 DEF HlsInv
<1>5. ASSUME NEW t \in Stoppers, ShutDown(t) PROVE HlsInv'
  <2>1. HlsTypeOK'
    <3>1. at' \in [Stoppers -> HlsPlaces]
      BY <1>0, <1>5 DEF ShutDown
    <3>2. /\ media' \in Whose /\ app' \in Whose
          /\ seen' \in [Stoppers -> [media : Whose, app : Whose]]
      BY <1>0, <1>5 DEF ShutDown
    <3>3. /\ server' \in {"none", "bound", "serving", "shut", "closed"}
          /\ timer' \in {"off", "armed", "expiring", "over"}
          /\ published' \in BOOLEAN /\ unpublished' \in BOOLEAN /\ holds' \in BOOLEAN
          /\ disowned' \in BOOLEAN /\ hurt' \in BOOLEAN /\ late' \in BOOLEAN
      BY <1>0, <1>5 DEF ShutDown
    <3>4. /\ pubLock' \in Stoppers \cup {"nobody"} /\ recLock' \in Stoppers \cup {"nobody"}
          /\ senders' \in Nat /\ mishaps' \in Nat
      BY <1>0, <1>5 DEF ShutDown
    <3> QED
      BY <3>1, <3>2, <3>3, <3>4
  <2>2. StartsAlone'
    BY <1>0, <1>5 DEF ShutDown, StartsAlone, PubInv
  <2>3. PubInv'
    BY <1>0, <1>5 DEF ShutDown, StartsAlone, PubInv
  <2>4. TvInv'
    BY <1>0, <1>5 DEF ShutDown, StartsAlone, TvInv
  <2> QED
    BY <2>1, <2>2, <2>3, <2>4 DEF HlsInv
<1>6. ASSUME NEW t \in Stoppers, Unlist(t) PROVE HlsInv'
  <2>1. HlsTypeOK'
    <3>1. at' \in [Stoppers -> HlsPlaces]
      BY <1>0, <1>6 DEF Unlist
    <3>2. /\ media' \in Whose /\ app' \in Whose
          /\ seen' \in [Stoppers -> [media : Whose, app : Whose]]
      BY <1>0, <1>6 DEF Unlist
    <3>3. /\ server' \in {"none", "bound", "serving", "shut", "closed"}
          /\ timer' \in {"off", "armed", "expiring", "over"}
          /\ published' \in BOOLEAN /\ unpublished' \in BOOLEAN /\ holds' \in BOOLEAN
          /\ disowned' \in BOOLEAN /\ hurt' \in BOOLEAN /\ late' \in BOOLEAN
      BY <1>0, <1>6 DEF Unlist
    <3>4. /\ pubLock' \in Stoppers \cup {"nobody"} /\ recLock' \in Stoppers \cup {"nobody"}
          /\ senders' \in Nat /\ mishaps' \in Nat
      BY <1>0, <1>6 DEF Unlist
    <3> QED
      BY <3>1, <3>2, <3>3, <3>4
  <2>2. StartsAlone'
    BY <1>0, <1>6 DEF Unlist, StartsAlone, PubInv
  <2>3. PubInv'
    BY <1>0, <1>6 DEF Unlist, StartsAlone, PubInv
  <2>4. TvInv'
    BY <1>0, <1>6 DEF Unlist, StartsAlone, TvInv
  <2> QED
    BY <2>1, <2>2, <2>3, <2>4 DEF HlsInv
<1>7. ASSUME NEW t \in Stoppers, Loaded(t) PROVE HlsInv'
  <2>1. HlsTypeOK'
    <3>1. at' \in [Stoppers -> HlsPlaces]
      BY <1>0, <1>7 DEF Loaded
    <3>2. /\ media' \in Whose /\ app' \in Whose
          /\ seen' \in [Stoppers -> [media : Whose, app : Whose]]
      BY <1>0, <1>7 DEF Loaded
    <3>3. /\ server' \in {"none", "bound", "serving", "shut", "closed"}
          /\ timer' \in {"off", "armed", "expiring", "over"}
          /\ published' \in BOOLEAN /\ unpublished' \in BOOLEAN /\ holds' \in BOOLEAN
          /\ disowned' \in BOOLEAN /\ hurt' \in BOOLEAN /\ late' \in BOOLEAN
      BY <1>0, <1>7 DEF Loaded
    <3>4. /\ pubLock' \in Stoppers \cup {"nobody"} /\ recLock' \in Stoppers \cup {"nobody"}
          /\ senders' \in Nat /\ mishaps' \in Nat
      BY <1>0, <1>7 DEF Loaded
    <3> QED
      BY <3>1, <3>2, <3>3, <3>4
  <2>2. StartsAlone'
    BY <1>0, <1>7 DEF Loaded, StartsAlone, PubInv
  <2>3. PubInv'
    BY <1>0, <1>7 DEF Loaded, StartsAlone, PubInv
  <2>4. TvInv'
    BY <1>0, <1>7 DEF Loaded, StartsAlone, TvInv
  <2> QED
    BY <2>1, <2>2, <2>3, <2>4 DEF HlsInv
<1>8. ASSUME NEW t \in Stoppers, RecLocks(t) PROVE HlsInv'
  <2>1. HlsTypeOK'
    <3>1. at' \in [Stoppers -> HlsPlaces]
      BY <1>0, <1>8 DEF RecLocks
    <3>2. /\ media' \in Whose /\ app' \in Whose
          /\ seen' \in [Stoppers -> [media : Whose, app : Whose]]
      BY <1>0, <1>8 DEF RecLocks
    <3>3. /\ server' \in {"none", "bound", "serving", "shut", "closed"}
          /\ timer' \in {"off", "armed", "expiring", "over"}
          /\ published' \in BOOLEAN /\ unpublished' \in BOOLEAN /\ holds' \in BOOLEAN
          /\ disowned' \in BOOLEAN /\ hurt' \in BOOLEAN /\ late' \in BOOLEAN
      BY <1>0, <1>8 DEF RecLocks
    <3>4. /\ pubLock' \in Stoppers \cup {"nobody"} /\ recLock' \in Stoppers \cup {"nobody"}
          /\ senders' \in Nat /\ mishaps' \in Nat
      BY <1>0, <1>8 DEF RecLocks
    <3> QED
      BY <3>1, <3>2, <3>3, <3>4
  <2>2. StartsAlone'
    BY <1>0, <1>8 DEF RecLocks, StartsAlone, PubInv
  <2>3. PubInv'
    BY <1>0, <1>8 DEF RecLocks, StartsAlone, PubInv
  <2>4. TvInv'
    BY <1>0, <1>8 DEF RecLocks, StartsAlone, TvInv
  <2> QED
    BY <2>1, <2>2, <2>3, <2>4 DEF HlsInv
<1>9. ASSUME NEW t \in Stoppers, LookAtTv(t) PROVE HlsInv'
  <2>a. /\ at[t] = "look"
        /\ seen' = [seen EXCEPT ![t] = [media |-> media, app |-> app]]
        /\ UNCHANGED <<server, timer, published, unpublished, pubLock, media, app, hurt, late, senders, mishaps>>
    BY <1>9 DEF LookAtTv
  <2>b. media \in {"none", "ours", "other"} /\ [media |-> media, app |-> app] \in [media : Whose, app : Whose]
    BY <1>0
  <2>c. PICK p \in {"out", "halt", "close"} :
          /\ at' = [at EXCEPT ![t] = p]
          /\ p = "halt" => media = "ours"
          /\ p = "close" => media = "none"
          /\ p = "out" => media = "other" /\ Disown(t)
          /\ p # "out" => UNCHANGED <<holds, disowned, recLock>>
    <3>1. CASE media = "other"
      BY <1>9, <3>1 DEF LookAtTv, Disown
    <3>2. CASE media = "ours"
      BY <1>9, <3>2 DEF LookAtTv
    <3>3. CASE media = "none"
      BY <1>9, <3>3 DEF LookAtTv
    <3> QED
      BY <2>b, <3>1, <3>2, <3>3
  <2>d. /\ holds' \in BOOLEAN /\ disowned' \in BOOLEAN /\ (holds' => holds)
        /\ disowned' => disowned \/ (media = "other" /\ recLock = t)
        /\ recLock' \in Stoppers \cup {"nobody"}
        /\ \A u \in Stoppers : recLock' = u => recLock = u /\ (u = t => p # "out")
    <3>1. CASE p = "out"
      BY <1>0, <2>c, <3>1 DEF Disown, RecFree
    <3>2. CASE p # "out"
      BY <1>0, <2>c, <3>2
    <3> QED
      BY <3>1, <3>2
  <2>e. at'[t] = p /\ \A u \in Stoppers \ {t} : at'[u] = at[u]
    BY <1>0, <2>c
  <2>1. HlsTypeOK'
    <3>1. at' \in [Stoppers -> PubStarting \cup RecWorking \cup
                     {"out", "load", "pub_lock", "shutdown", "unlist", "rec_lock"}]
      BY <1>0, <2>c
    <3>2. seen' \in [Stoppers -> [media : Whose, app : Whose]]
      BY <1>0, <2>a, <2>b
    <3> QED
      BY <1>0, <2>a, <2>d, <3>1, <3>2
  <2>2. StartsAlone'
    BY <1>0, <2>a, <2>c, <2>d, <2>e DEF StartsAlone
  <2>3. PubInv'
    BY <1>0, <2>a, <2>c, <2>e DEF PubInv
  <2>4. TvInv'
    BY <1>0, <2>a, <2>c, <2>d, <2>e DEF TvInv
  <2> QED
    BY <2>1, <2>2, <2>3, <2>4 DEF HlsInv
<1>10. ASSUME NEW t \in Stoppers, StopMedia(t) PROVE HlsInv'
  <2>1. HlsTypeOK'
    <3>1. at' \in [Stoppers -> HlsPlaces]
      BY <1>0, <1>10 DEF StopMedia
    <3>2. /\ media' \in Whose /\ app' \in Whose
          /\ seen' \in [Stoppers -> [media : Whose, app : Whose]]
      BY <1>0, <1>10 DEF StopMedia
    <3>3. /\ server' \in {"none", "bound", "serving", "shut", "closed"}
          /\ timer' \in {"off", "armed", "expiring", "over"}
          /\ published' \in BOOLEAN /\ unpublished' \in BOOLEAN /\ holds' \in BOOLEAN
          /\ disowned' \in BOOLEAN /\ hurt' \in BOOLEAN /\ late' \in BOOLEAN
      BY <1>0, <1>10 DEF StopMedia
    <3>4. /\ pubLock' \in Stoppers \cup {"nobody"} /\ recLock' \in Stoppers \cup {"nobody"}
          /\ senders' \in Nat /\ mishaps' \in Nat
      BY <1>0, <1>10 DEF StopMedia
    <3> QED
      BY <3>1, <3>2, <3>3, <3>4
  <2>2. StartsAlone'
    BY <1>0, <1>10 DEF StopMedia, StartsAlone, PubInv
  <2>3. PubInv'
    BY <1>0, <1>10 DEF StopMedia, StartsAlone, PubInv
  <2>4. TvInv'
    BY <1>0, <1>10 DEF StopMedia, StartsAlone, TvInv
  <2> QED
    BY <2>1, <2>2, <2>3, <2>4 DEF HlsInv
<1>11. ASSUME NEW t \in Stoppers, CloseApp(t) PROVE HlsInv'
  <2>a. /\ media' \in Whose /\ app' \in Whose /\ hurt' \in BOOLEAN
        /\ holds' \in BOOLEAN /\ disowned' \in BOOLEAN
        /\ recLock' \in Stoppers \cup {"nobody"}
    BY <1>0, <1>11 DEF CloseApp, Disown, RecFree
  <2>b. at' = [at EXCEPT ![t] = "out"]
        /\ UNCHANGED <<server, timer, published, unpublished, pubLock, seen, late, senders, mishaps>>
    BY <1>11 DEF CloseApp, Disown
  <2>1. HlsTypeOK'
    <3>1. at' \in [Stoppers -> HlsPlaces]
      BY <1>0, <2>a, <2>b
    <3>2. /\ media' \in Whose /\ app' \in Whose
          /\ seen' \in [Stoppers -> [media : Whose, app : Whose]]
      BY <1>0, <2>a, <2>b
    <3>3. /\ server' \in {"none", "bound", "serving", "shut", "closed"}
          /\ timer' \in {"off", "armed", "expiring", "over"}
          /\ published' \in BOOLEAN /\ unpublished' \in BOOLEAN /\ holds' \in BOOLEAN
          /\ disowned' \in BOOLEAN /\ hurt' \in BOOLEAN /\ late' \in BOOLEAN
      BY <1>0, <2>a, <2>b
    <3>4. /\ pubLock' \in Stoppers \cup {"nobody"} /\ recLock' \in Stoppers \cup {"nobody"}
          /\ senders' \in Nat /\ mishaps' \in Nat
      BY <1>0, <2>a, <2>b
    <3> QED
      BY <3>1, <3>2, <3>3, <3>4
  <2>2. StartsAlone'
    BY <1>0, <1>11 DEF CloseApp, Disown, RecFree, StartsAlone, PubInv
  <2>3. PubInv'
    BY <1>0, <1>11 DEF CloseApp, Disown, RecFree, StartsAlone, PubInv
  <2>4. TvInv'
    BY <1>0, <1>11 DEF CloseApp, Disown, RecFree, StartsAlone, TvInv
  <2> QED
    BY <2>1, <2>2, <2>3, <2>4 DEF HlsInv
<1>12. ASSUME NEW t \in Stoppers, Listen(t) PROVE HlsInv'
  <2>1. HlsTypeOK'
    <3>1. at' \in [Stoppers -> HlsPlaces]
      BY <1>0, <1>12 DEF Listen
    <3>2. /\ media' \in Whose /\ app' \in Whose
          /\ seen' \in [Stoppers -> [media : Whose, app : Whose]]
      BY <1>0, <1>12 DEF Listen
    <3>3. /\ server' \in {"none", "bound", "serving", "shut", "closed"}
          /\ timer' \in {"off", "armed", "expiring", "over"}
          /\ published' \in BOOLEAN /\ unpublished' \in BOOLEAN /\ holds' \in BOOLEAN
          /\ disowned' \in BOOLEAN /\ hurt' \in BOOLEAN /\ late' \in BOOLEAN
      BY <1>0, <1>12 DEF Listen
    <3>4. /\ pubLock' \in Stoppers \cup {"nobody"} /\ recLock' \in Stoppers \cup {"nobody"}
          /\ senders' \in Nat /\ mishaps' \in Nat
      BY <1>0, <1>12 DEF Listen
    <3> QED
      BY <3>1, <3>2, <3>3, <3>4
  <2>2. StartsAlone'
    BY <1>0, <1>12 DEF Listen, StartsAlone, PubInv
  <2>3. PubInv'
    BY <1>0, <1>12 DEF Listen, StartsAlone, PubInv
  <2>4. TvInv'
    BY <1>0, <1>12 DEF Listen, StartsAlone, TvInv
  <2> QED
    BY <2>1, <2>2, <2>3, <2>4 DEF HlsInv
<1>13. ASSUME NEW t \in Stoppers, PublishFails(t) PROVE HlsInv'
  <2>1. HlsTypeOK'
    <3>1. at' \in [Stoppers -> HlsPlaces]
      BY <1>0, <1>13 DEF PublishFails
    <3>2. /\ media' \in Whose /\ app' \in Whose
          /\ seen' \in [Stoppers -> [media : Whose, app : Whose]]
      BY <1>0, <1>13 DEF PublishFails
    <3>3. /\ server' \in {"none", "bound", "serving", "shut", "closed"}
          /\ timer' \in {"off", "armed", "expiring", "over"}
          /\ published' \in BOOLEAN /\ unpublished' \in BOOLEAN /\ holds' \in BOOLEAN
          /\ disowned' \in BOOLEAN /\ hurt' \in BOOLEAN /\ late' \in BOOLEAN
      BY <1>0, <1>13 DEF PublishFails
    <3>4. /\ pubLock' \in Stoppers \cup {"nobody"} /\ recLock' \in Stoppers \cup {"nobody"}
          /\ senders' \in Nat /\ mishaps' \in Nat
      BY <1>0, <1>13 DEF PublishFails
    <3> QED
      BY <3>1, <3>2, <3>3, <3>4
  <2>2. StartsAlone'
    BY <1>0, <1>13 DEF PublishFails, StartsAlone, PubInv
  <2>3. PubInv'
    BY <1>0, <1>13 DEF PublishFails, StartsAlone, PubInv
  <2>4. TvInv'
    BY <1>0, <1>13 DEF PublishFails, StartsAlone, TvInv
  <2> QED
    BY <2>1, <2>2, <2>3, <2>4 DEF HlsInv
<1>14. ASSUME NEW t \in Stoppers, Unpublish(t) PROVE HlsInv'
  <2>1. HlsTypeOK'
    <3>1. at' \in [Stoppers -> HlsPlaces]
      BY <1>0, <1>14 DEF Unpublish
    <3>2. /\ media' \in Whose /\ app' \in Whose
          /\ seen' \in [Stoppers -> [media : Whose, app : Whose]]
      BY <1>0, <1>14 DEF Unpublish
    <3>3. /\ server' \in {"none", "bound", "serving", "shut", "closed"}
          /\ timer' \in {"off", "armed", "expiring", "over"}
          /\ published' \in BOOLEAN /\ unpublished' \in BOOLEAN /\ holds' \in BOOLEAN
          /\ disowned' \in BOOLEAN /\ hurt' \in BOOLEAN /\ late' \in BOOLEAN
      BY <1>0, <1>14 DEF Unpublish
    <3>4. /\ pubLock' \in Stoppers \cup {"nobody"} /\ recLock' \in Stoppers \cup {"nobody"}
          /\ senders' \in Nat /\ mishaps' \in Nat
      BY <1>0, <1>14 DEF Unpublish
    <3> QED
      BY <3>1, <3>2, <3>3, <3>4
  <2>2. StartsAlone'
    BY <1>0, <1>14 DEF Unpublish, StartsAlone, PubInv
  <2>3. PubInv'
    BY <1>0, <1>14 DEF Unpublish, StartsAlone, PubInv
  <2>4. TvInv'
    BY <1>0, <1>14 DEF Unpublish, StartsAlone, TvInv
  <2> QED
    BY <2>1, <2>2, <2>3, <2>4 DEF HlsInv
<1>15. ASSUME NEW t \in Stoppers, LoadFails(t) PROVE HlsInv'
  <2>1. HlsTypeOK'
    <3>1. at' \in [Stoppers -> HlsPlaces]
      BY <1>0, <1>15 DEF LoadFails
    <3>2. /\ media' \in Whose /\ app' \in Whose
          /\ seen' \in [Stoppers -> [media : Whose, app : Whose]]
      BY <1>0, <1>15 DEF LoadFails
    <3>3. /\ server' \in {"none", "bound", "serving", "shut", "closed"}
          /\ timer' \in {"off", "armed", "expiring", "over"}
          /\ published' \in BOOLEAN /\ unpublished' \in BOOLEAN /\ holds' \in BOOLEAN
          /\ disowned' \in BOOLEAN /\ hurt' \in BOOLEAN /\ late' \in BOOLEAN
      BY <1>0, <1>15 DEF LoadFails
    <3>4. /\ pubLock' \in Stoppers \cup {"nobody"} /\ recLock' \in Stoppers \cup {"nobody"}
          /\ senders' \in Nat /\ mishaps' \in Nat
      BY <1>0, <1>15 DEF LoadFails
    <3> QED
      BY <3>1, <3>2, <3>3, <3>4
  <2>2. StartsAlone'
    BY <1>0, <1>15 DEF LoadFails, StartsAlone, PubInv
  <2>3. PubInv'
    BY <1>0, <1>15 DEF LoadFails, StartsAlone, PubInv
  <2>4. TvInv'
    BY <1>0, <1>15 DEF LoadFails, StartsAlone, TvInv
  <2> QED
    BY <2>1, <2>2, <2>3, <2>4 DEF HlsInv
<1>16. ASSUME NEW t \in Stoppers, StopReceiver(t) PROVE HlsInv'
  <2>1. HlsTypeOK'
    <3>1. at' \in [Stoppers -> HlsPlaces]
      BY <1>0, <1>16 DEF StopReceiver
    <3>2. /\ media' \in Whose /\ app' \in Whose
          /\ seen' \in [Stoppers -> [media : Whose, app : Whose]]
      BY <1>0, <1>16 DEF StopReceiver
    <3>3. /\ server' \in {"none", "bound", "serving", "shut", "closed"}
          /\ timer' \in {"off", "armed", "expiring", "over"}
          /\ published' \in BOOLEAN /\ unpublished' \in BOOLEAN /\ holds' \in BOOLEAN
          /\ disowned' \in BOOLEAN /\ hurt' \in BOOLEAN /\ late' \in BOOLEAN
      BY <1>0, <1>16 DEF StopReceiver
    <3>4. /\ pubLock' \in Stoppers \cup {"nobody"} /\ recLock' \in Stoppers \cup {"nobody"}
          /\ senders' \in Nat /\ mishaps' \in Nat
      BY <1>0, <1>16 DEF StopReceiver
    <3> QED
      BY <3>1, <3>2, <3>3, <3>4
  <2>2. StartsAlone'
    BY <1>0, <1>16 DEF StopReceiver, StartsAlone, PubInv
  <2>3. PubInv'
    BY <1>0, <1>16 DEF StopReceiver, StartsAlone, PubInv
  <2>4. TvInv'
    BY <1>0, <1>16 DEF StopReceiver, StartsAlone, TvInv
  <2> QED
    BY <2>1, <2>2, <2>3, <2>4 DEF HlsInv
<1>17. ASSUME NEW t \in Stoppers, TvRefuses(t) PROVE HlsInv'
  <2>1. HlsTypeOK'
    <3>1. at' \in [Stoppers -> HlsPlaces]
      BY <1>0, <1>17 DEF TvRefuses, RecFree
    <3>2. /\ media' \in Whose /\ app' \in Whose
          /\ seen' \in [Stoppers -> [media : Whose, app : Whose]]
      BY <1>0, <1>17 DEF TvRefuses, RecFree
    <3>3. /\ server' \in {"none", "bound", "serving", "shut", "closed"}
          /\ timer' \in {"off", "armed", "expiring", "over"}
          /\ published' \in BOOLEAN /\ unpublished' \in BOOLEAN /\ holds' \in BOOLEAN
          /\ disowned' \in BOOLEAN /\ hurt' \in BOOLEAN /\ late' \in BOOLEAN
      BY <1>0, <1>17 DEF TvRefuses, RecFree
    <3>4. /\ pubLock' \in Stoppers \cup {"nobody"} /\ recLock' \in Stoppers \cup {"nobody"}
          /\ senders' \in Nat /\ mishaps' \in Nat
      BY <1>0, <1>17 DEF TvRefuses, RecFree
    <3> QED
      BY <3>1, <3>2, <3>3, <3>4
  <2>2. StartsAlone'
    BY <1>0, <1>17 DEF TvRefuses, RecFree, StartsAlone, PubInv
  <2>3. PubInv'
    BY <1>0, <1>17 DEF TvRefuses, RecFree, StartsAlone, PubInv
  <2>4. TvInv'
    BY <1>0, <1>17 DEF TvRefuses, RecFree, StartsAlone, TvInv
  <2> QED
    BY <2>1, <2>2, <2>3, <2>4 DEF HlsInv
<1>18. ASSUME ExpiryFires PROVE HlsInv'
  <2>1. HlsTypeOK'
    <3>1. at' \in [Stoppers -> HlsPlaces]
      BY <1>0, <1>18 DEF ExpiryFires
    <3>2. /\ media' \in Whose /\ app' \in Whose
          /\ seen' \in [Stoppers -> [media : Whose, app : Whose]]
      BY <1>0, <1>18 DEF ExpiryFires
    <3>3. /\ server' \in {"none", "bound", "serving", "shut", "closed"}
          /\ timer' \in {"off", "armed", "expiring", "over"}
          /\ published' \in BOOLEAN /\ unpublished' \in BOOLEAN /\ holds' \in BOOLEAN
          /\ disowned' \in BOOLEAN /\ hurt' \in BOOLEAN /\ late' \in BOOLEAN
      BY <1>0, <1>18 DEF ExpiryFires
    <3>4. /\ pubLock' \in Stoppers \cup {"nobody"} /\ recLock' \in Stoppers \cup {"nobody"}
          /\ senders' \in Nat /\ mishaps' \in Nat
      BY <1>0, <1>18 DEF ExpiryFires
    <3> QED
      BY <3>1, <3>2, <3>3, <3>4
  <2>2. StartsAlone'
    BY <1>0, <1>18 DEF ExpiryFires, StartsAlone, PubInv
  <2>3. PubInv'
    BY <1>0, <1>18 DEF ExpiryFires, StartsAlone, PubInv
  <2>4. TvInv'
    BY <1>0, <1>18 DEF ExpiryFires, StartsAlone, TvInv
  <2> QED
    BY <2>1, <2>2, <2>3, <2>4 DEF HlsInv
<1>19. ASSUME Expire PROVE HlsInv'
  <2>1. HlsTypeOK'
    <3>1. at' \in [Stoppers -> HlsPlaces]
      BY <1>0, <1>19 DEF Expire
    <3>2. /\ media' \in Whose /\ app' \in Whose
          /\ seen' \in [Stoppers -> [media : Whose, app : Whose]]
      BY <1>0, <1>19 DEF Expire
    <3>3. /\ server' \in {"none", "bound", "serving", "shut", "closed"}
          /\ timer' \in {"off", "armed", "expiring", "over"}
          /\ published' \in BOOLEAN /\ unpublished' \in BOOLEAN /\ holds' \in BOOLEAN
          /\ disowned' \in BOOLEAN /\ hurt' \in BOOLEAN /\ late' \in BOOLEAN
      BY <1>0, <1>19 DEF Expire
    <3>4. /\ pubLock' \in Stoppers \cup {"nobody"} /\ recLock' \in Stoppers \cup {"nobody"}
          /\ senders' \in Nat /\ mishaps' \in Nat
      BY <1>0, <1>19 DEF Expire
    <3> QED
      BY <3>1, <3>2, <3>3, <3>4
  <2>2. StartsAlone'
    BY <1>0, <1>19 DEF Expire, StartsAlone, PubInv
  <2>3. PubInv'
    BY <1>0, <1>19 DEF Expire, StartsAlone, PubInv
  <2>4. TvInv'
    BY <1>0, <1>19 DEF Expire, StartsAlone, TvInv
  <2> QED
    BY <2>1, <2>2, <2>3, <2>4 DEF HlsInv
<1>20. ASSUME OtherSender PROVE HlsInv'
  <2>1. HlsTypeOK'
    <3>1. at' \in [Stoppers -> HlsPlaces]
      BY <1>0, <1>20 DEF OtherSender
    <3>2. /\ media' \in Whose /\ app' \in Whose
          /\ seen' \in [Stoppers -> [media : Whose, app : Whose]]
      BY <1>0, <1>20 DEF OtherSender
    <3>3. /\ server' \in {"none", "bound", "serving", "shut", "closed"}
          /\ timer' \in {"off", "armed", "expiring", "over"}
          /\ published' \in BOOLEAN /\ unpublished' \in BOOLEAN /\ holds' \in BOOLEAN
          /\ disowned' \in BOOLEAN /\ hurt' \in BOOLEAN /\ late' \in BOOLEAN
      BY <1>0, <1>20 DEF OtherSender
    <3>4. /\ pubLock' \in Stoppers \cup {"nobody"} /\ recLock' \in Stoppers \cup {"nobody"}
          /\ senders' \in Nat /\ mishaps' \in Nat
      BY <1>0, <1>20 DEF OtherSender
    <3> QED
      BY <3>1, <3>2, <3>3, <3>4
  <2>2. StartsAlone'
    BY <1>0, <1>20 DEF OtherSender, StartsAlone, PubInv
  <2>3. PubInv'
    BY <1>0, <1>20 DEF OtherSender, StartsAlone, PubInv
  <2>4. TvInv'
    BY <1>0, <1>20 DEF OtherSender, StartsAlone, TvInv
  <2> QED
    BY <2>1, <2>2, <2>3, <2>4 DEF HlsInv
<1>21. CASE UNCHANGED hvars
  BY <1>0, <1>21 DEF hvars, pubvars, tvvars, recvars, HlsInv, HlsTypeOK, StartsAlone, PubInv, TvInv
<1> QED
  BY <1>1, <1>2, <1>3, <1>4, <1>5, <1>6, <1>7, <1>8, <1>9, <1>10, <1>11, <1>12, <1>13, <1>14, <1>15, <1>16, <1>17, <1>18, <1>19, <1>20, <1>21 DEF HlsNext, HlsWorks

(* A publication or a TV session that is recorded as released is over, the *)
(* socket and the TV included; and another sender's media is stopped only  *)
(* when it comes between the status that is read and the command           *)
(* (hls_publisher.py, cast_receiver.py). For any number of threads that    *)
(* stop the stream, of senders and of failing calls.                       *)
THEOREM OnlyOurs == HlsSpec => []OnlyOursIsOver
<1>1. HlsInv => OnlyOursIsOver
  BY DEF HlsInv, OnlyOursIsOver, PubInv, TvInv, ReleasedMeansOver, OthersAreLeftAlone
<1> QED
  BY <1>1, HlsInitInv, HlsStepInv, PTL DEF HlsSpec

(* What is served is served for a bounded time: its expiry is armed or at   *)
(* work, or a thread is about to arm it or to shut the server down.         *)
ServedForABoundedTime ==
    server \in {"serving", "shut"} =>
        \/ timer \in {"armed", "expiring"}
        \/ \E t \in Stoppers : at[t] \in {"timer", "undo", "shutdown"}

(* Every step preserves it: who cancels the timer shuts down what it bound. *)
LEMMA BoundedTimeStep ==
    HlsTypeOK /\ ServedForABoundedTime /\ [HlsNext]_hvars => ServedForABoundedTime'
<1> SUFFICES ASSUME HlsTypeOK, ServedForABoundedTime, [HlsNext]_hvars
             PROVE  ServedForABoundedTime'
  OBVIOUS
<1> DEFINE Bounding == {"timer", "undo", "shutdown"}
<1>0. at \in [Stoppers -> PubStarting \cup RecWorking \cup
                  {"out", "load", "pub_lock", "shutdown", "unlist", "rec_lock"}]
  BY DEF HlsTypeOK
<1> USE DEF PublisherOnly, pubvars
(* A step of a thread that bounds nothing, which leaves the publication.    *)
<1>a. ASSUME NEW t \in Stoppers, at[t] \notin Bounding, UNCHANGED <<server, timer>>,
             NEW p, Move(t, p)
      PROVE  ServedForABoundedTime'
  <2>1. \A u \in Stoppers : at[u] \in Bounding => at'[u] = at[u]
    BY <1>0, <1>a DEF Move
  <2> QED
    BY <1>a, <2>1 DEF ServedForABoundedTime
(* A step after which t bounds what is served.                              *)
<1>b. ASSUME NEW t \in Stoppers, NEW p \in Bounding, Move(t, p) PROVE ServedForABoundedTime'
  <2>1. at'[t] = p
    BY <1>0, <1>b DEF Move
  <2> QED
    BY <1>b, <2>1 DEF ServedForABoundedTime
<1>1. ASSUME NEW t \in Stoppers, ServeThread(t) \/ PublishFails(t) PROVE ServedForABoundedTime'
  BY <1>1, <1>b DEF ServeThread, PublishFails
<1>2. ASSUME NEW t \in Stoppers, ArmExpiry(t) \/ Listen(t) \/ ShutDown(t)
      PROVE  ServedForABoundedTime'
  BY <1>2 DEF ArmExpiry, Listen, ShutDown, ServedForABoundedTime
<1>3. ASSUME NEW t \in Stoppers, PubLocks(t) PROVE ServedForABoundedTime'
  <2>1. CASE published
    BY <1>3, <1>b, <2>1 DEF PubLocks
  <2>2. CASE ~published
    BY <1>3, <1>a, <2>2 DEF PubLocks
  <2> QED
    BY <2>1, <2>2
<1>4. ASSUME NEW t \in Stoppers, Publish(t) \/ Unpublish(t) \/ Unlist(t) PROVE ServedForABoundedTime'
  BY <1>4, <1>a DEF Publish, Unpublish, Unlist
<1>5. ASSUME NEW t \in Stoppers,
             \/ Loaded(t) \/ LoadFails(t) \/ StopReceiver(t) \/ RecLocks(t)
             \/ LookAtTv(t) \/ StopMedia(t) \/ CloseApp(t) \/ TvRefuses(t)
      PROVE  ServedForABoundedTime'
  <2>1. UNCHANGED <<server, timer>> /\ at[t] \notin Bounding
    BY <1>5 DEF Loaded, LoadFails, StopReceiver, RecLocks, LookAtTv, StopMedia, CloseApp, TvRefuses,
                RecWorking
  <2>2. \E p \in HlsPlaces : Move(t, p)
    <3>1. CASE Loaded(t) \/ LoadFails(t) \/ StopReceiver(t) \/ RecLocks(t) \/ StopMedia(t)
      <4>1. Move(t, "out") \/ Move(t, "look") \/ Move(t, "rec_lock") \/ Move(t, "close")
        BY <3>1 DEF Loaded, LoadFails, StopReceiver, RecLocks, StopMedia
      <4> QED
        BY <4>1 DEF HlsPlaces, PubStarting, RecWorking
    <3>2. CASE CloseApp(t) \/ TvRefuses(t)
      <4>1. Move(t, "out")
        BY <3>2 DEF CloseApp, TvRefuses, Disown
      <4> QED
        BY <4>1 DEF HlsPlaces
    <3>3. CASE LookAtTv(t)
      <4>1. media \in {"none", "ours", "other"}
        BY DEF HlsTypeOK, Whose
      <4>2. CASE media = "other"
        BY <3>3, <4>2 DEF LookAtTv, Disown, HlsPlaces
      <4>3. CASE media = "ours"
        BY <3>3, <4>3 DEF LookAtTv, HlsPlaces, RecWorking
      <4>4. CASE media = "none"
        BY <3>3, <4>4 DEF LookAtTv, HlsPlaces, RecWorking
      <4> QED
        BY <4>1, <4>2, <4>3, <4>4
    <3> QED
      BY <1>5, <3>1, <3>2, <3>3
  <2> QED
    BY <1>a, <2>1, <2>2
<1>6. CASE ExpiryFires \/ Expire
  BY <1>6 DEF ExpiryFires, Expire, ServedForABoundedTime
<1>7. CASE OtherSender \/ UNCHANGED hvars
  BY <1>7 DEF OtherSender, hvars, ServedForABoundedTime
<1> QED
  BY <1>1, <1>2, <1>3, <1>4, <1>5, <1>6, <1>7 DEF HlsNext, HlsWorks

(* No order of starts, stops and failures leaves a publication served with  *)
(* its expiry cancelled and nobody to close it (hls_publisher.py, start,    *)
(* _release, _expire): what PublicationEnds needs of the states.            *)
THEOREM ExpiryIsSet == HlsSpec => []ServedForABoundedTime
<1>1. HlsInit => ServedForABoundedTime
  BY DEF HlsInit, ServedForABoundedTime
<1>2. HlsInv => HlsTypeOK
  BY DEF HlsInv
<1> QED
  BY <1>1, <1>2, HlsInitInv, HlsStepInv, BoundedTimeStep, PTL DEF HlsSpec

-----------------------------------------------------------------------------
(* ScreenController: the sessions of one process, and what they take.      *)

InTodo(q, r) == \E i \in 1..Len(q) : q[i] = r

(* The request being handled.                                              *)
CallerInv ==
    /\ caller.at = "free" => caller = Free
    /\ caller.at = "preparing" => caller.closes = 0
    /\ caller.at \in {"closing", "gone"} => caller.closes > 0
    /\ caller.at = "releasing" /\ ~caller.bad =>
         \A r \in Lent : kept[r] # 0 => InTodo(caller.todo, r)

(* A session: what it took it still has to hand back, or it reports a      *)
(* failure. A prepare runs inside its request.                             *)
SessionInv(s) ==
    /\ job[s].at \in {"none", "connect", "screen"} => job[s].refs = {}
    /\ Live(s) => job[s].kind # "none"
    /\ job[s].at = "ending" /\ ~job[s].bad =>
         \A r \in job[s].refs : desk[r] = s => InTodo(job[s].todo, r)
    /\ job[s].kind = "webrtc" =>
         /\ job[s].at \notin {"ready", "runs"}
         /\ job[s].at = "ending" => job[s].bad
         /\ ~InTodo(job[s].todo, "service")
         /\ Live(s) => caller.at = "preparing"

(* No session is at work that was started over a failure.                  *)
Quiet == \A s \in Sessions : Live(s) => ~job[s].over

(* What is lent is kept, for the release to hand back.                     *)
LentInv == lease /\ caller.at # "releasing" => \E r \in Lent : kept[r] # 0

(* Before close(): one session or one lease at a time, and it is shown,     *)
(* except beside a session that was started over a failure.                *)
ShownInv ==
    caller.closes = 0 =>
        /\ Quiet =>
             /\ \A s, p \in Sessions : Live(s) /\ Live(p) => s = p
             /\ \A s \in Sessions : Live(s) =>
                  /\ status \in Busy /\ ~lease /\ caller.at # "releasing"
                  /\ (\E r \in Lent : kept[r] # 0) => job[s].kind = "webrtc" /\ job[s].at = "ending"
        /\ \A s, p \in Sessions : Live(s) /\ Live(p) =>
             /\ job[s].over => job[p].over
             /\ job[s].kind = "webrtc" /\ job[p].kind = "webrtc" => s = p
        /\ status = "idle" => \/ ~lease /\ \A r \in Lent : kept[r] = 0
                              \/ \E s \in Sessions : job[s].over

CtlInv == CtlTypeOK /\ CallerInv /\ LentInv /\ ShownInv /\ \A s \in Sessions : SessionInv(s)

JobPlaces == {"none", "connect", "screen", "capture", "sound", "ready", "runs", "ending", "over"}
JobType ==
    [kind : {"none", "hls", "webrtc"}, extend : BOOLEAN, at : JobPlaces, refs : SUBSET Lent,
     todo : Seq(Lent \cup {"service"}), strict : BOOLEAN, bad : BOOLEAN, over : BOOLEAN]
CallerType ==
    [at : {"free", "preparing", "releasing", "closing", "gone"}, todo : Seq(Lent),
     bad : BOOLEAN, closes : 0..3]

(* Session s is now at a, with references R, steps q left, failed if b.    *)
JobAt(s, a, R, q, b) ==
    /\ job' \in [Sessions -> JobType]
    /\ \A p \in Sessions \ {s} : job'[p] = job[p]
    /\ job'[s].kind = job[s].kind /\ job'[s].at = a /\ job'[s].refs = R
    /\ job'[s].todo = q /\ job'[s].bad = b /\ job'[s].over = job[s].over

-----------------------------------------------------------------------------
(* Sequences of things to hand back.                                       *)

(* The types, with the record sets named.                                  *)
LEMMA CtlTypes ==
    CtlTypeOK <=> /\ status \in Busy \cup {"idle", "failed"}
                  /\ stopSet \in BOOLEAN /\ lease \in BOOLEAN
                  /\ kept \in [Lent -> 0..MaxSessions] /\ desk \in [Lent -> 0..MaxSessions]
                  /\ caller \in CallerType /\ job \in [Sessions -> JobType]
                  /\ faults \in 0..MaxFaults
  BY DEF CtlTypeOK, CallerType, JobType, JobPlaces

(* The head of what is left, and the rest.                                 *)
LEMMA TodoSplits ==
    ASSUME NEW S, NEW q \in Seq(S), q # <<>>
    PROVE  /\ Head(q) \in S /\ Tail(q) \in Seq(S)
           /\ \A r : InTodo(q, r) => r = Head(q) \/ InTodo(Tail(q), r)
           /\ \A r : InTodo(Tail(q), r) => InTodo(q, r)
<1>1. Head(q) \in S /\ Tail(q) \in Seq(S) /\ Len(q) \in Nat /\ Len(q) # 0
  OBVIOUS
<1>2. Len(Tail(q)) = Len(q) - 1 /\ \A i \in 1..Len(q) - 1 : Tail(q)[i] = q[i + 1]
  OBVIOUS
<1>3. ASSUME NEW r, InTodo(q, r), r # Head(q) PROVE InTodo(Tail(q), r)
  <2>1. PICK i \in 1..Len(q) : q[i] = r
    BY <1>3 DEF InTodo
  <2>2. i # 1
    BY <1>3, <2>1
  <2>3. i - 1 \in 1..Len(Tail(q)) /\ Tail(q)[i - 1] = r
    BY <1>1, <1>2, <2>1, <2>2
  <2> QED
    BY <2>3 DEF InTodo
<1>4. ASSUME NEW r, InTodo(Tail(q), r) PROVE InTodo(q, r)
  <2>1. PICK i \in 1..Len(Tail(q)) : Tail(q)[i] = r
    BY <1>4 DEF InTodo
  <2>2. i + 1 \in 1..Len(q) /\ q[i + 1] = r
    BY <1>1, <1>2, <2>1
  <2> QED
    BY <2>2 DEF InTodo
<1> QED
  BY <1>1, <1>3, <1>4

(* What is in one series or the other.                                     *)
LEMMA TodoJoins ==
    ASSUME NEW S, NEW x \in Seq(S), NEW y \in Seq(S), NEW r
    PROVE  x \o y \in Seq(S) /\ (InTodo(x \o y, r) <=> InTodo(x, r) \/ InTodo(y, r))
<1>1. /\ x \o y \in Seq(S) /\ Len(x \o y) = Len(x) + Len(y)
      /\ Len(x) \in Nat /\ Len(y) \in Nat
      /\ \A i \in 1..Len(x) + Len(y) : (x \o y)[i] = IF i <= Len(x) THEN x[i] ELSE y[i - Len(x)]
  OBVIOUS
<1>2. ASSUME InTodo(x, r) PROVE InTodo(x \o y, r)
  <2>1. PICK i \in 1..Len(x) : x[i] = r
    BY <1>2 DEF InTodo
  <2>2. i \in 1..Len(x \o y) /\ (x \o y)[i] = r
    BY <1>1, <2>1
  <2> QED
    BY <2>2 DEF InTodo
<1>3. ASSUME InTodo(y, r) PROVE InTodo(x \o y, r)
  <2>1. PICK i \in 1..Len(y) : y[i] = r
    BY <1>3 DEF InTodo
  <2>2. Len(x) + i \in 1..Len(x \o y) /\ (x \o y)[Len(x) + i] = r
    BY <1>1, <2>1
  <2> QED
    BY <2>2 DEF InTodo
<1>4. ASSUME InTodo(x \o y, r) PROVE InTodo(x, r) \/ InTodo(y, r)
  <2>1. PICK i \in 1..Len(x \o y) : (x \o y)[i] = r
    BY <1>4 DEF InTodo
  <2>2. CASE i <= Len(x)
    <3>1. i \in 1..Len(x) /\ x[i] = r
      BY <1>1, <2>1, <2>2
    <3> QED
      BY <3>1 DEF InTodo
  <2>3. CASE ~(i <= Len(x))
    <3>1. i - Len(x) \in 1..Len(y) /\ y[i - Len(x)] = r
      BY <1>1, <2>1, <2>3
    <3> QED
      BY <3>1 DEF InTodo
  <2> QED
    BY <2>2, <2>3
<1> QED
  BY <1>1, <1>2, <1>3, <1>4

(* A step of an ordered release is there exactly when the reference is     *)
(* held.                                                                   *)
LEMMA StepFacts ==
    ASSUME NEW S, NEW r \in S, NEW R, NEW x
    PROVE  Step(r, R) \in Seq(S) /\ (InTodo(Step(r, R), x) <=> r \in R /\ x = r)
<1>1. CASE r \in R
  BY <1>1 DEF Step, InTodo
<1>2. CASE r \notin R
  BY <1>2 DEF Step, InTodo
<1> QED
  BY <1>1, <1>2

(* A release and an undo hand back exactly what they are given.            *)
LEMMA SoundFirstFacts ==
    ASSUME NEW R \in SUBSET Lent
    PROVE  /\ SoundFirst(R) \in Seq(Lent) /\ SoundFirst(R) \in Seq(Lent \cup {"service"})
           /\ \A r \in R : InTodo(SoundFirst(R), r)
           /\ ~InTodo(SoundFirst(R), "service")
<1>0. "snd" \in Lent /\ "ext" \in Lent /\ "service" \notin {"snd", "ext"}
      /\ \A r \in R : r = "snd" \/ r = "ext"
  BY DEF Lent
<1>1. /\ Step("snd", R) \in Seq(Lent) /\ Step("ext", R) \in Seq(Lent)
      /\ \A x : InTodo(Step("snd", R), x) <=> "snd" \in R /\ x = "snd"
      /\ \A x : InTodo(Step("ext", R), x) <=> "ext" \in R /\ x = "ext"
  BY <1>0, StepFacts
<1>2. /\ SoundFirst(R) \in Seq(Lent)
      /\ \A x : InTodo(SoundFirst(R), x) <=> InTodo(Step("snd", R), x) \/ InTodo(Step("ext", R), x)
  BY <1>1, TodoJoins DEF SoundFirst
<1>3. SoundFirst(R) \in Seq(Lent \cup {"service"})
  BY <1>2
<1> QED
  BY <1>0, <1>1, <1>2, <1>3

(* D1Session.stop tries the service and everything the session took.       *)
LEMMA ServiceFirstFacts ==
    ASSUME NEW R \in SUBSET Lent
    PROVE  /\ ServiceFirst(R) \in Seq(Lent \cup {"service"})
           /\ ServiceFirst(R) \o ServiceFirst(R) \in Seq(Lent \cup {"service"})
           /\ \A r \in R : InTodo(ServiceFirst(R), r)
           /\ \A r \in R : InTodo(ServiceFirst(R) \o ServiceFirst(R), r)
<1> DEFINE S == Lent \cup {"service"}
<1>0. "snd" \in S /\ "ext" \in S /\ (\A r \in R : r = "snd" \/ r = "ext") /\ <<"service">> \in Seq(S)
  BY DEF Lent
<1> HIDE DEF S
<1>1. /\ Step("snd", R) \in Seq(S) /\ Step("ext", R) \in Seq(S)
      /\ \A x : InTodo(Step("snd", R), x) <=> "snd" \in R /\ x = "snd"
      /\ \A x : InTodo(Step("ext", R), x) <=> "ext" \in R /\ x = "ext"
  BY <1>0, StepFacts
<1> DEFINE q == <<"service">> \o Step("ext", R)
<1>2. q \in Seq(S) /\ \A x : InTodo(Step("ext", R), x) => InTodo(q, x)
  BY <1>0, <1>1, TodoJoins
<1>a. ServiceFirst(R) = q \o Step("snd", R)
  BY DEF ServiceFirst
<1> HIDE DEF q
<1>3. /\ ServiceFirst(R) \in Seq(S)
      /\ \A x : InTodo(q, x) => InTodo(ServiceFirst(R), x)
      /\ \A x : InTodo(Step("snd", R), x) => InTodo(ServiceFirst(R), x)
  BY <1>1, <1>2, <1>a, TodoJoins
<1>4. \A r \in R : InTodo(ServiceFirst(R), r)
  BY <1>0, <1>1, <1>2, <1>3
<1>5. /\ ServiceFirst(R) \o ServiceFirst(R) \in Seq(S)
      /\ \A x : InTodo(ServiceFirst(R), x) => InTodo(ServiceFirst(R) \o ServiceFirst(R), x)
  BY <1>3, TodoJoins
<1> QED
  BY <1>3, <1>4, <1>5 DEF S

-----------------------------------------------------------------------------
(* What the steps of a session do to its record.                           *)

(* A new record for one session is where its job stands.                   *)
LEMMA RecordUpdate ==
    ASSUME CtlTypeOK, NEW s \in Sessions, NEW rec \in JobType,
           rec.kind = job[s].kind, rec.over = job[s].over, job' = [job EXCEPT ![s] = rec]
    PROVE  JobAt(s, rec.at, rec.refs, rec.todo, rec.bad)
  BY CtlTypes DEF JobAt

(* Go moves the job, and keeps what it holds.                              *)
LEMMA GoFacts ==
    ASSUME CtlTypeOK, NEW s \in Sessions, NEW a \in JobPlaces, Go(s, a)
    PROVE  JobAt(s, a, job[s].refs, job[s].todo, job[s].bad)
<1> DEFINE rec == [job[s] EXCEPT !.at = a]
<1>1. job' = [job EXCEPT ![s] = rec]
  BY DEF Go
<1>2. job[s] \in JobType
  BY CtlTypes
<1>3. /\ rec \in JobType /\ rec.kind = job[s].kind /\ rec.over = job[s].over /\ rec.at = a
      /\ rec.refs = job[s].refs /\ rec.todo = job[s].todo /\ rec.bad = job[s].bad
  BY <1>2 DEF JobType
<1> HIDE DEF rec
<1> QED
  BY <1>1, <1>3, RecordUpdate

(* Undo puts everything that was taken on the list to give back.           *)
LEMMA UndoFacts ==
    ASSUME CtlTypeOK, NEW s \in Sessions, NEW R \in SUBSET Lent, Undo(s, R)
    PROVE  JobAt(s, "ending", R, SoundFirst(R), TRUE)
<1> DEFINE q == SoundFirst(R)
           st == (job[s].kind = "hls")
           rec == [job[s] EXCEPT !.at = "ending", !.bad = TRUE, !.refs = R, !.strict = st, !.todo = q]
<1>0. q \in Seq(Lent \cup {"service"}) /\ st \in BOOLEAN
  BY SoundFirstFacts
<1>1. job' = [job EXCEPT ![s] = rec]
  BY DEF Undo
<1> HIDE DEF q, st
<1>2. job[s] \in JobType
  BY CtlTypes
<1>3. /\ rec \in JobType /\ rec.kind = job[s].kind /\ rec.over = job[s].over /\ rec.at = "ending"
      /\ rec.refs = R /\ rec.todo = q /\ rec.bad = TRUE
  BY <1>0, <1>2 DEF JobType, JobPlaces
<1> HIDE DEF rec
<1>4. JobAt(s, "ending", R, q, TRUE)
  BY <1>1, <1>3, RecordUpdate
<1> QED
  BY <1>4 DEF q

(* The thread ends: everything the session took is still to be handed back. *)
LEMMA StopsFacts ==
    ASSUME CtlTypeOK, NEW s \in Sessions, NEW n, NEW b \in BOOLEAN, Stops(s, n, b)
    PROVE  \E q \in Seq(Lent \cup {"service"}) :
              /\ JobAt(s, "ending", job[s].refs, q, b)
              /\ \A r \in job[s].refs : InTodo(q, r)
<1> DEFINE once == ServiceFirst(job[s].refs)
           q == IF n = 2 THEN once \o once ELSE once
           rec == [job[s] EXCEPT !.at = "ending", !.bad = b, !.todo = q]
<1>1. job[s] \in JobType /\ job[s].refs \in SUBSET Lent
  BY CtlTypes DEF JobType
<1>2. q \in Seq(Lent \cup {"service"}) /\ \A r \in job[s].refs : InTodo(q, r)
  BY <1>1, ServiceFirstFacts
<1>3. job' = [job EXCEPT ![s] = rec]
  BY DEF Stops
<1> HIDE DEF q
<1>4. /\ rec \in JobType /\ rec.kind = job[s].kind /\ rec.over = job[s].over /\ rec.at = "ending"
      /\ rec.refs = job[s].refs /\ rec.todo = q /\ rec.bad = b
  BY <1>1, <1>2 DEF JobType, JobPlaces
<1> HIDE DEF rec
<1> QED
  BY <1>2, <1>3, <1>4, RecordUpdate

(* What a call counts against the bound.                                   *)
LEMMA FaultFacts ==
    ASSUME ControllerAssumption, CtlTypeOK, NEW ok, Fault(ok)
    PROVE  faults' \in 0..MaxFaults
  BY CtlTypes DEF Fault, ControllerAssumption

(* A resource that is taken is taken by one session.                       *)
LEMMA TakeFacts ==
    ASSUME CtlTypeOK, NEW s \in Sessions, NEW r \in Lent, NEW o \in Outcomes, Take(s, r, o)
    PROVE  /\ desk' \in [Lent -> 0..MaxSessions] /\ faults' \in 0..MaxFaults
           /\ \A x \in Lent : desk'[x] = desk[x] \/ (x = r /\ desk'[x] = s)
           /\ o = "ok" => desk'[r] = s
<1> USE ControllerAssumption
<1>0. s \in 0..MaxSessions /\ desk \in [Lent -> 0..MaxSessions] /\ faults \in 0..MaxFaults
  BY CtlTypes DEF Sessions
<1>1. CASE o = "ok"
  BY <1>0, <1>1 DEF Take
<1>2. CASE o = "half"
  BY <1>0, <1>2 DEF Take
<1>3. CASE o = "refused"
  BY <1>0, <1>3 DEF Take
<1> QED
  BY <1>1, <1>2, <1>3 DEF Outcomes

(* A resource is handed back by the session that has it.                   *)
LEMMA HandBackFacts ==
    ASSUME CtlTypeOK, NEW s \in 0..MaxSessions, NEW r \in Lent, NEW ok \in BOOLEAN, HandBack(s, r, ok)
    PROVE  /\ desk' \in [Lent -> 0..MaxSessions] /\ faults' \in 0..MaxFaults
           /\ \A x \in Lent : desk'[x] = desk[x] \/ (x = r /\ desk[x] = s /\ desk'[x] = 0)
           /\ ok => desk'[r] # s \/ desk'[r] = 0
           /\ ~ok => desk[r] = s
<1> USE ControllerAssumption
<1>0. desk \in [Lent -> 0..MaxSessions] /\ faults \in 0..MaxFaults
  BY CtlTypes
<1>1. CASE ok
  BY <1>0, <1>1 DEF HandBack
<1>2. CASE ~ok
  BY <1>0, <1>2 DEF HandBack
<1> QED
  BY <1>1, <1>2

-----------------------------------------------------------------------------
(* A session at work: it may take something, and start its service.        *)
Works(s, a, R, q, b) ==
    /\ Live(s) /\ job[s].at # "ending" /\ job[s].refs \subseteq R
    /\ JobAt(s, a, R, q, b) /\ UNCHANGED <<lease, kept, caller>> /\ stopSet' \in BOOLEAN
    /\ status' = status \/ (status = "starting" /\ status' = "running")
    /\ desk' \in [Lent -> 0..MaxSessions] /\ faults' \in 0..MaxFaults
    /\ \A r \in Lent : desk'[r] = desk[r] \/ (desk'[r] = s /\ r \in R)
    /\ a \in {"connect", "screen"} => R = {}
    /\ a = "ending" /\ ~b => \A r \in R : InTodo(q, r)
    /\ job[s].kind = "webrtc" =>
         a \notin {"ready", "runs"} /\ (a = "ending" => b) /\ ~InTodo(q, "service")

(* A job that goes on keeps the invariant, and orphans nothing.            *)
LEMMA WorksInv ==
    ASSUME CtlInv, NEW s \in Sessions, NEW a \in JobPlaces \ {"none", "over"},
           NEW R \in SUBSET Lent, NEW q, NEW b \in BOOLEAN, Works(s, a, R, q, b)
    PROVE  CtlInv' /\ Orphans' \subseteq Orphans
<1>0. CtlTypeOK /\ CallerInv /\ LentInv /\ ShownInv /\ \A p \in Sessions : SessionInv(p)
  BY DEF CtlInv
<1>1. /\ JobAt(s, a, R, q, b) /\ Live(s) /\ job[s].at # "ending" /\ UNCHANGED <<lease, kept, caller>>
  BY DEF Works
<1>2. Live(s)' /\ \A p \in Sessions \ {s} : job'[p] = job[p] /\ (Live(p)' <=> Live(p))
  BY <1>1 DEF JobAt, Live
<1>3. CtlTypeOK'
  <2>1. status' \in Busy \cup {"idle", "failed"}
    BY <1>0, CtlTypes DEF Works, Busy
  <2>2. /\ stopSet' \in BOOLEAN /\ lease' \in BOOLEAN
        /\ kept' \in [Lent -> 0..MaxSessions] /\ desk' \in [Lent -> 0..MaxSessions]
        /\ caller' \in CallerType /\ job' \in [Sessions -> JobType]
        /\ faults' \in 0..MaxFaults
    BY <1>0, <1>1, CtlTypes DEF Works, JobAt
  <2> QED
    BY <2>1, <2>2 DEF CtlTypeOK, CallerType, JobType, JobPlaces
<1>4. CallerInv'
  BY <1>0, <1>1 DEF CallerInv
<1>a. LentInv'
  BY <1>0, <1>1 DEF LentInv
<1>5. ShownInv'
  <2>1. \A p \in Sessions : /\ job'[p].over = job[p].over /\ job'[p].kind = job[p].kind
                            /\ Live(p)' <=> Live(p)
    BY <1>1, <1>2 DEF JobAt
  <2>2. Quiet' <=> Quiet
    BY <2>1 DEF Quiet
  <2>3. /\ status' = "idle" => status = "idle"
        /\ status \in Busy => status' \in Busy
    BY DEF Works, Busy
  <2>4. caller.closes = 0 /\ Quiet =>
          /\ \A p \in Sessions : Live(p) => p = s
          /\ status \in Busy /\ ~lease /\ caller.at # "releasing" /\ \A r \in Lent : kept[r] = 0
    BY <1>0, <1>1 DEF ShownInv
  <2>5. caller.closes = 0 => \A x, p \in Sessions : Live(x) /\ Live(p) =>
          /\ job[x].over => job[p].over
          /\ job[x].kind = "webrtc" /\ job[p].kind = "webrtc" => x = p
    BY <1>0 DEF ShownInv
  <2>6. caller.closes = 0 /\ status = "idle" =>
          \/ ~lease /\ \A r \in Lent : kept[r] = 0
          \/ \E p \in Sessions : job[p].over
    BY <1>0 DEF ShownInv
  <2> QED
    BY <1>1, <2>1, <2>2, <2>3, <2>4, <2>5, <2>6 DEF ShownInv
<1>6. ASSUME NEW p \in Sessions PROVE SessionInv(p)'
  <2>1. CASE p # s
    <3>1. job'[p] = job[p] /\ (Live(p)' <=> Live(p)) /\ SessionInv(p)
      BY <1>0, <1>2, <2>1
    <3>2. \A r \in Lent : desk'[r] = p => desk[r] = p
      BY <2>1 DEF Works
    <3>3. job[p].refs \subseteq Lent
      BY <1>0, CtlTypes DEF JobType
    <3> QED
      BY <1>1, <3>1, <3>2, <3>3 DEF SessionInv
  <2>2. CASE p = s
    <3>1. (job[s].kind = "webrtc" => caller.at = "preparing") /\ job[s].kind # "none"
      BY <1>0, <1>1 DEF SessionInv
    <3> QED
      BY <1>1, <2>2, <3>1 DEF SessionInv, JobAt, Works
  <2> QED
    BY <2>1, <2>2
<1>7. ASSUME NEW r \in Lent, r \in Orphans' PROVE r \in Orphans
  <2>1. desk'[r] # 0 /\ ~Referenced(r)'
    BY <1>7 DEF Orphans
  <2>2. ~(desk'[r] = s /\ r \in R)
    BY <1>1, <1>2, <2>1 DEF Referenced, JobAt
  <2>3. desk'[r] = desk[r]
    BY <2>2 DEF Works
  <2>4. desk[r] \in Sessions
    BY <1>0, <2>1, <2>3, CtlTypes, ControllerAssumption DEF Sessions
  <2>5. ~Referenced(r)
    <3>1. CASE desk[r] = s
      BY <1>1, <2>1, <2>2, <2>3, <3>1 DEF Referenced, Works
    <3>2. CASE desk[r] # s
      BY <1>1, <1>2, <2>1, <2>3, <2>4, <3>2 DEF Referenced
    <3> QED
      BY <3>1, <3>2
  <2> QED
    BY <2>1, <2>3, <2>5 DEF Orphans
<1> QED
  BY <1>3, <1>4, <1>a, <1>5, <1>6, <1>7 DEF CtlInv, Orphans

(* No step drops what is taken without showing it, but a prepare over what *)
(* an earlier failure had kept.                                            *)
Accounted ==
    Orphans' \subseteq Orphans \/ status' = "failed" \/ caller'.at = "gone" \/ Overwrites

(* A session at work is of one kind and has its references.                *)
LEMMA AtWork ==
    ASSUME CtlInv, NEW s \in Sessions
    PROVE  /\ CtlTypeOK /\ SessionInv(s) /\ job[s] \in JobType
           /\ job[s].refs \in SUBSET Lent /\ job[s].at \in JobPlaces
           /\ job[s].bad \in BOOLEAN
  BY CtlTypes DEF CtlInv, JobType

(* The TV is connected to, or not.                                         *)
LEMMA ConnectInv ==
    ASSUME CtlInv, NEW s \in Sessions, NEW ok \in BOOLEAN, Connect(s, ok)
    PROVE  CtlInv' /\ Accounted
<1>0. /\ CtlTypeOK /\ SessionInv(s) /\ job[s].at = "connect" /\ job[s].refs = {} /\ Live(s)
      /\ UNCHANGED <<status, stopSet, lease, kept, caller, desk>>
  BY AtWork DEF Connect, SessionInv, Live
<1>1. faults' \in 0..MaxFaults
  BY <1>0, ControllerAssumption, FaultFacts DEF Connect
<1>2. desk \in [Lent -> 0..MaxSessions] /\ stopSet \in BOOLEAN
  BY <1>0, CtlTypes
<1>3. CASE ok
  <2>1. JobAt(s, "screen", {}, job[s].todo, job[s].bad)
    BY <1>0, <1>3, GoFacts DEF Connect, JobPlaces
  <2>2. Works(s, "screen", {}, job[s].todo, job[s].bad)
    BY <1>0, <1>1, <1>2, <2>1 DEF Works, SessionInv
  <2> QED
    BY <2>2, WorksInv, AtWork DEF JobPlaces, Accounted
<1>4. CASE ~ok
  <2>1. JobAt(s, "ending", {}, SoundFirst({}), TRUE) /\ ~InTodo(SoundFirst({}), "service")
    BY <1>0, <1>4, UndoFacts, SoundFirstFacts DEF Connect
  <2>2. Works(s, "ending", {}, SoundFirst({}), TRUE)
    BY <1>0, <1>1, <1>2, <2>1 DEF Works
  <2> QED
    BY <2>2, WorksInv DEF JobPlaces, Accounted
<1> QED
  BY <1>3, <1>4

(* The capture starts, or not.                                             *)
LEMMA StartCaptureInv ==
    ASSUME CtlInv, NEW s \in Sessions, NEW ok \in BOOLEAN, StartCapture(s, ok)
    PROVE  CtlInv' /\ Accounted
<1> DEFINE R == job[s].refs
<1>0. /\ CtlTypeOK /\ SessionInv(s) /\ job[s].at = "capture" /\ Live(s) /\ R \in SUBSET Lent
      /\ UNCHANGED <<status, stopSet, lease, kept, caller, desk>>
  BY AtWork DEF StartCapture, Live
<1>1. faults' \in 0..MaxFaults
  BY <1>0, ControllerAssumption, FaultFacts DEF StartCapture
<1>2. desk \in [Lent -> 0..MaxSessions] /\ stopSet \in BOOLEAN
  BY <1>0, CtlTypes
<1>3. CASE ok
  <2>1. JobAt(s, "sound", R, job[s].todo, job[s].bad)
    BY <1>0, <1>3, GoFacts DEF StartCapture, JobPlaces
  <2>2. Works(s, "sound", R, job[s].todo, job[s].bad)
    BY <1>0, <1>1, <1>2, <2>1 DEF Works, SessionInv
  <2> QED
    BY <2>2, WorksInv, AtWork DEF JobPlaces, Accounted
<1>4. CASE ~ok
  <2>1. JobAt(s, "ending", R, SoundFirst(R), TRUE) /\ ~InTodo(SoundFirst(R), "service")
    BY <1>0, <1>4, UndoFacts, SoundFirstFacts DEF StartCapture
  <2>2. Works(s, "ending", R, SoundFirst(R), TRUE)
    BY <1>0, <1>1, <1>2, <2>1 DEF Works
  <2> QED
    BY <1>0, <2>2, WorksInv DEF JobPlaces, Accounted
<1> QED
  BY <1>3, <1>4

(* The screen is taken, or not.                                            *)
LEMMA TakeScreenInv ==
    ASSUME CtlInv, NEW s \in Sessions, NEW o \in Outcomes, TakeScreen(s, o)
    PROVE  CtlInv' /\ Accounted
<1>0. /\ CtlTypeOK /\ SessionInv(s) /\ job[s].at = "screen" /\ job[s].refs = {} /\ Live(s)
      /\ UNCHANGED <<status, stopSet, lease, kept, caller>> /\ job[s] \in JobType
  BY AtWork DEF TakeScreen, SessionInv, Live
<1>1. desk \in [Lent -> 0..MaxSessions] /\ stopSet \in BOOLEAN /\ faults \in 0..MaxFaults
  BY <1>0, CtlTypes
<1>2. CASE Go(s, "capture") /\ UNCHANGED <<desk, faults>>
  <2>1. JobAt(s, "capture", {}, job[s].todo, job[s].bad)
    BY <1>0, <1>2, GoFacts DEF JobPlaces
  <2>2. Works(s, "capture", {}, job[s].todo, job[s].bad)
    BY <1>0, <1>1, <1>2, <2>1 DEF Works, SessionInv
  <2> QED
    BY <2>2, WorksInv, AtWork DEF JobPlaces, Accounted
<1>3. CASE job[s].extend /\ Take(s, "ext", o)
  <2>a. {"ext"} \in SUBSET Lent /\ "ext" \in Lent
    BY DEF Lent
  <2>0. /\ desk' \in [Lent -> 0..MaxSessions] /\ faults' \in 0..MaxFaults
        /\ \A x \in Lent : desk'[x] = desk[x] \/ (x = "ext" /\ desk'[x] = s)
    BY <1>0, <1>3, <2>a, TakeFacts
  <2>1. CASE o = "ok"
    <3> DEFINE rec == [job[s] EXCEPT !.at = "capture", !.refs = {"ext"}]
    <3>1. job' = [job EXCEPT ![s] = rec]
      BY <1>0, <1>3, <2>1 DEF TakeScreen
    <3>2. /\ rec \in JobType /\ rec.kind = job[s].kind /\ rec.over = job[s].over /\ rec.at = "capture"
          /\ rec.refs = {"ext"} /\ rec.todo = job[s].todo /\ rec.bad = job[s].bad
      BY <1>0, <2>a DEF JobType, JobPlaces
    <3> HIDE DEF rec
    <3>3. JobAt(s, "capture", {"ext"}, job[s].todo, job[s].bad)
      BY <1>0, <3>1, <3>2, RecordUpdate
    <3>4. Works(s, "capture", {"ext"}, job[s].todo, job[s].bad)
      BY <1>0, <1>1, <2>0, <3>3 DEF Works, SessionInv
    <3> QED
      BY <2>a, <3>4, WorksInv, AtWork DEF JobPlaces, Accounted
  <2>2. CASE o # "ok" /\ job[s].kind = "webrtc"
    <3>1. Undo(s, {"ext"})
      BY <1>3, <2>2 DEF TakeScreen
    <3>2. /\ JobAt(s, "ending", {"ext"}, SoundFirst({"ext"}), TRUE)
          /\ ~InTodo(SoundFirst({"ext"}), "service")
      BY <1>0, <2>a, <3>1, UndoFacts, SoundFirstFacts
    <3>3. Works(s, "ending", {"ext"}, SoundFirst({"ext"}), TRUE)
      BY <1>0, <1>1, <2>0, <3>2 DEF Works
    <3> QED
      BY <2>a, <3>3, WorksInv DEF JobPlaces, Accounted
  <2>3. CASE o # "ok" /\ job[s].kind # "webrtc"
    <3> DEFINE rec == [job[s] EXCEPT !.at = "ending", !.bad = TRUE, !.refs = {"ext"}]
    <3>1. job' = [job EXCEPT ![s] = rec]
      BY <1>3, <2>3 DEF TakeScreen
    <3>2. /\ rec \in JobType /\ rec.kind = job[s].kind /\ rec.over = job[s].over /\ rec.at = "ending"
          /\ rec.refs = {"ext"} /\ rec.todo = job[s].todo /\ rec.bad = TRUE
      BY <1>0, <2>a DEF JobType, JobPlaces
    <3> HIDE DEF rec
    <3>3. JobAt(s, "ending", {"ext"}, job[s].todo, TRUE)
      BY <1>0, <3>1, <3>2, RecordUpdate
    <3>4. Works(s, "ending", {"ext"}, job[s].todo, TRUE)
      BY <1>0, <1>1, <2>0, <2>3, <3>3 DEF Works
    <3> QED
      BY <2>a, <3>4, WorksInv DEF JobPlaces, Accounted
  <2> QED
    BY <2>1, <2>2, <2>3
<1> QED
  BY <1>2, <1>3 DEF TakeScreen

(* The session starts, or what was taken is given back.                    *)
LEMMA StartSessionInv ==
    ASSUME CtlInv, NEW s \in Sessions, NEW ok \in BOOLEAN, StartSession(s, ok)
    PROVE  CtlInv' /\ Accounted
<1> DEFINE R == job[s].refs
<1>0. /\ CtlTypeOK /\ SessionInv(s) /\ job[s].at = "ready" /\ Live(s) /\ R \in SUBSET Lent
      /\ job[s].kind # "webrtc" /\ UNCHANGED <<stopSet, lease, kept, caller, desk>>
  BY AtWork DEF StartSession, SessionInv, Live
<1>1. desk \in [Lent -> 0..MaxSessions] /\ stopSet \in BOOLEAN /\ faults \in 0..MaxFaults
  BY <1>0, CtlTypes
<1>2. ASSUME NEW n, NEW b \in BOOLEAN, Stops(s, n, b), status' = status, faults' \in 0..MaxFaults
      PROVE  CtlInv' /\ Accounted
  <2>1. PICK q \in Seq(Lent \cup {"service"}) :
           JobAt(s, "ending", R, q, b) /\ \A r \in R : InTodo(q, r)
    BY <1>0, <1>2, StopsFacts
  <2>2. Works(s, "ending", R, q, b)
    BY <1>0, <1>1, <1>2, <2>1 DEF Works
  <2> QED
    BY <1>0, <2>2, WorksInv DEF JobPlaces, Accounted
<1>3. CASE stopSet
  BY <1>1, <1>2, <1>3 DEF StartSession
<1>4. CASE ~stopSet /\ ok
  <2>1. Go(s, "runs") /\ faults' = faults /\ (status' = status \/ (status = "starting" /\ status' = "running"))
    BY <1>4 DEF StartSession
  <2>2. JobAt(s, "runs", R, job[s].todo, job[s].bad)
    BY <1>0, <2>1, GoFacts DEF JobPlaces
  <2>3. Works(s, "runs", R, job[s].todo, job[s].bad)
    BY <1>0, <1>1, <2>1, <2>2 DEF Works
  <2> QED
    BY <2>3, WorksInv, AtWork DEF JobPlaces, Accounted
<1>5. CASE ~stopSet /\ ~ok
  <2>1. faults' \in 0..MaxFaults
    BY <1>0, <1>5, ControllerAssumption, FaultFacts DEF StartSession
  <2> QED
    BY <1>2, <1>5, <2>1 DEF StartSession
<1> QED
  BY <1>3, <1>4, <1>5

(* The stream is to stop, or ended by itself.                              *)
LEMMA PollInv ==
    ASSUME CtlInv, NEW s \in Sessions, Poll(s)
    PROVE  CtlInv' /\ Accounted
<1> DEFINE R == job[s].refs
<1>0. /\ CtlTypeOK /\ SessionInv(s) /\ job[s].at = "runs" /\ Live(s) /\ R \in SUBSET Lent
      /\ job[s].kind # "webrtc" /\ UNCHANGED <<status, stopSet, lease, kept, caller, desk>>
  BY AtWork DEF Poll, SessionInv, Live
<1>1. desk \in [Lent -> 0..MaxSessions] /\ stopSet \in BOOLEAN /\ faults \in 0..MaxFaults
  BY <1>0, CtlTypes
<1>2. faults' \in 0..MaxFaults
  BY <1>0, <1>1, ControllerAssumption, FaultFacts DEF Poll
<1>3. PICK b \in BOOLEAN : Stops(s, 1, b)
  BY DEF Poll
<1>4. PICK q \in Seq(Lent \cup {"service"}) :
         JobAt(s, "ending", R, q, b) /\ \A r \in R : InTodo(q, r)
  BY <1>0, <1>3, StopsFacts
<1>5. Works(s, "ending", R, q, b)
  BY <1>0, <1>1, <1>2, <1>4 DEF Works
<1> QED
  BY <1>0, <1>5, WorksInv DEF JobPlaces, Accounted

(* The sound is taken: the session is ready, or the capture is lent.       *)
LEMMA TakeSoundInv ==
    ASSUME CtlInv, NEW s \in Sessions, NEW o \in Outcomes, TakeSound(s, o)
    PROVE  CtlInv' /\ Accounted
<1> DEFINE R == job[s].refs \cup {"snd"}
<1>0. /\ CtlTypeOK /\ SessionInv(s) /\ job[s].at = "sound" /\ Live(s) /\ R \in SUBSET Lent
      /\ job[s] \in JobType /\ UNCHANGED <<status, stopSet>> /\ Take(s, "snd", o) /\ "snd" \in Lent
  BY AtWork DEF TakeSound, Live, Lent
<1>1. /\ desk' \in [Lent -> 0..MaxSessions] /\ faults' \in 0..MaxFaults
      /\ \A x \in Lent : desk'[x] = desk[x] \/ (x = "snd" /\ desk'[x] = s)
  BY <1>0, TakeFacts
<1>2. stopSet \in BOOLEAN /\ s \in 1..MaxSessions
  BY <1>0, CtlTypes DEF Sessions
<1>3. CASE o # "ok"
  <2>1. Undo(s, R) /\ UNCHANGED <<lease, kept, caller>>
    BY <1>3 DEF TakeSound
  <2>2. JobAt(s, "ending", R, SoundFirst(R), TRUE) /\ ~InTodo(SoundFirst(R), "service")
    BY <1>0, <2>1, UndoFacts, SoundFirstFacts
  <2>3. Works(s, "ending", R, SoundFirst(R), TRUE)
    BY <1>0, <1>1, <1>2, <2>1, <2>2 DEF Works
  <2> QED
    BY <1>0, <2>3, WorksInv DEF JobPlaces, Accounted
<1>4. CASE o = "ok" /\ job[s].kind = "hls"
  <2> DEFINE rec == [job[s] EXCEPT !.at = "ready", !.refs = R]
  <2>1. job' = [job EXCEPT ![s] = rec] /\ UNCHANGED <<lease, kept, caller>>
    BY <1>4 DEF TakeSound
  <2>2. /\ rec \in JobType /\ rec.kind = job[s].kind /\ rec.over = job[s].over /\ rec.at = "ready"
        /\ rec.refs = R /\ rec.todo = job[s].todo /\ rec.bad = job[s].bad
    BY <1>0 DEF JobType, JobPlaces
  <2> HIDE DEF rec
  <2>3. JobAt(s, "ready", R, job[s].todo, job[s].bad)
    BY <1>0, <2>1, <2>2, RecordUpdate
  <2>4. Works(s, "ready", R, job[s].todo, job[s].bad)
    BY <1>0, <1>1, <1>2, <1>4, <2>1, <2>3 DEF Works
  <2> QED
    BY <1>0, <2>4, WorksInv, AtWork DEF JobPlaces, Accounted
<1>5. CASE o = "ok" /\ job[s].kind # "hls"
  <2> DEFINE rec == [job[s] EXCEPT !.at = "over", !.refs = R]
  <2>1. /\ job' = [job EXCEPT ![s] = rec] /\ lease' = TRUE /\ caller' = Free
        /\ kept' = [r \in Lent |-> IF r \in R THEN s ELSE 0]
    BY <1>5 DEF TakeSound
  <2>2. /\ rec \in JobType /\ rec.kind = job[s].kind /\ rec.over = job[s].over /\ rec.at = "over"
        /\ rec.refs = R /\ rec.todo = job[s].todo /\ rec.bad = job[s].bad
    BY <1>0 DEF JobType, JobPlaces
  <2> HIDE DEF rec
  <2>3. JobAt(s, "over", R, job[s].todo, job[s].bad)
    BY <1>0, <2>1, <2>2, RecordUpdate
  <2>4. ~Live(s)' /\ \A p \in Sessions \ {s} : job'[p] = job[p] /\ (Live(p)' <=> Live(p))
    BY <2>3 DEF JobAt, Live
  <2>5. job[s].kind = "webrtc" /\ caller.at = "preparing" /\ caller.closes = 0
    <3>1. job[s].kind # "none"
      BY <1>0 DEF SessionInv
    <3>2. job[s].kind = "webrtc"
      BY <1>0, <1>5, <3>1 DEF JobType
    <3> QED
      BY <1>0, <3>2 DEF SessionInv, CtlInv, CallerInv
  <2>5a. /\ \A x, p \in Sessions : Live(x) /\ Live(p) =>
              /\ job[x].over => job[p].over
              /\ job[x].kind = "webrtc" /\ job[p].kind = "webrtc" => x = p
         /\ Quiet => /\ \A p \in Sessions : Live(p) => p = s
                     /\ status \in Busy /\ ~lease
                     /\ (\E r \in Lent : kept[r] # 0) => job[s].at = "ending"
    BY <1>0, <2>5 DEF CtlInv, ShownInv
  <2>5b. \A p \in Sessions : job'[p].over = job[p].over /\ job'[p].kind = job[p].kind
    BY <2>3, <2>4 DEF JobAt
  <2>6. ~job[s].over => /\ \A p \in Sessions : Live(p) => p = s
                        /\ status \in Busy /\ ~lease /\ \A r \in Lent : kept[r] = 0
    BY <1>0, <2>5a DEF Quiet
  <2>7. Quiet' => \A p \in Sessions : ~Live(p)'
    <3>1. CASE job[s].over
      BY <1>0, <2>4, <2>5a, <2>5b, <3>1 DEF Quiet
    <3>2. CASE ~job[s].over
      BY <2>4, <2>6, <3>2
    <3> QED
      BY <3>1, <3>2
  <2>8. Free \in CallerType /\ Free.at = "free" /\ Free.closes = 0
    BY DEF Free, CallerType
  <2>9. CtlTypeOK'
    <3>1. kept' \in [Lent -> 0..MaxSessions]
      <4>1. s \in 0..MaxSessions /\ 0 \in 0..MaxSessions
        BY <1>2, ControllerAssumption
      <4> QED
        BY <2>1, <4>1
    <3>2. /\ status' \in Busy \cup {"idle", "failed"} /\ stopSet' \in BOOLEAN /\ lease' \in BOOLEAN
          /\ caller' \in CallerType /\ job' \in [Sessions -> JobType]
      BY <1>0, <1>2, <2>1, <2>3, <2>8, CtlTypes DEF JobAt
    <3> QED
      BY <1>1, <3>1, <3>2 DEF CtlTypeOK, CallerType, JobType, JobPlaces
  <2>10. CallerInv'
    BY <2>1, <2>8 DEF CallerInv
  <2>a. LentInv'
    <3>1. "snd" \in R /\ s # 0
      BY <1>2
    <3>2. kept'["snd"] = s
      BY <1>0, <2>1, <3>1
    <3> QED
      BY <1>0, <3>1, <3>2 DEF LentInv
  <2>11. ShownInv'
    <3>1. status' = "idle" => job'[s].over
      BY <1>0, <2>5b, <2>6 DEF Busy
    <3>2. \A x, p \in Sessions : Live(x)' /\ Live(p)' =>
            /\ job'[x].over => job'[p].over
            /\ job'[x].kind = "webrtc" /\ job'[p].kind = "webrtc" => x = p
      BY <2>4, <2>5a, <2>5b
    <3> QED
      BY <2>7, <3>1, <3>2 DEF ShownInv
  <2>12. ASSUME NEW p \in Sessions PROVE SessionInv(p)'
    <3>1. CASE p # s
      <4>1. job'[p] = job[p] /\ (Live(p)' <=> Live(p)) /\ SessionInv(p)
        BY <2>4, <3>1 DEF CtlInv
      <4>2. job[p].refs \subseteq Lent /\ \A r \in Lent : desk'[r] = p => desk[r] = p
        BY <1>1, <3>1, AtWork
      <4>3. ~(Live(p) /\ job[p].kind = "webrtc")
        BY <1>0, <2>5, <2>5a, <3>1
      <4> QED
        BY <4>1, <4>2, <4>3 DEF SessionInv
    <3>2. CASE p = s
      BY <1>0, <2>3, <2>4, <3>2 DEF SessionInv, JobAt
    <3> QED
      BY <3>1, <3>2
  <2>13. ASSUME ~job[s].over, NEW r \in Lent, r \in Orphans' PROVE r \in Orphans
    <3>1. desk'[r] # 0 /\ kept'[r] # desk'[r]
      BY <2>13 DEF Orphans, Referenced
    <3>2. ~(desk'[r] = s /\ r \in R) /\ desk'[r] = desk[r]
      BY <1>1, <2>1, <3>1
    <3>3. desk[r] \in Sessions
      BY <1>0, <3>1, <3>2, CtlTypes, ControllerAssumption DEF Sessions
    <3>4. ~Referenced(r)
      BY <2>6, <2>13, <3>1, <3>2, <3>3 DEF Referenced
    <3> QED
      BY <3>1, <3>2, <3>4 DEF Orphans
  <2>14. job[s].over => Overwrites
    BY <1>0, <2>3, <2>5 DEF Overwrites, JobAt
  <2>15. Accounted
    BY <2>13, <2>14 DEF Orphans, Accounted
  <2> QED
    BY <2>9, <2>10, <2>a, <2>11, <2>12, <2>15 DEF CtlInv
<1> QED
  BY <1>3, <1>4, <1>5

(* A session that ends hands back one thing more, or reports a failure.    *)
LEMMA EndStepInv ==
    ASSUME CtlInv, NEW s \in Sessions, NEW ok \in BOOLEAN, EndStep(s, ok)
    PROVE  CtlInv' /\ Accounted
<1> DEFINE r == Head(job[s].todo)
           q == IF ~ok /\ job[s].strict THEN <<>> ELSE Tail(job[s].todo)
           b == job[s].bad \/ ~ok
           R == job[s].refs
           rec == [job[s] EXCEPT !.todo = q, !.bad = b]
<1>0. /\ CtlTypeOK /\ SessionInv(s) /\ job[s].at = "ending" /\ Live(s) /\ R \in SUBSET Lent
      /\ job[s] \in JobType /\ UNCHANGED <<status, stopSet, lease, caller>> /\ s \in 1..MaxSessions
  BY AtWork DEF EndStep, Live, Sessions
<1>1. /\ job[s].todo \in Seq(Lent \cup {"service"}) /\ job[s].todo # <<>>
  BY <1>0 DEF JobType, EndStep
<1>2. /\ r \in Lent \cup {"service"} /\ q \in Seq(Lent \cup {"service"}) /\ InTodo(job[s].todo, r)
      /\ \A x : InTodo(q, x) => InTodo(job[s].todo, x)
      /\ ok => \A x : InTodo(job[s].todo, x) => x = r \/ InTodo(q, x)
  <2>1. \A x : ~InTodo(<<>>, x)
    BY DEF InTodo
  <2>2. InTodo(job[s].todo, r)
    <3>1. 1 \in 1..Len(job[s].todo) /\ job[s].todo[1] = r
      BY <1>1
    <3> QED
      BY <3>1 DEF InTodo
  <2> QED
    BY <1>1, <2>1, <2>2, TodoSplits
<1>3. /\ job' = [job EXCEPT ![s] = rec]
      /\ IF r = "service" THEN Fault(ok) /\ UNCHANGED desk ELSE HandBack(s, r, ok)
      /\ kept' = IF ~ok /\ job[s].kind = "webrtc" THEN [kept EXCEPT ![r] = s] ELSE kept
  BY DEF EndStep
<1>4. b \in BOOLEAN
  BY <1>0 DEF JobType
<1> HIDE DEF r, q, b
<1>5. /\ rec \in JobType /\ rec.kind = job[s].kind /\ rec.over = job[s].over /\ rec.at = "ending"
      /\ rec.refs = R /\ rec.todo = q /\ rec.bad = b
  BY <1>0, <1>2, <1>4 DEF JobType, JobPlaces
<1> HIDE DEF rec
<1>6. JobAt(s, "ending", R, q, b)
  BY <1>0, <1>3, <1>5, RecordUpdate
<1>7. \A p \in Sessions : Live(p)' <=> Live(p)
  BY <1>0, <1>6 DEF JobAt, Live
<1>8. /\ desk' \in [Lent -> 0..MaxSessions] /\ faults' \in 0..MaxFaults
      /\ \A x \in Lent : desk'[x] = desk[x] \/ desk'[x] = 0
      /\ ok /\ r \in Lent => desk'[r] # s
      /\ ~ok /\ r \in Lent => desk[r] = s
  <2>1. CASE r = "service"
    <3>1. faults' \in 0..MaxFaults /\ desk' = desk /\ r \notin Lent
      BY <1>0, <1>3, <2>1, ControllerAssumption, FaultFacts DEF Lent
    <3> QED
      BY <1>0, <3>1, CtlTypes
  <2>2. CASE r # "service"
    <3>1. r \in Lent /\ HandBack(s, r, ok) /\ s \in 0..MaxSessions
      BY <1>0, <1>2, <1>3, <2>2
    <3> QED
      BY <1>0, <3>1, HandBackFacts
  <2> QED
    BY <2>1, <2>2
<1>9. job[s].kind = "webrtc" => r \in Lent /\ caller.at = "preparing" /\ caller.closes = 0
  BY <1>0, <1>2 DEF SessionInv, CtlInv, CallerInv
<1>10. \/ kept' = kept
       \/ job[s].kind = "webrtc" /\ ~ok /\ r \in Lent /\ kept' = [kept EXCEPT ![r] = s]
  BY <1>3, <1>9
<1>11. kept \in [Lent -> 0..MaxSessions]
  BY <1>0, CtlTypes
<1>12. CtlTypeOK'
  <2>1. kept' \in [Lent -> 0..MaxSessions]
    BY <1>0, <1>10, <1>11
  <2>2. /\ status' \in Busy \cup {"idle", "failed"} /\ stopSet' \in BOOLEAN /\ lease' \in BOOLEAN
        /\ caller' \in CallerType /\ job' \in [Sessions -> JobType]
    BY <1>0, <1>6, CtlTypes DEF JobAt
  <2> QED
    BY <1>8, <2>1, <2>2 DEF CtlTypeOK, CallerType, JobType, JobPlaces
<1>13. CallerInv'
  <2>1. caller' = caller /\ (caller.at = "releasing" => kept' = kept)
    BY <1>0, <1>9, <1>10
  <2> QED
    BY <2>1 DEF CtlInv, CallerInv
<1>a. LentInv'
  <2>1. (\E x \in Lent : kept[x] # 0) => \E x \in Lent : kept'[x] # 0
    BY <1>0, <1>10, <1>11
  <2> QED
    BY <1>0, <2>1 DEF CtlInv, LentInv
<1>14. ShownInv'
  <2>0. /\ \A p \in Sessions : job'[p].over = job[p].over /\ job'[p].kind = job[p].kind
        /\ Quiet' <=> Quiet
    BY <1>6, <1>7 DEF JobAt, Quiet
  <2>1. ASSUME caller.closes = 0, Quiet
        PROVE  /\ \A p \in Sessions : Live(p) => p = s
               /\ status \in Busy /\ ~lease /\ caller.at # "releasing"
    BY <1>0, <2>1 DEF CtlInv, ShownInv
  <2>2. ASSUME caller.closes = 0, Quiet, \E x \in Lent : kept'[x] # 0
        PROVE  job'[s].kind = "webrtc" /\ job'[s].at = "ending"
    <3>1. CASE kept' = kept
      BY <1>0, <1>6, <2>2, <3>1 DEF CtlInv, ShownInv, JobAt
    <3>2. CASE job[s].kind = "webrtc"
      BY <1>6, <3>2 DEF JobAt
    <3> QED
      BY <1>10, <3>1, <3>2
  <2>3. caller.closes = 0 => \A x, p \in Sessions : Live(x) /\ Live(p) =>
          /\ job[x].over => job[p].over
          /\ job[x].kind = "webrtc" /\ job[p].kind = "webrtc" => x = p
    BY DEF CtlInv, ShownInv
  <2>4. ASSUME caller.closes = 0, status = "idle" PROVE \E p \in Sessions : job[p].over
    <3>1. ~Quiet
      BY <2>1, <2>4 DEF Busy
    <3> QED
      BY <3>1 DEF Quiet
  <2> QED
    BY <1>0, <1>7, <2>0, <2>1, <2>2, <2>3, <2>4 DEF ShownInv
<1>15. ASSUME NEW p \in Sessions PROVE SessionInv(p)'
  <2>a. p # 0
    BY DEF Sessions
  <2>1. CASE p # s
    <3>1. job'[p] = job[p] /\ SessionInv(p) /\ job[p].refs \subseteq Lent
      BY <1>6, <2>1, AtWork DEF JobAt, CtlInv
    <3>2. \A x \in Lent : desk'[x] = p => desk[x] = p
      BY <1>8, <2>a
    <3> QED
      BY <1>0, <1>7, <3>1, <3>2 DEF SessionInv
  <2>2. CASE p = s
    <3>1. ASSUME ~b, NEW x \in R, desk'[x] = s PROVE InTodo(q, x)
      <4>1. ok /\ ~job[s].bad
        BY <3>1 DEF b
      <4>2. x \in Lent /\ x # r /\ desk[x] = s
        BY <1>0, <1>8, <2>a, <2>2, <3>1, <4>1
      <4>3. InTodo(job[s].todo, x)
        BY <1>0, <3>1, <4>1, <4>2 DEF SessionInv
      <4> QED
        BY <1>2, <4>1, <4>2, <4>3
    <3>2. job[s].kind = "webrtc" => b /\ ~InTodo(q, "service") /\ caller.at = "preparing"
      BY <1>0, <1>2, <1>9 DEF SessionInv, b
    <3>3. job[s].kind # "none"
      BY <1>0 DEF SessionInv
    <3> QED
      BY <1>0, <1>6, <2>2, <3>1, <3>2, <3>3 DEF SessionInv, JobAt
  <2> QED
    BY <2>1, <2>2
<1>16. ASSUME NEW x \in Lent, x \in Orphans' PROVE x \in Orphans
  <2>1. desk'[x] # 0 /\ desk'[x] = desk[x] /\ ~Referenced(x)'
    BY <1>8, <1>16 DEF Orphans
  <2>2. desk[x] \in Sessions
    BY <1>0, <2>1, CtlTypes, ControllerAssumption DEF Sessions
  <2>3. kept'[x] = kept[x] \/ kept'[x] = desk[x]
    <3>1. CASE kept' = kept
      BY <3>1
    <3>2. CASE ~ok /\ r \in Lent /\ kept' = [kept EXCEPT ![r] = s] /\ x = r
      <4>1. kept'[x] = s
        BY <1>11, <3>2
      <4>2. desk[x] = s
        BY <1>8, <3>2
      <4> QED
        BY <4>1, <4>2
    <3>3. CASE kept' = [kept EXCEPT ![r] = s] /\ x # r
      BY <1>11, <3>3
    <3> QED
      BY <1>10, <3>1, <3>2, <3>3
  <2>4. job'[desk[x]].refs = job[desk[x]].refs /\ (Live(desk[x])' <=> Live(desk[x]))
    <3>1. ASSUME NEW p \in Sessions PROVE job'[p].refs = job[p].refs
      <4>1. CASE p = s
        BY <1>6, <4>1 DEF JobAt
      <4>2. CASE p # s
        BY <1>6, <4>2 DEF JobAt
      <4> QED
        BY <4>1, <4>2
    <3> QED
      BY <1>7, <2>1, <2>2, <3>1 DEF Live
  <2>5. ~Referenced(x)
    BY <2>1, <2>3, <2>4 DEF Referenced
  <2> QED
    BY <2>1, <2>5 DEF Orphans
<1> QED
  BY <1>12, <1>13, <1>a, <1>14, <1>15, <1>16 DEF CtlInv, Orphans, Accounted

(* It reports last, and what it took is handed back by then, or it says    *)
(* that it failed.                                                         *)
LEMMA ReportInv ==
    ASSUME CtlInv, NEW s \in Sessions, Report(s)
    PROVE  CtlInv' /\ Accounted
<1> DEFINE rec == [job[s] EXCEPT !.at = "over"]
<1>0. /\ CtlTypeOK /\ SessionInv(s) /\ job[s].at = "ending" /\ job[s].todo = <<>> /\ Live(s)
      /\ job[s] \in JobType /\ UNCHANGED <<stopSet, lease, kept, desk, faults>>
      /\ job[s].refs \in SUBSET Lent /\ job[s].bad \in BOOLEAN
  BY AtWork DEF Report, Live
<1>1. /\ job' = [job EXCEPT ![s] = rec]
      /\ status' = IF job[s].bad THEN "failed" ELSE "idle"
      /\ caller' = IF job[s].kind = "webrtc" THEN Free ELSE caller
  BY DEF Report
<1>2. /\ rec \in JobType /\ rec.kind = job[s].kind /\ rec.over = job[s].over /\ rec.at = "over"
      /\ rec.refs = job[s].refs /\ rec.todo = job[s].todo /\ rec.bad = job[s].bad
  BY <1>0 DEF JobType, JobPlaces
<1> HIDE DEF rec
<1>3. JobAt(s, "over", job[s].refs, job[s].todo, job[s].bad)
  BY <1>0, <1>1, <1>2, RecordUpdate
<1>4. ~Live(s)' /\ \A p \in Sessions \ {s} : job'[p] = job[p] /\ (Live(p)' <=> Live(p))
  BY <1>3 DEF JobAt, Live
<1>5. Free \in CallerType /\ Free.at = "free" /\ Free.closes = 0
  BY DEF Free, CallerType
<1>6. job[s].kind = "webrtc" => caller.closes = 0 /\ job[s].bad
  BY <1>0 DEF SessionInv, CtlInv, CallerInv
<1>7. CtlTypeOK'
  <2>1. /\ status' \in Busy \cup {"idle", "failed"} /\ caller' \in CallerType
    BY <1>0, <1>1, <1>5, CtlTypes
  <2>2. /\ stopSet' \in BOOLEAN /\ lease' \in BOOLEAN /\ faults' \in 0..MaxFaults
        /\ kept' \in [Lent -> 0..MaxSessions] /\ desk' \in [Lent -> 0..MaxSessions]
        /\ job' \in [Sessions -> JobType]
    BY <1>0, <1>3, CtlTypes DEF JobAt
  <2> QED
    BY <2>1, <2>2 DEF CtlTypeOK, CallerType, JobType, JobPlaces
<1>8. CallerInv'
  BY <1>0, <1>1, <1>5 DEF CtlInv, CallerInv
<1>9. caller'.closes = 0 => caller.closes = 0
  BY <1>1, <1>6
<1>10. \A p \in Sessions : job'[p].over = job[p].over /\ job'[p].kind = job[p].kind
  BY <1>3, <1>4 DEF JobAt
<1>a. caller.closes = 0 =>
        /\ \A x, p \in Sessions : Live(x) /\ Live(p) =>
             /\ job[x].over => job[p].over
             /\ job[x].kind = "webrtc" /\ job[p].kind = "webrtc" => x = p
        /\ Quiet => /\ \A p \in Sessions : Live(p) => p = s
                    /\ ~lease /\ ((\A r \in Lent : kept[r] = 0) \/ job[s].bad)
  BY <1>0, <1>6 DEF CtlInv, ShownInv
<1>b. caller.closes = 0 /\ ~job[s].over => Quiet
  BY <1>0, <1>a DEF Quiet
<1>c. LentInv'
  BY <1>0, <1>1, <1>5, <1>6 DEF CtlInv, LentInv, SessionInv
<1>11. ShownInv'
  <2>1. ASSUME caller.closes = 0, Quiet' PROVE \A p \in Sessions : ~Live(p)'
    <3>1. CASE job[s].over
      BY <1>0, <1>4, <1>10, <1>a, <2>1, <3>1 DEF Quiet
    <3>2. CASE ~job[s].over
      BY <1>4, <1>a, <1>b, <2>1, <3>2
    <3> QED
      BY <3>1, <3>2
  <2>2. ASSUME caller.closes = 0, status' = "idle", ~job'[s].over
        PROVE  ~lease' /\ \A r \in Lent : kept'[r] = 0
    BY <1>0, <1>1, <1>10, <1>a, <1>b, <2>2
  <2>3. caller.closes = 0 => \A x, p \in Sessions : Live(x)' /\ Live(p)' =>
          /\ job'[x].over => job'[p].over
          /\ job'[x].kind = "webrtc" /\ job'[p].kind = "webrtc" => x = p
    BY <1>4, <1>10, <1>a
  <2> QED
    BY <1>9, <2>1, <2>2, <2>3 DEF ShownInv
<1>12. ASSUME NEW p \in Sessions PROVE SessionInv(p)'
  <2>1. CASE p # s
    <3>1. job'[p] = job[p] /\ SessionInv(p) /\ (Live(p)' <=> Live(p))
      BY <1>4, <2>1 DEF CtlInv
    <3>2. caller' = caller \/ ~(Live(p) /\ job[p].kind = "webrtc")
      BY <1>0, <1>1, <1>6, <1>a, <2>1
    <3> QED
      BY <1>0, <3>1, <3>2 DEF SessionInv
  <2>2. CASE p = s
    BY <1>0, <1>3, <1>4, <2>2 DEF SessionInv, JobAt
  <2> QED
    BY <2>1, <2>2
<1>13. ASSUME ~job[s].bad, NEW r \in Lent, r \in Orphans' PROVE r \in Orphans
  <2>1. desk[r] # 0 /\ ~Referenced(r)'
    BY <1>0, <1>13 DEF Orphans
  <2>2. desk[r] \in Sessions
    BY <1>0, <2>1, CtlTypes, ControllerAssumption DEF Sessions
  <2>3. ~Referenced(r)
    <3>1. CASE desk[r] = s
      <4>1. ~InTodo(<<>>, r)
        BY DEF InTodo
      <4>2. r \notin job[s].refs
        BY <1>0, <1>13, <3>1, <4>1 DEF SessionInv
      <4> QED
        BY <1>0, <2>1, <3>1, <4>2 DEF Referenced
    <3>2. CASE desk[r] # s
      BY <1>0, <1>4, <2>1, <2>2, <3>2 DEF Referenced
    <3> QED
      BY <3>1, <3>2
  <2> QED
    BY <2>1, <2>3 DEF Orphans
<1>14. Accounted
  BY <1>1, <1>13 DEF Accounted, Orphans
<1> QED
  BY <1>7, <1>8, <1>c, <1>11, <1>12, <1>14 DEF CtlInv

-----------------------------------------------------------------------------
(* The requests.                                                           *)

(* A request other than a prepare leaves what the sessions rely on.        *)
LEMMA RequestFrame ==
    ASSUME CtlInv, caller.at # "preparing", UNCHANGED job, NEW s \in Sessions,
           \A r \in Lent : desk'[r] = desk[r] \/ desk'[r] = 0
    PROVE  SessionInv(s)' /\ (Live(s)' <=> Live(s))
<1>1. SessionInv(s) /\ s # 0 /\ (Live(s)' <=> Live(s)) /\ job[s].refs \in SUBSET Lent
  BY AtWork DEF CtlInv, Sessions, Live
<1>2. \A r \in Lent : desk'[r] = s => desk[r] = s
  BY <1>1
<1> QED
  BY <1>1, <1>2 DEF SessionInv

(* A step that leaves the screen, the sound and every holder alone drops   *)
(* nothing.                                                                *)
LEMMA NothingDropped ==
    ASSUME UNCHANGED <<kept, job, desk>>
    PROVE  Accounted
  BY DEF Accounted, Orphans, Referenced, Live

(* A call that returned.                                                   *)
LEMMA AnsweredFacts ==
    ASSUME NEW c \in 0..3
    PROVE  /\ Answered(c) \in CallerType /\ Answered(c).closes = c
           /\ Answered(c).at = (IF c > 0 THEN "closing" ELSE "free")
           /\ c = 0 => Answered(c) = Free
<1> DEFINE a == IF c > 0 THEN "closing" ELSE "free"
<1>1. <<>> \in Seq(Lent) /\ a \in {"closing", "free"} /\ (c = 0 => a = "free")
  OBVIOUS
<1>a. Answered(c) = [Free EXCEPT !.closes = c, !.at = a]
  BY Zenon DEF Answered
<1> HIDE DEF a
<1>2. Answered(c) = [at |-> a, todo |-> <<>>, bad |-> FALSE, closes |-> c]
  BY <1>a DEF Free
<1>3. Answered(c) \in CallerType /\ Answered(c).closes = c /\ Answered(c).at = a
  BY <1>1, <1>2 DEF CallerType
<1>4. c = 0 => Answered(c) = Free
  BY <1>1, <1>2 DEF Free
<1> QED
  BY <1>3, <1>4 DEF a

(* A release either begins, with everything kept to hand back, or has      *)
(* nothing to do.                                                          *)
LEMMA ReleaseFromFacts ==
    ASSUME CtlTypeOK, NEW c \in 0..3, NEW e \in BOOLEAN, ReleaseFrom(c, e)
    PROVE  /\ caller' \in CallerType /\ caller'.closes = c
           /\ \/ /\ lease \/ \E r \in Lent : kept[r] # 0
                 /\ caller'.at = "releasing" /\ UNCHANGED status
                 /\ \A r \in Lent : kept[r] # 0 => InTodo(caller'.todo, r)
              \/ /\ ~lease /\ \A r \in Lent : kept[r] = 0
                 /\ caller' = Answered(c)
                 /\ status' \in {status, "idle", "failed"}
                 /\ status \in {"running", "idle", "failed"} => UNCHANGED status
<1> DEFINE K == {r \in Lent : kept[r] # 0}
<1>1. CASE lease \/ \E r \in Lent : kept[r] # 0
  <2>1. /\ caller' = [at |-> "releasing", bad |-> e, closes |-> c, todo |-> SoundFirst(K)]
        /\ UNCHANGED status
    BY <1>1 DEF ReleaseFrom
  <2>2. SoundFirst(K) \in Seq(Lent) /\ \A r \in K : InTodo(SoundFirst(K), r)
    BY SoundFirstFacts
  <2>3. /\ caller' \in CallerType /\ caller'.closes = c /\ caller'.at = "releasing"
        /\ caller'.todo = SoundFirst(K)
    BY <2>1, <2>2 DEF CallerType
  <2> QED
    BY <1>1, <2>1, <2>2, <2>3
<1>2. CASE ~(lease \/ \E r \in Lent : kept[r] # 0)
  <2>1. /\ status' = IF status \notin {"starting", "stopping"} THEN status
                     ELSE IF e THEN "failed" ELSE "idle"
        /\ caller' = Answered(c)
    BY <1>2 DEF ReleaseFrom
  <2> QED
    BY <1>2, <2>1, AnsweredFacts
<1> QED
  BY <1>1, <1>2

(* A release that a request or close() begins.                             *)
LEMMA ReleaseFromInv ==
    ASSUME CtlInv, caller.at \notin {"preparing", "releasing"}, NEW c \in 0..3, NEW e \in BOOLEAN,
           ReleaseFrom(c, e), UNCHANGED <<lease, kept, job, desk>>,
           stopSet' \in BOOLEAN, faults' \in 0..MaxFaults,
           c = 0 => caller.closes = 0 /\ (Quiet => \A s \in Sessions : ~Live(s))
    PROVE  CtlInv' /\ Accounted
<1>0. CtlTypeOK
  BY DEF CtlInv
<1>1. /\ caller' \in CallerType /\ caller'.closes = c
      /\ \/ /\ lease \/ \E r \in Lent : kept[r] # 0
            /\ caller'.at = "releasing" /\ UNCHANGED status
            /\ \A r \in Lent : kept[r] # 0 => InTodo(caller'.todo, r)
         \/ /\ ~lease /\ \A r \in Lent : kept[r] = 0
            /\ caller' = Answered(c)
            /\ status' \in {status, "idle", "failed"}
  BY <1>0, ReleaseFromFacts
<1>2. CtlTypeOK'
  <2>1. status' \in Busy \cup {"idle", "failed"}
    BY <1>0, <1>1, CtlTypes
  <2>2. /\ lease' \in BOOLEAN /\ kept' \in [Lent -> 0..MaxSessions]
        /\ desk' \in [Lent -> 0..MaxSessions] /\ job' \in [Sessions -> JobType]
    BY <1>0, CtlTypes
  <2> QED
    BY <1>1, <2>1, <2>2 DEF CtlTypeOK, CallerType, JobType, JobPlaces
<1>3. CallerInv'
  <2>1. CASE caller'.at = "releasing" /\ \A r \in Lent : kept[r] # 0 => InTodo(caller'.todo, r)
    BY <2>1 DEF CallerInv
  <2>2. CASE caller' = Answered(c)
    BY <2>2, AnsweredFacts DEF CallerInv
  <2> QED
    BY <1>1, <2>1, <2>2
<1>4. \A s \in Sessions : SessionInv(s)' /\ (Live(s)' <=> Live(s))
  BY RequestFrame
<1>a. LentInv'
  BY <1>1 DEF CtlInv, LentInv
<1>5. ShownInv'
  <2>1. CASE c # 0
    BY <1>1, <2>1 DEF ShownInv
  <2>2. CASE c = 0
    <3>1. status' = "idle" => \/ ~lease /\ \A r \in Lent : kept[r] = 0
                             \/ \E s \in Sessions : job[s].over
      BY <1>1, <2>2 DEF CtlInv, ShownInv
    <3>2. \A s, p \in Sessions : Live(s) /\ Live(p) =>
            /\ job[s].over => job[p].over
            /\ job[s].kind = "webrtc" /\ job[p].kind = "webrtc" => s = p
      BY <2>2 DEF CtlInv, ShownInv
    <3>3. Quiet' <=> Quiet
      BY <1>4 DEF Quiet
    <3> QED
      BY <1>4, <2>2, <3>1, <3>2, <3>3 DEF ShownInv
  <2> QED
    BY <2>1, <2>2
<1> QED
  BY <1>2, <1>3, <1>4, <1>a, <1>5, NothingDropped DEF CtlInv

(* The free request loop.                                                  *)
LEMMA FreeFacts ==
    ASSUME caller = Free
    PROVE  caller.at = "free" /\ caller.closes = 0
  BY DEF Free

(* stop(), alone or as the first step of close().                          *)
LEMMA StopInv ==
    ASSUME CtlInv, caller = Free, NEW c \in 0..3, StopFrom(c)
    PROVE  CtlInv' /\ Accounted
<1>0. /\ CtlTypeOK /\ caller.at = "free" /\ caller.closes = 0
      /\ stopSet' \in BOOLEAN /\ UNCHANGED <<lease, kept, job, desk, faults>>
  BY FreeFacts DEF CtlInv, StopFrom
<1>1. faults' \in 0..MaxFaults
  BY <1>0, CtlTypes
<1>2. CASE Retained
  <2>1. Quiet => \A s \in Sessions : ~Live(s)
    BY <1>0, <1>2 DEF CtlInv, ShownInv, Retained, Busy
  <2>2. ReleaseFrom(c, FALSE)
    BY <1>2 DEF StopFrom
  <2> QED
    BY <1>0, <1>1, <2>1, <2>2, ReleaseFromInv
<1>3. CASE ~Retained
  <2>1. /\ status' = CASE status \in {"starting", "running"} -> "stopping"
                       [] status = "failed" -> "idle"
                       [] OTHER -> status
        /\ caller' = Answered(c)
    BY <1>3 DEF StopFrom
  <2>2. status \in Busy \cup {"idle", "failed"}
    BY <1>0, CtlTypes
  <2>3. /\ status' \in Busy \cup {"idle", "failed"}
        /\ status \in Busy => status' \in Busy
        /\ status' = "idle" => status \in {"idle", "failed"}
    <3>1. CASE status \in {"starting", "running"}
      BY <2>1, <3>1 DEF Busy
    <3>2. CASE status = "failed"
      BY <2>1, <3>2 DEF Busy
    <3>3. CASE status \notin {"starting", "running", "failed"}
      BY <2>1, <2>2, <3>3
    <3> QED
      BY <3>1, <3>2, <3>3
  <2>4. /\ caller' \in CallerType /\ caller'.closes = c /\ (c = 0 => caller' = Free)
        /\ caller'.at = (IF c > 0 THEN "closing" ELSE "free")
    BY <2>1, AnsweredFacts
  <2>5. CtlTypeOK'
    <3>1. /\ lease' \in BOOLEAN /\ kept' \in [Lent -> 0..MaxSessions]
          /\ desk' \in [Lent -> 0..MaxSessions] /\ job' \in [Sessions -> JobType]
      BY <1>0, CtlTypes
    <3> QED
      BY <1>0, <1>1, <2>3, <2>4, <3>1 DEF CtlTypeOK, CallerType, JobType, JobPlaces
  <2>6. CallerInv'
    BY <2>4 DEF CallerInv
  <2>7. \A s \in Sessions : SessionInv(s)' /\ (Live(s)' <=> Live(s))
    BY <1>0, RequestFrame
  <2>8. status \in {"idle", "failed"} => \/ ~lease /\ \A r \in Lent : kept[r] = 0
                                         \/ \E s \in Sessions : job[s].over
    BY <1>0, <1>3 DEF CtlInv, LentInv, ShownInv, Retained
  <2>a. LentInv'
    BY <1>0 DEF CtlInv, LentInv
  <2>9. ShownInv'
    <3>1. Quiet =>
            /\ \A s, p \in Sessions : Live(s) /\ Live(p) => s = p
            /\ \A s \in Sessions : Live(s) =>
                 /\ status' \in Busy /\ ~lease
                 /\ (\E r \in Lent : kept[r] # 0) => job[s].kind = "webrtc" /\ job[s].at = "ending"
      BY <1>0, <2>3 DEF CtlInv, ShownInv
    <3>2. \A s, p \in Sessions : Live(s) /\ Live(p) =>
            /\ job[s].over => job[p].over
            /\ job[s].kind = "webrtc" /\ job[p].kind = "webrtc" => s = p
      BY <1>0 DEF CtlInv, ShownInv
    <3>3. caller'.at # "releasing"
      BY <2>4
    <3>4. Quiet' <=> Quiet
      BY <1>0, <2>7 DEF Quiet
    <3> QED
      BY <1>0, <2>3, <2>7, <2>8, <3>1, <3>2, <3>3, <3>4 DEF ShownInv
  <2> QED
    BY <1>0, <2>5, <2>6, <2>7, <2>a, <2>9, NothingDropped DEF CtlInv
<1> QED
  BY <1>2, <1>3

(* The caller of a prepare.                                                *)
LEMMA PreparingFacts ==
    /\ [at |-> "preparing", todo |-> <<>>, bad |-> FALSE, closes |-> 0] \in CallerType
    /\ Free \in CallerType
<1>1. <<>> \in Seq(Lent) /\ 0 \in 0..3
  OBVIOUS
<1> QED
  BY <1>1 DEF CallerType, Free

(* A session begins when none is shown: nothing is kept or at work then, or *)
(* it is one that is started over a failure.                               *)
LEMMA BeginInv ==
    ASSUME CtlInv, NEW s \in Sessions, NEW k \in {"hls", "webrtc"}, NEW x \in BOOLEAN,
           caller = Free, Unused(s), status \notin Busy, status' = "starting",
           NEW o \in BOOLEAN, o <=> OverAFailure,
           job' = [job EXCEPT ![s] = NewJob(k, x, o)], stopSet' \in BOOLEAN,
           UNCHANGED <<lease, kept, desk, faults>>,
           caller' = IF k = "webrtc" THEN [Free EXCEPT !.at = "preparing"] ELSE Free
    PROVE  CtlInv' /\ Accounted
<1>0. /\ CtlTypeOK /\ caller.at = "free" /\ caller.closes = 0 /\ job[s].at = "none"
      /\ job[s].refs = {} /\ job \in [Sessions -> JobType]
  BY FreeFacts, CtlTypes DEF CtlInv, Unused, SessionInv
<1>1. /\ Quiet => \A p \in Sessions : ~Live(p)
      /\ ~o => ~lease /\ (\A r \in Lent : kept[r] = 0) /\ Quiet
      /\ \A p \in Sessions : Live(p) => job[p].kind # "webrtc"
      /\ \A x1, p \in Sessions : Live(x1) /\ Live(p) /\ job[x1].over => job[p].over
  <2>1. Quiet => \A p \in Sessions : ~Live(p)
    BY <1>0 DEF CtlInv, ShownInv
  <2>2. ~o => ~lease /\ (\A r \in Lent : kept[r] = 0) /\ Quiet
    BY <1>0 DEF OverAFailure, CtlInv, LentInv, Quiet
  <2>3. \A p \in Sessions : Live(p) => job[p].kind # "webrtc"
    BY <1>0 DEF CtlInv, SessionInv
  <2>4. \A x1, p \in Sessions : Live(x1) /\ Live(p) /\ job[x1].over => job[p].over
    BY <1>0 DEF CtlInv, ShownInv
  <2> QED
    BY <2>1, <2>2, <2>3, <2>4
<1> DEFINE rec == NewJob(k, x, o)
<1>2. /\ rec \in JobType /\ rec.kind = k /\ rec.over = o /\ rec.at = "connect" /\ rec.refs = {} /\ rec.todo = <<>>
  <2>1. <<>> \in Seq(Lent \cup {"service"}) /\ {} \in SUBSET Lent
    OBVIOUS
  <2> QED
    BY <2>1 DEF NewJob, JobType, JobPlaces
<1>3. job' = [job EXCEPT ![s] = rec]
  OBVIOUS
<1> HIDE DEF rec
<1>4. /\ job' \in [Sessions -> JobType] /\ job'[s] = rec
      /\ \A p \in Sessions \ {s} : job'[p] = job[p]
  BY <1>0, <1>2, <1>3
<1>5. Live(s)' /\ ~Live(s) /\ \A p \in Sessions \ {s} : Live(p)' <=> Live(p)
  BY <1>0, <1>2, <1>4 DEF Live
<1>6. /\ caller' \in CallerType /\ caller'.closes = 0
      /\ caller'.at = (IF k = "webrtc" THEN "preparing" ELSE "free")
      /\ (k # "webrtc" => caller' = Free)
  <2>1. <<>> \in Seq(Lent)
    OBVIOUS
  <2>2. CASE k = "webrtc"
    <3>1. caller' = [at |-> "preparing", todo |-> <<>>, bad |-> FALSE, closes |-> 0]
      BY <2>2 DEF Free
    <3>2. caller' \in CallerType
      BY <3>1, PreparingFacts
    <3>3. caller'.closes = 0 /\ caller'.at = "preparing"
      BY <3>1
    <3> QED
      BY <2>2, <3>2, <3>3
  <2>3. CASE k # "webrtc"
    BY <2>1, <2>3 DEF Free, CallerType
  <2> QED
    BY <2>2, <2>3
<1>7. CtlTypeOK'
  <2>1. /\ lease' \in BOOLEAN /\ kept' \in [Lent -> 0..MaxSessions]
        /\ desk' \in [Lent -> 0..MaxSessions] /\ faults' \in 0..MaxFaults
        /\ status' \in Busy \cup {"idle", "failed"}
    BY <1>0, CtlTypes DEF Busy
  <2> QED
    BY <1>4, <1>6, <2>1 DEF CtlTypeOK, CallerType, JobType, JobPlaces
<1>8. CallerInv'
  BY <1>6 DEF CallerInv
<1>a. LentInv'
  BY <1>0 DEF CtlInv, LentInv
<1>9. ShownInv'
  <2>1. status' \in Busy /\ status' # "idle" /\ caller'.at # "releasing"
    BY <1>6 DEF Busy
  <2>2. CASE ~o
    <3>1. \A p \in Sessions : Live(p)' => p = s
      BY <1>1, <1>5, <2>2
    <3> QED
      BY <1>1, <2>1, <2>2, <3>1 DEF ShownInv
  <2>3. CASE o
    <3>1. job'[s].over /\ ~Quiet'
      BY <1>2, <1>4, <1>5, <2>3 DEF Quiet
    <3>2. ASSUME NEW p \in Sessions, Live(p)' PROVE job'[p].over
      <4>1. CASE p # s
        <5>1. Live(p) /\ job'[p] = job[p] /\ ~Quiet
          BY <1>1, <1>4, <1>5, <3>2, <4>1
        <5> QED
          BY <1>1, <5>1 DEF Quiet
      <4> QED
        BY <3>1, <4>1
    <3>3. \A x1, p \in Sessions :
            Live(x1)' /\ Live(p)' /\ job'[x1].kind = "webrtc" /\ job'[p].kind = "webrtc" => x1 = p
      BY <1>1, <1>4, <1>5
    <3> QED
      BY <2>1, <3>1, <3>2, <3>3 DEF ShownInv
  <2> QED
    BY <2>2, <2>3
<1>10. ASSUME NEW p \in Sessions PROVE SessionInv(p)'
  <2>1. CASE p = s
    <3>1. ~InTodo(<<>>, "service")
      BY DEF InTodo
    <3> QED
      BY <1>2, <1>4, <1>6, <2>1, <3>1 DEF SessionInv
  <2>2. CASE p # s
    BY <1>1, <1>4, <1>5, <2>2 DEF CtlInv, SessionInv
  <2> QED
    BY <2>1, <2>2
<1>11. ASSUME NEW r \in Lent, r \in Orphans' PROVE r \in Orphans
  <2>1. desk[r] # 0 /\ ~Referenced(r)'
    BY <1>11 DEF Orphans
  <2>2. ~Referenced(r)
    <3>1. desk[r] \in Sessions
      BY <1>0, <2>1, CtlTypes, ControllerAssumption DEF Sessions
    <3> QED
      BY <1>4, <1>5, <2>1, <3>1 DEF Referenced
  <2> QED
    BY <2>1, <2>2 DEF Orphans
<1> QED
  BY <1>7, <1>8, <1>a, <1>9, <1>10, <1>11 DEF CtlInv, Orphans, Accounted

(* start(), over an idle controller or over a failure.                     *)
LEMMA StartInv ==
    ASSUME CtlInv, NEW s \in Sessions, CtlStart(s)
    PROVE  CtlInv' /\ Accounted
<1>1. /\ caller = Free /\ Unused(s) /\ status \notin Busy /\ status' = "starting"
      /\ stopSet' \in BOOLEAN /\ UNCHANGED <<lease, kept, caller, desk, faults>>
  BY DEF CtlStart, StartableStates, Busy
<1>2. PICK x \in BOOLEAN : job' = [job EXCEPT ![s] = NewJob("hls", x, OverAFailure)]
  BY DEF CtlStart
<1>3. caller' = IF "hls" = "webrtc" THEN [Free EXCEPT !.at = "preparing"] ELSE Free
  BY <1>1
<1>4. OverAFailure \in BOOLEAN
  BY DEF OverAFailure
<1> QED
  BY <1>1, <1>2, <1>3, <1>4, BeginInv

(* prepare_webrtc_capture().                                               *)
LEMMA PrepareInv ==
    ASSUME CtlInv, NEW s \in Sessions, PrepareBegins(s)
    PROVE  CtlInv' /\ Accounted
<1>1. /\ caller = Free /\ Unused(s) /\ status \notin Busy /\ status' = "starting"
      /\ caller' = [Free EXCEPT !.at = "preparing"]
      /\ UNCHANGED <<stopSet, lease, kept, desk, faults>>
  BY DEF PrepareBegins, Busy
<1>2. PICK x \in BOOLEAN : job' = [job EXCEPT ![s] = NewJob("webrtc", x, OverAFailure)]
  BY DEF PrepareBegins
<1>3. caller' = IF "webrtc" = "webrtc" THEN [Free EXCEPT !.at = "preparing"] ELSE Free
  BY <1>1
<1>4. stopSet' \in BOOLEAN
  BY <1>1, CtlTypes DEF CtlInv
<1>5. OverAFailure \in BOOLEAN
  BY DEF OverAFailure
<1> QED
  BY <1>1, <1>2, <1>3, <1>4, <1>5, BeginInv

(* activate_webrtc_capture().                                              *)
LEMMA ActivateInv ==
    ASSUME CtlInv, Activate
    PROVE  CtlInv' /\ Accounted
<1>0. /\ CtlTypeOK /\ caller.at = "free" /\ status = "starting" /\ status' = "running"
      /\ UNCHANGED <<stopSet, lease, kept, caller, job, desk, faults>>
  BY FreeFacts DEF CtlInv, Activate
<1>1. CtlTypeOK'
  <2>1. /\ stopSet' \in BOOLEAN /\ lease' \in BOOLEAN /\ kept' \in [Lent -> 0..MaxSessions]
        /\ desk' \in [Lent -> 0..MaxSessions] /\ faults' \in 0..MaxFaults
        /\ caller' \in CallerType /\ job' \in [Sessions -> JobType]
        /\ status' \in Busy \cup {"idle", "failed"}
    BY <1>0, CtlTypes DEF Busy
  <2> QED
    BY <2>1 DEF CtlTypeOK, CallerType, JobType, JobPlaces
<1>2. CallerInv'
  BY <1>0 DEF CtlInv, CallerInv
<1>3. \A s \in Sessions : SessionInv(s)' /\ (Live(s)' <=> Live(s))
  BY <1>0, RequestFrame
<1>4. ShownInv'
  <2>1. status' \in Busy /\ status' # "idle"
    BY <1>0 DEF Busy
  <2>2. Quiet' <=> Quiet
    BY <1>0, <1>3 DEF Quiet
  <2>3. ShownInv
    BY DEF CtlInv
  <2> QED
    BY <1>0, <1>3, <2>1, <2>2, <2>3 DEF ShownInv
<1>5. LentInv'
  BY <1>0 DEF CtlInv, LentInv
<1> QED
  BY <1>0, <1>1, <1>2, <1>3, <1>4, <1>5, NothingDropped DEF CtlInv

(* release_webrtc_capture().                                               *)
LEMMA ReleaseInv ==
    ASSUME CtlInv, CtlRelease
    PROVE  CtlInv' /\ Accounted
<1>1. /\ CtlTypeOK /\ caller.at = "free" /\ caller.closes = 0 /\ (lease \/ status = "failed")
      /\ UNCHANGED <<stopSet, lease, kept, job, desk, faults>>
  BY FreeFacts DEF CtlInv, CtlRelease
<1>2. PICK e \in BOOLEAN : ReleaseFrom(0, e)
  BY DEF CtlRelease
<1>3. Quiet => \A s \in Sessions : ~Live(s)
  BY <1>1 DEF CtlInv, ShownInv, Busy
<1>4. stopSet' \in BOOLEAN /\ faults' \in 0..MaxFaults /\ 0 \in 0..3
  BY <1>1, CtlTypes
<1> QED
  BY <1>1, <1>2, <1>3, <1>4, ReleaseFromInv

(* A release tries one thing it keeps: handed back, or kept and failed.    *)
LEMMA ReleaseRestoresInv ==
    ASSUME CtlInv, NEW ok \in BOOLEAN, ReleaseRestores(ok)
    PROVE  CtlInv' /\ Accounted
<1> DEFINE r == Head(caller.todo)
           q == Tail(caller.todo)
           b == caller.bad \/ ~ok
<1>0. /\ CtlTypeOK /\ caller.at = "releasing" /\ caller.todo # <<>>
      /\ UNCHANGED <<status, stopSet, lease, job>>
      /\ HandBack(kept[r], r, ok)
      /\ kept' = IF ok THEN [kept EXCEPT ![r] = 0] ELSE kept
      /\ caller' = [caller EXCEPT !.todo = q, !.bad = b]
  BY DEF CtlInv, ReleaseRestores
<1>1. /\ caller \in CallerType /\ kept \in [Lent -> 0..MaxSessions]
      /\ desk \in [Lent -> 0..MaxSessions]
  BY <1>0, CtlTypes
<1>2. caller.todo \in Seq(Lent) /\ b \in BOOLEAN
  BY <1>1 DEF CallerType
<1>3. /\ r \in Lent /\ q \in Seq(Lent)
      /\ \A x : InTodo(caller.todo, x) => x = r \/ InTodo(q, x)
  BY <1>0, <1>2, TodoSplits
<1>b. ~b => ok /\ ~caller.bad
  BY DEF b
<1> HIDE DEF r, q, b
<1>4. /\ caller' \in CallerType /\ caller'.at = "releasing" /\ caller'.todo = q
      /\ caller'.bad = b /\ caller'.closes = caller.closes
  BY <1>0, <1>1, <1>2, <1>3 DEF CallerType
<1>5. /\ desk' \in [Lent -> 0..MaxSessions] /\ faults' \in 0..MaxFaults
      /\ \A x \in Lent : desk'[x] = desk[x] \/ desk'[x] = 0
      /\ ok => desk'[r] # kept[r] \/ desk'[r] = 0
  BY <1>0, <1>1, <1>3, HandBackFacts
<1>6. /\ kept' \in [Lent -> 0..MaxSessions]
      /\ \A x \in Lent : kept'[x] = kept[x] \/ (ok /\ x = r /\ kept'[x] = 0)
      /\ ok => kept'[r] = 0
  BY <1>0, <1>1, <1>3, ControllerAssumption
<1>7. CtlTypeOK'
  <2>1. /\ status' \in Busy \cup {"idle", "failed"} /\ stopSet' \in BOOLEAN /\ lease' \in BOOLEAN
        /\ job' \in [Sessions -> JobType]
    BY <1>0, CtlTypes
  <2> QED
    BY <1>4, <1>5, <1>6, <2>1 DEF CtlTypeOK, CallerType, JobType, JobPlaces
<1>8. CallerInv'
  <2>1. ASSUME ~b, NEW x \in Lent, kept'[x] # 0 PROVE InTodo(q, x)
    <3>1. kept[x] # 0 /\ x # r
      BY <1>6, <1>b, <2>1
    <3>2. InTodo(caller.todo, x)
      BY <1>0, <1>b, <2>1, <3>1 DEF CtlInv, CallerInv
    <3> QED
      BY <1>3, <3>1, <3>2
  <2> QED
    BY <1>4, <2>1 DEF CallerInv
<1>9. \A s \in Sessions : SessionInv(s)' /\ (Live(s)' <=> Live(s))
  BY <1>0, <1>5, RequestFrame
<1>10. ShownInv'
  <2>1. caller.closes = 0 /\ Quiet => \A s \in Sessions : ~Live(s)
    BY <1>0 DEF CtlInv, ShownInv
  <2>2. caller.closes = 0 /\ status = "idle" => \/ ~lease /\ \A x \in Lent : kept'[x] = 0
                                                \/ \E s \in Sessions : job[s].over
    BY <1>0, <1>6 DEF CtlInv, ShownInv
  <2>3. caller.closes = 0 => \A s, p \in Sessions : Live(s) /\ Live(p) =>
          /\ job[s].over => job[p].over
          /\ job[s].kind = "webrtc" /\ job[p].kind = "webrtc" => s = p
    BY DEF CtlInv, ShownInv
  <2>4. Quiet' <=> Quiet
    BY <1>0, <1>9 DEF Quiet
  <2> QED
    BY <1>0, <1>4, <1>9, <2>1, <2>2, <2>3, <2>4 DEF ShownInv
<1>a. LentInv'
  BY <1>4 DEF LentInv
<1>11. ASSUME NEW x \in Lent, x \in Orphans' PROVE x \in Orphans
  <2>1. desk'[x] # 0 /\ desk'[x] = desk[x] /\ ~Referenced(x)'
    BY <1>5, <1>11 DEF Orphans
  <2>2. kept[x] # desk[x]
    <3>1. kept'[x] # desk[x]
      BY <2>1 DEF Referenced
    <3> QED
      BY <1>5, <1>6, <2>1, <3>1
  <2>3. ~Referenced(x)
    BY <1>0, <2>1, <2>2 DEF Referenced, Live
  <2> QED
    BY <2>1, <2>3 DEF Orphans
<1> QED
  BY <1>7, <1>8, <1>9, <1>10, <1>a, <1>11 DEF CtlInv, Orphans, Accounted

(* A release that did not fail keeps nothing, and the lease is over.       *)
LEMMA ReleaseEndsInv ==
    ASSUME CtlInv, ReleaseEnds
    PROVE  CtlInv' /\ Accounted
<1>0. /\ CtlTypeOK /\ caller.at = "releasing" /\ caller.todo = <<>>
      /\ UNCHANGED <<stopSet, kept, job, desk, faults>>
      /\ lease' = (lease /\ \E r \in Lent : kept[r] # 0)
      /\ status' = IF caller.bad THEN "failed" ELSE "idle"
      /\ caller' = Answered(caller.closes)
  BY DEF CtlInv, ReleaseEnds
<1>1. caller.closes \in 0..3 /\ caller.bad \in BOOLEAN
  BY <1>0, CtlTypes DEF CallerType
<1>2. /\ caller' \in CallerType /\ caller'.closes = caller.closes
      /\ caller'.at = (IF caller.closes > 0 THEN "closing" ELSE "free")
      /\ (caller.closes = 0 => caller' = Free)
  BY <1>0, <1>1, AnsweredFacts
<1>3. ~caller.bad => \A r \in Lent : kept[r] = 0
  <2>1. \A r : ~InTodo(<<>>, r)
    BY DEF InTodo
  <2> QED
    BY <1>0, <2>1 DEF CtlInv, CallerInv
<1>4. CtlTypeOK'
  <2>1. /\ stopSet' \in BOOLEAN /\ lease' \in BOOLEAN /\ kept' \in [Lent -> 0..MaxSessions]
        /\ desk' \in [Lent -> 0..MaxSessions] /\ faults' \in 0..MaxFaults
        /\ job' \in [Sessions -> JobType] /\ status' \in Busy \cup {"idle", "failed"}
    BY <1>0, CtlTypes
  <2> QED
    BY <1>2, <2>1 DEF CtlTypeOK, CallerType, JobType, JobPlaces
<1>5. CallerInv'
  BY <1>1, <1>2 DEF CallerInv
<1>6. \A s \in Sessions : SessionInv(s)' /\ (Live(s)' <=> Live(s))
  BY <1>0, RequestFrame
<1>7. ShownInv'
  <2>1. caller.closes = 0 /\ Quiet => \A s \in Sessions : ~Live(s)
    BY <1>0 DEF CtlInv, ShownInv
  <2>2. status' = "idle" => ~caller.bad
    BY <1>0
  <2>3. caller.closes = 0 => \A s, p \in Sessions : Live(s) /\ Live(p) =>
          /\ job[s].over => job[p].over
          /\ job[s].kind = "webrtc" /\ job[p].kind = "webrtc" => s = p
    BY DEF CtlInv, ShownInv
  <2>4. Quiet' <=> Quiet
    BY <1>0, <1>6 DEF Quiet
  <2> QED
    BY <1>0, <1>2, <1>3, <1>6, <2>1, <2>2, <2>3, <2>4 DEF ShownInv
<1>8. LentInv'
  BY <1>0 DEF LentInv
<1> QED
  BY <1>0, <1>4, <1>5, <1>6, <1>7, <1>8, NothingDropped DEF CtlInv

(* close() releases what is still kept.                                    *)
LEMMA CloseReleasesInv ==
    ASSUME CtlInv, CloseReleases
    PROVE  CtlInv' /\ Accounted
<1>0. /\ CtlTypeOK /\ caller.at = "closing" /\ caller.closes > 1
      /\ Fault(\A s \in Sessions : ~Live(s)) /\ ReleaseFrom(caller.closes - 1, FALSE)
      /\ UNCHANGED <<stopSet, lease, kept, job, desk>>
  BY DEF CtlInv, CloseReleases
<1>1. caller.closes - 1 \in 1..2 /\ stopSet' \in BOOLEAN
  BY <1>0, CtlTypes DEF CallerType
<1>2. faults' \in 0..MaxFaults
  BY <1>0, ControllerAssumption, FaultFacts
<1>3. caller.closes - 1 \in 0..3 /\ caller.closes - 1 # 0
  BY <1>1
<1> QED
  BY <1>0, <1>1, <1>2, <1>3, ReleaseFromInv

(* The process exits.                                                      *)
LEMMA ExitInv ==
    ASSUME CtlInv, Exit
    PROVE  CtlInv' /\ Accounted
<1>0. /\ CtlTypeOK /\ caller.at = "closing" /\ caller.closes = 1
      /\ caller' = [caller EXCEPT !.at = "gone"]
      /\ UNCHANGED <<status, stopSet, lease, kept, desk, faults>>
  BY DEF CtlInv, Exit
<1>1. caller \in CallerType /\ job \in [Sessions -> JobType]
  BY <1>0, CtlTypes
<1>2. caller' \in CallerType /\ caller'.at = "gone" /\ caller'.closes = 1
  BY <1>0, <1>1 DEF CallerType
<1>3. ASSUME NEW s \in Sessions
      PROVE  /\ job'[s] \in JobType /\ ~Live(s)' /\ job'[s].kind = job[s].kind
             /\ job'[s].refs = job[s].refs /\ job'[s].todo = job[s].todo
             /\ job'[s].at = "over" \/ (job'[s].at = "none" /\ job[s].at = "none")
  <2>1. job[s] \in JobType
    BY <1>1
  <2>2. job'[s] = IF Live(s) THEN [job[s] EXCEPT !.at = "over"] ELSE job[s]
    BY DEF Exit
  <2>3. CASE Live(s)
    <3> DEFINE rec == [job[s] EXCEPT !.at = "over"]
    <3>1. /\ rec \in JobType /\ rec.kind = job[s].kind /\ rec.over = job[s].over /\ rec.at = "over"
          /\ rec.refs = job[s].refs /\ rec.todo = job[s].todo
      BY <2>1 DEF JobType, JobPlaces
    <3>2. job'[s] = rec
      BY <2>2, <2>3
    <3> HIDE DEF rec
    <3> QED
      BY <3>1, <3>2 DEF Live
  <2>4. CASE ~Live(s)
    <3>1. job'[s] = job[s]
      BY <2>2, <2>4
    <3>2. job[s].at = "none" \/ job[s].at = "over"
      BY <2>4 DEF Live
    <3> QED
      BY <2>1, <3>1, <3>2 DEF Live
  <2> QED
    BY <2>3, <2>4
<1>4. job' \in [Sessions -> JobType]
  <2>1. job' = [s \in Sessions |-> job'[s]]
    BY DEF Exit
  <2> QED
    BY <1>3, <2>1
<1>5. CtlTypeOK'
  <2>1. /\ stopSet' \in BOOLEAN /\ lease' \in BOOLEAN /\ kept' \in [Lent -> 0..MaxSessions]
        /\ desk' \in [Lent -> 0..MaxSessions] /\ faults' \in 0..MaxFaults
        /\ status' \in Busy \cup {"idle", "failed"}
    BY <1>0, CtlTypes
  <2> QED
    BY <1>2, <1>4, <2>1 DEF CtlTypeOK, CallerType, JobType, JobPlaces
<1>6. CallerInv'
  BY <1>2 DEF CallerInv
<1>7. ShownInv' /\ LentInv'
  BY <1>0, <1>2 DEF ShownInv, CtlInv, LentInv
<1>8. ASSUME NEW s \in Sessions PROVE SessionInv(s)'
  <2>1. SessionInv(s)
    BY DEF CtlInv
  <2> QED
    BY <1>3, <2>1 DEF SessionInv
<1> QED
  BY <1>2, <1>5, <1>6, <1>7, <1>8 DEF CtlInv, Accounted

-----------------------------------------------------------------------------
(* Nothing is taken and nothing runs at first.                             *)
LEMMA CtlInitInv ==
    ASSUME CtlInit
    PROVE  CtlInv
<1> DEFINE rec == [NewJob("none", FALSE, FALSE) EXCEPT !.at = "none"]
<1>0. "none" \in JobPlaces /\ <<>> \in Seq(Lent) /\ <<>> \in Seq(Lent \cup {"service"})
  BY DEF JobPlaces
<1>1. /\ rec \in JobType /\ rec.kind = "none" /\ rec.at = "none" /\ rec.refs = {}
  BY <1>0 DEF NewJob, JobType, JobPlaces
<1>2. job = [s \in Sessions |-> rec]
  BY DEF CtlInit
<1> HIDE DEF rec
<1>3. /\ status = "idle" /\ stopSet = FALSE /\ lease = FALSE /\ caller = Free /\ faults = 0
      /\ kept = [r \in Lent |-> 0] /\ desk = [r \in Lent |-> 0]
  BY DEF CtlInit
<1>4. Free \in CallerType /\ Free.at = "free"
  BY <1>0 DEF Free, CallerType
<1>5. \A s \in Sessions : ~Live(s) /\ SessionInv(s)
  BY <1>1, <1>2 DEF Live, SessionInv
<1>6. CtlTypeOK
  <2>1. 0 \in 0..MaxSessions /\ 0 \in 0..MaxFaults
    BY ControllerAssumption DEF ControllerAssumption
  <2>2. job \in [Sessions -> JobType]
    BY <1>1, <1>2
  <2> QED
    BY <1>3, <1>4, <2>1, <2>2, CtlTypes
<1>7. CallerInv /\ ShownInv /\ LentInv
  BY <1>3, <1>4, <1>5 DEF CallerInv, ShownInv, LentInv
<1> QED
  BY <1>5, <1>6, <1>7 DEF CtlInv

(* Every step keeps the invariant and accounts for what it drops.          *)
LEMMA CtlStepInv ==
    ASSUME CtlInv, [CtlNext]_ctlvars
    PROVE  CtlInv' /\ Accounted
<1>1. CASE UNCHANGED ctlvars
  <2>1. CtlInv'
    BY <1>1 DEF ctlvars, CtlInv, CtlTypeOK, CallerInv, LentInv, ShownInv, Quiet, SessionInv, Live
  <2> QED
    BY <1>1, <2>1, NothingDropped DEF ctlvars
<1>2. ASSUME NEW s \in Sessions, CtlStart(s) \/ PrepareBegins(s) PROVE CtlInv' /\ Accounted
  BY <1>2, StartInv, PrepareInv
<1>3. ASSUME NEW s \in Sessions, JobStep(s) PROVE CtlInv' /\ Accounted
  <2>1. ASSUME NEW ok \in BOOLEAN,
               Connect(s, ok) \/ StartCapture(s, ok) \/ StartSession(s, ok) \/ EndStep(s, ok)
        PROVE  CtlInv' /\ Accounted
    BY <2>1, ConnectInv, StartCaptureInv, StartSessionInv, EndStepInv
  <2>2. ASSUME NEW o \in Outcomes, TakeScreen(s, o) \/ TakeSound(s, o)
        PROVE  CtlInv' /\ Accounted
    BY <2>2, TakeScreenInv, TakeSoundInv
  <2>3. CASE Poll(s) \/ Report(s)
    BY <2>3, PollInv, ReportInv
  <2> QED
    BY <1>3, <2>1, <2>2, <2>3 DEF JobStep
<1>4. CASE CtlStop \/ CtlClose
  <2>1. 0 \in 0..3 /\ 3 \in 0..3
    OBVIOUS
  <2> QED
    BY <1>4, <2>1, StopInv DEF CtlStop, CtlClose
<1>5. CASE Activate \/ CtlRelease \/ ReleaseEnds \/ CloseReleases \/ Exit
  BY <1>5, ActivateInv, ReleaseInv, ReleaseEndsInv, CloseReleasesInv, ExitInv
<1>6. ASSUME NEW ok \in BOOLEAN, ReleaseRestores(ok) PROVE CtlInv' /\ Accounted
  BY <1>6, ReleaseRestoresInv
<1> QED
  BY <1>1, <1>2, <1>3, <1>4, <1>5, <1>6 DEF CtlNext

(* A session whose thread is at work, or a capture that is lent, is shown   *)
(* as starting, running or stopping, and there is only one                  *)
(* (ScreenController.start, stop, prepare_webrtc_capture,                   *)
(* release_webrtc_capture, _serve), but for a session that is started over  *)
(* a failure: for any number of sessions and of failing calls.              *)
THEOREM LiveIsShown == CtlSpec => []LiveSessionIsShown
<1>1. CtlInit => CtlInv
  BY CtlInitInv
<1>2. CtlInv /\ [CtlNext]_ctlvars => CtlInv'
  BY CtlStepInv
<1>3. CtlInv => LiveSessionIsShown
  <2> SUFFICES ASSUME CtlInv, caller.at \notin {"releasing", "closing", "gone"}
               PROVE  /\ Quiet => /\ \A s \in Sessions : Live(s) => status \in Busy
                                  /\ \A s, p \in Sessions : Live(s) /\ Live(p) => s = p
                      /\ lease /\ status = "idle" => \E s \in Sessions : job[s].over
    BY DEF LiveSessionIsShown, Quiet
  <2>1. caller.at \in {"free", "preparing"}
    BY CtlTypes DEF CtlInv, CallerType
  <2>2. caller.closes = 0
    BY <2>1, FreeFacts DEF CtlInv, CallerInv
  <2> QED
    BY <2>2 DEF CtlInv, ShownInv
<1> QED
  BY <1>1, <1>2, <1>3, PTL DEF CtlSpec

(* And what is left taken with nobody to hand it back is left only in the   *)
(* step that shows a failure, by the exit of the process, or by a prepare   *)
(* over what an earlier failure had kept (D1Session.stop, assemble,         *)
(* prepare_webrtc_capture, release_webrtc_capture).                         *)
THEOREM NothingLeftSilently == CtlSpec => NothingIsLeftSilently
<1>1. CtlInit => CtlInv
  BY CtlInitInv
<1>2. CtlInv /\ [CtlNext]_ctlvars => CtlInv'
  BY CtlStepInv
<1>3. CtlInv /\ [CtlNext]_ctlvars =>
        [Orphans' \ Orphans # {} =>
           status' = "failed" \/ caller'.at = "gone" \/ Overwrites]_ctlvars
  BY CtlStepInv DEF Accounted
<1> QED
  BY <1>1, <1>2, <1>3, PTL DEF CtlSpec, NothingIsLeftSilently
=============================================================================
