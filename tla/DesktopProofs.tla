--------------------------- MODULE DesktopProofs ---------------------------
(* What runs on the owner's computer: the owner of the screens never loses *)
(* the way back, for any outputs, settings, rules on configurations and    *)
(* number of changes; check accepts exactly what the owner can use; and no *)
(* FFmpeg process is lost, for any number of threads, process groups,      *)
(* failures and interrupts.                                                *)
EXTENDS MCDesktop, TLAPS, FiniteSetTheorems

LayoutInv == TypeOK /\ WayBack

(* The value of _previous when nothing awaits.                             *)
LEMMA NoChangeType ==
    NoChange \in [awaiting : BOOLEAN, back : [Outputs -> Settings]] /\ ~NoChange.awaiting
<1>1. Initial \in [Outputs -> Settings]
  BY DisplayManagerAssumption
<1> QED
  BY <1>1 DEF NoChange

(* It holds when the application starts.                                   *)
LEMMA LayoutInvInit == Init => LayoutInv
<1> SUFFICES ASSUME Init PROVE LayoutInv
  OBVIOUS
<1>1. Initial \in [Outputs -> Settings] /\ MaxChanges \in Nat \ {0}
  BY DisplayManagerAssumption
<1>2. TypeOK
  <2>1. timers \in [Changes -> {"none", "running", "fired", "over"}]
    BY DEF Init
  <2>2. previous \in [awaiting : BOOLEAN, back : [Outputs -> Settings]]
    BY NoChangeType DEF Init
  <2>3. pending \in 0..MaxChanges /\ change \in 0..MaxChanges
    BY <1>1 DEF Init
  <2> QED
    BY <1>1, <2>1, <2>2, <2>3 DEF Init, TypeOK
<1>3. WayBack
  BY NoChangeType DEF Init, WayBack
<1> QED
  BY <1>2, <1>3 DEF LayoutInv

(* What xrandr sets stays a configuration.                                 *)
LEMMA SetToType ==
    ASSUME TypeOK, NEW config \in [Outputs -> Settings]
    PROVE  /\ SetTo(config) \in [Outputs -> Settings]
           /\ PartlySetTo(config) \subseteq [Outputs -> Settings]
  BY DEF TypeOK, SetTo, PartlySetTo

(* Cancelling leaves a timer, or the absence of one.                       *)
LEMMA CancelType ==
    ASSUME TypeOK, CancelTimer
    PROVE  /\ pending' \in 0..MaxChanges
           /\ timers' \in [Changes -> {"none", "running", "fired", "over"}]
  BY DisplayManagerAssumption DEF TypeOK, CancelTimer

(* A restore, complete or not, keeps the way back; one by a process that   *)
(* quits does so if it is complete, or says that it is lost.               *)
LEMMA RestoreKeeps ==
    ASSUME LayoutInv, previous.awaiting, UNCHANGED <<known, accepted>>,
           \/ Restored /\ UNCHANGED lost
           \/ NotRestored /\ UNCHANGED lost /\ (bridge' = "closed" => bridge = "closed")
           \/ NotRestored /\ lost' = TRUE
    PROVE  /\ screens' \in [Outputs -> Settings]
           /\ previous' \in [awaiting : BOOLEAN, back : [Outputs -> Settings]]
           /\ failed' \in BOOLEAN /\ lost' \in BOOLEAN
           /\ WayBack'
<1> USE DEF LayoutInv
<1>1. /\ previous \in [awaiting : BOOLEAN, back : [Outputs -> Settings]]
      /\ previous.back \in [Outputs -> Settings]
      /\ failed \in BOOLEAN /\ lost \in BOOLEAN
  BY DEF TypeOK
<1>2. CASE Restored /\ UNCHANGED lost
  <2>1. screens' = SetTo(previous.back) /\ previous' = NoChange /\ failed' = failed
    BY <1>2 DEF Restored
  <2>3. \A o \in known : screens'[o] = previous.back[o]
    BY <2>1 DEF SetTo, TypeOK
  <2> QED
    BY <1>1, <2>1, <2>3, NoChangeType, SetToType DEF WayBack
<1>3. CASE NotRestored /\ UNCHANGED lost /\ (bridge' = "closed" => bridge = "closed")
  BY <1>1, <1>3, SetToType DEF NotRestored, WayBack
<1>4. CASE NotRestored /\ lost' = TRUE
  BY <1>1, <1>4, SetToType DEF NotRestored, WayBack
<1> QED
  BY <1>2, <1>3, <1>4

(* Every step preserves it.                                                *)
LEMMA LayoutInvStep == LayoutInv /\ [Next]_vars => LayoutInv'
<1> USE DisplayManagerAssumption
<1> SUFFICES ASSUME LayoutInv, [Next]_vars PROVE LayoutInv'
  OBVIOUS
<1>0. TypeOK /\ WayBack
  BY DEF LayoutInv
<1>1. ASSUME NEW config \in [Outputs -> Settings], Apply(config) PROVE LayoutInv'
  <2>1. /\ screens' = SetTo(config) /\ screens' \in [Outputs -> Settings]
        /\ previous' = [awaiting |-> TRUE, back |-> screens]
        /\ ~previous.awaiting /\ bridge' = "answer"
        /\ UNCHANGED <<known, accepted, lost>>
    BY <1>0, <1>1, SetToType DEF Apply
  <2>2. TypeOK'
    <3>1. change + 1 \in 0..MaxChanges
      BY <1>0, <1>1 DEF Apply, TypeOK
    <3>2. /\ pending' = change + 1 /\ change' = change + 1
          /\ timers' = [timers EXCEPT ![change + 1] = "running"]
          /\ notice' = FALSE /\ bridge' = "answer" /\ failed' = FALSE /\ UNCHANGED early
      BY <1>1 DEF Apply
    <3>3. timers' \in [Changes -> {"none", "running", "fired", "over"}]
      BY <1>0, <3>2 DEF TypeOK
    <3>4. previous' \in [awaiting : BOOLEAN, back : [Outputs -> Settings]]
      BY <1>0, <2>1 DEF TypeOK
    <3> QED
      BY <1>0, <2>1, <3>1, <3>2, <3>3, <3>4 DEF TypeOK
  <2>3. WayBack'
    BY <1>0, <2>1 DEF WayBack
  <2> QED
    BY <2>2, <2>3 DEF LayoutInv
<1>2. ASSUME NEW config \in [Outputs -> Settings], ApplyFails(config) PROVE LayoutInv'
  <2>1. screens' \in [Outputs -> Settings]
    BY <1>0, <1>2, SetToType DEF ApplyFails
  <2>2. TypeOK'
    BY <1>0, <1>2, <2>1 DEF ApplyFails, TypeOK
  <2>3. WayBack'
    BY <1>2 DEF ApplyFails, WayBack
  <2> QED
    BY <2>2, <2>3 DEF LayoutInv
<1>3. CASE Confirm
  <2>1. TypeOK'
    BY <1>0, <1>3, NoChangeType, CancelType DEF Confirm, TypeOK
  <2>2. WayBack'
    BY <1>3, NoChangeType DEF Confirm, WayBack
  <2> QED
    BY <2>1, <2>2 DEF LayoutInv
<1>4. CASE Revert
  <2>1. /\ screens' \in [Outputs -> Settings]
        /\ previous' \in [awaiting : BOOLEAN, back : [Outputs -> Settings]]
        /\ failed' \in BOOLEAN /\ lost' \in BOOLEAN
        /\ WayBack'
    <3>1. CASE ~previous.awaiting
      BY <1>0, <1>4, <3>1 DEF Revert, TypeOK, WayBack
    <3>2. CASE previous.awaiting
      BY <1>4, <3>2, RestoreKeeps DEF Revert
    <3> QED
      BY <3>1, <3>2
  <2>2. TypeOK'
    BY <1>0, <1>4, <2>1, CancelType DEF Revert, TypeOK
  <2> QED
    BY <2>1, <2>2 DEF LayoutInv
<1>5. CASE Close
  <2>1. /\ screens' \in [Outputs -> Settings]
        /\ previous' \in [awaiting : BOOLEAN, back : [Outputs -> Settings]]
        /\ failed' \in BOOLEAN /\ lost' \in BOOLEAN
        /\ WayBack'
    <3>1. CASE ~previous.awaiting
      BY <1>0, <1>5, <3>1 DEF Close, TypeOK, WayBack
    <3>2. CASE previous.awaiting
      BY <1>5, <3>2, RestoreKeeps DEF Close
    <3> QED
      BY <3>1, <3>2
  <2>2. TypeOK'
    BY <1>0, <1>5, <2>1, CancelType DEF Close, TypeOK
  <2> QED
    BY <2>1, <2>2 DEF LayoutInv
<1>6. ASSUME NEW n \in Changes, Fire(n) PROVE LayoutInv'
  BY <1>0, <1>6 DEF Fire, LayoutInv, TypeOK, WayBack
<1>7. ASSUME NEW n \in Changes, Expire(n) PROVE LayoutInv'
  <2>1. /\ screens' \in [Outputs -> Settings]
        /\ previous' \in [awaiting : BOOLEAN, back : [Outputs -> Settings]]
        /\ failed' \in BOOLEAN /\ lost' \in BOOLEAN
        /\ WayBack'
    <3>1. CASE ~previous.awaiting
      BY <1>0, <1>7, <3>1 DEF Expire, TypeOK, WayBack
    <3>2. CASE previous.awaiting
      BY <1>7, <3>2, RestoreKeeps DEF Expire
    <3> QED
      BY <3>1, <3>2
  <2>2. pending' \in 0..MaxChanges
    BY <1>0, <1>7 DEF Expire, TypeOK
  <2>3. notice' \in BOOLEAN
    BY <1>0, <1>7 DEF Expire, TypeOK
  <2>4. early' \in BOOLEAN
    BY <1>0, <1>7 DEF Expire, TypeOK
  <2>5. TypeOK'
    BY <1>0, <1>7, <2>1, <2>2, <2>3, <2>4 DEF Expire, TypeOK
  <2> QED
    BY <2>1, <2>5 DEF LayoutInv
<1>8. CASE GetLayout \/ Answer
  BY <1>0, <1>8 DEF GetLayout, Answer, LayoutInv, TypeOK, WayBack
<1>9. ASSUME NEW o \in known, Unplug(o) PROVE LayoutInv'
  BY <1>0, <1>9 DEF Unplug, LayoutInv, TypeOK, WayBack
<1>10. CASE UNCHANGED vars
  BY <1>0, <1>10 DEF vars, LayoutInv, TypeOK, WayBack
<1> QED
  BY <1>1, <1>2, <1>3, <1>4, <1>5, <1>6, <1>7, <1>8, <1>9, <1>10 DEF Next

-----------------------------------------------------------------------------
(* DisplayManager keeps its types.                                         *)
THEOREM LayoutTypeCorrect == Spec => []TypeOK
<1>1. LayoutInv => TypeOK
  BY DEF LayoutInv
<1> QED
  BY <1>1, LayoutInvInit, LayoutInvStep, PTL DEF Spec

(* The way back is lost only where an error says so (lost): not by a late  *)
(* timer, not by a restore that fails halfway when a change expires or is  *)
(* reverted, not by an output that goes (_expire, revert, close).          *)
THEOREM WayBackIsKept == Spec => []WayBack
<1>1. LayoutInv => WayBack
  BY DEF LayoutInv
<1> QED
  BY <1>1, LayoutInvInit, LayoutInvStep, PTL DEF Spec

-----------------------------------------------------------------------------
(* The timer of the change that awaits.                                    *)

(* A change that awaits has its own timer, running or waiting for the      *)
(* lock, unless a restore of it failed.                                    *)
TimerAwaits ==
    previous.awaiting /\ ~failed => change \in Changes /\ timers[change] \in {"running", "fired"}

(* A restore, complete or not, leaves nothing that awaits a timer.         *)
LEMMA RestoreEndsTheWait ==
    ASSUME Restored \/ NotRestored
    PROVE  ~(previous.awaiting /\ ~failed)'
  BY NoChangeType DEF Restored, NotRestored

(* A change whose timer waits for the lock no more awaits: it was reverted, *)
(* or its restore failed.                                                  *)
LEMMA ExpiryEndsTheWait ==
    ASSUME NEW n \in Changes, Expire(n)
    PROVE  ~(previous.awaiting /\ ~failed)'
<1>1. CASE previous.awaiting
  BY <1>1, RestoreEndsTheWait DEF Expire
<1>2. CASE ~previous.awaiting
  BY <1>2 DEF Expire
<1> QED
  BY <1>1, <1>2

(* Every step preserves it: what takes the timer away ends the wait.       *)
LEMMA TimerAwaitsStep == TypeOK /\ TimerAwaits /\ [Next]_vars => TimerAwaits'
<1> SUFFICES ASSUME TypeOK, TimerAwaits, [Next]_vars PROVE TimerAwaits'
  OBVIOUS
<1>1. ASSUME NEW config \in [Outputs -> Settings], Apply(config) PROVE TimerAwaits'
  <2>1. change + 1 \in Changes
    BY <1>1, DisplayManagerAssumption DEF Apply, Changes, TypeOK
  <2>2. change' = change + 1 /\ timers' = [timers EXCEPT ![change + 1] = "running"]
    BY <1>1 DEF Apply
  <2>3. timers'[change'] = "running"
    BY <2>1, <2>2 DEF TypeOK
  <2> QED
    BY <2>1, <2>2, <2>3 DEF TimerAwaits
<1>2. ASSUME NEW config \in [Outputs -> Settings], ApplyFails(config) PROVE TimerAwaits'
  BY <1>2 DEF ApplyFails, TimerAwaits
<1>3. CASE Confirm
  BY <1>3, NoChangeType DEF Confirm, TimerAwaits
<1>4. CASE Revert
  <2>1. CASE previous.awaiting
    BY <1>4, <2>1, RestoreEndsTheWait DEF Revert, TimerAwaits
  <2>2. CASE ~previous.awaiting
    BY <1>4, <2>2 DEF Revert, TimerAwaits
  <2> QED
    BY <2>1, <2>2
<1>5. CASE Close
  <2>1. CASE previous.awaiting
    BY <1>5, <2>1, RestoreEndsTheWait DEF Close, TimerAwaits
  <2>2. CASE ~previous.awaiting
    BY <1>5, <2>2 DEF Close, TimerAwaits
  <2> QED
    BY <2>1, <2>2
<1>6. ASSUME NEW n \in Changes, Fire(n) PROVE TimerAwaits'
  BY <1>6 DEF Fire, TimerAwaits, TypeOK
<1>7. ASSUME NEW n \in Changes, Expire(n) PROVE TimerAwaits'
  BY <1>7, ExpiryEndsTheWait DEF TimerAwaits
<1>8. CASE GetLayout \/ Answer
  BY <1>8 DEF GetLayout, Answer, TimerAwaits
<1>9. ASSUME NEW o \in known, Unplug(o) PROVE TimerAwaits'
  BY <1>9 DEF Unplug, TimerAwaits
<1>10. CASE UNCHANGED vars
  BY <1>10 DEF vars, TimerAwaits
<1> QED
  BY <1>1, <1>2, <1>3, <1>4, <1>5, <1>6, <1>7, <1>8, <1>9, <1>10 DEF Next

(* A change that the owner does not keep is never left without the timer   *)
(* that reverts it: no cancelled timer is the one of a change that awaits,  *)
(* and a late one of an earlier change does not take its place without     *)
(* reverting (apply, confirm, revert, close, _expire). This is what        *)
(* RevertsByItself needs of the states.                                    *)
THEOREM TheTimerIsSet == Spec => []TimerAwaits
<1>1. Init => TimerAwaits
  BY NoChangeType DEF Init, TimerAwaits
<1> QED
  BY <1>1, TimerAwaitsStep, LayoutTypeCorrect, PTL DEF Spec

-----------------------------------------------------------------------------
(* Process groups: what stop_process does to them.                         *)

(* A stop begins for one group; the others stay as they are.               *)
LEMMA StopProcessFacts ==
    ASSUME GroupTypeOK, NEW t \in Stewards, NEW g \in Groups, StopProcess(t, g)
    PROVE  /\ GroupTypeOK' /\ UNCHANGED <<leader, member>>
           /\ stops'[t].group = g /\ stops'[t].at = "look"
           /\ \A u \in Stewards : u # t => stops'[u] = stops[u]
<1>1. [group |-> g, at |-> "look"] \in
        [group : Groups \cup {"none"}, at : {"no", "look", "term", "kill", "gone", "alive", "error"}]
  OBVIOUS
<1> QED BY <1>1 DEF GroupTypeOK, StopProcess

(* A stop that is over is forgotten.                                       *)
LEMMA StopForgottenFacts ==
    ASSUME GroupTypeOK, NEW t \in Stewards, StopForgotten(t), UNCHANGED <<leader, member>>
    PROVE  /\ GroupTypeOK' /\ stops'[t].at = "no"
           /\ \A u \in Stewards : u # t => stops'[u] = stops[u]
<1>1. /\ NoStop \in [group : Groups \cup {"none"},
                     at : {"no", "look", "term", "kill", "gone", "alive", "error"}]
      /\ NoStop.at = "no"
  BY DEF NoStop
<1> HIDE DEF NoStop
<1> QED BY <1>1 DEF GroupTypeOK, StopForgotten

(* A stop moves to its next place, for the same group.                     *)
LEMMA StopAtFacts ==
    ASSUME NEW t \in Stewards, NEW p \in {"term", "kill", "gone", "alive", "error"}, StopAt(t, p),
           stops \in [Stewards -> [group : Groups \cup {"none"},
                              at : {"no", "look", "term", "kill", "gone", "alive", "error"}]]
    PROVE  /\ stops' \in [Stewards -> [group : Groups \cup {"none"},
                              at : {"no", "look", "term", "kill", "gone", "alive", "error"}]]
           /\ stops'[t].group = stops[t].group /\ stops'[t].at = p
           /\ \A u \in Stewards : u # t => stops'[u] = stops[u]
<1> DEFINE s == [stops[t] EXCEPT !.at = p]
<1>1. stops' = [stops EXCEPT ![t] = s]
  BY DEF StopAt
<1>2. /\ s \in [group : Groups \cup {"none"},
                at : {"no", "look", "term", "kill", "gone", "alive", "error"}]
      /\ s.group = stops[t].group /\ s.at = p
  OBVIOUS
<1> HIDE DEF s
<1> QED BY <1>1, <1>2

(* One step of stop_process: it reaps nothing that still runs.             *)
LEMMA StopStepFacts ==
    ASSUME GroupTypeOK, NEW t \in Stewards, stops[t].group \in Groups, StopSteps(t) \/ StopFails(t)
    PROVE  /\ GroupTypeOK' /\ UNCHANGED member
           /\ stops[t].at \in {"look", "term", "kill"} /\ stops'[t].group = stops[t].group
           /\ \A u \in Stewards : u # t => stops'[u] = stops[u]
           /\ \A g \in Groups : leader'[g] = leader[g] \/ (leader'[g] = "free" /\ ~GroupAlive(g))
           /\ stops'[t].at = "gone" => leader'[stops[t].group] = "free"
<1> DEFINE g == stops[t].group
<1>1. /\ g \in Groups /\ leader \in [Groups -> {"free", "runs", "exited"}]
      /\ member \in [Groups -> BOOLEAN]
      /\ stops \in [Stewards -> [group : Groups \cup {"none"},
                              at : {"no", "look", "term", "kill", "gone", "alive", "error"}]]
  BY DEF GroupTypeOK
<1> HIDE DEF g
<1>2. PICK p \in {"term", "kill", "gone", "alive", "error"} :
        /\ StopAt(t, p) /\ UNCHANGED member /\ stops[t].at \in {"look", "term", "kill"}
        /\ \/ p # "gone" /\ UNCHANGED leader
           \/ p = "gone" /\ ~GroupAlive(g) /\ ReleaseGroup(g)
  BY <1>1 DEF StopSteps, StopLooks, StopSeesTheEnd, GraceEnds, StopFails, g
<1>3. /\ stops' \in [Stewards -> [group : Groups \cup {"none"},
                              at : {"no", "look", "term", "kill", "gone", "alive", "error"}]]
      /\ stops'[t].group = stops[t].group /\ stops'[t].at = p
      /\ \A u \in Stewards : u # t => stops'[u] = stops[u]
  BY <1>1, <1>2, StopAtFacts
<1>4. /\ leader' \in [Groups -> {"free", "runs", "exited"}]
      /\ \A k \in Groups : leader'[k] = leader[k] \/ (leader'[k] = "free" /\ ~GroupAlive(k))
      /\ p = "gone" => leader'[g] = "free"
  BY <1>1, <1>2 DEF ReleaseGroup
<1>5. GroupTypeOK'
  BY <1>1, <1>2, <1>3, <1>4 DEF GroupTypeOK
<1> QED BY <1>2, <1>3, <1>4, <1>5 DEF g

(* A group starts only where none was.                                     *)
LEMMA StartGroupFacts ==
    ASSUME GroupTypeOK, NEW g \in Groups, StartGroup(g)
    PROVE  /\ GroupTypeOK' /\ UNCHANGED stops /\ leader[g] = "free" /\ leader'[g] = "runs"
           /\ \A k \in Groups : k # g => leader'[k] = leader[k] /\ member'[k] = member[k]
<1>1. PICK helper \in BOOLEAN : member' = [member EXCEPT ![g] = helper]
  BY DEF StartGroup
<1>2. member' \in [Groups -> BOOLEAN] /\ \A k \in Groups : k # g => member'[k] = member[k]
  BY <1>1 DEF GroupTypeOK
<1> QED BY <1>2 DEF GroupTypeOK, StartGroup, Unreaped

(* Processes that end by themselves start nothing, and leave their leader  *)
(* to be reaped.                                                           *)
LEMMA GroupEndsFacts ==
    ASSUME GroupTypeOK, NEW g \in Groups, GroupEnds(g)
    PROVE  /\ GroupTypeOK' /\ UNCHANGED stops
           /\ \A k \in Groups : /\ leader'[k] = "free" <=> leader[k] = "free"
                                /\ member'[k] => member[k]
                                /\ GroupAlive(k)' => GroupAlive(k)
BY DEF GroupTypeOK, GroupEnds, GroupAlive

-----------------------------------------------------------------------------
(* The live encoder.                                                       *)

(* A release holds the stream's lock, on a stream that is registered.      *)
ReleaseIsLocked ==
    /\ NothingIsReleasedTwice
    /\ \A t \in Stewards : stopLock = t => encoder[t] \in {"release", "rm"}

(* A start has the stream for itself, and registers it before it waits.    *)
StartIsAlone ==
    \A t \in Stewards : encoder[t] \in Starting =>
        /\ ~freed
        /\ encoder[t] = "await" => registered
        /\ \A u \in Stewards : u # t => encoder[u] = "out"

(* A process is attached while it may run, and to a stream somebody knows. *)
ProcessIsAttached ==
    /\ ~attached => leader[LiveGroup] = "free"
    /\ attached => registered \/ \E t \in Stewards : encoder[t] \in Starting
    /\ \A t \in Stewards : encoder[t] \in {"run", "rm", "abandon_rm"} => ~attached

(* stop_process runs for an abandoned start or a release, on the stream's  *)
(* group; once it says "gone", no process is left.                         *)
StopIsOurs ==
    \A t \in Stewards : stops[t].at # "no" =>
        /\ encoder[t] \in {"abandon", "release"} /\ stops[t].group = LiveGroup
        /\ stops[t].at = "gone" => leader[LiveGroup] = "free"

LiveInv ==
    LiveTypeOK /\ StreamIsTracked /\ ReleaseIsLocked /\ StartIsAlone /\ ProcessIsAttached
    /\ StopIsOurs

(* One steward moves.                                                      *)
LEMMA ToFacts ==
    ASSUME LiveTypeOK, NEW t \in Stewards,
           NEW p \in Starting \cup {"out", "lock", "release", "rm"}, To(t, p)
    PROVE  /\ encoder' \in [Stewards -> Starting \cup {"out", "lock", "release", "rm"}]
           /\ encoder'[t] = p
           /\ \A u \in Stewards : u # t => encoder'[u] = encoder[u]
BY DEF LiveTypeOK, To

(* The live encoder's group is one of the groups.                          *)
LEMMA LiveGroupTypes ==
    ASSUME LiveTypeOK
    PROVE  /\ GroupTypeOK /\ LiveGroup \in Groups /\ "nobody" \notin Stewards
           /\ Unreaped(LiveGroup) <=> leader[LiveGroup] # "free"
BY LiveEncoderAssumption, ProcessGroupAssumption DEF LiveTypeOK, GroupTypeOK, Unreaped

(* NewStream keeps the invariant of the live encoder.                      *)
LEMMA NewStreamLive ==
    ASSUME LiveInv, NEW t \in Stewards, NEW pr, NEW c, NewStream(t, pr, c)
    PROVE  LiveInv'
<1>1. LiveTypeOK /\ GroupTypeOK /\ LiveGroup \in Groups /\ "nobody" \notin Stewards
  BY LiveGroupTypes DEF LiveInv
<1>2. PICK p \in {"run"} : To(t, p)
  BY DEF NewStream
<1>3. /\ encoder' \in [Stewards -> Starting \cup {"out", "lock", "release", "rm"}]
      /\ encoder'[t] = p
      /\ \A u \in Stewards : u # t => encoder'[u] = encoder[u]
  <2>1. p \in Starting \cup {"out", "lock", "release", "rm"}
    BY DEF Starting
  <2> QED BY <1>1, <1>2, <2>1, ToFacts
<1>4. GroupTypeOK' /\ UNCHANGED <<leader, member, stops>>
  BY <1>1 DEF NewStream, pvars, GroupTypeOK
<1>5. LiveTypeOK'
  BY <1>1, <1>3, <1>4 DEF NewStream, Handle, Trouble, LiveTypeOK
<1>6. StreamIsTracked'
  BY <1>1, <1>2, <1>3, <1>4 DEF NewStream, Handle, Trouble, LiveInv, LiveTypeOK, StreamIsTracked, ReleaseIsLocked,
     NothingIsReleasedTwice, StartIsAlone, ProcessIsAttached, StopIsOurs, Starting, Unreaped
<1>7. ReleaseIsLocked'
  BY <1>1, <1>2, <1>3, <1>4 DEF NewStream, Handle, Trouble, LiveInv, LiveTypeOK, StreamIsTracked, ReleaseIsLocked,
     NothingIsReleasedTwice, StartIsAlone, ProcessIsAttached, StopIsOurs, Starting, Unreaped
<1>8. StartIsAlone'
  BY <1>1, <1>2, <1>3, <1>4 DEF NewStream, Handle, Trouble, LiveInv, LiveTypeOK, StreamIsTracked, ReleaseIsLocked,
     NothingIsReleasedTwice, StartIsAlone, ProcessIsAttached, StopIsOurs, Starting, Unreaped
<1>9. ProcessIsAttached'
  BY <1>1, <1>2, <1>3, <1>4 DEF NewStream, Handle, Trouble, LiveInv, LiveTypeOK, StreamIsTracked, ReleaseIsLocked,
     NothingIsReleasedTwice, StartIsAlone, ProcessIsAttached, StopIsOurs, Starting, Unreaped
<1>10. StopIsOurs'
  BY <1>1, <1>2, <1>3, <1>4 DEF NewStream, Handle, Trouble, LiveInv, LiveTypeOK, StreamIsTracked, ReleaseIsLocked,
     NothingIsReleasedTwice, StartIsAlone, ProcessIsAttached, StopIsOurs, Starting, Unreaped
<1> QED BY <1>5, <1>6, <1>7, <1>8, <1>9, <1>10 DEF LiveInv

(* RunLive keeps the invariant of the live encoder.                        *)
LEMMA RunLiveLive ==
    ASSUME LiveInv, NEW t \in Stewards, RunLive(t)
    PROVE  LiveInv'
<1>1. LiveTypeOK /\ GroupTypeOK /\ LiveGroup \in Groups /\ "nobody" \notin Stewards
  BY LiveGroupTypes DEF LiveInv
<1>2. PICK p \in {"register"} : To(t, p)
  BY DEF RunLive
<1>3. /\ encoder' \in [Stewards -> Starting \cup {"out", "lock", "release", "rm"}]
      /\ encoder'[t] = p
      /\ \A u \in Stewards : u # t => encoder'[u] = encoder[u]
  <2>1. p \in Starting \cup {"out", "lock", "release", "rm"}
    BY DEF Starting
  <2> QED BY <1>1, <1>2, <2>1, ToFacts
<1>4. /\ GroupTypeOK' /\ UNCHANGED stops
      /\ leader[LiveGroup] = "free" /\ leader'[LiveGroup] = "runs"
  BY <1>1, StartGroupFacts DEF RunLive
<1>5. LiveTypeOK'
  BY <1>1, <1>3, <1>4 DEF RunLive, Handle, Trouble, LiveTypeOK
<1>6. StreamIsTracked'
  BY <1>1, <1>2, <1>3, <1>4 DEF RunLive, Handle, Trouble, LiveInv, LiveTypeOK, StreamIsTracked, ReleaseIsLocked,
     NothingIsReleasedTwice, StartIsAlone, ProcessIsAttached, StopIsOurs, Starting, Unreaped
<1>7. ReleaseIsLocked'
  BY <1>1, <1>2, <1>3, <1>4 DEF RunLive, Handle, Trouble, LiveInv, LiveTypeOK, StreamIsTracked, ReleaseIsLocked,
     NothingIsReleasedTwice, StartIsAlone, ProcessIsAttached, StopIsOurs, Starting, Unreaped
<1>8. StartIsAlone'
  BY <1>1, <1>2, <1>3, <1>4 DEF RunLive, Handle, Trouble, LiveInv, LiveTypeOK, StreamIsTracked, ReleaseIsLocked,
     NothingIsReleasedTwice, StartIsAlone, ProcessIsAttached, StopIsOurs, Starting, Unreaped
<1>9. ProcessIsAttached'
  BY <1>1, <1>2, <1>3, <1>4 DEF RunLive, Handle, Trouble, LiveInv, LiveTypeOK, StreamIsTracked, ReleaseIsLocked,
     NothingIsReleasedTwice, StartIsAlone, ProcessIsAttached, StopIsOurs, Starting, Unreaped
<1>10. StopIsOurs'
  BY <1>1, <1>2, <1>3, <1>4 DEF RunLive, Handle, Trouble, LiveInv, LiveTypeOK, StreamIsTracked, ReleaseIsLocked,
     NothingIsReleasedTwice, StartIsAlone, ProcessIsAttached, StopIsOurs, Starting, Unreaped
<1> QED BY <1>5, <1>6, <1>7, <1>8, <1>9, <1>10 DEF LiveInv

(* Register keeps the invariant of the live encoder.                       *)
LEMMA RegisterLive ==
    ASSUME LiveInv, NEW t \in Stewards, Register(t)
    PROVE  LiveInv'
<1>1. LiveTypeOK /\ GroupTypeOK /\ LiveGroup \in Groups /\ "nobody" \notin Stewards
  BY LiveGroupTypes DEF LiveInv
<1>2. PICK p \in {"await"} : To(t, p)
  BY DEF Register
<1>3. /\ encoder' \in [Stewards -> Starting \cup {"out", "lock", "release", "rm"}]
      /\ encoder'[t] = p
      /\ \A u \in Stewards : u # t => encoder'[u] = encoder[u]
  <2>1. p \in Starting \cup {"out", "lock", "release", "rm"}
    BY DEF Starting
  <2> QED BY <1>1, <1>2, <2>1, ToFacts
<1>4. GroupTypeOK' /\ UNCHANGED <<leader, member, stops>>
  BY <1>1 DEF Register, pvars, GroupTypeOK
<1>5. LiveTypeOK'
  BY <1>1, <1>3, <1>4 DEF Register, Handle, Trouble, LiveTypeOK
<1>6. StreamIsTracked'
  BY <1>1, <1>2, <1>3, <1>4 DEF Register, Handle, Trouble, LiveInv, LiveTypeOK, StreamIsTracked, ReleaseIsLocked,
     NothingIsReleasedTwice, StartIsAlone, ProcessIsAttached, StopIsOurs, Starting, Unreaped
<1>7. ReleaseIsLocked'
  BY <1>1, <1>2, <1>3, <1>4 DEF Register, Handle, Trouble, LiveInv, LiveTypeOK, StreamIsTracked, ReleaseIsLocked,
     NothingIsReleasedTwice, StartIsAlone, ProcessIsAttached, StopIsOurs, Starting, Unreaped
<1>8. StartIsAlone'
  BY <1>1, <1>2, <1>3, <1>4 DEF Register, Handle, Trouble, LiveInv, LiveTypeOK, StreamIsTracked, ReleaseIsLocked,
     NothingIsReleasedTwice, StartIsAlone, ProcessIsAttached, StopIsOurs, Starting, Unreaped
<1>9. ProcessIsAttached'
  BY <1>1, <1>2, <1>3, <1>4 DEF Register, Handle, Trouble, LiveInv, LiveTypeOK, StreamIsTracked, ReleaseIsLocked,
     NothingIsReleasedTwice, StartIsAlone, ProcessIsAttached, StopIsOurs, Starting, Unreaped
<1>10. StopIsOurs'
  BY <1>1, <1>2, <1>3, <1>4 DEF Register, Handle, Trouble, LiveInv, LiveTypeOK, StreamIsTracked, ReleaseIsLocked,
     NothingIsReleasedTwice, StartIsAlone, ProcessIsAttached, StopIsOurs, Starting, Unreaped
<1> QED BY <1>5, <1>6, <1>7, <1>8, <1>9, <1>10 DEF LiveInv

(* SegmentsReady keeps the invariant of the live encoder.                  *)
LEMMA SegmentsReadyLive ==
    ASSUME LiveInv, NEW t \in Stewards, SegmentsReady(t)
    PROVE  LiveInv'
<1>1. LiveTypeOK /\ GroupTypeOK /\ LiveGroup \in Groups /\ "nobody" \notin Stewards
  BY LiveGroupTypes DEF LiveInv
<1>2. PICK p \in {"out"} : To(t, p)
  BY DEF SegmentsReady
<1>3. /\ encoder' \in [Stewards -> Starting \cup {"out", "lock", "release", "rm"}]
      /\ encoder'[t] = p
      /\ \A u \in Stewards : u # t => encoder'[u] = encoder[u]
  <2>1. p \in Starting \cup {"out", "lock", "release", "rm"}
    BY DEF Starting
  <2> QED BY <1>1, <1>2, <2>1, ToFacts
<1>4. GroupTypeOK' /\ UNCHANGED <<leader, member, stops>>
  BY <1>1 DEF SegmentsReady, pvars, GroupTypeOK
<1>5. LiveTypeOK'
  BY <1>1, <1>3, <1>4 DEF SegmentsReady, Handle, Trouble, LiveTypeOK
<1>6. StreamIsTracked'
  BY <1>1, <1>2, <1>3, <1>4 DEF SegmentsReady, Handle, Trouble, LiveInv, LiveTypeOK, StreamIsTracked, ReleaseIsLocked,
     NothingIsReleasedTwice, StartIsAlone, ProcessIsAttached, StopIsOurs, Starting, Unreaped
<1>7. ReleaseIsLocked'
  BY <1>1, <1>2, <1>3, <1>4 DEF SegmentsReady, Handle, Trouble, LiveInv, LiveTypeOK, StreamIsTracked, ReleaseIsLocked,
     NothingIsReleasedTwice, StartIsAlone, ProcessIsAttached, StopIsOurs, Starting, Unreaped
<1>8. StartIsAlone'
  BY <1>1, <1>2, <1>3, <1>4 DEF SegmentsReady, Handle, Trouble, LiveInv, LiveTypeOK, StreamIsTracked, ReleaseIsLocked,
     NothingIsReleasedTwice, StartIsAlone, ProcessIsAttached, StopIsOurs, Starting, Unreaped
<1>9. ProcessIsAttached'
  BY <1>1, <1>2, <1>3, <1>4 DEF SegmentsReady, Handle, Trouble, LiveInv, LiveTypeOK, StreamIsTracked, ReleaseIsLocked,
     NothingIsReleasedTwice, StartIsAlone, ProcessIsAttached, StopIsOurs, Starting, Unreaped
<1>10. StopIsOurs'
  BY <1>1, <1>2, <1>3, <1>4 DEF SegmentsReady, Handle, Trouble, LiveInv, LiveTypeOK, StreamIsTracked, ReleaseIsLocked,
     NothingIsReleasedTwice, StartIsAlone, ProcessIsAttached, StopIsOurs, Starting, Unreaped
<1> QED BY <1>5, <1>6, <1>7, <1>8, <1>9, <1>10 DEF LiveInv

(* NoSegment keeps the invariant of the live encoder.                      *)
LEMMA NoSegmentLive ==
    ASSUME LiveInv, NEW t \in Stewards, NoSegment(t)
    PROVE  LiveInv'
<1>1. LiveTypeOK /\ GroupTypeOK /\ LiveGroup \in Groups /\ "nobody" \notin Stewards
  BY LiveGroupTypes DEF LiveInv
<1>2. PICK p \in {"abandon"} : To(t, p)
  BY DEF NoSegment
<1>3. /\ encoder' \in [Stewards -> Starting \cup {"out", "lock", "release", "rm"}]
      /\ encoder'[t] = p
      /\ \A u \in Stewards : u # t => encoder'[u] = encoder[u]
  <2>1. p \in Starting \cup {"out", "lock", "release", "rm"}
    BY DEF Starting
  <2> QED BY <1>1, <1>2, <2>1, ToFacts
<1>4. /\ GroupTypeOK' /\ UNCHANGED <<leader, member>>
      /\ stops'[t].group = LiveGroup /\ stops'[t].at = "look"
      /\ \A u \in Stewards : u # t => stops'[u] = stops[u]
  BY <1>1, StopProcessFacts DEF NoSegment
<1>5. LiveTypeOK'
  BY <1>1, <1>3, <1>4 DEF NoSegment, Handle, Trouble, LiveTypeOK
<1>6. StreamIsTracked'
  BY <1>1, <1>2, <1>3, <1>4 DEF NoSegment, Handle, Trouble, LiveInv, LiveTypeOK, StreamIsTracked, ReleaseIsLocked,
     NothingIsReleasedTwice, StartIsAlone, ProcessIsAttached, StopIsOurs, Starting, Unreaped
<1>7. ReleaseIsLocked'
  BY <1>1, <1>2, <1>3, <1>4 DEF NoSegment, Handle, Trouble, LiveInv, LiveTypeOK, StreamIsTracked, ReleaseIsLocked,
     NothingIsReleasedTwice, StartIsAlone, ProcessIsAttached, StopIsOurs, Starting, Unreaped
<1>8. StartIsAlone'
  BY <1>1, <1>2, <1>3, <1>4 DEF NoSegment, Handle, Trouble, LiveInv, LiveTypeOK, StreamIsTracked, ReleaseIsLocked,
     NothingIsReleasedTwice, StartIsAlone, ProcessIsAttached, StopIsOurs, Starting, Unreaped
<1>9. ProcessIsAttached'
  BY <1>1, <1>2, <1>3, <1>4 DEF NoSegment, Handle, Trouble, LiveInv, LiveTypeOK, StreamIsTracked, ReleaseIsLocked,
     NothingIsReleasedTwice, StartIsAlone, ProcessIsAttached, StopIsOurs, Starting, Unreaped
<1>10. StopIsOurs'
  BY <1>1, <1>2, <1>3, <1>4 DEF NoSegment, Handle, Trouble, LiveInv, LiveTypeOK, StreamIsTracked, ReleaseIsLocked,
     NothingIsReleasedTwice, StartIsAlone, ProcessIsAttached, StopIsOurs, Starting, Unreaped
<1> QED BY <1>5, <1>6, <1>7, <1>8, <1>9, <1>10 DEF LiveInv

(* LiveStartFails keeps the invariant of the live encoder.                 *)
LEMMA LiveStartFailsLive ==
    ASSUME LiveInv, NEW t \in Stewards, LiveStartFails(t)
    PROVE  LiveInv'
<1>1. LiveTypeOK /\ GroupTypeOK /\ LiveGroup \in Groups /\ "nobody" \notin Stewards
  BY LiveGroupTypes DEF LiveInv
<1>2. PICK p \in {"abandon", "abandon_rm"} : To(t, p)
        /\ UNCHANGED <<attached, directory, Handle, stopLock>> /\ encoder[t] \in {"run", "register"}
        /\ p = IF attached THEN "abandon" ELSE "abandon_rm"
  BY DEF LiveStartFails, Handle, LiveInv, LiveTypeOK, StopReturned
<1>3. /\ encoder' \in [Stewards -> Starting \cup {"out", "lock", "release", "rm"}]
      /\ encoder'[t] = p
      /\ \A u \in Stewards : u # t => encoder'[u] = encoder[u]
  <2>1. p \in Starting \cup {"out", "lock", "release", "rm"}
    BY DEF Starting
  <2> QED BY <1>1, <1>2, <2>1, ToFacts
<1>4. /\ GroupTypeOK' /\ UNCHANGED <<leader, member>>
      /\ \/ UNCHANGED stops /\ p \in {"abandon_rm", "out", "rm"}
         \/ stops'[t].group = LiveGroup /\ stops'[t].at = "look" /\ p \in {"abandon", "release"}
      /\ \A u \in Stewards : u # t => stops'[u] = stops[u]
  <2>1. CASE UNCHANGED pvars /\ p \in {"abandon_rm", "out", "rm"}
    BY <1>1, <2>1 DEF pvars, GroupTypeOK
  <2>2. CASE StopProcess(t, LiveGroup) /\ p \in {"abandon", "release"}
    BY <1>1, <2>2, StopProcessFacts
  <2> QED BY <1>1, <1>2, <1>3, <2>1, <2>2 DEF LiveStartFails, To, LiveTypeOK
<1>5. LiveTypeOK'
  BY <1>1, <1>3, <1>4 DEF LiveStartFails, Handle, Trouble, LiveTypeOK
<1>6. StreamIsTracked'
  BY <1>1, <1>2, <1>3, <1>4 DEF Handle, LiveInv, LiveTypeOK, StreamIsTracked, ReleaseIsLocked,
     NothingIsReleasedTwice, StartIsAlone, ProcessIsAttached, StopIsOurs, Starting, Unreaped
<1>7. ReleaseIsLocked'
  BY <1>1, <1>2, <1>3, <1>4 DEF Handle, LiveInv, LiveTypeOK, StreamIsTracked, ReleaseIsLocked,
     NothingIsReleasedTwice, StartIsAlone, ProcessIsAttached, StopIsOurs, Starting, Unreaped
<1>8. StartIsAlone'
  BY <1>1, <1>2, <1>3, <1>4 DEF Handle, LiveInv, LiveTypeOK, StreamIsTracked, ReleaseIsLocked,
     NothingIsReleasedTwice, StartIsAlone, ProcessIsAttached, StopIsOurs, Starting, Unreaped
<1>9. ProcessIsAttached'
  BY <1>1, <1>2, <1>3, <1>4 DEF Handle, LiveInv, LiveTypeOK, StreamIsTracked, ReleaseIsLocked,
     NothingIsReleasedTwice, StartIsAlone, ProcessIsAttached, StopIsOurs, Starting, Unreaped
<1>10. StopIsOurs'
  BY <1>1, <1>2, <1>3, <1>4 DEF Handle, LiveInv, LiveTypeOK, StreamIsTracked, ReleaseIsLocked,
     NothingIsReleasedTwice, StartIsAlone, ProcessIsAttached, StopIsOurs, Starting, Unreaped
<1> QED BY <1>5, <1>6, <1>7, <1>8, <1>9, <1>10 DEF LiveInv

(* AbandonStream keeps the invariant of the live encoder.                  *)
LEMMA AbandonStreamLive ==
    ASSUME LiveInv, NEW t \in Stewards, AbandonStream(t)
    PROVE  LiveInv'
<1>1. LiveTypeOK /\ GroupTypeOK /\ LiveGroup \in Groups /\ "nobody" \notin Stewards
  BY LiveGroupTypes DEF LiveInv
<1>2. PICK p \in {"abandon_rm", "out"} : To(t, p)
        /\ UNCHANGED <<directory, freed, given, stopLock>> /\ encoder[t] = "abandon"
        /\ stops[t].at # "no"
        /\ \/ p = "abandon_rm" /\ stops[t].at = "gone" /\ attached' = FALSE /\ registered' = registered
           \/ p = "out" /\ registered' = TRUE /\ attached' = attached
  BY DEF AbandonStream, Handle, LiveInv, LiveTypeOK, StopReturned
<1>3. /\ encoder' \in [Stewards -> Starting \cup {"out", "lock", "release", "rm"}]
      /\ encoder'[t] = p
      /\ \A u \in Stewards : u # t => encoder'[u] = encoder[u]
  <2>1. p \in Starting \cup {"out", "lock", "release", "rm"}
    BY DEF Starting
  <2> QED BY <1>1, <1>2, <2>1, ToFacts
<1>4. /\ GroupTypeOK' /\ UNCHANGED <<leader, member>> /\ stops'[t].at = "no"
      /\ \A u \in Stewards : u # t => stops'[u] = stops[u]
  BY <1>1, StopForgottenFacts DEF AbandonStream
<1>5. LiveTypeOK'
  BY <1>1, <1>3, <1>4 DEF AbandonStream, Handle, Trouble, LiveTypeOK
<1>6. StreamIsTracked'
  BY <1>1, <1>2, <1>3, <1>4 DEF Handle, LiveInv, LiveTypeOK, StreamIsTracked, ReleaseIsLocked,
     NothingIsReleasedTwice, StartIsAlone, ProcessIsAttached, StopIsOurs, Starting, Unreaped
<1>7. ReleaseIsLocked'
  BY <1>1, <1>2, <1>3, <1>4 DEF Handle, LiveInv, LiveTypeOK, StreamIsTracked, ReleaseIsLocked,
     NothingIsReleasedTwice, StartIsAlone, ProcessIsAttached, StopIsOurs, Starting, Unreaped
<1>8. StartIsAlone'
  BY <1>1, <1>2, <1>3, <1>4 DEF Handle, LiveInv, LiveTypeOK, StreamIsTracked, ReleaseIsLocked,
     NothingIsReleasedTwice, StartIsAlone, ProcessIsAttached, StopIsOurs, Starting, Unreaped
<1>9. ProcessIsAttached'
  BY <1>1, <1>2, <1>3, <1>4 DEF Handle, LiveInv, LiveTypeOK, StreamIsTracked, ReleaseIsLocked,
     NothingIsReleasedTwice, StartIsAlone, ProcessIsAttached, StopIsOurs, Starting, Unreaped
<1>10. StopIsOurs'
  BY <1>1, <1>2, <1>3, <1>4 DEF Handle, LiveInv, LiveTypeOK, StreamIsTracked, ReleaseIsLocked,
     NothingIsReleasedTwice, StartIsAlone, ProcessIsAttached, StopIsOurs, Starting, Unreaped
<1> QED BY <1>5, <1>6, <1>7, <1>8, <1>9, <1>10 DEF LiveInv

(* AbandonRemoves keeps the invariant of the live encoder.                 *)
LEMMA AbandonRemovesLive ==
    ASSUME LiveInv, NEW t \in Stewards, AbandonRemoves(t)
    PROVE  LiveInv'
<1>1. LiveTypeOK /\ GroupTypeOK /\ LiveGroup \in Groups /\ "nobody" \notin Stewards
  BY LiveGroupTypes DEF LiveInv
<1>2. PICK p \in {"out"} : To(t, p)
  BY DEF AbandonRemoves
<1>3. /\ encoder' \in [Stewards -> Starting \cup {"out", "lock", "release", "rm"}]
      /\ encoder'[t] = p
      /\ \A u \in Stewards : u # t => encoder'[u] = encoder[u]
  <2>1. p \in Starting \cup {"out", "lock", "release", "rm"}
    BY DEF Starting
  <2> QED BY <1>1, <1>2, <2>1, ToFacts
<1>4. GroupTypeOK' /\ UNCHANGED <<leader, member, stops>>
  BY <1>1 DEF AbandonRemoves, pvars, GroupTypeOK
<1>5. LiveTypeOK'
  BY <1>1, <1>3, <1>4 DEF AbandonRemoves, Handle, Trouble, LiveTypeOK
<1>6. StreamIsTracked'
  BY <1>1, <1>2, <1>3, <1>4 DEF AbandonRemoves, Handle, Trouble, LiveInv, LiveTypeOK, StreamIsTracked, ReleaseIsLocked,
     NothingIsReleasedTwice, StartIsAlone, ProcessIsAttached, StopIsOurs, Starting, Unreaped
<1>7. ReleaseIsLocked'
  BY <1>1, <1>2, <1>3, <1>4 DEF AbandonRemoves, Handle, Trouble, LiveInv, LiveTypeOK, StreamIsTracked, ReleaseIsLocked,
     NothingIsReleasedTwice, StartIsAlone, ProcessIsAttached, StopIsOurs, Starting, Unreaped
<1>8. StartIsAlone'
  BY <1>1, <1>2, <1>3, <1>4 DEF AbandonRemoves, Handle, Trouble, LiveInv, LiveTypeOK, StreamIsTracked, ReleaseIsLocked,
     NothingIsReleasedTwice, StartIsAlone, ProcessIsAttached, StopIsOurs, Starting, Unreaped
<1>9. ProcessIsAttached'
  BY <1>1, <1>2, <1>3, <1>4 DEF AbandonRemoves, Handle, Trouble, LiveInv, LiveTypeOK, StreamIsTracked, ReleaseIsLocked,
     NothingIsReleasedTwice, StartIsAlone, ProcessIsAttached, StopIsOurs, Starting, Unreaped
<1>10. StopIsOurs'
  BY <1>1, <1>2, <1>3, <1>4 DEF AbandonRemoves, Handle, Trouble, LiveInv, LiveTypeOK, StreamIsTracked, ReleaseIsLocked,
     NothingIsReleasedTwice, StartIsAlone, ProcessIsAttached, StopIsOurs, Starting, Unreaped
<1> QED BY <1>5, <1>6, <1>7, <1>8, <1>9, <1>10 DEF LiveInv

(* AbandonKeepsOutput keeps the invariant of the live encoder.             *)
LEMMA AbandonKeepsOutputLive ==
    ASSUME LiveInv, NEW t \in Stewards, AbandonKeepsOutput(t)
    PROVE  LiveInv'
<1>1. LiveTypeOK /\ GroupTypeOK /\ LiveGroup \in Groups /\ "nobody" \notin Stewards
  BY LiveGroupTypes DEF LiveInv
<1>2. PICK p \in {"out"} : To(t, p)
  BY DEF AbandonKeepsOutput
<1>3. /\ encoder' \in [Stewards -> Starting \cup {"out", "lock", "release", "rm"}]
      /\ encoder'[t] = p
      /\ \A u \in Stewards : u # t => encoder'[u] = encoder[u]
  <2>1. p \in Starting \cup {"out", "lock", "release", "rm"}
    BY DEF Starting
  <2> QED BY <1>1, <1>2, <2>1, ToFacts
<1>4. GroupTypeOK' /\ UNCHANGED <<leader, member, stops>>
  BY <1>1 DEF AbandonKeepsOutput, pvars, GroupTypeOK
<1>5. LiveTypeOK'
  BY <1>1, <1>3, <1>4 DEF AbandonKeepsOutput, Handle, Trouble, LiveTypeOK
<1>6. StreamIsTracked'
  BY <1>1, <1>2, <1>3, <1>4 DEF AbandonKeepsOutput, Handle, Trouble, LiveInv, LiveTypeOK, StreamIsTracked, ReleaseIsLocked,
     NothingIsReleasedTwice, StartIsAlone, ProcessIsAttached, StopIsOurs, Starting, Unreaped
<1>7. ReleaseIsLocked'
  BY <1>1, <1>2, <1>3, <1>4 DEF AbandonKeepsOutput, Handle, Trouble, LiveInv, LiveTypeOK, StreamIsTracked, ReleaseIsLocked,
     NothingIsReleasedTwice, StartIsAlone, ProcessIsAttached, StopIsOurs, Starting, Unreaped
<1>8. StartIsAlone'
  BY <1>1, <1>2, <1>3, <1>4 DEF AbandonKeepsOutput, Handle, Trouble, LiveInv, LiveTypeOK, StreamIsTracked, ReleaseIsLocked,
     NothingIsReleasedTwice, StartIsAlone, ProcessIsAttached, StopIsOurs, Starting, Unreaped
<1>9. ProcessIsAttached'
  BY <1>1, <1>2, <1>3, <1>4 DEF AbandonKeepsOutput, Handle, Trouble, LiveInv, LiveTypeOK, StreamIsTracked, ReleaseIsLocked,
     NothingIsReleasedTwice, StartIsAlone, ProcessIsAttached, StopIsOurs, Starting, Unreaped
<1>10. StopIsOurs'
  BY <1>1, <1>2, <1>3, <1>4 DEF AbandonKeepsOutput, Handle, Trouble, LiveInv, LiveTypeOK, StreamIsTracked, ReleaseIsLocked,
     NothingIsReleasedTwice, StartIsAlone, ProcessIsAttached, StopIsOurs, Starting, Unreaped
<1> QED BY <1>5, <1>6, <1>7, <1>8, <1>9, <1>10 DEF LiveInv

(* LiveStop keeps the invariant of the live encoder.                       *)
LEMMA LiveStopLive ==
    ASSUME LiveInv, NEW t \in Stewards, LiveStop(t)
    PROVE  LiveInv'
<1>1. LiveTypeOK /\ GroupTypeOK /\ LiveGroup \in Groups /\ "nobody" \notin Stewards
  BY LiveGroupTypes DEF LiveInv
<1>2. PICK p \in {"lock"} : To(t, p)
  BY DEF LiveStop
<1>3. /\ encoder' \in [Stewards -> Starting \cup {"out", "lock", "release", "rm"}]
      /\ encoder'[t] = p
      /\ \A u \in Stewards : u # t => encoder'[u] = encoder[u]
  <2>1. p \in Starting \cup {"out", "lock", "release", "rm"}
    BY DEF Starting
  <2> QED BY <1>1, <1>2, <2>1, ToFacts
<1>4. GroupTypeOK' /\ UNCHANGED <<leader, member, stops>>
  BY <1>1 DEF LiveStop, pvars, GroupTypeOK
<1>5. LiveTypeOK'
  BY <1>1, <1>3, <1>4 DEF LiveStop, Handle, Trouble, LiveTypeOK
<1>6. StreamIsTracked'
  BY <1>1, <1>2, <1>3, <1>4 DEF LiveStop, Handle, Trouble, LiveInv, LiveTypeOK, StreamIsTracked, ReleaseIsLocked,
     NothingIsReleasedTwice, StartIsAlone, ProcessIsAttached, StopIsOurs, Starting, Unreaped
<1>7. ReleaseIsLocked'
  BY <1>1, <1>2, <1>3, <1>4 DEF LiveStop, Handle, Trouble, LiveInv, LiveTypeOK, StreamIsTracked, ReleaseIsLocked,
     NothingIsReleasedTwice, StartIsAlone, ProcessIsAttached, StopIsOurs, Starting, Unreaped
<1>8. StartIsAlone'
  BY <1>1, <1>2, <1>3, <1>4 DEF LiveStop, Handle, Trouble, LiveInv, LiveTypeOK, StreamIsTracked, ReleaseIsLocked,
     NothingIsReleasedTwice, StartIsAlone, ProcessIsAttached, StopIsOurs, Starting, Unreaped
<1>9. ProcessIsAttached'
  BY <1>1, <1>2, <1>3, <1>4 DEF LiveStop, Handle, Trouble, LiveInv, LiveTypeOK, StreamIsTracked, ReleaseIsLocked,
     NothingIsReleasedTwice, StartIsAlone, ProcessIsAttached, StopIsOurs, Starting, Unreaped
<1>10. StopIsOurs'
  BY <1>1, <1>2, <1>3, <1>4 DEF LiveStop, Handle, Trouble, LiveInv, LiveTypeOK, StreamIsTracked, ReleaseIsLocked,
     NothingIsReleasedTwice, StartIsAlone, ProcessIsAttached, StopIsOurs, Starting, Unreaped
<1> QED BY <1>5, <1>6, <1>7, <1>8, <1>9, <1>10 DEF LiveInv

(* Lock keeps the invariant of the live encoder.                           *)
LEMMA LockLive ==
    ASSUME LiveInv, NEW t \in Stewards, Lock(t)
    PROVE  LiveInv'
<1>1. LiveTypeOK /\ GroupTypeOK /\ LiveGroup \in Groups /\ "nobody" \notin Stewards
  BY LiveGroupTypes DEF LiveInv
<1>2. PICK p \in {"out", "release", "rm"} : To(t, p)
        /\ UNCHANGED <<attached, directory, Handle>>
        /\ encoder[t] = "lock" /\ stopLock = "nobody"
        /\ \/ p = "out" /\ ~registered /\ stopLock' = stopLock
           \/ p \in {"release", "rm"} /\ registered /\ stopLock' = t /\ (p = "rm" => ~attached)
  BY DEF Lock, Handle, LiveInv, LiveTypeOK, StopReturned
<1>3. /\ encoder' \in [Stewards -> Starting \cup {"out", "lock", "release", "rm"}]
      /\ encoder'[t] = p
      /\ \A u \in Stewards : u # t => encoder'[u] = encoder[u]
  <2>1. p \in Starting \cup {"out", "lock", "release", "rm"}
    BY DEF Starting
  <2> QED BY <1>1, <1>2, <2>1, ToFacts
<1>4. /\ GroupTypeOK' /\ UNCHANGED <<leader, member>>
      /\ \/ UNCHANGED stops /\ p \in {"abandon_rm", "out", "rm"}
         \/ stops'[t].group = LiveGroup /\ stops'[t].at = "look" /\ p \in {"abandon", "release"}
      /\ \A u \in Stewards : u # t => stops'[u] = stops[u]
  <2>1. CASE UNCHANGED pvars /\ p \in {"abandon_rm", "out", "rm"}
    BY <1>1, <2>1 DEF pvars, GroupTypeOK
  <2>2. CASE StopProcess(t, LiveGroup) /\ p \in {"abandon", "release"}
    BY <1>1, <2>2, StopProcessFacts
  <2> QED BY <1>1, <1>2, <1>3, <2>1, <2>2 DEF Lock, To, LiveTypeOK
<1>5. LiveTypeOK'
  BY <1>1, <1>3, <1>4 DEF Lock, Handle, Trouble, LiveTypeOK
<1>6. StreamIsTracked'
  BY <1>1, <1>2, <1>3, <1>4 DEF Handle, LiveInv, LiveTypeOK, StreamIsTracked, ReleaseIsLocked,
     NothingIsReleasedTwice, StartIsAlone, ProcessIsAttached, StopIsOurs, Starting, Unreaped
<1>7. ReleaseIsLocked'
  BY <1>1, <1>2, <1>3, <1>4 DEF Handle, LiveInv, LiveTypeOK, StreamIsTracked, ReleaseIsLocked,
     NothingIsReleasedTwice, StartIsAlone, ProcessIsAttached, StopIsOurs, Starting, Unreaped
<1>8. StartIsAlone'
  BY <1>1, <1>2, <1>3, <1>4 DEF Handle, LiveInv, LiveTypeOK, StreamIsTracked, ReleaseIsLocked,
     NothingIsReleasedTwice, StartIsAlone, ProcessIsAttached, StopIsOurs, Starting, Unreaped
<1>9. ProcessIsAttached'
  BY <1>1, <1>2, <1>3, <1>4 DEF Handle, LiveInv, LiveTypeOK, StreamIsTracked, ReleaseIsLocked,
     NothingIsReleasedTwice, StartIsAlone, ProcessIsAttached, StopIsOurs, Starting, Unreaped
<1>10. StopIsOurs'
  BY <1>1, <1>2, <1>3, <1>4 DEF Handle, LiveInv, LiveTypeOK, StreamIsTracked, ReleaseIsLocked,
     NothingIsReleasedTwice, StartIsAlone, ProcessIsAttached, StopIsOurs, Starting, Unreaped
<1> QED BY <1>5, <1>6, <1>7, <1>8, <1>9, <1>10 DEF LiveInv

(* Released keeps the invariant of the live encoder.                       *)
LEMMA ReleasedLive ==
    ASSUME LiveInv, NEW t \in Stewards, Released(t)
    PROVE  LiveInv'
<1>1. LiveTypeOK /\ GroupTypeOK /\ LiveGroup \in Groups /\ "nobody" \notin Stewards
  BY LiveGroupTypes DEF LiveInv
<1>2. PICK p \in {"rm", "out"} : To(t, p)
        /\ UNCHANGED <<directory, Handle>> /\ encoder[t] = "release" /\ stops[t].at # "no"
        /\ \/ p = "rm" /\ stops[t].at = "gone" /\ attached' = FALSE /\ stopLock' = stopLock
           \/ p = "out" /\ stopLock' = "nobody" /\ attached' = attached
  BY DEF Released, Handle, LiveInv, LiveTypeOK, StopReturned
<1>3. /\ encoder' \in [Stewards -> Starting \cup {"out", "lock", "release", "rm"}]
      /\ encoder'[t] = p
      /\ \A u \in Stewards : u # t => encoder'[u] = encoder[u]
  <2>1. p \in Starting \cup {"out", "lock", "release", "rm"}
    BY DEF Starting
  <2> QED BY <1>1, <1>2, <2>1, ToFacts
<1>4. /\ GroupTypeOK' /\ UNCHANGED <<leader, member>> /\ stops'[t].at = "no"
      /\ \A u \in Stewards : u # t => stops'[u] = stops[u]
  BY <1>1, StopForgottenFacts DEF Released
<1>5. LiveTypeOK'
  BY <1>1, <1>3, <1>4 DEF Released, Handle, Trouble, LiveTypeOK
<1>6. StreamIsTracked'
  BY <1>1, <1>2, <1>3, <1>4 DEF Handle, LiveInv, LiveTypeOK, StreamIsTracked, ReleaseIsLocked,
     NothingIsReleasedTwice, StartIsAlone, ProcessIsAttached, StopIsOurs, Starting, Unreaped
<1>7. ReleaseIsLocked'
  BY <1>1, <1>2, <1>3, <1>4 DEF Handle, LiveInv, LiveTypeOK, StreamIsTracked, ReleaseIsLocked,
     NothingIsReleasedTwice, StartIsAlone, ProcessIsAttached, StopIsOurs, Starting, Unreaped
<1>8. StartIsAlone'
  BY <1>1, <1>2, <1>3, <1>4 DEF Handle, LiveInv, LiveTypeOK, StreamIsTracked, ReleaseIsLocked,
     NothingIsReleasedTwice, StartIsAlone, ProcessIsAttached, StopIsOurs, Starting, Unreaped
<1>9. ProcessIsAttached'
  BY <1>1, <1>2, <1>3, <1>4 DEF Handle, LiveInv, LiveTypeOK, StreamIsTracked, ReleaseIsLocked,
     NothingIsReleasedTwice, StartIsAlone, ProcessIsAttached, StopIsOurs, Starting, Unreaped
<1>10. StopIsOurs'
  BY <1>1, <1>2, <1>3, <1>4 DEF Handle, LiveInv, LiveTypeOK, StreamIsTracked, ReleaseIsLocked,
     NothingIsReleasedTwice, StartIsAlone, ProcessIsAttached, StopIsOurs, Starting, Unreaped
<1> QED BY <1>5, <1>6, <1>7, <1>8, <1>9, <1>10 DEF LiveInv

(* Removed keeps the invariant of the live encoder.                        *)
LEMMA RemovedLive ==
    ASSUME LiveInv, NEW t \in Stewards, Removed(t)
    PROVE  LiveInv'
<1>1. LiveTypeOK /\ GroupTypeOK /\ LiveGroup \in Groups /\ "nobody" \notin Stewards
  BY LiveGroupTypes DEF LiveInv
<1>2. PICK p \in {"out"} : To(t, p)
  BY DEF Removed
<1>3. /\ encoder' \in [Stewards -> Starting \cup {"out", "lock", "release", "rm"}]
      /\ encoder'[t] = p
      /\ \A u \in Stewards : u # t => encoder'[u] = encoder[u]
  <2>1. p \in Starting \cup {"out", "lock", "release", "rm"}
    BY DEF Starting
  <2> QED BY <1>1, <1>2, <2>1, ToFacts
<1>4. GroupTypeOK' /\ UNCHANGED <<leader, member, stops>>
  BY <1>1 DEF Removed, pvars, GroupTypeOK
<1>5. LiveTypeOK'
  BY <1>1, <1>3, <1>4 DEF Removed, Handle, Trouble, LiveTypeOK
<1>6. StreamIsTracked'
  BY <1>1, <1>2, <1>3, <1>4 DEF Removed, Handle, Trouble, LiveInv, LiveTypeOK, StreamIsTracked, ReleaseIsLocked,
     NothingIsReleasedTwice, StartIsAlone, ProcessIsAttached, StopIsOurs, Starting, Unreaped
<1>7. ReleaseIsLocked'
  BY <1>1, <1>2, <1>3, <1>4 DEF Removed, Handle, Trouble, LiveInv, LiveTypeOK, StreamIsTracked, ReleaseIsLocked,
     NothingIsReleasedTwice, StartIsAlone, ProcessIsAttached, StopIsOurs, Starting, Unreaped
<1>8. StartIsAlone'
  BY <1>1, <1>2, <1>3, <1>4 DEF Removed, Handle, Trouble, LiveInv, LiveTypeOK, StreamIsTracked, ReleaseIsLocked,
     NothingIsReleasedTwice, StartIsAlone, ProcessIsAttached, StopIsOurs, Starting, Unreaped
<1>9. ProcessIsAttached'
  BY <1>1, <1>2, <1>3, <1>4 DEF Removed, Handle, Trouble, LiveInv, LiveTypeOK, StreamIsTracked, ReleaseIsLocked,
     NothingIsReleasedTwice, StartIsAlone, ProcessIsAttached, StopIsOurs, Starting, Unreaped
<1>10. StopIsOurs'
  BY <1>1, <1>2, <1>3, <1>4 DEF Removed, Handle, Trouble, LiveInv, LiveTypeOK, StreamIsTracked, ReleaseIsLocked,
     NothingIsReleasedTwice, StartIsAlone, ProcessIsAttached, StopIsOurs, Starting, Unreaped
<1> QED BY <1>5, <1>6, <1>7, <1>8, <1>9, <1>10 DEF LiveInv

(* ReleaseFails keeps the invariant of the live encoder.                   *)
LEMMA ReleaseFailsLive ==
    ASSUME LiveInv, NEW t \in Stewards, ReleaseFails(t)
    PROVE  LiveInv'
<1>1. LiveTypeOK /\ GroupTypeOK /\ LiveGroup \in Groups /\ "nobody" \notin Stewards
  BY LiveGroupTypes DEF LiveInv
<1>2. PICK p \in {"out"} : To(t, p)
  BY DEF ReleaseFails
<1>3. /\ encoder' \in [Stewards -> Starting \cup {"out", "lock", "release", "rm"}]
      /\ encoder'[t] = p
      /\ \A u \in Stewards : u # t => encoder'[u] = encoder[u]
  <2>1. p \in Starting \cup {"out", "lock", "release", "rm"}
    BY DEF Starting
  <2> QED BY <1>1, <1>2, <2>1, ToFacts
<1>4. /\ GroupTypeOK' /\ UNCHANGED <<leader, member>> /\ stops'[t].at = "no"
      /\ \A u \in Stewards : u # t => stops'[u] = stops[u]
  BY <1>1, StopForgottenFacts DEF ReleaseFails
<1>5. LiveTypeOK'
  BY <1>1, <1>3, <1>4 DEF ReleaseFails, Handle, Trouble, LiveTypeOK
<1>6. StreamIsTracked'
  BY <1>1, <1>2, <1>3, <1>4 DEF ReleaseFails, Handle, Trouble, LiveInv, LiveTypeOK, StreamIsTracked, ReleaseIsLocked,
     NothingIsReleasedTwice, StartIsAlone, ProcessIsAttached, StopIsOurs, Starting, Unreaped
<1>7. ReleaseIsLocked'
  BY <1>1, <1>2, <1>3, <1>4 DEF ReleaseFails, Handle, Trouble, LiveInv, LiveTypeOK, StreamIsTracked, ReleaseIsLocked,
     NothingIsReleasedTwice, StartIsAlone, ProcessIsAttached, StopIsOurs, Starting, Unreaped
<1>8. StartIsAlone'
  BY <1>1, <1>2, <1>3, <1>4 DEF ReleaseFails, Handle, Trouble, LiveInv, LiveTypeOK, StreamIsTracked, ReleaseIsLocked,
     NothingIsReleasedTwice, StartIsAlone, ProcessIsAttached, StopIsOurs, Starting, Unreaped
<1>9. ProcessIsAttached'
  BY <1>1, <1>2, <1>3, <1>4 DEF ReleaseFails, Handle, Trouble, LiveInv, LiveTypeOK, StreamIsTracked, ReleaseIsLocked,
     NothingIsReleasedTwice, StartIsAlone, ProcessIsAttached, StopIsOurs, Starting, Unreaped
<1>10. StopIsOurs'
  BY <1>1, <1>2, <1>3, <1>4 DEF ReleaseFails, Handle, Trouble, LiveInv, LiveTypeOK, StreamIsTracked, ReleaseIsLocked,
     NothingIsReleasedTwice, StartIsAlone, ProcessIsAttached, StopIsOurs, Starting, Unreaped
<1> QED BY <1>5, <1>6, <1>7, <1>8, <1>9, <1>10 DEF LiveInv

(* A step of stop_process, of a signal that fails, or of FFmpeg itself.    *)
LEMMA GroupMovesLive ==
    ASSUME LiveInv, GroupTypeOK', UNCHANGED <<attached, directory, Handle, stopLock, encoder>>,
           troubles' \in Nat,
           leader'[LiveGroup] = leader[LiveGroup] \/ leader'[LiveGroup] = "free"
               \/ leader[LiveGroup] # "free",
           \A t \in Stewards : stops'[t].at # "no" =>
               /\ stops[t].at # "no" /\ stops'[t].group = stops[t].group
               /\ stops'[t].at = "gone" => leader'[LiveGroup] = "free"
    PROVE  LiveInv'
<1>1. LiveTypeOK /\ LiveGroup \in Groups
  BY LiveGroupTypes DEF LiveInv
<1>2. LiveTypeOK' /\ ReleaseIsLocked' /\ StartIsAlone'
  BY DEF LiveInv, LiveTypeOK, ReleaseIsLocked, NothingIsReleasedTwice, StartIsAlone, Handle
<1>3. leader[LiveGroup] = "free" => leader'[LiveGroup] = "free"
  OBVIOUS
<1>4. StreamIsTracked'
  BY <1>1, <1>3 DEF LiveInv, LiveTypeOK, GroupTypeOK, StreamIsTracked, Handle, Unreaped
<1>5. ProcessIsAttached' /\ StopIsOurs'
  BY <1>1, <1>3 DEF LiveInv, ProcessIsAttached, StopIsOurs, Handle
<1> QED BY <1>2, <1>4, <1>5 DEF LiveInv

(* StopStep keeps the invariant of the live encoder.                       *)
LEMMA StopStepLive ==
    ASSUME LiveInv, NEW t \in Stewards,
           \/ StopSteps(t) /\ UNCHANGED <<attached, directory, Handle, stopLock, encoder, troubles>>
           \/ LiveStopFails(t)
    PROVE  LiveInv'
<1>1. /\ StopSteps(t) \/ StopFails(t)
      /\ UNCHANGED <<attached, directory, Handle, stopLock, encoder>> /\ troubles' \in Nat
  BY DEF LiveStopFails, Trouble, LiveInv, LiveTypeOK
<1>2. GroupTypeOK /\ LiveGroup \in Groups
  BY LiveGroupTypes DEF LiveInv
<1>3. stops[t].at # "no" /\ stops[t].group = LiveGroup
  BY <1>1 DEF StopSteps, StopLooks, StopSeesTheEnd, GraceEnds, StopFails, LiveInv, StopIsOurs
<1>4. /\ GroupTypeOK' /\ stops'[t].group = stops[t].group
      /\ \A u \in Stewards : u # t => stops'[u] = stops[u]
      /\ \A g \in Groups : leader'[g] = leader[g] \/ (leader'[g] = "free" /\ ~GroupAlive(g))
      /\ stops'[t].at = "gone" => leader'[stops[t].group] = "free"
  BY <1>1, <1>2, <1>3, StopStepFacts
<1>5. ASSUME NEW u \in Stewards, stops'[u].at # "no"
      PROVE  /\ stops[u].at # "no" /\ stops'[u].group = stops[u].group
             /\ stops'[u].at = "gone" => leader'[LiveGroup] = "free"
  BY <1>2, <1>3, <1>4, <1>5 DEF LiveInv, StopIsOurs
<1> QED BY <1>1, <1>2, <1>4, <1>5, GroupMovesLive

(* GroupEnds keeps the invariant of the live encoder.                      *)
LEMMA GroupEndsLive ==
    ASSUME LiveInv, GroupEnds(LiveGroup),
           UNCHANGED <<attached, directory, Handle, stopLock, encoder, troubles>>
    PROVE  LiveInv'
<1>1. GroupTypeOK /\ LiveGroup \in Groups /\ troubles' \in Nat
  BY LiveGroupTypes DEF LiveInv, LiveTypeOK
<1>2. /\ GroupTypeOK' /\ UNCHANGED stops
      /\ leader'[LiveGroup] = "free" <=> leader[LiveGroup] = "free"
  BY <1>1, GroupEndsFacts
<1>3. \A t \in Stewards : stops[t].at = "gone" => leader[LiveGroup] = "free"
  BY DEF LiveInv, StopIsOurs
<1> QED BY <1>1, <1>2, <1>3, GroupMovesLive

(* Before the first stream nothing runs, and nothing is attached.          *)
LEMMA LiveInvInit == LiveInit => LiveInv
<1> SUFFICES ASSUME LiveInit PROVE LiveInv
  OBVIOUS
<1>1. LiveGroup \in Groups /\ "nobody" \notin Stewards
  BY LiveEncoderAssumption, ProcessGroupAssumption
<1>2. GroupTypeOK /\ \A t \in Stewards : stops[t].at = "no"
  BY DEF LiveInit, GroupInit, GroupTypeOK, NoStop
<1>3. LiveTypeOK
  BY <1>2 DEF LiveInit, LiveTypeOK, Starting
<1>4. leader[LiveGroup] = "free"
  BY <1>1 DEF LiveInit, GroupInit
<1>5. StreamIsTracked /\ ProcessIsAttached
  BY <1>4 DEF LiveInit, StreamIsTracked, ProcessIsAttached, Unreaped
<1>6. ReleaseIsLocked /\ StartIsAlone /\ StopIsOurs
  BY <1>1, <1>2 DEF LiveInit, ReleaseIsLocked, NothingIsReleasedTwice, StartIsAlone, StopIsOurs,
     Starting
<1> QED BY <1>3, <1>5, <1>6 DEF LiveInv

(* Every step of the live encoder keeps its invariant.                     *)
LEMMA LiveInvStep == LiveInv /\ LiveNext => LiveInv'
<1> SUFFICES ASSUME LiveInv, LiveNext PROVE LiveInv'
  OBVIOUS
<1>1. ASSUME NEW t \in Stewards, LiveWorks(t) PROVE LiveInv'
  BY <1>1, RunLiveLive, RegisterLive, SegmentsReadyLive, NoSegmentLive, AbandonStreamLive,
     AbandonRemovesLive, LockLive, ReleasedLive, RemovedLive, StopStepLive DEF LiveWorks
<1>2. ASSUME NEW t \in Stewards,
             \/ \E p \in Preferences, c \in Capabilities : NewStream(t, p, c)
             \/ LiveStop(t) \/ LiveStartFails(t) \/ AbandonKeepsOutput(t) \/ ReleaseFails(t)
             \/ LiveStopFails(t)
      PROVE  LiveInv'
  BY <1>2, NewStreamLive, LiveStopLive, LiveStartFailsLive, AbandonKeepsOutputLive,
     ReleaseFailsLive, StopStepLive
<1> QED BY <1>1, <1>2, GroupEndsLive DEF LiveNext

-----------------------------------------------------------------------------
(* The screen cast.                                                        *)

(* _exclusive: only the thread that holds _busy is in a call.              *)
OneCall == \A t \in Stewards : step[t] # "out" => busy = t

(* A reaped group has no member, a group that is not reaped is known, and  *)
(* there is at most one.                                                   *)
KnownGroups ==
    /\ \A g \in Groups : leader[g] = "free" => ~member[g]
    /\ EncoderIsNeverDropped
    /\ castSession \in Groups => unreclaimed = {}
    /\ \A a, b \in unreclaimed : a = b
    /\ castState = "stopped" => castSession \notin Groups /\ unreclaimed = {}

(* Where a call is and what it has begun.                                  *)
CallIsAt(t) ==
    /\ step[t] \in {"launch", "run", "hook"} => castState = "starting"
    /\ step[t] \in {"launch", "run"} => castSession \notin Groups /\ unreclaimed = {}
    /\ step[t] = "halt" => castSession \in Groups /\ stops[t].group = castSession
    /\ stops[t].at # "no" => step[t] = "halt"
    /\ stops[t].at = "gone" => leader[stops[t].group] = "free"

CastInv == CastTypeOK /\ OneCall /\ KnownGroups /\ (\A t \in Stewards : CallIsAt(t))

(* Only the thread that holds _busy moves.                                 *)
LEMMA CastStep ==
    ASSUME CastInv, CastTypeOK', NEW t \in Stewards,
           \A u \in Stewards : u # t =>
              step[u] = "out" /\ step'[u] = step[u] /\ stops'[u] = stops[u],
           step'[t] # "out" => busy' = t,
           KnownGroups', CallIsAt(t)'
    PROVE  CastInv'
<1>1. OneCall'
  BY DEF OneCall
<1>2. ASSUME NEW u \in Stewards PROVE CallIsAt(u)'
  <2>1. CASE u = t
    BY <2>1
  <2>2. CASE u # t
    BY <2>2 DEF CastInv, CallIsAt
  <2> QED BY <2>1, <2>2
<1> QED BY <1>1, <1>2 DEF CastInv

(* Where a call goes, and that the others are in none.                     *)
LEMMA GoesFacts ==
    ASSUME CastInv, NEW t \in Stewards, step[t] # "out" \/ busy = "nobody",
           NEW p \in Calls \cup {"out", "launch", "run", "hook", "halt", "ending"}, Goes(t, p)
    PROVE  /\ step' \in [Stewards -> Calls \cup {"out", "launch", "run", "hook", "halt", "ending"}]
           /\ step'[t] = p
           /\ \A u \in Stewards : u # t => step[u] = "out" /\ step'[u] = step[u]
BY ProcessGroupAssumption DEF CastInv, OneCall, CastTypeOK, Goes

(* _reclaim: what still runs is kept, the rest is reaped.                  *)
LEMMA ReclaimFacts ==
    ASSUME GroupTypeOK, NEW groups \in SUBSET Groups, Reclaim(groups)
    PROVE  /\ GroupTypeOK' /\ UNCHANGED <<member, stops>>
           /\ unreclaimed' \subseteq groups
           /\ \A g \in Groups : leader'[g] = leader[g] \/ (leader'[g] = "free" /\ ~GroupAlive(g))
           /\ \A g \in groups : g \in unreclaimed' \/ leader'[g] = "free"
BY DEF GroupTypeOK, Reclaim, GroupAlive

(* A group is unreaped while it has a leader, alive while something of it  *)
(* runs.                                                                   *)
LEMMA GroupMeans ==
    ASSUME GroupTypeOK, NEW g \in Groups
    PROVE  /\ Unreaped(g) <=> leader[g] # "free"
           /\ GroupAlive(g) <=> leader[g] = "runs" \/ member[g]
BY DEF GroupTypeOK, Unreaped, GroupAlive

(* A step that starts and reaps nothing, and keeps what is known.          *)
LEMMA SameGroups ==
    ASSUME CastInv, GroupTypeOK', UNCHANGED <<leader, member, castSession, unreclaimed>>,
           castState' # castState => castState' # "stopped"
    PROVE  KnownGroups'
BY DEF CastInv, KnownGroups, EncoderIsNeverDropped, Unreaped

(* A step that reaps groups, and keeps what is known.                      *)
LEMMA FewerGroups ==
    ASSUME CastInv, GroupTypeOK', UNCHANGED <<member, castState>>,
           \A g \in Groups : leader'[g] = leader[g] \/ (leader'[g] = "free" /\ ~GroupAlive(g)),
           UNCHANGED <<castSession, unreclaimed>>
    PROVE  KnownGroups'
<1>1. GroupTypeOK
  BY DEF CastInv, CastTypeOK
<1>2. \A g \in Groups : (Unreaped(g) <=> leader[g] # "free") /\ (Unreaped(g)' <=> leader'[g] # "free")
  BY <1>1, GroupMeans DEF GroupTypeOK, Unreaped
<1>3. \A g \in Groups : leader'[g] = "free" => ~member'[g]
  BY DEF CastInv, KnownGroups, GroupAlive
<1>4. EncoderIsNeverDropped'
  BY <1>2 DEF CastInv, KnownGroups, EncoderIsNeverDropped
<1> QED BY <1>3, <1>4 DEF CastInv, KnownGroups

(* The groups reclaim() looks at: the session's too, once it is over.      *)
LEMMA ReclaimedGroups ==
    ASSUME CastInv, NEW groups \in SUBSET Groups, Reclaim(groups),
           \/ groups = unreclaimed /\ castSession' = castSession
           \/ groups = unreclaimed \cup ({castSession} \cap Groups) /\ castSession' = "no",
           castState' # castState => castState' # "stopped"
    PROVE  KnownGroups' /\ GroupTypeOK' /\ UNCHANGED stops /\ unreclaimed' \subseteq Groups
<1>1. GroupTypeOK /\ "no" \notin Groups
  BY ProcessGroupAssumption DEF CastInv, CastTypeOK
<1>2. /\ GroupTypeOK' /\ UNCHANGED <<member, stops>>
      /\ unreclaimed' \subseteq groups
      /\ \A g \in Groups : leader'[g] = leader[g] \/ (leader'[g] = "free" /\ ~GroupAlive(g))
      /\ \A g \in groups : g \in unreclaimed' \/ leader'[g] = "free"
  BY <1>1, ReclaimFacts
<1>3. \A g \in Groups : (Unreaped(g) <=> leader[g] # "free") /\ (Unreaped(g)' <=> leader'[g] # "free")
  BY <1>1, <1>2, GroupMeans DEF GroupTypeOK, Unreaped
<1>4. \A g \in Groups : leader'[g] = "free" => ~member'[g]
  BY <1>2 DEF CastInv, KnownGroups, GroupAlive
<1>5. EncoderIsNeverDropped'
  BY <1>2, <1>3 DEF CastInv, KnownGroups, EncoderIsNeverDropped
<1>6. \A a, b \in groups : a = b
  BY DEF CastInv, KnownGroups
<1>7. castSession' \in Groups => unreclaimed' = {}
  BY <1>1, <1>2 DEF CastInv, KnownGroups
<1>8. castState' = "stopped" => castSession' \notin Groups /\ unreclaimed' = {}
  BY <1>1, <1>2 DEF CastInv, KnownGroups
<1> QED BY <1>2, <1>4, <1>5, <1>6, <1>7, <1>8 DEF KnownGroups

(* CastCall keeps the invariant of the screen cast.                        *)
LEMMA CastCallCast ==
    ASSUME CastInv, NEW t \in Stewards, NEW name \in Calls, CastCall(t, name)
    PROVE  CastInv'
<1>1. CastTypeOK /\ GroupTypeOK /\ CallIsAt(t) /\ "no" \notin Groups /\ "none" \notin Groups
  BY ProcessGroupAssumption DEF CastInv, CastTypeOK
<1>2. PICK p \in Calls :
        /\ Goes(t, p) /\ (step[t] # "out" \/ busy = "nobody")
        /\ p # "out" => busy' = t
        /\ busy' \in Stewards \cup {"nobody"}
  BY <1>1 DEF CastCall, Returns, CastInv, CastTypeOK, OneCall, Calls
<1>3. /\ step' \in [Stewards -> Calls \cup {"out", "launch", "run", "hook", "halt", "ending"}]
      /\ step'[t] = p
      /\ \A u \in Stewards : u # t => step[u] = "out" /\ step'[u] = step[u]
  <2>1. p \in Calls \cup {"out", "launch", "run", "hook", "halt", "ending"}
    BY DEF Calls
  <2> QED BY <1>2, <2>1, GoesFacts
<1>4. GroupTypeOK' /\ UNCHANGED <<leader, member, stops>>
  BY <1>1 DEF CastCall, pvars, GroupTypeOK
<1>5. CastTypeOK'
  BY <1>1, <1>2, <1>3, <1>4 DEF CastCall, CastTypeOK, Stays, AnError, Calls
<1>6. KnownGroups'
  BY <1>1, <1>2, <1>4, SameGroups DEF CastCall, Stays, Calls
<1>7. CallIsAt(t)'
  BY <1>1, <1>2, <1>3, <1>4 DEF CastCall, Stays, CallIsAt, CastInv, KnownGroups, Calls
<1> QED BY <1>2, <1>3, <1>4, <1>5, <1>6, <1>7, CastStep

(* StartRefused keeps the invariant of the screen cast.                    *)
LEMMA StartRefusedCast ==
    ASSUME CastInv, NEW t \in Stewards, StartRefused(t)
    PROVE  CastInv'
<1>1. CastTypeOK /\ GroupTypeOK /\ CallIsAt(t) /\ "no" \notin Groups /\ "none" \notin Groups
  BY ProcessGroupAssumption DEF CastInv, CastTypeOK
<1>2. PICK p \in {"out"} :
        /\ Goes(t, p) /\ (step[t] # "out" \/ busy = "nobody")
        /\ p # "out" => busy' = t
        /\ busy' \in Stewards \cup {"nobody"}
  BY <1>1 DEF StartRefused, Returns, CastInv, CastTypeOK, OneCall, Calls
<1>3. /\ step' \in [Stewards -> Calls \cup {"out", "launch", "run", "hook", "halt", "ending"}]
      /\ step'[t] = p
      /\ \A u \in Stewards : u # t => step[u] = "out" /\ step'[u] = step[u]
  <2>1. p \in Calls \cup {"out", "launch", "run", "hook", "halt", "ending"}
    BY DEF Calls
  <2> QED BY <1>2, <2>1, GoesFacts
<1>4. GroupTypeOK' /\ UNCHANGED <<leader, member, stops>>
  BY <1>1 DEF StartRefused, pvars, GroupTypeOK
<1>5. CastTypeOK'
  BY <1>1, <1>2, <1>3, <1>4 DEF StartRefused, CastTypeOK, Stays, AnError
<1>6. KnownGroups'
  BY <1>1, <1>2, <1>4, SameGroups DEF StartRefused, Stays
<1>7. CallIsAt(t)'
  BY <1>1, <1>2, <1>3, <1>4 DEF StartRefused, Stays, CallIsAt, CastInv, KnownGroups
<1> QED BY <1>2, <1>3, <1>4, <1>5, <1>6, <1>7, CastStep

(* NotRunning keeps the invariant of the screen cast.                      *)
LEMMA NotRunningCast ==
    ASSUME CastInv, NEW t \in Stewards, NotRunning(t)
    PROVE  CastInv'
<1>1. CastTypeOK /\ GroupTypeOK /\ CallIsAt(t) /\ "no" \notin Groups /\ "none" \notin Groups
  BY ProcessGroupAssumption DEF CastInv, CastTypeOK
<1>2. PICK p \in {"out"} :
        /\ Goes(t, p) /\ (step[t] # "out" \/ busy = "nobody")
        /\ p # "out" => busy' = t
        /\ busy' \in Stewards \cup {"nobody"}
  BY <1>1 DEF NotRunning, Returns, CastInv, CastTypeOK, OneCall, Calls
<1>3. /\ step' \in [Stewards -> Calls \cup {"out", "launch", "run", "hook", "halt", "ending"}]
      /\ step'[t] = p
      /\ \A u \in Stewards : u # t => step[u] = "out" /\ step'[u] = step[u]
  <2>1. p \in Calls \cup {"out", "launch", "run", "hook", "halt", "ending"}
    BY DEF Calls
  <2> QED BY <1>2, <2>1, GoesFacts
<1>4. GroupTypeOK' /\ UNCHANGED <<leader, member, stops>>
  BY <1>1 DEF NotRunning, pvars, GroupTypeOK
<1>5. CastTypeOK'
  BY <1>1, <1>2, <1>3, <1>4 DEF NotRunning, CastTypeOK, Stays, AnError
<1>6. KnownGroups'
  BY <1>1, <1>2, <1>4, SameGroups DEF NotRunning, Stays
<1>7. CallIsAt(t)'
  BY <1>1, <1>2, <1>3, <1>4 DEF NotRunning, Stays, CallIsAt, CastInv, KnownGroups
<1> QED BY <1>2, <1>3, <1>4, <1>5, <1>6, <1>7, CastStep

(* StartReturns keeps the invariant of the screen cast.                    *)
LEMMA StartReturnsCast ==
    ASSUME CastInv, NEW t \in Stewards, StartReturns(t)
    PROVE  CastInv'
<1>1. CastTypeOK /\ GroupTypeOK /\ CallIsAt(t) /\ "no" \notin Groups /\ "none" \notin Groups
  BY ProcessGroupAssumption DEF CastInv, CastTypeOK
<1>2. PICK p \in {"out"} :
        /\ Goes(t, p) /\ (step[t] # "out" \/ busy = "nobody")
        /\ p # "out" => busy' = t
        /\ busy' \in Stewards \cup {"nobody"}
  BY <1>1 DEF StartReturns, Returns, CastInv, CastTypeOK, OneCall, Calls
<1>3. /\ step' \in [Stewards -> Calls \cup {"out", "launch", "run", "hook", "halt", "ending"}]
      /\ step'[t] = p
      /\ \A u \in Stewards : u # t => step[u] = "out" /\ step'[u] = step[u]
  <2>1. p \in Calls \cup {"out", "launch", "run", "hook", "halt", "ending"}
    BY DEF Calls
  <2> QED BY <1>2, <2>1, GoesFacts
<1>4. GroupTypeOK' /\ UNCHANGED <<leader, member, stops>>
  BY <1>1 DEF StartReturns, pvars, GroupTypeOK
<1>5. CastTypeOK'
  BY <1>1, <1>2, <1>3, <1>4 DEF StartReturns, CastTypeOK, Stays, AnError, States
<1>6. KnownGroups'
  BY <1>1, <1>2, <1>4, SameGroups DEF StartReturns, Stays, States
<1>7. CallIsAt(t)'
  BY <1>1, <1>2, <1>3, <1>4 DEF StartReturns, Stays, CallIsAt, CastInv, KnownGroups, States
<1> QED BY <1>2, <1>3, <1>4, <1>5, <1>6, <1>7, CastStep

(* ReclaimCall keeps the invariant of the screen cast.                     *)
LEMMA ReclaimCallCast ==
    ASSUME CastInv, NEW t \in Stewards, ReclaimCall(t)
    PROVE  CastInv'
<1>1. CastTypeOK /\ GroupTypeOK /\ CallIsAt(t) /\ "no" \notin Groups /\ "none" \notin Groups
  BY ProcessGroupAssumption DEF CastInv, CastTypeOK
<1>2. PICK p \in {"out"} :
        /\ Goes(t, p) /\ (step[t] # "out" \/ busy = "nobody")
        /\ p # "out" => busy' = t
        /\ busy' \in Stewards \cup {"nobody"}
  BY <1>1 DEF ReclaimCall, Returns, CastInv, CastTypeOK, OneCall, Calls
<1>3. /\ step' \in [Stewards -> Calls \cup {"out", "launch", "run", "hook", "halt", "ending"}]
      /\ step'[t] = p
      /\ \A u \in Stewards : u # t => step[u] = "out" /\ step'[u] = step[u]
  <2>1. p \in Calls \cup {"out", "launch", "run", "hook", "halt", "ending"}
    BY DEF Calls
  <2> QED BY <1>2, <2>1, GoesFacts
<1>4. KnownGroups' /\ GroupTypeOK' /\ UNCHANGED stops /\ unreclaimed' \subseteq Groups
  BY <1>1, ReclaimedGroups DEF ReclaimCall, CastTypeOK
<1>5. CastTypeOK'
  BY <1>1, <1>2, <1>3, <1>4 DEF ReclaimCall, CastTypeOK, Stays, AnError
<1>6. KnownGroups'
  BY <1>1, <1>2, <1>4, SameGroups DEF ReclaimCall, Stays
<1>7. CallIsAt(t)'
  BY <1>1, <1>2, <1>3, <1>4 DEF ReclaimCall, Stays, CallIsAt, CastInv, KnownGroups
<1> QED BY <1>2, <1>3, <1>4, <1>5, <1>6, <1>7, CastStep

(* StartBegins keeps the invariant of the screen cast.                     *)
LEMMA StartBeginsCast ==
    ASSUME CastInv, NEW t \in Stewards, StartBegins(t)
    PROVE  CastInv'
<1>1. CastTypeOK /\ GroupTypeOK /\ CallIsAt(t) /\ "no" \notin Groups /\ "none" \notin Groups
  BY ProcessGroupAssumption DEF CastInv, CastTypeOK
<1>2. PICK p \in {"out", "launch"} :
        /\ Goes(t, p) /\ (step[t] # "out" \/ busy = "nobody")
        /\ p # "out" => busy' = t
        /\ busy' \in Stewards \cup {"nobody"}
        /\ castState' \in {"failed", "starting"}
        /\ p = "launch" => castState' = "starting" /\ unreclaimed' = {}
  BY <1>1 DEF StartBegins, Returns, CastInv, CastTypeOK, OneCall, Calls
<1>3. /\ step' \in [Stewards -> Calls \cup {"out", "launch", "run", "hook", "halt", "ending"}]
      /\ step'[t] = p
      /\ \A u \in Stewards : u # t => step[u] = "out" /\ step'[u] = step[u]
  <2>1. p \in Calls \cup {"out", "launch", "run", "hook", "halt", "ending"}
    BY DEF Calls
  <2> QED BY <1>2, <2>1, GoesFacts
<1>4. KnownGroups' /\ GroupTypeOK' /\ UNCHANGED stops /\ unreclaimed' \subseteq Groups
  BY <1>1, ReclaimedGroups DEF StartBegins, CastTypeOK
<1>5. CastTypeOK'
  BY <1>1, <1>2, <1>3, <1>4 DEF StartBegins, CastTypeOK, Stays, AnError, States
<1>6. KnownGroups'
  BY <1>1, <1>2, <1>4, SameGroups DEF StartBegins, Stays, States
<1>7. CallIsAt(t)'
  BY <1>1, <1>2, <1>3, <1>4 DEF StartBegins, Stays, CallIsAt, CastInv, KnownGroups, States
<1> QED BY <1>2, <1>3, <1>4, <1>5, <1>6, <1>7, CastStep

(* CastCloseEnds keeps the invariant of the screen cast.                   *)
LEMMA CastCloseEndsCast ==
    ASSUME CastInv, NEW t \in Stewards, CastCloseEnds(t)
    PROVE  CastInv'
<1>1. CastTypeOK /\ GroupTypeOK /\ CallIsAt(t) /\ "no" \notin Groups /\ "none" \notin Groups
  BY ProcessGroupAssumption DEF CastInv, CastTypeOK
<1>2. PICK p \in {"out"} :
        /\ Goes(t, p) /\ (step[t] # "out" \/ busy = "nobody")
        /\ p # "out" => busy' = t
        /\ busy' \in Stewards \cup {"nobody"}
  BY <1>1 DEF CastCloseEnds, Returns, CastInv, CastTypeOK, OneCall, Calls
<1>3. /\ step' \in [Stewards -> Calls \cup {"out", "launch", "run", "hook", "halt", "ending"}]
      /\ step'[t] = p
      /\ \A u \in Stewards : u # t => step[u] = "out" /\ step'[u] = step[u]
  <2>1. p \in Calls \cup {"out", "launch", "run", "hook", "halt", "ending"}
    BY DEF Calls
  <2> QED BY <1>2, <2>1, GoesFacts
<1>4. KnownGroups' /\ GroupTypeOK' /\ UNCHANGED stops /\ unreclaimed' \subseteq Groups
  BY <1>1, ReclaimedGroups DEF CastCloseEnds, CastTypeOK
<1>5. CastTypeOK'
  BY <1>1, <1>2, <1>3, <1>4 DEF CastCloseEnds, CastTypeOK, Stays, AnError
<1>6. KnownGroups'
  BY <1>1, <1>2, <1>4, SameGroups DEF CastCloseEnds, Stays
<1>7. CallIsAt(t)'
  BY <1>1, <1>2, <1>3, <1>4 DEF CastCloseEnds, Stays, CallIsAt, CastInv, KnownGroups
<1> QED BY <1>2, <1>3, <1>4, <1>5, <1>6, <1>7, CastStep

(* WaitEnds keeps the invariant of the screen cast.                        *)
LEMMA WaitEndsCast ==
    ASSUME CastInv, NEW t \in Stewards, WaitEnds(t)
    PROVE  CastInv'
<1>1. CastTypeOK /\ GroupTypeOK /\ CallIsAt(t) /\ "no" \notin Groups /\ "none" \notin Groups
  BY ProcessGroupAssumption DEF CastInv, CastTypeOK
<1>2. PICK p \in {"halt"} :
        /\ Goes(t, p) /\ (step[t] # "out" \/ busy = "nobody")
        /\ p # "out" => busy' = t
        /\ busy' \in Stewards \cup {"nobody"}
        /\ castSession \in Groups /\ StopProcess(t, castSession)
        /\ after' \in [Stewards -> {"judge", "stop", "failed", "rescue"}]
  BY <1>1 DEF WaitEnds, Returns, CastInv, CastTypeOK, OneCall, Calls, CastRunning, Halts
<1>3. /\ step' \in [Stewards -> Calls \cup {"out", "launch", "run", "hook", "halt", "ending"}]
      /\ step'[t] = p
      /\ \A u \in Stewards : u # t => step[u] = "out" /\ step'[u] = step[u]
  <2>1. p \in Calls \cup {"out", "launch", "run", "hook", "halt", "ending"}
    BY DEF Calls
  <2> QED BY <1>2, <2>1, GoesFacts
<1>4. /\ GroupTypeOK' /\ UNCHANGED <<leader, member>>
      /\ stops'[t].group = castSession /\ stops'[t].at = "look"
      /\ \A u \in Stewards : u # t => stops'[u] = stops[u]
  BY <1>1, <1>2, StopProcessFacts
<1>5. CastTypeOK'
  BY <1>1, <1>2, <1>3, <1>4 DEF WaitEnds, CastTypeOK, Stays, AnError
<1>6. KnownGroups'
  BY <1>1, <1>2, <1>4, SameGroups DEF WaitEnds, Stays
<1>7. CallIsAt(t)'
  BY <1>1, <1>2, <1>3, <1>4 DEF WaitEnds, Stays, CallIsAt, CastInv, KnownGroups
<1> QED BY <1>2, <1>3, <1>4, <1>5, <1>6, <1>7, CastStep

(* StopRunning keeps the invariant of the screen cast.                     *)
LEMMA StopRunningCast ==
    ASSUME CastInv, NEW t \in Stewards, StopRunning(t)
    PROVE  CastInv'
<1>1. CastTypeOK /\ GroupTypeOK /\ CallIsAt(t) /\ "no" \notin Groups /\ "none" \notin Groups
  BY ProcessGroupAssumption DEF CastInv, CastTypeOK
<1>2. PICK p \in {"halt"} :
        /\ Goes(t, p) /\ (step[t] # "out" \/ busy = "nobody")
        /\ p # "out" => busy' = t
        /\ busy' \in Stewards \cup {"nobody"}
        /\ castSession \in Groups /\ StopProcess(t, castSession)
        /\ after' \in [Stewards -> {"judge", "stop", "failed", "rescue"}]
        /\ castState' \in {castState, "stopping"}
  BY <1>1 DEF StopRunning, Returns, CastInv, CastTypeOK, OneCall, Calls, Halts, CastRunning
<1>3. /\ step' \in [Stewards -> Calls \cup {"out", "launch", "run", "hook", "halt", "ending"}]
      /\ step'[t] = p
      /\ \A u \in Stewards : u # t => step[u] = "out" /\ step'[u] = step[u]
  <2>1. p \in Calls \cup {"out", "launch", "run", "hook", "halt", "ending"}
    BY DEF Calls
  <2> QED BY <1>2, <2>1, GoesFacts
<1>4. /\ GroupTypeOK' /\ UNCHANGED <<leader, member>>
      /\ stops'[t].group = castSession /\ stops'[t].at = "look"
      /\ \A u \in Stewards : u # t => stops'[u] = stops[u]
  BY <1>1, <1>2, StopProcessFacts
<1>5. CastTypeOK'
  BY <1>1, <1>2, <1>3, <1>4 DEF StopRunning, CastTypeOK, Stays, AnError, States
<1>6. KnownGroups'
  BY <1>1, <1>2, <1>4, SameGroups DEF StopRunning, Stays, States
<1>7. CallIsAt(t)'
  BY <1>1, <1>2, <1>3, <1>4 DEF StopRunning, Stays, CallIsAt, CastInv, KnownGroups, States
<1> QED BY <1>2, <1>3, <1>4, <1>5, <1>6, <1>7, CastStep

(* CloseRescues keeps the invariant of the screen cast.                    *)
LEMMA CloseRescuesCast ==
    ASSUME CastInv, NEW t \in Stewards, CloseRescues(t)
    PROVE  CastInv'
<1>1. CastTypeOK /\ GroupTypeOK /\ CallIsAt(t) /\ "no" \notin Groups /\ "none" \notin Groups
  BY ProcessGroupAssumption DEF CastInv, CastTypeOK
<1>2. PICK p \in {"halt"} :
        /\ Goes(t, p) /\ (step[t] # "out" \/ busy = "nobody")
        /\ p # "out" => busy' = t
        /\ busy' \in Stewards \cup {"nobody"}
        /\ castSession \in Groups /\ StopProcess(t, castSession)
        /\ after' \in [Stewards -> {"judge", "stop", "failed", "rescue"}]
  BY <1>1 DEF CloseRescues, Returns, CastInv, CastTypeOK, OneCall, Calls, Halts, CastRunning
<1>3. /\ step' \in [Stewards -> Calls \cup {"out", "launch", "run", "hook", "halt", "ending"}]
      /\ step'[t] = p
      /\ \A u \in Stewards : u # t => step[u] = "out" /\ step'[u] = step[u]
  <2>1. p \in Calls \cup {"out", "launch", "run", "hook", "halt", "ending"}
    BY DEF Calls
  <2> QED BY <1>2, <2>1, GoesFacts
<1>4. /\ GroupTypeOK' /\ UNCHANGED <<leader, member>>
      /\ stops'[t].group = castSession /\ stops'[t].at = "look"
      /\ \A u \in Stewards : u # t => stops'[u] = stops[u]
  BY <1>1, <1>2, StopProcessFacts
<1>5. CastTypeOK'
  BY <1>1, <1>2, <1>3, <1>4 DEF CloseRescues, CastTypeOK, Stays, AnError, States
<1>6. KnownGroups'
  BY <1>1, <1>2, <1>4, SameGroups DEF CloseRescues, Stays, States
<1>7. CallIsAt(t)'
  BY <1>1, <1>2, <1>3, <1>4 DEF CloseRescues, Stays, CallIsAt, CastInv, KnownGroups, States
<1> QED BY <1>2, <1>3, <1>4, <1>5, <1>6, <1>7, CastStep

(* Interrupted keeps the invariant of the screen cast.                     *)
LEMMA InterruptedCast ==
    ASSUME CastInv, NEW t \in Stewards, Interrupted(t)
    PROVE  CastInv'
<1>1. CastTypeOK /\ GroupTypeOK /\ CallIsAt(t) /\ "no" \notin Groups /\ "none" \notin Groups
  BY ProcessGroupAssumption DEF CastInv, CastTypeOK
<1>2. PICK p \in {"out", "ending"} :
        /\ Goes(t, p) /\ (step[t] # "out" \/ busy = "nobody")
        /\ p # "out" => busy' = t
        /\ busy' \in Stewards \cup {"nobody"}
  BY <1>1 DEF Interrupted, Returns, CastInv, CastTypeOK, OneCall, Calls, ReturnsFromHalt
<1>3. /\ step' \in [Stewards -> Calls \cup {"out", "launch", "run", "hook", "halt", "ending"}]
      /\ step'[t] = p
      /\ \A u \in Stewards : u # t => step[u] = "out" /\ step'[u] = step[u]
  <2>1. p \in Calls \cup {"out", "launch", "run", "hook", "halt", "ending"}
    BY DEF Calls
  <2> QED BY <1>2, <2>1, GoesFacts
<1>4. /\ GroupTypeOK' /\ UNCHANGED <<leader, member>> /\ stops'[t].at = "no"
      /\ \A u \in Stewards : u # t => stops'[u] = stops[u]
  BY <1>1, StopForgottenFacts DEF Interrupted
<1>5. CastTypeOK'
  BY <1>1, <1>2, <1>3, <1>4 DEF Interrupted, CastTypeOK, Stays, AnError
<1>6. KnownGroups'
  BY <1>1, <1>2, <1>4, SameGroups DEF Interrupted, Stays
<1>7. CallIsAt(t)'
  BY <1>1, <1>2, <1>3, <1>4 DEF Interrupted, Stays, CallIsAt, CastInv, KnownGroups
<1> QED BY <1>2, <1>3, <1>4, <1>5, <1>6, <1>7, CastStep

(* Launch keeps the invariant of the screen cast.                          *)
LEMMA LaunchCast ==
    ASSUME CastInv, NEW t \in Stewards, NEW pr, NEW c, Launch(t, pr, c)
    PROVE  CastInv'
<1>1. CastTypeOK /\ GroupTypeOK /\ CallIsAt(t) /\ "no" \notin Groups /\ "none" \notin Groups
  BY ProcessGroupAssumption DEF CastInv, CastTypeOK
<1>2. PICK p \in {"run"} :
        /\ Goes(t, p) /\ (step[t] # "out" \/ busy = "nobody")
        /\ p # "out" => busy' = t
        /\ busy' \in Stewards \cup {"nobody"}
  BY <1>1 DEF Launch, Returns, CastInv, CastTypeOK, OneCall, Calls
<1>3. /\ step' \in [Stewards -> Calls \cup {"out", "launch", "run", "hook", "halt", "ending"}]
      /\ step'[t] = p
      /\ \A u \in Stewards : u # t => step[u] = "out" /\ step'[u] = step[u]
  <2>1. p \in Calls \cup {"out", "launch", "run", "hook", "halt", "ending"}
    BY DEF Calls
  <2> QED BY <1>2, <2>1, GoesFacts
<1>4. GroupTypeOK' /\ UNCHANGED <<leader, member, stops>>
  BY <1>1 DEF Launch, pvars, GroupTypeOK
<1>5. CastTypeOK'
  BY <1>1, <1>2, <1>3, <1>4 DEF Launch, CastTypeOK
<1>6. castSession \notin Groups /\ unreclaimed = {} /\ castSession' = "none"
  BY <1>1 DEF Launch, CallIsAt
<1>7. \A g \in Groups : leader[g] = "free"
  BY <1>1, <1>6, GroupMeans DEF CastInv, KnownGroups, EncoderIsNeverDropped
<1>8. KnownGroups'
  BY <1>1, <1>4, <1>6, <1>7 DEF Launch, CastInv, KnownGroups, EncoderIsNeverDropped, Unreaped
<1>9. CallIsAt(t)'
  BY <1>1, <1>2, <1>3, <1>4, <1>6 DEF Launch, CallIsAt
<1> QED BY <1>2, <1>3, <1>4, <1>5, <1>8, <1>9, CastStep

(* RunEncoder keeps the invariant of the screen cast.                      *)
LEMMA RunEncoderCast ==
    ASSUME CastInv, NEW t \in Stewards, NEW g \in Groups, RunEncoder(t, g)
    PROVE  CastInv'
<1>1. CastTypeOK /\ GroupTypeOK /\ CallIsAt(t) /\ "no" \notin Groups /\ "none" \notin Groups
  BY ProcessGroupAssumption DEF CastInv, CastTypeOK
<1>2. PICK p \in {"hook"} :
        /\ Goes(t, p) /\ (step[t] # "out" \/ busy = "nobody")
        /\ p # "out" => busy' = t
        /\ busy' \in Stewards \cup {"nobody"}
  BY <1>1 DEF RunEncoder, Returns, CastInv, CastTypeOK, OneCall, Calls
<1>3. /\ step' \in [Stewards -> Calls \cup {"out", "launch", "run", "hook", "halt", "ending"}]
      /\ step'[t] = p
      /\ \A u \in Stewards : u # t => step[u] = "out" /\ step'[u] = step[u]
  <2>1. p \in Calls \cup {"out", "launch", "run", "hook", "halt", "ending"}
    BY DEF Calls
  <2> QED BY <1>2, <2>1, GoesFacts
<1>4. /\ GroupTypeOK' /\ UNCHANGED stops /\ leader[g] = "free" /\ leader'[g] = "runs"
      /\ \A k \in Groups : k # g => leader'[k] = leader[k] /\ member'[k] = member[k]
  BY <1>1, StartGroupFacts DEF RunEncoder
<1>5. CastTypeOK'
  BY <1>1, <1>2, <1>3, <1>4 DEF RunEncoder, CastTypeOK
<1>6. castSession \notin Groups /\ unreclaimed = {} /\ castState = "starting" /\ castSession' = g
  BY <1>1 DEF RunEncoder, CallIsAt
<1>7. \A k \in Groups : leader[k] = "free"
  BY <1>1, <1>6, GroupMeans DEF CastInv, KnownGroups, EncoderIsNeverDropped
<1>8. \A k \in Groups : k # g => ~Unreaped(k)'
  BY <1>4, <1>7 DEF Unreaped
<1>9. KnownGroups'
  BY <1>1, <1>4, <1>6, <1>7, <1>8 DEF RunEncoder, CastInv, KnownGroups, EncoderIsNeverDropped
<1>10. CallIsAt(t)'
  BY <1>1, <1>2, <1>3, <1>4, <1>6 DEF RunEncoder, CallIsAt
<1> QED BY <1>2, <1>3, <1>4, <1>5, <1>9, <1>10, CastStep

(* StartFails keeps the invariant of the screen cast.                      *)
LEMMA StartFailsCast ==
    ASSUME CastInv, NEW t \in Stewards, StartFails(t)
    PROVE  CastInv'
<1>1. CastTypeOK /\ GroupTypeOK /\ CallIsAt(t) /\ "no" \notin Groups /\ "none" \notin Groups
  BY ProcessGroupAssumption DEF CastInv, CastTypeOK
<1>2. busy = t /\ step[t] \in {"launch", "run", "hook"} /\ call' = call /\ errors' \in Nat
  BY <1>1 DEF StartFails, AnError, CastInv, CastTypeOK, OneCall
<1>3. CASE /\ castSession \in Groups
           /\ StopProcess(t, castSession) /\ Goes(t, "halt")
           /\ after' = [after EXCEPT ![t] = "failed"]
           /\ Stays /\ UNCHANGED busy
  <2>1. /\ GroupTypeOK' /\ UNCHANGED <<leader, member>>
        /\ stops'[t].group = castSession /\ stops'[t].at = "look"
        /\ \A u \in Stewards : u # t => stops'[u] = stops[u]
    BY <1>1, <1>3, StopProcessFacts
  <2>2. /\ step' \in [Stewards -> Calls \cup {"out", "launch", "run", "hook", "halt", "ending"}]
        /\ step'[t] = "halt"
        /\ \A u \in Stewards : u # t => step[u] = "out" /\ step'[u] = step[u]
    BY <1>2, <1>3, GoesFacts
  <2>3. CastTypeOK'
    BY <1>1, <1>2, <1>3, <2>1, <2>2 DEF CastTypeOK, Stays
  <2>4. KnownGroups'
    BY <1>3, <2>1, SameGroups DEF Stays
  <2>5. CallIsAt(t)'
    BY <1>3, <2>1, <2>2 DEF CallIsAt, Stays
  <2> QED BY <1>2, <1>3, <2>1, <2>2, <2>3, <2>4, <2>5, CastStep
<1>4. CASE /\ castSession \notin Groups
           /\ castState' = "failed" /\ EndSession /\ Returns(t)
           /\ UNCHANGED <<after, pvars>>
  <2>1. GroupTypeOK' /\ UNCHANGED <<leader, member, stops>>
    BY <1>1, <1>4 DEF GroupTypeOK, pvars
  <2>2. /\ step' \in [Stewards -> Calls \cup {"out", "launch", "run", "hook", "halt", "ending"}]
        /\ step'[t] = "out"
        /\ \A u \in Stewards : u # t => step[u] = "out" /\ step'[u] = step[u]
    BY <1>2, <1>4, GoesFacts DEF Returns
  <2>3. castSession' = "no" /\ unreclaimed' = unreclaimed
    BY <1>4 DEF EndSession
  <2>4. CastTypeOK'
    BY <1>1, <1>2, <1>4, <2>1, <2>2, <2>3 DEF CastTypeOK, Returns, States
  <2>5. KnownGroups'
    BY <1>1, <1>4, <2>1, <2>3 DEF CastInv, KnownGroups, EncoderIsNeverDropped, Unreaped
  <2>6. CallIsAt(t)'
    BY <1>1, <1>2, <2>1, <2>2 DEF CallIsAt
  <2> QED BY <1>2, <2>1, <2>2, <2>4, <2>5, <2>6, CastStep
<1> QED BY <1>3, <1>4 DEF StartFails, Failing

(* Halted keeps the invariant of the screen cast.                          *)
LEMMA HaltedCast ==
    ASSUME CastInv, NEW t \in Stewards, NEW well \in BOOLEAN, Halted(t, well)
    PROVE  CastInv'
<1>1. CastTypeOK /\ GroupTypeOK /\ CallIsAt(t) /\ "no" \notin Groups /\ "none" \notin Groups
  BY ProcessGroupAssumption DEF CastInv, CastTypeOK
<1>2. PICK p \in {"out", "ending"} :
        /\ Goes(t, p) /\ (step[t] # "out" \/ busy = "nobody")
        /\ p # "out" => busy' = t
        /\ busy' \in Stewards \cup {"nobody"}
  BY <1>1 DEF Halted, Returns, CastInv, CastTypeOK, OneCall, Calls, ReturnsFromHalt
<1>3. /\ step' \in [Stewards -> Calls \cup {"out", "launch", "run", "hook", "halt", "ending"}]
      /\ step'[t] = p
      /\ \A u \in Stewards : u # t => step[u] = "out" /\ step'[u] = step[u]
  <2>1. p \in Calls \cup {"out", "launch", "run", "hook", "halt", "ending"}
    BY DEF Calls
  <2> QED BY <1>2, <2>1, GoesFacts
<1>4. /\ GroupTypeOK' /\ UNCHANGED <<leader, member>> /\ stops'[t].at = "no"
      /\ \A u \in Stewards : u # t => stops'[u] = stops[u]
  BY <1>1, StopForgottenFacts DEF Halted
<1>5. /\ step[t] = "halt" /\ stops[t].group = castSession /\ castSession \in Groups
      /\ unreclaimed = {}
  BY <1>1 DEF Halted, CallIsAt, CastInv, KnownGroups
<1>6. /\ castSession' \in {"no", "none"} /\ castState' \in {"stopped", "failed"}
      /\ castState' = "stopped" => stops[t].at = "gone"
      /\ unreclaimed' = IF stops[t].at = "gone" THEN {} ELSE {castSession}
  BY <1>5 DEF Halted, KeptOf
<1>7. CastTypeOK'
  BY <1>1, <1>2, <1>3, <1>4, <1>5, <1>6 DEF Halted, CastTypeOK, States
<1>8. stops[t].at = "gone" => leader[castSession] = "free"
  BY <1>1, <1>5 DEF CallIsAt
<1>9. \A k \in Groups : k # castSession => leader[k] = "free"
  BY <1>1, <1>5, GroupMeans DEF CastInv, KnownGroups, EncoderIsNeverDropped
<1>10. EncoderIsNeverDropped'
  BY <1>4, <1>6, <1>8, <1>9 DEF EncoderIsNeverDropped, Unreaped
<1>11. KnownGroups'
  BY <1>1, <1>4, <1>6, <1>10 DEF CastInv, KnownGroups
<1>12. CallIsAt(t)'
  BY <1>2, <1>3, <1>4 DEF CallIsAt
<1> QED BY <1>2, <1>3, <1>4, <1>7, <1>11, <1>12, CastStep

(* StopStep keeps the invariant of the screen cast.                        *)
LEMMA StopStepCast ==
    ASSUME CastInv, NEW t \in Stewards,
           \/ StopSteps(t) /\ Stays /\ UNCHANGED <<busy, step, call, after, errors>>
           \/ HaltFails(t)
    PROVE  CastInv'
<1>1. /\ StopSteps(t) \/ StopFails(t)
      /\ Stays /\ UNCHANGED <<busy, step, call, after>> /\ errors' \in Nat
  BY DEF HaltFails, AnError, CastInv, CastTypeOK
<1>2. GroupTypeOK /\ CallIsAt(t)
  BY DEF CastInv, CastTypeOK
<1>3. stops[t].at # "no"
  BY <1>1 DEF StopSteps, StopLooks, StopSeesTheEnd, GraceEnds, StopFails
<1>4. step[t] = "halt" /\ castSession \in Groups /\ stops[t].group = castSession
  BY <1>2, <1>3 DEF CallIsAt
<1>5. /\ GroupTypeOK' /\ UNCHANGED member /\ stops'[t].group = stops[t].group
      /\ \A u \in Stewards : u # t => stops'[u] = stops[u]
      /\ \A g \in Groups : leader'[g] = leader[g] \/ (leader'[g] = "free" /\ ~GroupAlive(g))
      /\ stops'[t].at = "gone" => leader'[stops[t].group] = "free"
  BY <1>1, <1>2, <1>4, StopStepFacts
<1>6. CastTypeOK'
  BY <1>1, <1>5 DEF CastInv, CastTypeOK, Stays
<1>7. KnownGroups'
  BY <1>1, <1>5, FewerGroups DEF Stays
<1>8. CallIsAt(t)'
  BY <1>1, <1>4, <1>5 DEF CallIsAt, Stays
<1>9. busy = t /\ \A u \in Stewards : u # t => step[u] = "out"
  BY <1>4 DEF CastInv, OneCall
<1> QED BY <1>1, <1>5, <1>6, <1>7, <1>8, <1>9, CastStep

(* GroupEnds keeps the invariant of the screen cast.                       *)
LEMMA GroupEndsCast ==
    ASSUME CastInv, NEW g \in Groups, GroupEnds(g), Stays,
           UNCHANGED <<busy, step, call, after, errors>>
    PROVE  CastInv'
<1>1. GroupTypeOK
  BY DEF CastInv, CastTypeOK
<1>2. /\ GroupTypeOK' /\ UNCHANGED stops
      /\ \A k \in Groups : (leader'[k] = "free" <=> leader[k] = "free") /\ (member'[k] => member[k])
  BY <1>1, GroupEndsFacts
<1>3. CastTypeOK' /\ OneCall'
  BY <1>2 DEF CastInv, CastTypeOK, OneCall, Stays
<1>4. \A k \in Groups : Unreaped(k)' => Unreaped(k)
  BY <1>1, <1>2 DEF GroupTypeOK, Unreaped
<1>5. KnownGroups'
  BY <1>2, <1>4 DEF CastInv, KnownGroups, EncoderIsNeverDropped, Stays
<1>6. ASSUME NEW t \in Stewards PROVE CallIsAt(t)'
  <2>1. stops[t].at = "gone" => stops[t].group \in Groups
    BY DEF CastInv, CallIsAt
  <2> QED BY <1>2, <2>1 DEF CastInv, CallIsAt, Stays
<1> QED BY <1>3, <1>5, <1>6 DEF CastInv

(* Before the first screen cast nothing runs.                              *)
LEMMA CastInvInit == CastInit => CastInv
<1> SUFFICES ASSUME CastInit PROVE CastInv
  OBVIOUS
<1>1. GroupTypeOK /\ \A t \in Stewards : stops[t].at = "no"
  BY DEF CastInit, GroupInit, GroupTypeOK, NoStop
<1>2. CastTypeOK
  BY <1>1 DEF CastInit, CastTypeOK, States, Calls
<1>3. OneCall /\ \A t \in Stewards : CallIsAt(t)
  BY <1>1 DEF CastInit, OneCall, CallIsAt
<1>4. KnownGroups
  BY ProcessGroupAssumption DEF CastInit, GroupInit, KnownGroups, EncoderIsNeverDropped, Unreaped
<1> QED BY <1>2, <1>3, <1>4 DEF CastInv

(* Every step of the screen cast keeps its invariant.                      *)
LEMMA CastInvStep == CastInv /\ CastNext => CastInv'
<1> SUFFICES ASSUME CastInv, CastNext PROVE CastInv'
  OBVIOUS
<1>1. ASSUME NEW t \in Stewards, CastWorks(t) PROVE CastInv'
  BY <1>1, StartRefusedCast, StartBeginsCast, LaunchCast, RunEncoderCast, StartReturnsCast,
     NotRunningCast, WaitEndsCast, StopRunningCast, CastCloseEndsCast, ReclaimCallCast, HaltedCast,
     StopStepCast DEF CastWorks
<1>2. ASSUME NEW t \in Stewards,
             \/ StartFails(t) \/ CloseRescues(t) \/ HaltFails(t) \/ Interrupted(t)
             \/ \E name \in Calls : CastCall(t, name)
      PROVE  CastInv'
  BY <1>2, StartFailsCast, CloseRescuesCast, StopStepCast, InterruptedCast, CastCallCast
<1>3. ASSUME NEW g \in Groups, GroupEnds(g), Stays, UNCHANGED <<busy, step, call, after, errors>>
      PROVE  CastInv'
  BY <1>3, GroupEndsCast
<1> QED BY <1>1, <1>2, <1>3 DEF CastNext

(* The known groups are at most one, and a running group is known.         *)
LEMMA CastInvMeans == CastInv => CastTypeOK /\ EncoderIsNeverDropped /\ OneEncoder
<1> SUFFICES ASSUME CastInv PROVE CastTypeOK /\ EncoderIsNeverDropped /\ OneEncoder
  OBVIOUS
<1> DEFINE running == {g \in Groups : GroupAlive(g)}
<1>1. GroupTypeOK
  BY DEF CastInv, CastTypeOK
<1>2. \A g \in running : g \in unreclaimed \cup {castSession}
  BY <1>1, GroupMeans DEF CastInv, KnownGroups, EncoderIsNeverDropped
<1>3. \A a, b \in running : a = b
  BY <1>2 DEF CastInv, KnownGroups
<1>4. Cardinality(running) <= 1
  <2>1. CASE running = {}
    BY <2>1, FS_EmptySet
  <2>2. CASE running # {}
    <3>1. PICK a : a \in running
      BY <2>2
    <3>2. running = {a}
      BY <1>3, <3>1
    <3> QED BY <3>2, FS_Singleton
  <2> QED BY <2>1, <2>2
<1>5. castState = "stopped" => running = {}
  BY <1>2 DEF CastInv, KnownGroups
<1>6. OneEncoder
  BY <1>4, <1>5 DEF OneEncoder
<1> QED BY <1>6 DEF CastInv, KnownGroups

-----------------------------------------------------------------------------
(* The two encoders in the owner's computer.                               *)

EncoderInv == (part = "cast" => CastInv) /\ (part = "encoder" => LiveInv)

(* A step of any part of the desktop keeps the invariants of both          *)
(* encoders.                                                               *)
LEMMA EncoderInvStep ==
    EncoderInv /\ [DesktopNext]_<<part, vars, xvars, lvars, cvars>> => EncoderInv'
<1> SUFFICES ASSUME EncoderInv, [DesktopNext]_<<part, vars, xvars, lvars, cvars>>
             PROVE  EncoderInv'
  OBVIOUS
<1>1. CASE DesktopNext
  <2>1. part' = part
    BY <1>1 DEF DesktopNext
  <2>2. CASE part = "cast"
    <3>1. CastNext
      BY <1>1, <2>2 DEF DesktopNext
    <3> QED BY <2>1, <2>2, <3>1, CastInvStep DEF EncoderInv
  <2>3. CASE part = "encoder"
    <3>1. LiveNext
      BY <1>1, <2>3 DEF DesktopNext
    <3> QED BY <2>1, <2>3, <3>1, LiveInvStep DEF EncoderInv
  <2> QED BY <2>1, <2>2, <2>3 DEF EncoderInv
<1>2. CASE UNCHANGED <<part, vars, xvars, lvars, cvars>>
  <2>1. /\ part' = part
        /\ UNCHANGED <<attached, directory, registered, freed, given, stopLock, encoder, troubles>>
        /\ UNCHANGED <<castState, castSession, unreclaimed, busy, step, call, after, errors>>
        /\ UNCHANGED <<leader, member, stops>>
    BY <1>2 DEF lvars, cvars, pvars
  <2>2. LiveInv => LiveInv'
    BY <2>1 DEF LiveInv, LiveTypeOK, GroupTypeOK, StreamIsTracked, ReleaseIsLocked,
       NothingIsReleasedTwice, StartIsAlone, ProcessIsAttached, StopIsOurs, Unreaped
  <2>3. CastInv => CastInv'
    BY <2>1 DEF CastInv, CastTypeOK, GroupTypeOK, OneCall, KnownGroups, CallIsAt,
       EncoderIsNeverDropped, Unreaped
  <2> QED BY <2>1, <2>2, <2>3 DEF EncoderInv
<1> QED BY <1>1, <1>2

(* However a call of the live encoder or of the screen cast ends, for any  *)
(* number of threads, process groups, failures and interrupts: a group     *)
(* that is not reaped and the output of a live stream are known to         *)
(* somebody who stops them, a live stream is released once, and two screen *)
(* casts never run together (h264_encoder.py, screencast/service.py).      *)
THEOREM EncodersTracked == DesktopSpec => []EncodersAreTracked
<1>1. DesktopInit => EncoderInv
  BY CastInvInit, LiveInvInit DEF DesktopInit, EncoderInv
<1>2. EncoderInv => EncodersAreTracked
  BY CastInvMeans DEF EncoderInv, EncodersAreTracked, LiveInv, ReleaseIsLocked
<1> QED BY <1>1, <1>2, EncoderInvStep, PTL DEF DesktopSpec

-----------------------------------------------------------------------------
(* Whoever holds _busy is in a call that goes on: a halt has a stop under  *)
(* way or returned, and an encoder is started once no earlier group is     *)
(* left, so that nothing refuses it. EveryCallEnds adds the fairness.      *)
BusyGoesOn ==
    /\ busy # "nobody" => busy \in Stewards /\ step[busy] # "out"
    /\ \A t \in Stewards : step[t] = "halt" => stops[t].at # "no"
    /\ \A t \in Stewards : step[t] = "run" => \A g \in Groups : ~Unreaped(g)

(* A step of the call of t: it stays in the call that holds _busy, or       *)
(* gives it back.                                                          *)
LEMMA OwnCallGoesOn ==
    ASSUME CastInv, BusyGoesOn, CastInv', NEW t \in Stewards, step[t] # "out" \/ busy = "nobody",
           \A u \in Stewards \ {t} : step'[u] = step[u] /\ stops'[u] = stops[u],
           \/ busy' = "nobody"
           \/ busy' = t /\ step'[t] # "out",
           step'[t] = "halt" => stops'[t].at # "no"
    PROVE  BusyGoesOn'
<1>1. \A u \in Stewards \ {t} : step[u] = "out"
  BY ProcessGroupAssumption DEF CastInv, OneCall
<1>2. step'[t] = "run" => castSession' \notin Groups /\ unreclaimed' = {}
  BY DEF CastInv, CallIsAt
<1>3. step'[t] = "run" => \A g \in Groups : ~Unreaped(g)'
  BY <1>2 DEF CastInv, KnownGroups, EncoderIsNeverDropped
<1> QED
  BY <1>1, <1>3 DEF BusyGoesOn

(* A step in which no call moves, but for its stop.                        *)
LEMMA OtherStepGoesOn ==
    ASSUME CastInv, BusyGoesOn, CastInv', UNCHANGED <<busy, step>>,
           \A u \in Stewards : stops'[u].at = "no" => stops[u].at = "no"
    PROVE  BusyGoesOn'
<1>1. ASSUME NEW t \in Stewards, step'[t] = "run" PROVE \A g \in Groups : ~Unreaped(g)'
  <2>1. castSession' \notin Groups /\ unreclaimed' = {}
    BY <1>1 DEF CastInv, CallIsAt
  <2> QED
    BY <2>1 DEF CastInv, KnownGroups, EncoderIsNeverDropped
<1> QED
  BY <1>1 DEF BusyGoesOn

(* Every step of the screen cast keeps it.                                 *)
LEMMA BusyStep == CastInv /\ BusyGoesOn /\ [CastNext]_cvars => BusyGoesOn'
<1> SUFFICES ASSUME CastInv, BusyGoesOn, [CastNext]_cvars PROVE BusyGoesOn'
  OBVIOUS
<1>1. CASE UNCHANGED cvars
  BY <1>1 DEF cvars, pvars, BusyGoesOn, Unreaped
<1> SUFFICES ASSUME CastNext PROVE BusyGoesOn'
  BY <1>1
<1>2. CastInv'
  BY CastInvStep
<1>3. /\ DOMAIN step = Stewards /\ DOMAIN stops = Stewards
      /\ step \in [Stewards -> Calls \cup {"out", "launch", "run", "hook", "halt", "ending"}]
      /\ "nobody" \notin Stewards
      /\ \A u \in Stewards : step[u] # "out" => busy = u
  BY ProcessGroupAssumption DEF CastInv, CastTypeOK, GroupTypeOK, OneCall
<1>4. ASSUME NEW g \in Groups, GroupEnds(g), UNCHANGED <<busy, step>> PROVE BusyGoesOn'
  BY <1>2, <1>4, OtherStepGoesOn DEF GroupEnds
<1>5. ASSUME NEW t \in Stewards, StopSteps(t), UNCHANGED <<busy, step>> PROVE BusyGoesOn'
  <2>1. PICK place \in {"term", "kill", "gone", "alive"} : StopAt(t, place)
    BY <1>5 DEF StopSteps, StopLooks, StopSeesTheEnd, GraceEnds
  <2>2. \A u \in Stewards : stops'[u].at = "no" => stops[u].at = "no"
    BY <1>2, <2>1, <1>3 DEF StopAt, CastInv, CastTypeOK, GroupTypeOK
  <2> QED
    BY <1>2, <1>5, <2>2, OtherStepGoesOn
<1>6. ASSUME NEW t \in Stewards, HaltFails(t) PROVE BusyGoesOn'
  <2>1. StopAt(t, "error") /\ UNCHANGED <<busy, step>>
    BY <1>6 DEF HaltFails, StopFails
  <2>2. \A u \in Stewards : stops'[u].at = "no" => stops[u].at = "no"
    BY <1>2, <2>1, <1>3 DEF StopAt, CastInv, CastTypeOK, GroupTypeOK
  <2> QED
    BY <1>2, <2>1, <2>2, OtherStepGoesOn
<1>7. ASSUME NEW t \in Stewards, NEW p \in Calls \cup {"launch", "run", "hook", "ending"},
             Goes(t, p),
             (step[t] # "out" /\ UNCHANGED busy) \/ (busy = "nobody" /\ busy' = t),
             \A u \in Stewards \ {t} : stops'[u] = stops[u]
      PROVE  BusyGoesOn'
  <2>1. step'[t] = p /\ p # "out" /\ p # "halt" /\ \A u \in Stewards \ {t} : step'[u] = step[u]
    BY <1>3, <1>7 DEF Goes, Calls
  <2>2. busy' = t
    BY <1>3, <1>7
  <2> QED
    BY <1>2, <1>7, <2>1, <2>2, OwnCallGoesOn
<1>8. ASSUME NEW t \in Stewards, Returns(t), step[t] # "out",
             \A u \in Stewards \ {t} : stops'[u] = stops[u]
      PROVE  BusyGoesOn'
  <2>1. step'[t] = "out" /\ busy' = "nobody" /\ \A u \in Stewards \ {t} : step'[u] = step[u]
    BY <1>3, <1>8 DEF Returns, Goes
  <2> QED
    BY <1>2, <1>8, <2>1, OwnCallGoesOn
<1>9. ASSUME NEW t \in Stewards, NEW g, StopProcess(t, g), Goes(t, "halt"), step[t] # "out",
             UNCHANGED busy
      PROVE  BusyGoesOn'
  <2>1. /\ step'[t] = "halt" /\ \A u \in Stewards \ {t} : step'[u] = step[u]
        /\ stops'[t].at = "look" /\ \A u \in Stewards \ {t} : stops'[u] = stops[u]
    BY <1>3, <1>9 DEF Goes, StopProcess
  <2>2. busy' = t
    BY <1>3, <1>9
  <2> QED
    BY <1>2, <1>9, <2>1, <2>2, OwnCallGoesOn
<1>10. ASSUME NEW t \in Stewards, StopForgotten(t), ReturnsFromHalt(t), step[t] # "out"
       PROVE  BusyGoesOn'
  <2>1. \A u \in Stewards \ {t} : stops'[u] = stops[u]
    BY <1>3, <1>10 DEF StopForgotten
  <2>2. CASE call[t] = "close"
    BY <1>7, <1>10, <2>1, <2>2 DEF ReturnsFromHalt
  <2>3. CASE call[t] # "close"
    BY <1>8, <1>10, <2>1, <2>3 DEF ReturnsFromHalt
  <2> QED
    BY <2>2, <2>3
<1>11. ASSUME NEW t \in Stewards, CastWorks(t) PROVE BusyGoesOn'
  <2>1. CASE StartRefused(t) \/ StartReturns(t) \/ NotRunning(t)
    BY <1>8, <2>1 DEF StartRefused, StartReturns, NotRunning, pvars
  <2>2. CASE CastCloseEnds(t) \/ ReclaimCall(t)
    BY <1>8, <2>2 DEF CastCloseEnds, ReclaimCall, Reclaim
  <2>3. CASE StartBegins(t)
    <3>1. step[t] # "out" /\ stops' = stops
      BY <2>3 DEF StartBegins, Reclaim
    <3>2. Returns(t) \/ (Goes(t, "launch") /\ UNCHANGED busy)
      BY <2>3 DEF StartBegins
    <3> QED
      BY <1>7, <1>8, <3>1, <3>2
  <2>4. ASSUME NEW p \in Preferences, NEW c \in Capabilities, Launch(t, p, c) PROVE BusyGoesOn'
    BY <1>7, <2>4 DEF Launch, pvars
  <2>5. ASSUME NEW g \in Groups, RunEncoder(t, g) PROVE BusyGoesOn'
    BY <1>7, <2>5 DEF RunEncoder, StartGroup
  <2>6. CASE WaitEnds(t) \/ StopRunning(t)
    <3>1. /\ step[t] # "out" /\ UNCHANGED busy /\ Goes(t, "halt")
          /\ StopProcess(t, castSession)
      BY <2>6 DEF WaitEnds, StopRunning, Halts
    <3> QED
      BY <1>9, <3>1
  <2>7. ASSUME NEW well \in BOOLEAN, Halted(t, well) PROVE BusyGoesOn'
    <3>1. StopForgotten(t) /\ ReturnsFromHalt(t) /\ step[t] # "out"
      BY <2>7 DEF Halted
    <3> QED
      BY <1>10, <3>1
  <2>8. CASE StopSteps(t) /\ Stays /\ UNCHANGED <<busy, step, call, after, errors>>
    BY <1>5, <2>8
  <2> QED
    BY <1>11, <2>1, <2>2, <2>3, <2>4, <2>5, <2>6, <2>7, <2>8 DEF CastWorks
<1>12. ASSUME NEW t \in Stewards, StartFails(t) PROVE BusyGoesOn'
  <2>1. step[t] # "out"
    BY <1>12 DEF StartFails
  <2>2. CASE StopProcess(t, castSession) /\ Goes(t, "halt") /\ UNCHANGED busy
    BY <1>9, <2>1, <2>2
  <2>3. CASE Returns(t) /\ UNCHANGED pvars
    BY <1>8, <2>1, <2>3 DEF pvars
  <2> QED
    BY <1>12, <2>2, <2>3 DEF StartFails, Failing
<1>13. ASSUME NEW t \in Stewards, CloseRescues(t) PROVE BusyGoesOn'
  <2>1. /\ step[t] # "out" /\ UNCHANGED busy /\ Goes(t, "halt")
        /\ StopProcess(t, castSession)
    BY <1>13 DEF CloseRescues, Halts
  <2> QED
    BY <1>9, <2>1
<1>14. ASSUME NEW t \in Stewards, Interrupted(t) PROVE BusyGoesOn'
  BY <1>10, <1>14 DEF Interrupted
<1>15. ASSUME NEW t \in Stewards, NEW name \in Calls, CastCall(t, name) PROVE BusyGoesOn'
  BY <1>7, <1>15 DEF CastCall, pvars
<1> QED
  BY <1>4, <1>6, <1>11, <1>12, <1>13, <1>14, <1>15 DEF CastNext

(* However the calls of the screen cast fail or are interrupted, the one   *)
(* that holds _busy still has a step to take, so that no later call is     *)
(* refused for ever (_exclusive, screencast/service.py).                   *)
THEOREM BusyIsGivenBack == CastSpec => []BusyGoesOn
<1>1. CastInit => CastInv /\ BusyGoesOn
  BY CastInvInit DEF CastInit, BusyGoesOn
<1>2. CastInv /\ [CastNext]_cvars => CastInv'
  <2>1. CastInv /\ UNCHANGED cvars => CastInv'
    BY DEF cvars, pvars, CastInv, CastTypeOK, GroupTypeOK, OneCall, KnownGroups, CallIsAt,
       EncoderIsNeverDropped, Unreaped
  <2> QED
    BY <2>1, CastInvStep
<1> QED
  BY <1>1, <1>2, BusyStep, PTL DEF CastSpec

-----------------------------------------------------------------------------
(* check() judges what the owner sees.                                     *)

(* Python's round() of thousandths is the nearest whole number, the even    *)
(* one of two, and leaves something of a mode that has two points.          *)
LEMMA RoundedIsNearest ==
    ASSUME NEW value \in Nat
    PROVE  /\ Rounded(value) \in Nat /\ Nearest(value) = Rounded(value)
           /\ value >= 1000 => Rounded(value) >= 1
<1> DEFINE whole == value \div 1000
           rest == value % 1000
           Near(n) == /\ 1000 * n - 500 <= value /\ value <= 1000 * n + 500
                      /\ value % 1000 = 500 => n % 2 = 0
<1>1. whole \in Nat /\ rest \in 0..999 /\ value = 1000 * whole + rest
    OBVIOUS
<1>2. Rounded(value) = IF rest > 500 \/ (rest = 500 /\ whole % 2 = 1) THEN whole + 1 ELSE whole
    BY DEF Rounded
<1>3. whole % 2 = 0 \/ whole % 2 = 1
    BY <1>1
<1>4. whole % 2 = 1 => (whole + 1) % 2 = 0
    BY <1>1
<1>5. whole % 2 = 0 => (whole + 1) % 2 = 1
    BY <1>1
<1> HIDE DEF whole
<1>6. Rounded(value) \in 0..value /\ Near(Rounded(value))
    <2>1. CASE rest < 500
        BY <2>1, <1>1, <1>2
    <2>2. CASE rest > 500
        BY <2>2, <1>1, <1>2
    <2>3. CASE rest = 500
        BY <2>3, <1>1, <1>2, <1>3, <1>4
    <2> QED BY <2>1, <2>2, <2>3, <1>1
<1>7. ASSUME NEW n \in 0..value, Near(n)
      PROVE  n = Rounded(value)
    <2>1. n = whole \/ n = whole + 1
        BY <1>1, <1>7
    <2>2. CASE rest < 500
        BY <2>1, <2>2, <1>1, <1>2, <1>7
    <2>3. CASE rest > 500
        BY <2>1, <2>3, <1>1, <1>2, <1>7
    <2>4. CASE rest = 500
        <3>1. n % 2 = 0
            BY <1>7, <2>4
        <3> QED BY <3>1, <2>1, <2>4, <1>1, <1>2, <1>3, <1>5
    <2> QED BY <2>2, <2>3, <2>4, <1>1
<1>8. Nearest(value) = CHOOSE n \in 0..value : Near(n)
    BY DEF Nearest
<1>9. value >= 1000 => Rounded(value) >= 1
    BY <1>1, <1>2
<1> HIDE DEF Near
<1>10. Nearest(value) = Rounded(value)
    BY <1>6, <1>7, <1>8
<1> QED BY <1>6, <1>9, <1>10

(* A box of the desktop, and the points it covers.                          *)
Boxes == [x : Int, y : Int, w : Nat \ {0}, h : Nat \ {0}]

PointsOf(b) == (b.x..(b.x + b.w - 1)) \X (b.y..(b.y + b.h - 1))

(* Two boxes overlap when they share a point, and are one when they share   *)
(* them all.                                                                *)
LEMMA OverlapIsShared ==
    ASSUME NEW a \in Boxes, NEW b \in Boxes
    PROVE  /\ Overlap(a, b) <=> PointsOf(a) \cap PointsOf(b) # {}
           /\ a = b <=> PointsOf(a) = PointsOf(b)
<1>1. /\ a.x \in Int /\ a.y \in Int /\ a.w \in Nat /\ a.h \in Nat /\ a.w > 0 /\ a.h > 0
      /\ b.x \in Int /\ b.y \in Int /\ b.w \in Nat /\ b.h \in Nat /\ b.w > 0 /\ b.h > 0
      /\ a = [x |-> a.x, y |-> a.y, w |-> a.w, h |-> a.h]
      /\ b = [x |-> b.x, y |-> b.y, w |-> b.w, h |-> b.h]
    BY DEF Boxes
<1>2. ASSUME NEW c \in {a, b}, NEW u \in Int, NEW v \in Int
      PROVE  <<u, v>> \in PointsOf(c) <=> /\ c.x <= u /\ u < c.x + c.w
                                          /\ c.y <= v /\ v < c.y + c.h
    BY <1>1 DEF PointsOf
<1>3. ASSUME Overlap(a, b) PROVE PointsOf(a) \cap PointsOf(b) # {}
    <2> DEFINE u == IF a.x < b.x THEN b.x ELSE a.x
               v == IF a.y < b.y THEN b.y ELSE a.y
    <2>1. /\ u \in Int /\ v \in Int /\ a.x <= u /\ b.x <= u /\ a.y <= v /\ b.y <= v
          /\ u < a.x + a.w /\ u < b.x + b.w /\ v < a.y + a.h /\ v < b.y + b.h
        BY <1>1, <1>3 DEF Overlap
    <2> HIDE DEF u, v
    <2>2. <<u, v>> \in PointsOf(a) /\ <<u, v>> \in PointsOf(b)
        BY <1>2, <2>1
    <2> QED BY <2>2
<1>4. ASSUME PointsOf(a) \cap PointsOf(b) # {} PROVE Overlap(a, b)
    <2>1. PICK p \in PointsOf(a) : p \in PointsOf(b)
        BY <1>4
    <2>2. PICK u \in Int, v \in Int : p = <<u, v>>
        BY <1>1, <2>1 DEF PointsOf
    <2>3. /\ a.x <= u /\ u < a.x + a.w /\ a.y <= v /\ v < a.y + a.h
          /\ b.x <= u /\ u < b.x + b.w /\ b.y <= v /\ v < b.y + b.h
        BY <1>2, <2>1, <2>2
    <2> QED BY <1>1, <2>3 DEF Overlap
<1>5. ASSUME PointsOf(a) = PointsOf(b) PROVE a = b
    <2>1. /\ <<a.x, a.y>> \in PointsOf(b) /\ <<b.x, b.y>> \in PointsOf(a)
        BY <1>1, <1>2, <1>5
    <2>2. a.x = b.x /\ a.y = b.y
        BY <1>1, <1>2, <2>1
    <2>3. /\ <<a.x + a.w - 1, a.y + a.h - 1>> \in PointsOf(b)
          /\ <<b.x + b.w - 1, b.y + b.h - 1>> \in PointsOf(a)
        BY <1>1, <1>2, <1>5
    <2> DEFINE u == a.x + a.w - 1
               v == a.y + a.h - 1
               q == b.x + b.w - 1
               r == b.y + b.h - 1
    <2>4. u \in Int /\ v \in Int /\ q \in Int /\ r \in Int
        BY <1>1
    <2>5. <<u, v>> \in PointsOf(b) /\ <<q, r>> \in PointsOf(a)
        BY <2>3
    <2> HIDE DEF u, v, q, r
    <2>6. u < b.x + b.w /\ v < b.y + b.h /\ q < a.x + a.w /\ r < a.y + a.h
        BY <1>2, <2>4, <2>5
    <2>7. a.w = b.w /\ a.h = b.h
        BY <1>1, <2>2, <2>6 DEF u, v, q, r
    <2> QED BY <1>1, <2>2, <2>7
<1> QED BY <1>3, <1>4, <1>5

(* A screen of a mode that its output offers is the box that check judges,  *)
(* and covers the points it shows.                                          *)
LEMMA ShownIsBox ==
    ASSUME NEW s, s.x \in Int, s.y \in Int, s.scale \in SCALES, ModesOf(s) # {}
    PROVE  Box(s) \in Boxes /\ Shown(s) = PointsOf(Box(s))
<1> DEFINE m == CHOOSE m \in ModesOf(s) : TRUE
           turned == s.rotation \in {"left", "right"}
           across == IF turned THEN m.height ELSE m.width
           down == IF turned THEN m.width ELSE m.height
<1>1. m \in ModesOf(s)
    OBVIOUS
<1>2. m.width \in Nat /\ m.width >= 2 /\ m.height \in Nat /\ m.height >= 2
    <2>1. m \in Modes
        BY <1>1 DEF ModesOf
    <2> HIDE DEF m
    <2> QED BY <2>1, DisplayLayoutAssumption
<1>3. across \in Nat /\ across >= 2 /\ down \in Nat /\ down >= 2
    <2> HIDE DEF m
    <2> QED BY <1>2
<1>4. Box(s) = [x |-> s.x, y |-> s.y, w |-> Rounded(across * s.scale),
                h |-> Rounded(down * s.scale)]
    BY DEF Box, logical_size
<1>5. Shown(s) = (s.x..(s.x + Nearest(across * s.scale) - 1))
                   \X (s.y..(s.y + Nearest(down * s.scale) - 1))
    BY DEF Shown
<1> HIDE DEF across, down
<1>6. /\ across * s.scale \in Nat /\ across * s.scale >= 1000
      /\ down * s.scale \in Nat /\ down * s.scale >= 1000
    BY <1>3 DEF SCALES
<1> DEFINE w == Rounded(across * s.scale)
           h == Rounded(down * s.scale)
<1>7. /\ w \in Nat /\ w >= 1 /\ Nearest(across * s.scale) = w
      /\ h \in Nat /\ h >= 1 /\ Nearest(down * s.scale) = h
    BY <1>6, RoundedIsNearest
<1> HIDE DEF w, h
<1>8. Box(s) = [x |-> s.x, y |-> s.y, w |-> w, h |-> h]
    BY <1>4 DEF w, h
<1>9. Box(s) \in Boxes
    BY <1>7, <1>8 DEF Boxes
<1>10. Shown(s) = PointsOf(Box(s))
    BY <1>5, <1>7, <1>8 DEF PointsOf
<1> QED BY <1>9, <1>10

(* A configuration, as the bridge hands it to check.                        *)
IsSetting(s) == s.primary \in BOOLEAN /\ s.x \in Int /\ s.y \in Int

(* check accepts exactly the configurations that the owner can use, of any  *)
(* number of outputs, modes and positions (display_layout.py, check).       *)
THEOREM CheckJudgesTheDesktop ==
    ASSUME NEW listed, listed # {}, NEW S, NEW settings \in Seq(S),
           \A s \in S : IsSetting(s)
    PROVE  check(listed, settings) <=> UsableByEye(listed, settings)
<1> DEFINE all == DOMAIN settings
           on == {i \in all : settings[i].enabled}
           WellFormed(i) ==
              /\ ModesOf(settings[i]) # {}
              /\ settings[i].rotation \in Rotations /\ settings[i].scale \in SCALES
              /\ settings[i].x \in 0..MaxCoordinate /\ settings[i].y \in 0..MaxCoordinate
<1>1. /\ all = 1..Len(settings) /\ Len(settings) \in Nat
      /\ \A i \in all : IsSetting(settings[i])
    OBVIOUS
<1>2. on \subseteq all /\ \A i \in all : i \in Nat
    BY <1>1
<1> DEFINE Named == /\ Len(settings) > 0
                    /\ \A i, j \in all : i # j => settings[i].name # settings[j].name
                    /\ {settings[i].name : i \in all} = listed
           Once == /\ \A o \in listed :
                        \E i \in all : \A j \in all : settings[j].name = o <=> i = j
                   /\ \A i \in all : settings[i].name \in listed
<1>3. Named <=> Once
    <2>1. ASSUME Named PROVE Once
        <3>1. ASSUME NEW o \in listed
              PROVE  \E i \in all : \A j \in all : settings[j].name = o <=> i = j
            <4>1. PICK i \in all : settings[i].name = o
                BY <2>1
            <4>2. \A j \in all : settings[j].name = o <=> i = j
                BY <2>1, <4>1
            <4> QED BY <4>2
        <3>2. \A i \in all : settings[i].name \in listed
            BY <2>1
        <3> QED BY <3>1, <3>2
    <2>2. ASSUME Once PROVE Named
        <3>1. ASSUME NEW i \in all, NEW j \in all, settings[i].name = settings[j].name
              PROVE  i = j
            <4>1. settings[i].name \in listed
                BY <2>2
            <4>2. PICK k \in all : \A l \in all : settings[l].name = settings[i].name <=> k = l
                BY <2>2, <4>1
            <4> QED BY <3>1, <4>2
        <3>2. {settings[i].name : i \in all} = listed
            BY <2>2
        <3>3. Len(settings) > 0
            <4>1. PICK o : o \in listed
                OBVIOUS
            <4>2. PICK i \in all : TRUE
                BY <2>2, <4>1
            <4> QED BY <4>2, <1>1
        <3> QED BY <3>1, <3>2, <3>3
    <2> QED BY <2>1, <2>2
<1> DEFINE Main == \E i \in on : settings[i].primary
                                 /\ \A j \in all : settings[j].primary => j = i
           OneMain == \E i \in on : \A j \in all : settings[j].primary <=> i = j
<1>4. Main <=> OneMain
    <2>1. \A j \in all : settings[j].primary \in BOOLEAN
        BY <1>1 DEF IsSetting
    <2>2. ASSUME NEW i \in on
          PROVE  settings[i].primary /\ (\A j \in all : settings[j].primary => j = i)
                   <=> \A j \in all : settings[j].primary <=> i = j
        BY <2>1, <1>2
    <2> HIDE DEF on, all
    <2> QED BY <2>2
<1> DEFINE Offered(i) ==
              /\ \E m \in Modes : m.output = settings[i].name /\ m.id = settings[i].mode
              /\ settings[i].rotation \in Rotations /\ settings[i].scale \in SCALES
              /\ {settings[i].x, settings[i].y} \subseteq 0..MaxCoordinate
<1>5. \A i \in on : WellFormed(i) <=> Offered(i)
    BY DEF ModesOf
<1> DEFINE Apart == \A i, j \in on :
                       i < j => \/ Box(settings[i]) = Box(settings[j])
                                \/ ~Overlap(Box(settings[i]), Box(settings[j]))
           ApartByEye == \A i, j \in on :
                            \/ Shown(settings[i]) = Shown(settings[j])
                            \/ Shown(settings[i]) \cap Shown(settings[j]) = {}
<1>6. ASSUME \A i \in on : WellFormed(i) PROVE Apart <=> ApartByEye
    <2>1. ASSUME NEW i \in on
          PROVE  /\ Box(settings[i]) \in Boxes
                 /\ Shown(settings[i]) = PointsOf(Box(settings[i]))
        <3>1. /\ settings[i].x \in Int /\ settings[i].y \in Int
              /\ settings[i].scale \in SCALES /\ ModesOf(settings[i]) # {}
            BY <1>1, <1>2, <1>6 DEF IsSetting
        <3> QED BY <3>1, ShownIsBox
    <2> DEFINE B(i) == Box(settings[i])
               E(i) == Shown(settings[i])
               Fits(i, j) == B(i) = B(j) \/ ~Overlap(B(i), B(j))
               FitsByEye(i, j) == E(i) = E(j) \/ E(i) \cap E(j) = {}
    <2>2. ASSUME NEW i \in on, NEW j \in on
          PROVE  Fits(i, j) <=> FitsByEye(i, j)
        <3>1. /\ Overlap(B(i), B(j)) <=> PointsOf(B(i)) \cap PointsOf(B(j)) # {}
              /\ B(i) = B(j) <=> PointsOf(B(i)) = PointsOf(B(j))
            BY <2>1, OverlapIsShared
        <3>2. E(i) = PointsOf(B(i)) /\ E(j) = PointsOf(B(j))
            BY <2>1
        <3> HIDE DEF B, E
        <3> QED BY <3>1, <3>2
    <2>3. \A i, j \in on : FitsByEye(i, j) <=> FitsByEye(j, i)
        OBVIOUS
    <2>4. \A i \in on : FitsByEye(i, i)
        OBVIOUS
    <2>5. Apart <=> \A i, j \in on : i < j => Fits(i, j)
        OBVIOUS
    <2>6. ApartByEye <=> \A i, j \in on : FitsByEye(i, j)
        OBVIOUS
    <2>7. \A i, j \in on : i < j \/ j < i \/ i = j
        BY <1>2
    <2> HIDE DEF Apart, ApartByEye, Fits, FitsByEye, B, E, on
    <2> QED BY <2>2, <2>3, <2>4, <2>5, <2>6, <2>7
<1>7. check(listed, settings) <=> Named /\ Main /\ (\A i \in on : WellFormed(i)) /\ Apart
    BY <1>1 DEF check
<1>8. UsableByEye(listed, settings)
        <=> Once /\ OneMain /\ (\A i \in on : Offered(i)) /\ ApartByEye
    BY DEF UsableByEye
<1>9. (\A i \in on : WellFormed(i)) <=> (\A i \in on : Offered(i))
    BY <1>5
<1> HIDE DEF Named, Once, Main, OneMain, WellFormed, Offered, Apart, ApartByEye, on
<1> QED BY <1>3, <1>4, <1>6, <1>7, <1>8, <1>9

(* Every configuration that the run judges is one of those.                 *)
LEMMA NothingMisjudged == Misjudged = {}
<1>1. ASSUME NEW settings \in MCAsked
      PROVE  check({"A", "B"}, settings) <=> UsableByEye({"A", "B"}, settings)
    <2>1. \A s \in On \cup Off : IsSetting(s)
        <3>1. ASSUME NEW s \in On PROVE IsSetting(s)
            <4>1. s.primary \in BOOLEAN
                BY DEF On
            <4>2. s.x \in {0, 2, 3, 4, 5} /\ s.y \in {0, 1, 2}
                BY DEF On
            <4>3. s.x \in Int /\ s.y \in Int
                BY <4>2
            <4> QED BY <4>1, <4>3 DEF IsSetting
        <3>2. ASSUME NEW s \in Off PROVE IsSetting(s)
            <4>1. s.primary \in BOOLEAN
                BY DEF Off
            <4>2. s.x \in {0} /\ s.y \in {0}
                BY DEF Off
            <4>3. s.x \in Int /\ s.y \in Int
                BY <4>2
            <4> QED BY <4>1, <4>3 DEF IsSetting
        <3> QED BY <3>1, <3>2
    <2>2. PICK a \in On \cup Off, b \in On \cup Off : settings = <<a, b>>
        BY DEF MCAsked
    <2>3. settings \in Seq(On \cup Off)
        BY <2>2
    <2>4. {"A", "B"} # {}
        OBVIOUS
    <2> QED BY <2>1, <2>3, <2>4, CheckJudgesTheDesktop
<1>2. ASSUME NEW settings \in MCAsked
      PROVE  check({"A", "B"}, settings) = UsableByEye({"A", "B"}, settings)
    <2>1. /\ check({"A", "B"}, settings) \in BOOLEAN
          /\ UsableByEye({"A", "B"}, settings) \in BOOLEAN
        BY DEF check, UsableByEye
    <2> QED BY <1>1, <2>1
<1> QED BY <1>2 DEF Misjudged

(* So check never misjudges a configuration of the run, whatever the modes  *)
(* and the reach of the desktop (display_layout.py, check).                 *)
THEOREM CheckExact == DesktopSpec => []CheckIsExact
<1>1. CheckIsExact
    BY NothingMisjudged DEF CheckIsExact
<1> QED BY <1>1, PTL
=============================================================================
