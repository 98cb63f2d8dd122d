--------------------------- MODULE WidgetTapProofs ---------------------------
(* A widget tap sends at most one command, to the TV it was tapped for, for *)
(* any number of taps, deaths and requests, any size of the claim record,   *)
(* and any lifetimes and clock drift that satisfy WidgetTapAssumption.      *)
EXTENDS WidgetTap, TLAPS, FiniteSetTheorems

(* The types the argument needs (not the counters of the relay).           *)
Typed ==
    /\ now \in Nat /\ peak \in Nat
    /\ selection \in Devices \cup {"none"}
    /\ claimed \subseteq Taps
    /\ claimedAt \in [Taps -> Nat]
    /\ handler \in [Taps -> {"none", "accepted", "waiting", "done"}]
    /\ tap \in [Taps -> [action : Actions \cup {"none"}, at : Nat,
                         device : Devices \cup {"none"}]]
    /\ job \in [Taps -> {"none", "requested", "recorded", "waiting", "giving_up",
                         "ended", "finished"}]
    /\ queue \subseteq Taps
    /\ running \in Taps \cup {"idle", "window"}
    /\ tx \in [Taps -> Transactions]
    /\ sent \in [Taps -> Nat]
    /\ sentTo \in [Taps -> SUBSET (Devices \cup {"none"})]

(* One body runs at a time, and it is no longer in the queue.              *)
RunInv ==
    \A t \in Taps :
        /\ tx[t].body # "none" => running = t /\ t \notin queue
        /\ tx[t].answered => tx[t].body = "none" /\ t \notin queue

(* A tap whose job does not run has no transaction; one that was not       *)
(* accepted, or whose job was not requested yet, has left no trace.        *)
JobInv ==
    \A t \in Taps :
        /\ job[t] \in {"none", "requested", "recorded"} =>
               tx[t].body = "none" /\ t \notin queue
        /\ handler[t] \in {"none", "accepted"} =>
               job[t] = "none" /\ t \notin claimed /\ sent[t] = 0 /\ sentTo[t] = {}
        /\ t \notin used => handler[t] = "none"

(* The clock, and the times taken from it.                                 *)
ClockInv ==
    /\ now <= peak /\ peak <= now + Drift
    /\ \A t \in Taps : tap[t].at <= peak
    /\ \A t \in claimed : tap[t].at <= claimedAt[t] + Drift

(* Too old to be young again, wherever the clock may still be set.         *)
Over(t) == tap[t].at + Lifetime + Drift < peak

Delivering == {"deliver", "search", "gate_again", "deliver_again"}

(* A tap that sent its command is claimed, or was forgotten too late to    *)
(* matter; one that is about to send is claimed and sent nothing yet.      *)
OnceInv ==
    \A t \in Taps :
        /\ sent[t] = 0 \/ (sent[t] = 1 /\ (t \in claimed \/ Over(t)))
        /\ tx[t].body \in Delivering => t \in claimed /\ sent[t] = 0
        /\ tx[t].body = "claim" => sent[t] = 0 \/ t \in claimed

(* A transaction is for the TV of its tap.                                 *)
TargetInv ==
    \A t \in Taps :
        /\ t \in queue \/ tx[t].body # "none" => tx[t].target = tap[t].device
        /\ sentTo[t] \subseteq {tap[t].device}

IInv == Typed /\ RunInv /\ JobInv /\ ClockInv /\ OnceInv /\ TargetInv

-----------------------------------------------------------------------------
(* The invariant holds when the app is installed.                          *)
LEMMA InitInv == Init => IInv
<1> USE WidgetTapAssumption
<1> SUFFICES ASSUME Init PROVE IInv
  OBVIOUS
<1>1. Typed
  <2>1. NoTransaction \in Transactions
    BY DEF NoTransaction, Transactions, Outcomes
  <2>2. NoTap \in [action : Actions \cup {"none"}, at : Nat, device : Devices \cup {"none"}]
    BY DEF NoTap
  <2> QED
    BY <2>1, <2>2 DEF Init, Typed
<1>2. RunInv /\ JobInv
  BY DEF Init, RunInv, JobInv, NoTransaction
<1>3. ClockInv
  BY DEF Init, ClockInv, NoTap
<1>4. OnceInv /\ TargetInv
  BY DEF Init, OnceInv, TargetInv, NoTransaction, Delivering
<1> QED
  BY <1>1, <1>2, <1>3, <1>4 DEF IInv

(* What the steps of a body do to the transaction of their tap.            *)
Bodies == {"none", "read", "gate", "claim", "deliver", "handed", "search",
           "gate_again", "deliver_again", "end", "complete"}

Moved(t, b) ==
    /\ tx' \in [Taps -> Transactions]
    /\ \A u \in Taps \ {t} : tx'[u] = tx[u]
    /\ tx'[t].body = b
    /\ tx'[t].target = tx[t].target
    /\ tx'[t].answered = tx[t].answered

(* The body goes on at b: the rest of its transaction stays.               *)
LEMMA GotoMoves ==
    ASSUME tx \in [Taps -> Transactions], NEW t \in Taps, NEW b \in Bodies, Goto(t, b)
    PROVE  Moved(t, b)
<1>1. tx[t] \in Transactions
  OBVIOUS
<1>2. [tx[t] EXCEPT !.body = b] \in Transactions
  BY <1>1 DEF Transactions, Bodies
<1>3. tx' = [tx EXCEPT ![t] = [tx[t] EXCEPT !.body = b]]
  BY DEF Goto
<1> QED
  BY <1>1, <1>2, <1>3 DEF Moved, Transactions

(* The body returns: its transaction keeps its target and its answer.      *)
LEMMA ReturnsMoves ==
    ASSUME tx \in [Taps -> Transactions], NEW t \in Taps, NEW o \in Outcomes, Returns(t, o)
    PROVE  Moved(t, "end")
<1>1. tx[t] \in Transactions
  OBVIOUS
<1>2. [tx[t] EXCEPT !.body = "end", !.value = o] \in Transactions
  BY <1>1 DEF Transactions
<1>3. tx' = [tx EXCEPT ![t] = [tx[t] EXCEPT !.body = "end", !.value = o]]
  BY DEF Returns
<1> QED
  BY <1>1, <1>2, <1>3 DEF Moved, Transactions

(* The state the invariant is about, but for tx.                           *)
rest == <<now, peak, selection, used, claimed, claimedAt, handler, tap, job, queue, running,
          sent, sentTo>>

(* A step that only moves a running body keeps the invariant, unless it    *)
(* brings the tap to its claim or to its command.                          *)
LEMMA MovePreserves ==
    ASSUME IInv, UNCHANGED rest, NEW t \in Taps, NEW b \in Bodies \ {"none"},
           Moved(t, b), tx[t].body # "none",
           b \in Delivering => tx[t].body \in Delivering,
           b = "claim" => sent[t] = 0 \/ t \in claimed
    PROVE  IInv'
<1>0. Typed /\ RunInv /\ JobInv /\ ClockInv /\ OnceInv /\ TargetInv
  BY DEF IInv
<1>1. Typed'
  BY <1>0 DEF rest, Typed, Moved
<1>2. RunInv'
  BY <1>0 DEF rest, Typed, RunInv, Moved, Bodies
<1>3. JobInv'
  BY <1>0 DEF rest, Typed, JobInv, Moved, Bodies
<1>4. ClockInv'
  BY <1>0 DEF rest, ClockInv
<1>5. OnceInv'
  BY <1>0 DEF rest, OnceInv, Over, Moved
<1>6. TargetInv'
  BY <1>0 DEF rest, TargetInv, Moved
<1> QED
  BY <1>1, <1>2, <1>3, <1>4, <1>5, <1>6 DEF IInv

(* A tap that may still command is not past its lifetime for good.         *)
LEMMA YoungIsNotOver ==
    ASSUME Typed, ClockInv, NEW t \in Taps, Young(t)
    PROVE  ~Over(t)
  BY WidgetTapAssumption DEF Typed, ClockInv, Young, Over

-----------------------------------------------------------------------------
(* Every step preserves the invariant, action by action.                   *)
LEMMA StepInv == IInv /\ [Next]_vars => IInv'
<1> USE WidgetTapAssumption
<1> SUFFICES ASSUME IInv, [Next]_vars PROVE IInv'
  OBVIOUS
<1>0. Typed /\ RunInv /\ JobInv /\ ClockInv /\ OnceInv /\ TargetInv
  BY DEF IInv
<1>1. ASSUME Tick PROVE IInv'
  <2>1. Typed'
    BY <1>0, <1>1 DEF Tick, stored, clock, relay, history, Typed
  <2>2. RunInv'
    BY <1>0, <1>1 DEF Tick, stored, clock, relay, history, Typed, RunInv, JobInv
  <2>3. JobInv'
    BY <1>0, <1>1 DEF Tick, stored, clock, relay, history, Typed, RunInv, JobInv
  <2>4. ClockInv'
    BY <1>0, <1>1 DEF Tick, stored, clock, relay, history, Typed, ClockInv, JobInv
  <2>5. OnceInv'
    BY <1>0, <1>1 DEF Tick, stored, clock, relay, history, Typed, RunInv, JobInv, OnceInv, Over, Delivering, ClockInv
  <2>6. TargetInv'
    BY <1>0, <1>1 DEF Tick, stored, clock, relay, history, Typed, RunInv, JobInv, TargetInv
  <2> QED
    BY <2>1, <2>2, <2>3, <2>4, <2>5, <2>6 DEF IInv
<1>2. ASSUME NEW d \in Devices, SelectTv(d) PROVE IInv'
  <2>1. Typed'
    BY <1>0, <1>2 DEF SelectTv, stored, clock, relay, history, Typed
  <2>2. RunInv'
    BY <1>0, <1>2 DEF SelectTv, stored, clock, relay, history, Typed, RunInv, JobInv
  <2>3. JobInv'
    BY <1>0, <1>2 DEF SelectTv, stored, clock, relay, history, Typed, RunInv, JobInv
  <2>4. ClockInv'
    BY <1>0, <1>2 DEF SelectTv, stored, clock, relay, history, Typed, ClockInv, JobInv
  <2>5. OnceInv'
    BY <1>0, <1>2 DEF SelectTv, stored, clock, relay, history, Typed, RunInv, JobInv, OnceInv, Over, Delivering
  <2>6. TargetInv'
    BY <1>0, <1>2 DEF SelectTv, stored, clock, relay, history, Typed, RunInv, JobInv, TargetInv
  <2> QED
    BY <2>1, <2>2, <2>3, <2>4, <2>5, <2>6 DEF IInv
<1>3. ASSUME NEW t \in Taps, NEW a \in Actions, Tapped(t, a) PROVE IInv'
  <2>0. /\ tap' \in [Taps -> [action : Actions \cup {"none"}, at : Nat, device : Devices \cup {"none"}]]
        /\ \A u \in Taps : tap'[u].at = tap[u].at /\ tap'[u].device = tap[u].device
    <3>1. CASE t \in used
      BY <1>0, <1>3, <3>1 DEF Tapped, Typed
    <3>2. CASE t \notin used
      <4>1. tap' = [tap EXCEPT ![t] = [tap[t] EXCEPT !.action = a]]
        BY <1>3, <3>2 DEF Tapped
      <4>2. [tap[t] EXCEPT !.action = a]
              \in [action : Actions \cup {"none"}, at : Nat, device : Devices \cup {"none"}]
        BY <1>0 DEF Typed
      <4> QED
        BY <1>0, <4>1, <4>2 DEF Typed
    <3> QED
      BY <3>1, <3>2
  <2>1. Typed'
    BY <1>0, <1>3, <2>0 DEF Tapped, stored, clock, relay, history, Typed
  <2>2. RunInv'
    BY <1>0, <1>3, <2>0 DEF Tapped, stored, clock, relay, history, Typed, RunInv, JobInv
  <2>3. JobInv'
    BY <1>0, <1>3, <2>0 DEF Tapped, stored, clock, relay, history, Typed, RunInv, JobInv
  <2>4. ClockInv'
    BY <1>0, <1>3, <2>0 DEF Tapped, stored, clock, relay, history, Typed, ClockInv, JobInv
  <2>5. OnceInv'
    BY <1>0, <1>3, <2>0 DEF Tapped, stored, clock, relay, history, Typed, RunInv, JobInv, OnceInv, Over, Delivering
  <2>6. TargetInv'
    BY <1>0, <1>3, <2>0 DEF Tapped, stored, clock, relay, history, Typed, RunInv, JobInv, TargetInv
  <2> QED
    BY <2>1, <2>2, <2>3, <2>4, <2>5, <2>6 DEF IInv
<1>4. ASSUME NEW t \in Taps, Enqueue(t) PROVE IInv'
  <2>0. /\ tap' \in [Taps -> [action : Actions \cup {"none"}, at : Nat, device : Devices \cup {"none"}]]
        /\ \A u \in Taps \ {t} : tap'[u] = tap[u]
        /\ tap'[t].at \in {tap[t].at, now}
    <3>1. CASE selection = "none"
      BY <1>0, <1>4, <3>1 DEF Enqueue, Typed
    <3>2. CASE selection # "none"
      <4>1. tap' = [tap EXCEPT ![t] = [tap[t] EXCEPT !.at = now, !.device = selection]]
        BY <1>4, <3>2 DEF Enqueue
      <4>a. /\ tap[t] \in [action : Actions \cup {"none"}, at : Nat, device : Devices \cup {"none"}]
            /\ now \in Nat /\ selection \in Devices \cup {"none"}
        BY <1>0 DEF Typed
      <4>2. [tap[t] EXCEPT !.at = now, !.device = selection]
              \in [action : Actions \cup {"none"}, at : Nat, device : Devices \cup {"none"}]
        BY <4>a
      <4> QED
        BY <1>0, <4>1, <4>2 DEF Typed
    <3> QED
      BY <3>1, <3>2
  <2>1. Typed'
    BY <1>0, <1>4, <2>0 DEF Enqueue, Say, stored, clock, relay, history, Typed
  <2>2. RunInv'
    BY <1>0, <1>4, <2>0 DEF Enqueue, Say, stored, clock, relay, history, Typed, RunInv, JobInv
  <2>3. JobInv'
    BY <1>0, <1>4, <2>0 DEF Enqueue, Say, stored, clock, relay, history, Typed, RunInv, JobInv
  <2>4. ClockInv'
    BY <1>0, <1>4, <2>0 DEF Enqueue, Say, stored, clock, relay, history, Typed, ClockInv, JobInv
  <2>5. OnceInv'
    BY <1>0, <1>4, <2>0 DEF Enqueue, Say, stored, clock, relay, history, Typed, RunInv, JobInv, OnceInv, Over, Delivering
  <2>6. TargetInv'
    BY <1>0, <1>4, <2>0 DEF Enqueue, Say, stored, clock, relay, history, Typed, RunInv, JobInv, TargetInv
  <2> QED
    BY <2>1, <2>2, <2>3, <2>4, <2>5, <2>6 DEF IInv
<1>5. ASSUME NEW t \in Taps, Record(t) PROVE IInv'
  <2>1. Typed'
    BY <1>0, <1>5 DEF Record, stored, clock, relay, history, Typed
  <2>2. RunInv'
    BY <1>0, <1>5 DEF Record, stored, clock, relay, history, Typed, RunInv, JobInv
  <2>3. JobInv'
    BY <1>0, <1>5 DEF Record, stored, clock, relay, history, Typed, RunInv, JobInv
  <2>4. ClockInv'
    BY <1>0, <1>5 DEF Record, stored, clock, relay, history, Typed, ClockInv, JobInv
  <2>5. OnceInv'
    BY <1>0, <1>5 DEF Record, stored, clock, relay, history, Typed, RunInv, JobInv, OnceInv, Over, Delivering
  <2>6. TargetInv'
    BY <1>0, <1>5 DEF Record, stored, clock, relay, history, Typed, RunInv, JobInv, TargetInv
  <2> QED
    BY <2>1, <2>2, <2>3, <2>4, <2>5, <2>6 DEF IInv
<1>6. ASSUME NEW t \in Taps, EnqueueEnds(t) PROVE IInv'
  <2>1. Typed'
    BY <1>0, <1>6 DEF EnqueueEnds, Say, stored, clock, relay, history, Typed
  <2>2. RunInv'
    BY <1>0, <1>6 DEF EnqueueEnds, Say, stored, clock, relay, history, Typed, RunInv, JobInv
  <2>3. JobInv'
    BY <1>0, <1>6 DEF EnqueueEnds, Say, stored, clock, relay, history, Typed, RunInv, JobInv
  <2>4. ClockInv'
    BY <1>0, <1>6 DEF EnqueueEnds, Say, stored, clock, relay, history, Typed, ClockInv, JobInv
  <2>5. OnceInv'
    BY <1>0, <1>6 DEF EnqueueEnds, Say, stored, clock, relay, history, Typed, RunInv, JobInv, OnceInv, Over, Delivering
  <2>6. TargetInv'
    BY <1>0, <1>6 DEF EnqueueEnds, Say, stored, clock, relay, history, Typed, RunInv, JobInv, TargetInv
  <2> QED
    BY <2>1, <2>2, <2>3, <2>4, <2>5, <2>6 DEF IInv
<1>7. ASSUME NEW t \in Taps, RunJob(t) PROVE IInv'
  <2>0. CASE Admit(t) /\ selection = tap[t].device
    <3> DEFINE fresh == [NoTransaction EXCEPT !.target = selection]
    <3>1. fresh \in Transactions /\ fresh.body = "none" /\ ~fresh.answered /\ fresh.target = selection
      BY <1>0 DEF NoTransaction, Transactions, Outcomes, Typed
    <3>2. tx' = [tx EXCEPT ![t] = fresh]
      BY <2>0 DEF Admit
    <3> HIDE DEF fresh
    <3>3. /\ tx' \in [Taps -> Transactions]
          /\ \A u \in Taps \ {t} : tx'[u] = tx[u]
          /\ tx'[t].body = "none" /\ ~tx'[t].answered /\ tx'[t].target = selection
      BY <1>0, <3>1, <3>2 DEF Typed
    <3>4. /\ queue' = queue \cup {t} /\ job' = [job EXCEPT ![t] = "waiting"]
          /\ job[t] = "recorded"
          /\ UNCHANGED <<now, peak, selection, used, claimed, claimedAt, handler, tap, running, sent, sentTo>>
      BY <1>7, <2>0 DEF RunJob, Admit, stored, clock, history
    <3>5. Typed'
      BY <1>0, <3>3, <3>4 DEF Typed
    <3>6. RunInv'
      BY <1>0, <3>3, <3>4 DEF Typed, RunInv, JobInv
    <3>7. JobInv'
      BY <1>0, <3>3, <3>4 DEF Typed, JobInv
    <3>8. ClockInv'
      BY <1>0, <3>4 DEF ClockInv
    <3>9. OnceInv'
      BY <1>0, <3>3, <3>4 DEF Typed, OnceInv, Over, Delivering
    <3>10. TargetInv'
      BY <1>0, <2>0, <3>3, <3>4 DEF Typed, TargetInv
    <3> QED
      BY <3>5, <3>6, <3>7, <3>8, <3>9, <3>10 DEF IInv
  <2>1. CASE EndJob(t, "not_sent") /\ UNCHANGED <<relay, tx>>
    <3>1. /\ job' = [job EXCEPT ![t] = "ended"]
          /\ UNCHANGED <<now, peak, selection, used, claimed, claimedAt, handler, tap, queue, running, tx, sent, sentTo>>
      BY <1>7, <2>1 DEF RunJob, EndJob, stored, clock, relay, history
    <3>2. job[t] = "recorded"
      BY <1>7 DEF RunJob
    <3> QED
      BY <1>0, <3>1, <3>2 DEF IInv, Typed, RunInv, JobInv, ClockInv, OnceInv, Over, TargetInv
  <2> QED
    BY <1>7, <2>0, <2>1 DEF RunJob
<1>8. ASSUME NEW t \in Taps, JobAnswered(t) PROVE IInv'
  <2>1. Typed'
    BY <1>0, <1>8 DEF JobAnswered, EndJob, Say, NoTransaction, stored, clock, relay, history, Typed, Transactions, Outcomes
  <2>2. RunInv'
    BY <1>0, <1>8 DEF JobAnswered, EndJob, Say, NoTransaction, stored, clock, relay, history, Typed, RunInv, JobInv, Transactions, Outcomes
  <2>3. JobInv'
    BY <1>0, <1>8 DEF JobAnswered, EndJob, Say, NoTransaction, stored, clock, relay, history, Typed, RunInv, JobInv, Transactions, Outcomes
  <2>4. ClockInv'
    BY <1>0, <1>8 DEF JobAnswered, EndJob, Say, NoTransaction, stored, clock, relay, history, Typed, ClockInv, JobInv, Transactions, Outcomes
  <2>5. OnceInv'
    BY <1>0, <1>8 DEF JobAnswered, EndJob, Say, NoTransaction, stored, clock, relay, history, Typed, RunInv, JobInv, OnceInv, Over, Delivering, Transactions, Outcomes
  <2>6. TargetInv'
    BY <1>0, <1>8 DEF JobAnswered, EndJob, Say, NoTransaction, stored, clock, relay, history, Typed, RunInv, JobInv, TargetInv, Transactions, Outcomes
  <2> QED
    BY <2>1, <2>2, <2>3, <2>4, <2>5, <2>6 DEF IInv
<1>9. ASSUME NEW t \in Taps, GiveUp(t) PROVE IInv'
  <2>0. /\ tx' \in [Taps -> Transactions]
        /\ \A u \in Taps \ {t} : tx'[u] = tx[u]
        /\ tx'[t].body = tx[t].body /\ tx'[t].answered = tx[t].answered
        /\ tx'[t].target = tx[t].target
        /\ job' = [job EXCEPT ![t] = "giving_up"] /\ job[t] = "waiting"
        /\ UNCHANGED <<now, peak, selection, used, claimed, claimedAt, handler, tap, queue, running, sent, sentTo>>
    <3>1. tx' = [tx EXCEPT ![t] = [tx[t] EXCEPT !.wanted = FALSE]]
      BY <1>9 DEF GiveUp
    <3>a. tx[t] \in Transactions
      BY <1>0 DEF Typed
    <3>2. [tx[t] EXCEPT !.wanted = FALSE] \in Transactions
      BY <3>a DEF Transactions
    <3>3. /\ job' = [job EXCEPT ![t] = "giving_up"] /\ job[t] = "waiting"
          /\ UNCHANGED <<now, peak, selection, used, claimed, claimedAt, handler, tap, queue, running, sent, sentTo>>
      BY <1>9 DEF GiveUp, stored, clock, relay, history
    <3> QED
      BY <1>0, <3>1, <3>2, <3>3 DEF Typed, Transactions
  <2>1. Typed'
    BY <1>0, <2>0 DEF Typed
  <2>2. RunInv'
    BY <1>0, <2>0 DEF Typed, RunInv
  <2>3. JobInv'
    BY <1>0, <2>0 DEF Typed, JobInv
  <2>4. ClockInv'
    BY <1>0, <2>0 DEF ClockInv
  <2>5. OnceInv'
    BY <1>0, <2>0 DEF Typed, OnceInv, Over
  <2>6. TargetInv'
    BY <1>0, <2>0 DEF Typed, TargetInv
  <2> QED
    BY <2>1, <2>2, <2>3, <2>4, <2>5, <2>6 DEF IInv
<1>10. ASSUME NEW t \in Taps, Withdraw(t) PROVE IInv'
  <2>0. /\ tx' \in [Taps -> Transactions]
        /\ \A u \in Taps \ {t} : tx'[u] = tx[u]
        /\ tx'[t].body = tx[t].body
        /\ tx'[t].answered => tx[t].answered
        /\ tx'[t].target = tx[t].target \/ (tx[t].body = "none" /\ t \notin queue)
        /\ job' = [job EXCEPT ![t] = "ended"] /\ job[t] = "giving_up"
        /\ UNCHANGED <<now, peak, selection, used, claimed, claimedAt, handler, tap, queue, running, sent, sentTo>>
    <3>0. /\ job' = [job EXCEPT ![t] = "ended"] /\ job[t] = "giving_up"
          /\ UNCHANGED <<now, peak, selection, used, claimed, claimedAt, handler, tap, queue, running, sent, sentTo>>
      BY <1>10 DEF Withdraw, EndJob, stored, clock, relay, history
    <3>1. CASE tx' = [tx EXCEPT ![t].state = "ABANDONED"]
      <4>1. tx' = [tx EXCEPT ![t] = [tx[t] EXCEPT !.state = "ABANDONED"]]
        BY <3>1
      <4>a. tx[t] \in Transactions
        BY <1>0 DEF Typed
      <4>2. [tx[t] EXCEPT !.state = "ABANDONED"] \in Transactions
        BY <4>a DEF Transactions
      <4> QED
        BY <1>0, <3>0, <4>1, <4>2 DEF Typed, Transactions
    <3>2. CASE tx' = [tx EXCEPT ![t] = NoTransaction] /\ tx[t].answered
      <4>1. /\ NoTransaction \in Transactions
            /\ NoTransaction.body = "none" /\ ~NoTransaction.answered
        BY DEF NoTransaction, Transactions, Outcomes
      <4>2. tx[t].body = "none" /\ t \notin queue
        BY <1>0, <3>2 DEF RunInv
      <4> QED
        BY <1>0, <3>0, <3>2, <4>1, <4>2 DEF Typed
    <3>3. CASE tx' = tx
      BY <1>0, <3>0, <3>3 DEF Typed
    <3> QED
      BY <1>10, <3>1, <3>2, <3>3 DEF Withdraw
  <2>1. Typed'
    BY <1>0, <2>0 DEF Typed
  <2>2. RunInv'
    BY <1>0, <2>0 DEF Typed, RunInv
  <2>3. JobInv'
    BY <1>0, <2>0 DEF Typed, JobInv
  <2>4. ClockInv'
    BY <1>0, <2>0 DEF ClockInv
  <2>5. OnceInv'
    BY <1>0, <2>0 DEF Typed, OnceInv, Over
  <2>6. TargetInv'
    BY <1>0, <2>0 DEF Typed, TargetInv
  <2> QED
    BY <2>1, <2>2, <2>3, <2>4, <2>5, <2>6 DEF IInv
<1>11. ASSUME NEW t \in Taps, JobRecordedAsDone(t) PROVE IInv'
  <2>1. Typed'
    BY <1>0, <1>11 DEF JobRecordedAsDone, stored, clock, relay, history, Typed
  <2>2. RunInv'
    BY <1>0, <1>11 DEF JobRecordedAsDone, stored, clock, relay, history, Typed, RunInv, JobInv
  <2>3. JobInv'
    BY <1>0, <1>11 DEF JobRecordedAsDone, stored, clock, relay, history, Typed, RunInv, JobInv
  <2>4. ClockInv'
    BY <1>0, <1>11 DEF JobRecordedAsDone, stored, clock, relay, history, Typed, ClockInv, JobInv
  <2>5. OnceInv'
    BY <1>0, <1>11 DEF JobRecordedAsDone, stored, clock, relay, history, Typed, RunInv, JobInv, OnceInv, Over, Delivering
  <2>6. TargetInv'
    BY <1>0, <1>11 DEF JobRecordedAsDone, stored, clock, relay, history, Typed, RunInv, JobInv, TargetInv
  <2> QED
    BY <2>1, <2>2, <2>3, <2>4, <2>5, <2>6 DEF IInv
<1>12. ASSUME Submit PROVE IInv'
  <2>1. Typed'
    BY <1>0, <1>12 DEF Submit, stored, clock, relay, history, Typed
  <2>2. RunInv'
    BY <1>0, <1>12 DEF Submit, stored, clock, relay, history, Typed, RunInv, JobInv
  <2>3. JobInv'
    BY <1>0, <1>12 DEF Submit, stored, clock, relay, history, Typed, RunInv, JobInv
  <2>4. ClockInv'
    BY <1>0, <1>12 DEF Submit, stored, clock, relay, history, Typed, ClockInv, JobInv
  <2>5. OnceInv'
    BY <1>0, <1>12 DEF Submit, stored, clock, relay, history, Typed, RunInv, JobInv, OnceInv, Over, Delivering
  <2>6. TargetInv'
    BY <1>0, <1>12 DEF Submit, stored, clock, relay, history, Typed, RunInv, JobInv, TargetInv
  <2> QED
    BY <2>1, <2>2, <2>3, <2>4, <2>5, <2>6 DEF IInv
<1>13. ASSUME RunWindow PROVE IInv'
  <2>1. Typed'
    BY <1>0, <1>13 DEF RunWindow, stored, clock, relay, history, Typed
  <2>2. RunInv'
    BY <1>0, <1>13 DEF RunWindow, stored, clock, relay, history, Typed, RunInv, JobInv
  <2>3. JobInv'
    BY <1>0, <1>13 DEF RunWindow, stored, clock, relay, history, Typed, RunInv, JobInv
  <2>4. ClockInv'
    BY <1>0, <1>13 DEF RunWindow, stored, clock, relay, history, Typed, ClockInv, JobInv
  <2>5. OnceInv'
    BY <1>0, <1>13 DEF RunWindow, stored, clock, relay, history, Typed, RunInv, JobInv, OnceInv, Over, Delivering
  <2>6. TargetInv'
    BY <1>0, <1>13 DEF RunWindow, stored, clock, relay, history, Typed, RunInv, JobInv, TargetInv
  <2> QED
    BY <2>1, <2>2, <2>3, <2>4, <2>5, <2>6 DEF IInv
<1>14. ASSUME EndWindow PROVE IInv'
  <2>1. Typed'
    BY <1>0, <1>14 DEF EndWindow, stored, clock, relay, history, Typed
  <2>2. RunInv'
    BY <1>0, <1>14 DEF EndWindow, stored, clock, relay, history, Typed, RunInv, JobInv
  <2>3. JobInv'
    BY <1>0, <1>14 DEF EndWindow, stored, clock, relay, history, Typed, RunInv, JobInv
  <2>4. ClockInv'
    BY <1>0, <1>14 DEF EndWindow, stored, clock, relay, history, Typed, ClockInv, JobInv
  <2>5. OnceInv'
    BY <1>0, <1>14 DEF EndWindow, stored, clock, relay, history, Typed, RunInv, JobInv, OnceInv, Over, Delivering
  <2>6. TargetInv'
    BY <1>0, <1>14 DEF EndWindow, stored, clock, relay, history, Typed, RunInv, JobInv, TargetInv
  <2> QED
    BY <2>1, <2>2, <2>3, <2>4, <2>5, <2>6 DEF IInv
<1>15. ASSUME NEW t \in Taps, StartTransaction(t) PROVE IInv'
  <2>0. /\ tx' \in [Taps -> Transactions]
        /\ \A u \in Taps \ {t} : tx'[u] = tx[u]
        /\ \/ /\ tx'[t].body \in {"end", "gate", "read"} /\ running' = t
              /\ tx'[t].target = tx[t].target /\ tx'[t].answered = tx[t].answered
           \/ tx'[t].body = "none" /\ ~tx'[t].answered /\ running' = running
        /\ t \in queue /\ running = "idle" /\ queue' = queue \ {t}
        /\ UNCHANGED <<now, peak, selection, used, claimed, claimedAt, handler, tap, job, sent, sentTo>>
    <3>0. /\ t \in queue /\ running = "idle" /\ queue' = queue \ {t}
          /\ UNCHANGED <<now, peak, selection, used, claimed, claimedAt, handler, tap, job, sent, sentTo>>
      BY <1>15 DEF StartTransaction, stored, clock, history
    <3>1. CASE Started(t)
      <4> DEFINE b == IF ~Young(t) THEN "end" ELSE IF tap[t].action = "key" THEN "gate" ELSE "read"
                 r == [tx[t] EXCEPT !.state = "STARTED", !.value = "not_sent", !.body = b]
      <4>0. b \in {"end", "gate", "read"}
        OBVIOUS
      <4>1. tx' = [tx EXCEPT ![t] = r] /\ running' = t
        BY <3>1 DEF Started
      <4> HIDE DEF b
      <4>a. tx[t] \in Transactions
        BY <1>0 DEF Typed
      <4>2. r \in Transactions
        BY <4>0, <4>a DEF Transactions, Outcomes
      <4>3. r.body = b /\ r.target = tx[t].target /\ r.answered = tx[t].answered
        BY <1>0 DEF Typed, Transactions
      <4> HIDE DEF r
      <4> QED
        BY <1>0, <3>0, <4>0, <4>1, <4>2, <4>3 DEF Typed
    <3>2. CASE tx' = [tx EXCEPT ![t] = NoTransaction] /\ UNCHANGED running
      <4>1. /\ NoTransaction \in Transactions
            /\ NoTransaction.body = "none" /\ ~NoTransaction.answered
        BY DEF NoTransaction, Transactions, Outcomes
      <4> QED
        BY <1>0, <3>0, <3>2, <4>1 DEF Typed
    <3> QED
      BY <1>15, <3>1, <3>2 DEF StartTransaction
  <2>a. \A u \in Taps : tx[u].body = "none"
    BY <1>0, <2>0 DEF RunInv
  <2>b. ~tx[t].answered /\ job[t] \notin {"none", "requested", "recorded"}
    BY <1>0, <2>0 DEF RunInv, JobInv, Typed
  <2>1. Typed'
    BY <1>0, <2>0 DEF Typed
  <2>2. RunInv'
    BY <1>0, <2>0, <2>a, <2>b DEF Typed, RunInv
  <2>3. JobInv'
    BY <1>0, <2>0, <2>b DEF Typed, JobInv
  <2>4. ClockInv'
    BY <1>0, <2>0 DEF ClockInv
  <2>5. OnceInv'
    BY <1>0, <2>0 DEF Typed, OnceInv, Over, Delivering
  <2>6. TargetInv'
    BY <1>0, <2>0 DEF Typed, TargetInv
  <2> QED
    BY <2>1, <2>2, <2>3, <2>4, <2>5, <2>6 DEF IInv
<1>16. ASSUME NEW t \in Taps, CountOut(t) PROVE IInv'
  <2>0. UNCHANGED rest /\ tx \in [Taps -> Transactions] /\ tx[t].body # "none"
    BY <1>0, <1>16 DEF CountOut, rest, stored, clock, history, Typed
  <2>1. Goto(t, "complete")
    BY <1>16 DEF CountOut, Goto
  <2> QED
    BY <2>0, <2>1, GotoMoves, MovePreserves DEF Bodies, Delivering
<1>17. ASSUME NEW t \in Taps, Complete(t) PROVE IInv'
  <2>0. /\ tx' \in [Taps -> Transactions]
        /\ \A u \in Taps \ {t} : tx'[u] = tx[u]
        /\ tx'[t].body = "none" /\ tx[t].body = "complete"
        /\ running' = "idle"
        /\ UNCHANGED <<now, peak, selection, used, claimed, claimedAt, handler, tap, job, queue, sent, sentTo>>
    <3>0. /\ tx[t].body = "complete" /\ running' = "idle"
          /\ UNCHANGED <<now, peak, selection, used, claimed, claimedAt, handler, tap, job, queue, sent, sentTo>>
      BY <1>17 DEF Complete, stored, clock, history
    <3> DEFINE r == IF job[t] \in {"waiting", "giving_up"}
                    THEN [tx[t] EXCEPT !.answered = TRUE, !.body = "none"]
                    ELSE NoTransaction
    <3>1. tx' = [tx EXCEPT ![t] = r]
      BY <1>17 DEF Complete
    <3>a. tx[t] \in Transactions
      BY <1>0 DEF Typed
    <3>b. NoTransaction \in Transactions /\ NoTransaction.body = "none"
      BY DEF NoTransaction, Transactions, Outcomes
    <3>c. /\ [tx[t] EXCEPT !.answered = TRUE, !.body = "none"] \in Transactions
          /\ [tx[t] EXCEPT !.answered = TRUE, !.body = "none"].body = "none"
      BY <3>a DEF Transactions
    <3>2. r \in Transactions /\ r.body = "none"
      BY <3>b, <3>c
    <3> HIDE DEF r
    <3> QED
      BY <1>0, <3>0, <3>1, <3>2 DEF Typed
  <2>a. running = t /\ t \notin queue /\ \A u \in Taps \ {t} : tx[u].body = "none"
    BY <1>0, <2>0 DEF RunInv
  <2>1. Typed'
    BY <1>0, <2>0 DEF Typed
  <2>2. RunInv'
    BY <1>0, <2>0, <2>a DEF Typed, RunInv
  <2>3. JobInv'
    BY <1>0, <2>0 DEF Typed, JobInv
  <2>4. ClockInv'
    BY <1>0, <2>0 DEF ClockInv
  <2>5. OnceInv'
    BY <1>0, <2>0 DEF Typed, OnceInv, Over, Delivering
  <2>6. TargetInv'
    BY <1>0, <2>0, <2>a DEF Typed, TargetInv
  <2> QED
    BY <2>1, <2>2, <2>3, <2>4, <2>5, <2>6 DEF IInv
<1>18. ASSUME NEW t \in Taps, ReadAndChoose(t) PROVE IInv'
  <2>0. UNCHANGED rest /\ tx \in [Taps -> Transactions] /\ tx[t].body # "none"
    BY <1>0, <1>18 DEF ReadAndChoose, Within, rest, stored, clock, relay, history, Typed
  <2>1. CASE Returns(t, "not_sent")
    BY <2>0, <2>1, ReturnsMoves, MovePreserves DEF Outcomes, Bodies, Delivering
  <2>2. CASE Goto(t, "gate")
    BY <2>0, <2>2, GotoMoves, MovePreserves DEF Bodies, Delivering
  <2> QED
    BY <1>18, <2>1, <2>2 DEF ReadAndChoose
<1>19. ASSUME NEW t \in Taps, MayCommand(t) PROVE IInv'
  <2>0. UNCHANGED rest /\ tx \in [Taps -> Transactions] /\ tx[t].body # "none"
    BY <1>0, <1>19 DEF MayCommand, Within, rest, stored, clock, relay, history, Typed
  <2>1. CASE tx[t].wanted /\ Young(t)
    <3>1. sent[t] = 0 \/ t \in claimed
      BY <1>0, <2>1, YoungIsNotOver DEF OnceInv
    <3>2. CASE tx[t].body = "gate"
      <4>1. Goto(t, "claim")
        BY <1>19, <2>1, <3>2 DEF MayCommand
      <4> QED
        BY <2>0, <3>1, <4>1, GotoMoves, MovePreserves DEF Bodies, Delivering
    <3>3. CASE tx[t].body = "gate_again"
      <4>1. Goto(t, "deliver_again")
        BY <1>19, <2>1, <3>3 DEF MayCommand
      <4> QED
        BY <2>0, <3>3, <4>1, GotoMoves, MovePreserves DEF Bodies, Delivering
    <3> QED
      BY <1>19, <3>2, <3>3 DEF MayCommand
  <2>2. CASE Returns(t, "not_sent")
    BY <2>0, <2>2, ReturnsMoves, MovePreserves DEF Outcomes, Bodies, Delivering
  <2> QED
    BY <1>19, <2>1, <2>2 DEF MayCommand
<1>20. ASSUME NEW t \in Taps, Claim(t) PROVE IInv'
  <2>0. /\ UNCHANGED <<now, peak, selection, used, handler, tap, job, queue, running, sent, sentTo>>
        /\ tx \in [Taps -> Transactions] /\ tx[t].body = "claim"
    BY <1>0, <1>20 DEF Claim, Within, stored, clock, relay, history, Typed
  <2>1. CASE Returns(t, "uncertain") /\ UNCHANGED <<claimed, claimedAt>>
    <3>1. UNCHANGED rest
      BY <2>0, <2>1 DEF rest
    <3> QED
      BY <2>0, <2>1, <3>1, ReturnsMoves, MovePreserves DEF Outcomes, Bodies, Delivering
  <2>2. ASSUME t \notin claimed, Goto(t, "deliver"),
               claimedAt' = [claimedAt EXCEPT ![t] = now],
               NEW gone \in SUBSET claimed, Forgotten(gone),
               claimed' = (claimed \ gone) \cup {t}
        PROVE  IInv'
    <3>1. Moved(t, "deliver")
      BY <2>0, <2>2, GotoMoves DEF Bodies
    <3>2. \A u \in gone : now - claimedAt[u] > Evictable
      BY <1>0, <2>2 DEF Forgotten, Typed
    <3>3. \A u \in gone : Over(u)
      BY <1>0, <3>2 DEF Typed, ClockInv, Over
    <3>4. sent[t] = 0
      BY <1>0, <2>0, <2>2 DEF OnceInv
    <3>5. running = t /\ t \notin queue /\ ~tx[t].answered /\ job[t] \notin {"none", "requested", "recorded"}
      BY <1>0, <2>0 DEF RunInv, JobInv, Typed
    <3>6. \A u \in Taps \ {t} : tx[u].body = "none"
      BY <1>0, <3>5 DEF RunInv
    <3>7. Typed'
      BY <1>0, <2>0, <2>2, <3>1 DEF Typed, Moved
    <3>8. RunInv'
      BY <1>0, <2>0, <3>1, <3>5 DEF Typed, RunInv, Moved
    <3>9. JobInv'
      BY <1>0, <2>0, <2>2, <3>1, <3>5 DEF Typed, JobInv, Moved
    <3>10. ClockInv'
      BY <1>0, <2>0, <2>2 DEF Typed, ClockInv
    <3>11. OnceInv'
      BY <1>0, <2>0, <2>2, <3>1, <3>3, <3>4, <3>6 DEF Typed, OnceInv, Over, Delivering, Moved
    <3>12. TargetInv'
      BY <1>0, <2>0, <3>1 DEF Typed, TargetInv, Moved
    <3> QED
      BY <3>7, <3>8, <3>9, <3>10, <3>11, <3>12 DEF IInv
  <2> QED
    BY <1>20, <2>1, <2>2 DEF Claim
<1>21. ASSUME NEW t \in Taps, Deliver(t) PROVE IInv'
  <2>0. /\ UNCHANGED <<now, peak, selection, used, claimed, claimedAt, handler, tap, job, queue, running>>
        /\ tx \in [Taps -> Transactions] /\ tx[t].body \in Delivering
    BY <1>0, <1>21 DEF Deliver, Within, stored, clock, relay, Typed, Delivering
  <2>1. CASE UNCHANGED <<sent, sentTo>>
    <3>1. UNCHANGED rest
      BY <2>0, <2>1 DEF rest
    <3>2. CASE Returns(t, "not_sent")
      BY <2>0, <3>1, <3>2, ReturnsMoves, MovePreserves DEF Outcomes, Bodies, Delivering
    <3>3. CASE Goto(t, "search")
      BY <2>0, <3>1, <3>3, GotoMoves, MovePreserves DEF Bodies, Delivering
    <3>4. CASE Goto(t, "handed")
      BY <2>0, <3>1, <3>4, GotoMoves, MovePreserves DEF Bodies, Delivering
    <3> QED
      BY <1>21, <3>2, <3>3, <3>4 DEF Deliver
  <2>2. CASE /\ sent' = [sent EXCEPT ![t] = @ + 1]
             /\ sentTo' = [sentTo EXCEPT ![t] = @ \cup {tx[t].target}]
             /\ Goto(t, "handed")
    <3>1. Moved(t, "handed")
      BY <2>0, <2>2, GotoMoves DEF Bodies
    <3>2. t \in claimed /\ sent[t] = 0 /\ tx[t].target = tap[t].device
      BY <1>0, <2>0 DEF OnceInv, TargetInv, Delivering
    <3>3. running = t /\ t \notin queue /\ ~tx[t].answered /\ handler[t] \notin {"none", "accepted"}
      BY <1>0, <2>0, <3>2 DEF RunInv, JobInv, Delivering
    <3>a. job[t] \notin {"none", "requested", "recorded"}
      BY <1>0, <2>0 DEF JobInv, Delivering
    <3>b. /\ sent' \in [Taps -> Nat]
          /\ sentTo' \in [Taps -> SUBSET (Devices \cup {"none"})]
      <4>1. tap[t].device \in Devices \cup {"none"}
        BY <1>0 DEF Typed
      <4> QED
        BY <1>0, <2>2, <3>2, <4>1 DEF Typed
    <3>4. Typed'
      BY <1>0, <2>0, <3>1, <3>b DEF Typed, Moved
    <3>5. RunInv'
      BY <1>0, <2>0, <3>1, <3>3 DEF Typed, RunInv, Moved
    <3>6. JobInv'
      BY <1>0, <2>0, <2>2, <3>1, <3>3, <3>a DEF Typed, JobInv, Moved
    <3>7. ClockInv'
      BY <1>0, <2>0 DEF ClockInv
    <3>8. OnceInv'
      BY <1>0, <2>0, <2>2, <3>1, <3>2 DEF Typed, OnceInv, Over, Delivering, Moved
    <3>9. TargetInv'
      BY <1>0, <2>0, <2>2, <3>1, <3>2 DEF Typed, TargetInv, Moved
    <3> QED
      BY <3>4, <3>5, <3>6, <3>7, <3>8, <3>9 DEF IInv
  <2> QED
    BY <1>21, <2>1, <2>2 DEF Deliver
<1>22. ASSUME NEW t \in Taps, Answered(t) PROVE IInv'
  <2>0. UNCHANGED rest /\ tx \in [Taps -> Transactions] /\ tx[t].body # "none"
    BY <1>0, <1>22 DEF Answered, Within, rest, stored, clock, relay, history, Typed
  <2>1. CASE \E o \in {"answered", "uncertain"} : Returns(t, o)
    BY <2>0, <2>1, ReturnsMoves, MovePreserves DEF Outcomes, Bodies, Delivering
  <2> QED
    BY <1>22, <2>1 DEF Answered
<1>23. ASSUME NEW t \in Taps, Search(t) PROVE IInv'
  <2>0. UNCHANGED rest /\ tx \in [Taps -> Transactions] /\ tx[t].body # "none"
    BY <1>0, <1>23 DEF Search, Within, rest, stored, clock, relay, history, Typed
  <2>1. CASE Returns(t, "not_sent")
    BY <2>0, <2>1, ReturnsMoves, MovePreserves DEF Outcomes, Bodies, Delivering
  <2>2. CASE Goto(t, "gate_again")
    <3>1. tx[t].body \in Delivering
      BY <1>23 DEF Search, Delivering
    <3> QED
      BY <2>0, <2>2, <3>1, GotoMoves, MovePreserves DEF Bodies, Delivering
  <2> QED
    BY <1>23, <2>1, <2>2 DEF Search
<1>24. ASSUME Die PROVE IInv'
  <2>1. Typed'
    BY <1>0, <1>24 DEF Die, NoTransaction, stored, clock, relay, history, Typed, Transactions, Outcomes
  <2>2. RunInv'
    BY <1>0, <1>24 DEF Die, NoTransaction, stored, clock, relay, history, Typed, RunInv, JobInv, Transactions, Outcomes
  <2>3. JobInv'
    BY <1>0, <1>24 DEF Die, NoTransaction, stored, clock, relay, history, Typed, RunInv, JobInv, Transactions, Outcomes
  <2>4. ClockInv'
    BY <1>0, <1>24 DEF Die, NoTransaction, stored, clock, relay, history, Typed, ClockInv, JobInv, Transactions, Outcomes
  <2>5. OnceInv'
    BY <1>0, <1>24 DEF Die, NoTransaction, stored, clock, relay, history, Typed, RunInv, JobInv, OnceInv, Over, Delivering, Transactions, Outcomes
  <2>6. TargetInv'
    BY <1>0, <1>24 DEF Die, NoTransaction, stored, clock, relay, history, Typed, RunInv, JobInv, TargetInv, Transactions, Outcomes
  <2> QED
    BY <2>1, <2>2, <2>3, <2>4, <2>5, <2>6 DEF IInv
<1>25. CASE UNCHANGED vars
  BY <1>0, <1>25 DEF vars, stored, clock, relay, history, IInv, Typed, RunInv, JobInv, ClockInv, OnceInv, Over, TargetInv
<1> QED
  BY <1>1, <1>2, <1>3, <1>4, <1>5, <1>6, <1>7, <1>8, <1>9, <1>10, <1>11, <1>12, <1>13, <1>14, <1>15, <1>16, <1>17, <1>18, <1>19, <1>20, <1>21, <1>22, <1>23, <1>24, <1>25 DEF Next, HandlerStep, JobStep, BodyStep

-----------------------------------------------------------------------------
(* The invariant holds in every state of every behaviour.                  *)
LEMMA Invariant == Spec => []IInv
  BY InitInv, StepInv, PTL DEF Spec

(* A tap sends at most one command (TapGuard, ClaimedTaps.claim): through   *)
(* redelivered broadcasts, jobs run again after any number of process       *)
(* deaths, claims forgotten when the record is full or old, and a clock set *)
(* back by at most Drift, as long as Evictable is at least the lifetime of  *)
(* a tap and twice that drift.                                              *)
THEOREM TapSentOnce == Spec => []SentOnce
<1>1. IInv => SentOnce
  BY DEF IInv, Typed, OnceInv, SentOnce
<1> QED
  BY <1>1, Invariant, PTL

(* Its command goes to the TV chosen when it was handled (WidgetJob.run).  *)
THEOREM TapTarget == Spec => []OnlyTheTappedTv
<1>1. IInv => OnlyTheTappedTv
  BY DEF IInv, TargetInv, OnlyTheTappedTv
<1> QED
  BY <1>1, Invariant, PTL
-----------------------------------------------------------------------------
(* The bridge's count of pending work.                                     *)

(* The count is exact, and the worker that runs a transaction is inside    *)
(* its body.                                                               *)
PendInv ==
    /\ windowQueue \in Nat
    /\ IsFiniteSet(queue)
    /\ running \in Taps => tx[running].body # "none"
    /\ PendingIsExact

(* A step that leaves the relay alone, and neither ends nor completes a    *)
(* body, keeps the count.                                                  *)
LEMMA CountKept ==
    ASSUME Typed, PendInv, UNCHANGED relay,
           \A u \in Taps : /\ tx'[u].body = "complete" <=> tx[u].body = "complete"
                           /\ tx[u].body # "none" => tx'[u].body # "none"
    PROVE  PendInv'
<1>1. running' \in Taps => tx'[running'].body # "none"
  BY DEF PendInv, relay
<1>2. running \in {t \in Taps : tx'[t].body # "complete"}
        <=> running \in {t \in Taps : tx[t].body # "complete"}
  OBVIOUS
<1>3. PendingIsExact'
  BY <1>2 DEF PendInv, PendingIsExact, relay
<1> QED
  BY <1>1, <1>3 DEF PendInv, relay

(* A body that goes on, or returns, keeps the count.                       *)
LEMMA MoveKeepsCount ==
    ASSUME Typed, PendInv, UNCHANGED relay, NEW t \in Taps,
           NEW b \in Bodies \ {"none", "complete"}, Moved(t, b),
           tx[t].body # "complete"
    PROVE  PendInv'
<1>1. ASSUME NEW u \in Taps
      PROVE  /\ tx'[u].body = "complete" <=> tx[u].body = "complete"
             /\ tx[u].body # "none" => tx'[u].body # "none"
  <2>1. CASE u = t
    BY <2>1 DEF Moved
  <2>2. CASE u # t
    BY <2>2 DEF Moved
  <2> QED
    BY <2>1, <2>2
<1> QED
  BY <1>1, CountKept

(* The steps of a body, but for its last two.                              *)
LEMMA BodyKeepsCount ==
    ASSUME Typed, PendInv, NEW t \in Taps,
           \/ ReadAndChoose(t) \/ MayCommand(t) \/ Claim(t)
           \/ Deliver(t) \/ Answered(t) \/ Search(t)
    PROVE  PendInv'
<1>0. tx \in [Taps -> Transactions]
  BY DEF Typed
<1>1. UNCHANGED relay /\ tx[t].body # "complete"
  BY DEF ReadAndChoose, MayCommand, Claim, Deliver, Answered, Search, Within
<1>2. \/ \E b \in Bodies \ {"none", "complete"} : Goto(t, b)
      \/ \E o \in Outcomes : Returns(t, o)
  <2>1. CASE ReadAndChoose(t)
    BY <2>1 DEF ReadAndChoose, Bodies, Outcomes
  <2>2. CASE MayCommand(t)
    BY <2>2 DEF MayCommand, Bodies, Outcomes
  <2>3. CASE Claim(t)
    BY <2>3 DEF Claim, Bodies, Outcomes
  <2>4. CASE Deliver(t)
    BY <2>4 DEF Deliver, Bodies, Outcomes
  <2>5. CASE Answered(t)
    BY <2>5 DEF Answered, Outcomes
  <2>6. CASE Search(t)
    BY <2>6 DEF Search, Bodies, Outcomes
  <2> QED
    BY <2>1, <2>2, <2>3, <2>4, <2>5, <2>6
<1>3. \E b \in Bodies \ {"none", "complete"} : Moved(t, b)
  <2>1. ASSUME NEW b \in Bodies \ {"none", "complete"}, Goto(t, b)
        PROVE  Moved(t, b)
    BY <1>0, <2>1, GotoMoves
  <2>2. ASSUME NEW o \in Outcomes, Returns(t, o)
        PROVE  Moved(t, "end")
    BY <1>0, <2>2, ReturnsMoves
  <2> QED
    BY <1>2, <2>1, <2>2 DEF Bodies
<1> QED
  BY <1>1, <1>3, MoveKeepsCount

(* Every step keeps the count exact, action by action.                     *)
LEMMA StepPend == IInv /\ PendInv /\ [Next]_vars => PendInv'
<1> USE WidgetTapAssumption
<1> SUFFICES ASSUME IInv, PendInv, [Next]_vars PROVE PendInv'
  OBVIOUS
<1>0. Typed /\ RunInv /\ JobInv
  BY DEF IInv
<1>a. Cardinality(queue) \in Nat /\ "idle" \notin Taps /\ "window" \notin Taps
  BY FS_CardinalityType DEF PendInv
<1>1. CASE UNCHANGED relay /\ UNCHANGED tx
  BY <1>0, <1>1, CountKept
<1>3. ASSUME NEW t \in Taps, RunJob(t) PROVE PendInv'
  <2>1. CASE UNCHANGED <<relay, tx>>
    BY <1>1, <2>1
  <2>2. CASE Admit(t) /\ pending = 0
    <3> DEFINE fresh == [NoTransaction EXCEPT !.target = selection]
    <3>1. tx' = [tx EXCEPT ![t] = fresh]
      BY <2>2 DEF Admit
    <3> HIDE DEF fresh
    <3>2. \A u \in Taps \ {t} : tx'[u] = tx[u]
      BY <1>0, <3>1 DEF Typed
    <3>3. /\ pending' = 1 /\ queue' = queue \cup {t}
          /\ windowQueue' = windowQueue /\ running' = running
      BY <2>2 DEF Admit
    <3>4. tx[t].body = "none" /\ t \notin queue
      BY <1>0, <1>3 DEF RunJob, JobInv
    <3>5. running # t
      BY <3>4 DEF PendInv
    <3>6. /\ windowQueue = 0 /\ Cardinality(queue) = 0
          /\ ~(running = "window" \/ running \in {u \in Taps : tx[u].body # "complete"})
      BY <1>a, <2>2 DEF PendInv, PendingIsExact
    <3>7. IsFiniteSet(queue') /\ Cardinality(queue') = 1
      BY <3>3, <3>4, <3>6, FS_AddElement DEF PendInv
    <3>8. ~(running' = "window" \/ running' \in {u \in Taps : tx'[u].body # "complete"})
      BY <3>2, <3>3, <3>5, <3>6
    <3>9. running' \in Taps => tx'[running'].body # "none"
      BY <3>2, <3>3, <3>5 DEF PendInv
    <3> QED
      BY <3>3, <3>6, <3>7, <3>8, <3>9 DEF PendInv, PendingIsExact
  <2> QED
    BY <1>3, <2>1, <2>2 DEF RunJob
<1>4. ASSUME NEW t \in Taps, JobAnswered(t) PROVE PendInv'
  <2>1. UNCHANGED relay /\ tx' = [tx EXCEPT ![t] = NoTransaction] /\ tx[t].body = "none"
    BY <1>0, <1>4 DEF JobAnswered, RunInv
  <2>2. NoTransaction.body = "none"
    BY DEF NoTransaction
  <2> QED
    BY <1>0, <2>1, <2>2, CountKept DEF Typed
<1>5. ASSUME NEW t \in Taps, GiveUp(t) PROVE PendInv'
  <2>1. UNCHANGED relay /\ tx' = [tx EXCEPT ![t] = [tx[t] EXCEPT !.wanted = FALSE]]
    BY <1>5 DEF GiveUp
  <2>2. \A u \in Taps : tx'[u].body = tx[u].body
    BY <1>0, <2>1 DEF Typed, Transactions
  <2> QED
    BY <1>0, <2>1, <2>2, CountKept
<1>6. ASSUME NEW t \in Taps, Withdraw(t) PROVE PendInv'
  <2>0. UNCHANGED relay
    BY <1>6 DEF Withdraw
  <2>1. CASE tx' = [tx EXCEPT ![t].state = "ABANDONED"]
    <3>1. \A u \in Taps : tx'[u].body = tx[u].body
      BY <1>0, <2>1 DEF Typed, Transactions
    <3> QED
      BY <1>0, <2>0, <3>1, CountKept
  <2>2. CASE tx' = [tx EXCEPT ![t] = NoTransaction] /\ tx[t].answered
    <3>1. NoTransaction.body = "none" /\ tx[t].body = "none"
      BY <1>0, <2>2 DEF NoTransaction, RunInv
    <3> QED
      BY <1>0, <2>0, <2>2, <3>1, CountKept DEF Typed
  <2>3. CASE tx' = tx
    BY <1>1, <2>0, <2>3
  <2> QED
    BY <1>6, <2>1, <2>2, <2>3 DEF Withdraw
<1>7. CASE Submit
  BY <1>a, <1>7 DEF Submit, PendInv, PendingIsExact
<1>8. CASE RunWindow
  <2>1. /\ running = "idle" /\ running' = "window" /\ windowQueue > 0
        /\ windowQueue' = windowQueue - 1 /\ pending' = pending /\ queue' = queue
    BY <1>8 DEF RunWindow
  <2>2. pending = windowQueue + Cardinality(queue)
    BY <1>a, <2>1 DEF PendInv, PendingIsExact
  <2> QED
    BY <1>a, <2>1, <2>2 DEF PendInv, PendingIsExact
<1>9. CASE EndWindow
  <2>1. /\ running = "window" /\ running' = "idle"
        /\ pending' = pending - 1 /\ UNCHANGED <<windowQueue, queue>>
    BY <1>9 DEF EndWindow
  <2>2. pending = windowQueue + Cardinality(queue) + 1
    BY <2>1 DEF PendInv, PendingIsExact
  <2> QED
    BY <1>a, <2>1, <2>2 DEF PendInv, PendingIsExact
<1>10. ASSUME NEW t \in Taps, StartTransaction(t) PROVE PendInv'
  <2>1. /\ t \in queue /\ running = "idle" /\ queue' = queue \ {t}
        /\ windowQueue' = windowQueue
    BY <1>10 DEF StartTransaction
  <2>2. IsFiniteSet(queue') /\ Cardinality(queue') = Cardinality(queue) - 1
    BY <2>1, FS_RemoveElement DEF PendInv
  <2>3. pending = windowQueue + Cardinality(queue)
    BY <1>a, <2>1 DEF PendInv, PendingIsExact
  <2>4. CASE Started(t)
    <3> DEFINE b == IF ~Young(t) THEN "end" ELSE IF tap[t].action = "key" THEN "gate" ELSE "read"
               r == [tx[t] EXCEPT !.state = "STARTED", !.value = "not_sent", !.body = b]
    <3>0. b \notin {"none", "complete"}
      OBVIOUS
    <3>1. tx' = [tx EXCEPT ![t] = r] /\ running' = t /\ pending' = pending
      BY <2>4 DEF Started
    <3> HIDE DEF b
    <3>2. r.body = b
      BY <1>0 DEF Typed, Transactions
    <3> HIDE DEF r
    <3>3. tx'[t].body \notin {"none", "complete"}
      BY <1>0, <3>0, <3>1, <3>2 DEF Typed
    <3> QED
      BY <1>a, <2>1, <2>2, <2>3, <3>1, <3>3 DEF PendInv, PendingIsExact
  <2>5. CASE pending' = pending - 1 /\ UNCHANGED running
    BY <1>a, <2>1, <2>2, <2>3, <2>5 DEF PendInv, PendingIsExact
  <2> QED
    BY <1>10, <2>4, <2>5 DEF StartTransaction
<1>11. ASSUME NEW t \in Taps, CountOut(t) PROVE PendInv'
  <2>1. /\ tx[t].body = "end" /\ pending' = pending - 1
        /\ UNCHANGED <<windowQueue, queue, running>> /\ Goto(t, "complete")
    BY <1>11 DEF CountOut, Goto
  <2>2. running = t
    BY <1>0, <2>1 DEF RunInv
  <2>3. tx'[t].body = "complete"
    BY <1>0, <2>1, GotoMoves DEF Typed, Bodies, Moved
  <2>4. pending = windowQueue + Cardinality(queue) + 1
    BY <2>1, <2>2 DEF PendInv, PendingIsExact
  <2> QED
    BY <1>a, <2>1, <2>2, <2>3, <2>4 DEF PendInv, PendingIsExact
<1>12. ASSUME NEW t \in Taps, Complete(t) PROVE PendInv'
  <2>1. /\ tx[t].body = "complete" /\ running' = "idle"
        /\ UNCHANGED <<pending, windowQueue, queue>>
    BY <1>12 DEF Complete
  <2>2. running = t
    BY <1>0, <2>1 DEF RunInv
  <2>3. pending = windowQueue + Cardinality(queue)
    BY <1>a, <2>1, <2>2 DEF PendInv, PendingIsExact
  <2> QED
    BY <1>a, <2>1, <2>3 DEF PendInv, PendingIsExact
<1>13. CASE Die
  <2>1. pending' = 0 /\ windowQueue' = 0 /\ queue' = {} /\ running' = "idle"
    BY <1>13 DEF Die
  <2> QED
    BY <1>a, <2>1, FS_EmptySet DEF PendInv, PendingIsExact
<1>14. ASSUME NEW t \in Taps,
              \/ \E a \in Actions : Tapped(t, a)
              \/ Enqueue(t) \/ EnqueueEnds(t) \/ Record(t) \/ JobRecordedAsDone(t)
       PROVE  PendInv'
  BY <1>1, <1>14 DEF Tapped, Enqueue, EnqueueEnds, Record, JobRecordedAsDone
<1>15. CASE Tick \/ \E d \in Devices : SelectTv(d)
  BY <1>1, <1>15 DEF Tick, SelectTv
<1>16. CASE UNCHANGED vars
  BY <1>1, <1>16 DEF vars
<1>17. ASSUME NEW t \in Taps, BodyStep(t) PROVE PendInv'
  BY <1>0, <1>11, <1>12, <1>17, BodyKeepsCount DEF BodyStep
<1> QED
  BY <1>3, <1>4, <1>5, <1>6, <1>7, <1>8, <1>9, <1>10, <1>13, <1>14, <1>15, <1>16, <1>17
     DEF Next, HandlerStep, JobStep

(* pending (BridgeRelay) counts exactly what the worker still has to count *)
(* out, whatever is submitted, withdrawn, started, completed or lost with  *)
(* the process: no abandoned transaction leaves the bridge busy for ever.  *)
THEOREM PendingExact == Spec => []PendingIsExact
<1>1. Init => PendInv
  <2>1. ASSUME Init PROVE PendInv
    BY <2>1, WidgetTapAssumption, FS_EmptySet DEF Init, PendInv, PendingIsExact
  <2> QED
    BY <2>1
<1>2. PendInv => PendingIsExact
  BY DEF PendInv
<1> QED
  BY <1>1, <1>2, Invariant, StepPend, PTL DEF Spec
-----------------------------------------------------------------------------
(* The promise of Delivery, while the process lives and WorkManager records *)
(* a job within the handler's timeout.                                      *)

(* A tap said to be not sent can no longer send: no body of it runs that    *)
(* may still command, and its waiting transaction was withdrawn.            *)
Harmless(t) ==
    /\ sent[t] = 0
    /\ tx[t].body \in {"none", "read", "end", "complete"}
    /\ tx[t].body = "read" => tap[t].action = "refresh"
    /\ t \in queue => tx[t].state = "ABANDONED"

BeforeCommand == {"read", "gate", "claim"} \cup Delivering

(* One outcome at most, told last; what the body knows of its command is    *)
(* true wherever it is; a refresh never commands.                           *)
Honest(t) ==
    /\ told[t] = {} \/ \E o \in Outcomes : told[t] = {o}
    /\ handler[t] \in {"none", "accepted"} => told[t] = {}
    /\ job[t] \in {"requested", "recorded", "waiting", "giving_up"} => told[t] = {}
    /\ job[t] \in {"none", "requested", "recorded"} => sent[t] = 0
    /\ t \in queue => sent[t] = 0 /\ tx[t].state # "STARTED"
    /\ job[t] \in {"waiting", "giving_up"} =>
         (tx[t].state = "PENDING" => t \in queue) /\ tx[t].state # "ABANDONED"
    /\ tx[t].body # "none" => tx[t].state = "STARTED"
    /\ tx[t].body \in BeforeCommand => sent[t] = 0
    /\ tx[t].body = "handed" => sent[t] > 0
    /\ tx[t].body \in {"end", "complete"} \/ tx[t].answered =>
         /\ tx[t].value = "not_sent" => sent[t] = 0
         /\ tx[t].value = "answered" => sent[t] > 0
    /\ tap[t].action = "refresh" =>
         tx[t].body \in {"none", "read", "end", "complete"} /\ sent[t] = 0
    /\ "not_sent" \in told[t] => Harmless(t)

HonestInv ==
    /\ deaths \in Nat
    /\ told \in [Taps -> SUBSET Outcomes]
    /\ \A t \in Taps : Honest(t)

(* What Honest(u) is about stays as it is.                                  *)
Same(u) ==
    /\ told'[u] = told[u] /\ handler'[u] = handler[u] /\ job'[u] = job[u]
    /\ sent'[u] = sent[u] /\ tx'[u] = tx[u] /\ tap'[u].action = tap[u].action
    /\ u \in queue' <=> u \in queue

(* A step of one tap is honest when that tap stays so.                      *)
LEMMA HonestFrame ==
    ASSUME HonestInv, NEW t \in Taps, \A u \in Taps \ {t} : Same(u),
           deaths' = deaths, told' \in [Taps -> SUBSET Outcomes], Honest(t)'
    PROVE  HonestInv'
<1>1. ASSUME NEW u \in Taps \ {t} PROVE Honest(u)'
  <2>1. Honest(u) /\ Same(u)
    BY DEF HonestInv
  <2> QED
    BY <2>1 DEF Honest, Same, Harmless
<1> QED
  BY <1>1 DEF HonestInv

(* Nothing Honest is about changes.                                         *)
LEMMA AllSame ==
    ASSUME HonestInv, \A u \in Taps : Same(u), deaths' = deaths,
           told' \in [Taps -> SUBSET Outcomes]
    PROVE  HonestInv'
<1>1. ASSUME NEW u \in Taps PROVE Honest(u)'
  <2>1. Honest(u) /\ Same(u)
    BY DEF HonestInv
  <2> QED
    BY <2>1 DEF Honest, Same, Harmless
<1> QED
  BY <1>1 DEF HonestInv

(* The state of Honest but for the transactions.                            *)
outside == <<told, handler, job, sent, tap, queue, deaths>>

(* Goto and Returns, with what they do to the state and the value.          *)
LEMMA GotoFacts ==
    ASSUME tx \in [Taps -> Transactions], NEW t \in Taps, NEW b \in Bodies, Goto(t, b)
    PROVE  Moved(t, b) /\ tx'[t].state = tx[t].state /\ tx'[t].value = tx[t].value
<1>1. Moved(t, b)
  BY GotoMoves
<1>2. tx' = [tx EXCEPT ![t] = [tx[t] EXCEPT !.body = b]]
  BY DEF Goto
<1>3. tx[t] \in Transactions
  OBVIOUS
<1> QED
  BY <1>1, <1>2, <1>3 DEF Transactions

(* The body returns o: the state of its transaction stays.                  *)
LEMMA ReturnsFacts ==
    ASSUME tx \in [Taps -> Transactions], NEW t \in Taps, NEW o \in Outcomes, Returns(t, o)
    PROVE  Moved(t, "end") /\ tx'[t].state = tx[t].state /\ tx'[t].value = o
<1>1. Moved(t, "end")
  BY ReturnsMoves
<1>2. tx' = [tx EXCEPT ![t] = [tx[t] EXCEPT !.body = "end", !.value = o]]
  BY DEF Returns
<1>3. tx[t] \in Transactions
  OBVIOUS
<1> QED
  BY <1>1, <1>2, <1>3 DEF Transactions

(* A body that goes on towards its command is honest: it sent nothing, and  *)
(* nobody was told that it would not.                                       *)
LEMMA GoingOnIsHonest ==
    ASSUME IInv, HonestInv, NEW t \in Taps, NEW b \in BeforeCommand \ {"read"},
           Goto(t, b), UNCHANGED outside, tx[t].body \in BeforeCommand,
           tx[t].body = "read" => tap[t].action # "refresh"
    PROVE  HonestInv'
<1>0. tx \in [Taps -> Transactions] /\ RunInv /\ Honest(t)
  BY DEF IInv, Typed, HonestInv
<1>1. b \in Bodies /\ b \notin {"none", "read", "end", "complete", "handed"}
  BY DEF BeforeCommand, Delivering, Bodies
<1>2. /\ Moved(t, b) /\ tx'[t].state = tx[t].state
  BY <1>0, <1>1, GotoFacts
<1>3. \A u \in Taps \ {t} : Same(u)
  BY <1>2 DEF Moved, Same, outside
<1>4. tx[t].body # "none" /\ ~tx[t].answered /\ t \notin queue
  BY <1>0 DEF RunInv, BeforeCommand, Delivering
<1>5. sent[t] = 0 /\ tx[t].state = "STARTED"
  BY <1>0, <1>4 DEF Honest
<1>6. tap[t].action # "refresh" /\ "not_sent" \notin told[t]
  BY <1>0 DEF Honest, Harmless, BeforeCommand, Delivering
<1>7. Honest(t)'
  BY <1>0, <1>1, <1>2, <1>4, <1>5, <1>6 DEF Honest, Moved, outside
<1> QED
  BY <1>3, <1>7, HonestFrame DEF outside, HonestInv

(* A body that returns what is true of its command is honest.               *)
LEMMA ReturningIsHonest ==
    ASSUME IInv, HonestInv, NEW t \in Taps, NEW o \in Outcomes,
           Returns(t, o), UNCHANGED outside, tx[t].body # "none",
           o = "not_sent" => sent[t] = 0, o = "answered" => sent[t] > 0
    PROVE  HonestInv'
<1>0. tx \in [Taps -> Transactions] /\ RunInv /\ Honest(t)
  BY DEF IInv, Typed, HonestInv
<1>1. Moved(t, "end") /\ tx'[t].state = tx[t].state /\ tx'[t].value = o
  BY <1>0, ReturnsFacts
<1>2. \A u \in Taps \ {t} : Same(u)
  BY <1>1 DEF Moved, Same, outside
<1>3. ~tx[t].answered /\ t \notin queue
  BY <1>0 DEF RunInv
<1>4. Honest(t)'
  BY <1>0, <1>1, <1>3 DEF Honest, Harmless, Moved, outside, BeforeCommand, Delivering
<1> QED
  BY <1>2, <1>4, HonestFrame DEF outside, HonestInv

(* The three ways a step of the model is one of Delivery.                   *)
Tells(t, o) ==
    /\ told[t] = {} /\ told' = [told EXCEPT ![t] = {o}] /\ UNCHANGED sent
    /\ o = "answered" => sent[t] > 0
    /\ o = "not_sent" => sent[t] = 0

Delivers(t) ==
    /\ sent[t] = 0 /\ "not_sent" \notin told[t]
    /\ sent' = [sent EXCEPT ![t] = 1] /\ UNCHANGED told

Promised ==
    \/ UNCHANGED <<told, sent>>
    \/ \E t \in Taps : Delivers(t) \/ \E o \in Outcomes : Tells(t, o)

(* A step that tells nothing and sends nothing is none of Delivery; one     *)
(* that tells an outcome, or sends, is its Tell or its Deliver.             *)
LEMMA PromisedImplements ==
    ASSUME HonestInv, sent \in [Taps -> Nat], Promised
    PROVE  [Promise!Next]_<<SentTaps, ToldOutcome>>
<1>0. \A t \in Taps : told[t] = {} \/ \E o \in Outcomes : told[t] = {o}
  BY DEF HonestInv, Honest
<1>1. CASE UNCHANGED <<told, sent>>
  BY <1>1 DEF SentTaps, ToldOutcome
<1>2. ASSUME NEW t \in Taps, Delivers(t) PROVE Promise!Next
  <2>1. t \notin SentTaps /\ SentTaps' = SentTaps \cup {t}
    BY <1>2 DEF Delivers, SentTaps
  <2>2. ToldOutcome' = ToldOutcome
    BY <1>2 DEF Delivers, ToldOutcome
  <2>3. ToldOutcome[t] # "not_sent"
    <3>1. CASE told[t] = {}
      BY <3>1 DEF ToldOutcome
    <3>2. CASE told[t] # {}
      <4>1. ToldOutcome[t] \in told[t]
        BY <3>2 DEF ToldOutcome
      <4> QED
        BY <1>2, <4>1 DEF Delivers
    <3> QED
      BY <3>1, <3>2
  <2> QED
    BY <2>1, <2>2, <2>3 DEF Promise!Next, Promise!Deliver
<1>3. ASSUME NEW t \in Taps, NEW o \in Outcomes, Tells(t, o) PROVE Promise!Next
  <2>1. SentTaps' = SentTaps
    BY <1>3 DEF Tells, SentTaps
  <2>2. ToldOutcome[t] = "none"
    BY <1>3 DEF Tells, ToldOutcome
  <2>3. told'[t] = {o} /\ \A u \in Taps \ {t} : told'[u] = told[u]
    BY <1>3 DEF Tells, HonestInv
  <2>4. ToldOutcome' = [ToldOutcome EXCEPT ![t] = o]
    <3>1. ToldOutcome'[t] = o
      <4>1. (CHOOSE x \in {o} : TRUE) \in {o}
        OBVIOUS
      <4> QED
        BY <2>3, <4>1 DEF ToldOutcome
    <3>2. ASSUME NEW u \in Taps \ {t} PROVE ToldOutcome'[u] = ToldOutcome[u]
      <4>1. /\ ToldOutcome[u] = IF told[u] = {} THEN "none" ELSE CHOOSE x \in told[u] : TRUE
            /\ ToldOutcome'[u] = IF told'[u] = {} THEN "none" ELSE CHOOSE x \in told'[u] : TRUE
        BY DEF ToldOutcome
      <4>2. told'[u] = told[u]
        BY <2>3
      <4> QED
        BY <4>1, <4>2, Zenon
    <3>3. /\ ToldOutcome = [u \in Taps |-> ToldOutcome[u]]
          /\ ToldOutcome' = [u \in Taps |-> ToldOutcome'[u]]
      BY DEF ToldOutcome
    <3> HIDE DEF ToldOutcome
    <3> QED
      BY <3>1, <3>2, <3>3
  <2>5. (o = "answered" => t \in SentTaps) /\ (o = "not_sent" => t \notin SentTaps)
    BY <1>3 DEF Tells, SentTaps
  <2>6. Promise!Tell(t, o)
    BY <2>1, <2>2, <2>4, <2>5 DEF Promise!Tell
  <2>7. o \in Promise!Outcomes \ {"none"}
    BY DEF Promise!Outcomes, Outcomes
  <2> QED
    BY <2>6, <2>7 DEF Promise!Next
<1> QED
  BY <1>1, <1>2, <1>3 DEF Promised

(* Every step keeps the invariant and the promise, action by action.        *)
LEMMA StepHonest ==
    ASSUME MaxDeaths = 0, SlowRecord = FALSE, IInv, HonestInv, [Next]_vars
    PROVE  HonestInv' /\ Promised
<1> USE WidgetTapAssumption
<1>0. Typed /\ RunInv /\ JobInv /\ OnceInv
  BY DEF IInv
<1>a. /\ told \in [Taps -> SUBSET Outcomes] /\ deaths \in Nat
      /\ \A t \in Taps : Honest(t)
  BY DEF HonestInv
<1>b. /\ tx \in [Taps -> Transactions] /\ sent \in [Taps -> Nat]
      /\ \A t \in Taps : tx[t] \in Transactions
  BY <1>0 DEF Typed
<1>c. ASSUME NEW t \in Taps, NEW o \in Outcomes, told[t] = {}, Say(t, o)
      PROVE  /\ told' = [told EXCEPT ![t] = {o}] /\ told'[t] = {o}
             /\ told' \in [Taps -> SUBSET Outcomes]
             /\ \A u \in Taps \ {t} : told'[u] = told[u]
  <2>1. told' = [told EXCEPT ![t] = {o}]
    BY <1>c DEF Say
  <2> QED
    BY <1>a, <2>1
<1>d. /\ NoTransaction \in Transactions /\ NoTransaction.body = "none"
      /\ ~NoTransaction.answered /\ NoTransaction.state = "PENDING"
  BY DEF NoTransaction, Transactions, Outcomes
<1>1. CASE UNCHANGED outside /\ UNCHANGED tx
  <2>1. \A u \in Taps : Same(u)
    BY <1>1 DEF outside, Same
  <2> QED
    BY <1>1, <1>a, <2>1, AllSame DEF outside, Promised
<1>2. CASE Tick \/ Submit \/ RunWindow \/ EndWindow \/ \E d \in Devices : SelectTv(d)
  BY <1>1, <1>2 DEF Tick, Submit, RunWindow, EndWindow, SelectTv, outside, relay, history
<1>3. CASE Die
  BY <1>3, <1>a DEF Die
<1>4. ASSUME NEW t \in Taps, NEW a \in Actions, Tapped(t, a) PROVE HonestInv' /\ Promised
  <2>1. CASE t \in used
    BY <1>1, <1>4, <2>1 DEF Tapped, outside, relay, history
  <2>2. CASE t \notin used
    <3>1. /\ handler' = [handler EXCEPT ![t] = "accepted"]
          /\ tap' = [tap EXCEPT ![t] = [tap[t] EXCEPT !.action = a]]
          /\ UNCHANGED <<told, job, sent, tx, queue, deaths>>
      BY <1>4, <2>2 DEF Tapped, relay, history
    <3>2. \A u \in Taps \ {t} : Same(u)
      BY <1>0, <3>1 DEF Typed, Same
    <3>3. handler[t] = "none" /\ job[t] = "none" /\ tx[t].body = "none"
      BY <1>0, <2>2 DEF JobInv
    <3>4. Honest(t)'
      BY <1>0, <1>a, <3>1, <3>3 DEF Typed, Honest, Harmless
    <3> QED
      BY <1>a, <3>1, <3>2, <3>4, HonestFrame DEF Promised
  <2> QED
    BY <2>1, <2>2
<1>5. ASSUME NEW t \in Taps, Enqueue(t) PROVE HonestInv' /\ Promised
  <2>0. /\ handler[t] = "accepted" /\ told[t] = {} /\ job[t] = "none" /\ sent[t] = 0
        /\ tx[t].body = "none" /\ t \notin queue /\ UNCHANGED <<sent, tx, queue, deaths>>
    BY <1>0, <1>5, <1>a DEF Enqueue, JobInv, Honest, relay, history
  <2>1. CASE selection = "none"
    <3>1. /\ handler' = [handler EXCEPT ![t] = "done"] /\ Say(t, "not_sent")
          /\ UNCHANGED <<tap, job>>
      BY <1>5, <2>1 DEF Enqueue
    <3>2. /\ told' = [told EXCEPT ![t] = {"not_sent"}] /\ told'[t] = {"not_sent"}
          /\ told' \in [Taps -> SUBSET Outcomes]
          /\ \A u \in Taps \ {t} : told'[u] = told[u]
      BY <1>c, <2>0, <3>1 DEF Outcomes
    <3>3. \A u \in Taps \ {t} : Same(u)
      BY <1>0, <2>0, <3>1, <3>2 DEF Typed, Same
    <3>4. Honest(t)'
      BY <1>0, <1>a, <2>0, <3>1, <3>2 DEF Typed, Honest, Harmless, Outcomes
    <3>5. Tells(t, "not_sent")
      BY <2>0, <3>2 DEF Tells
    <3> QED
      BY <2>0, <3>2, <3>3, <3>4, <3>5, HonestFrame DEF Promised, Outcomes
  <2>2. CASE selection # "none"
    <3>1. /\ handler' = [handler EXCEPT ![t] = "waiting"] /\ UNCHANGED told
          /\ tap' = [tap EXCEPT ![t] = [tap[t] EXCEPT !.at = now, !.device = selection]]
          /\ job' = [job EXCEPT ![t] = "requested"]
      BY <1>5, <2>2 DEF Enqueue
    <3>2. tap'[t].action = tap[t].action
      BY <1>0, <3>1 DEF Typed
    <3>3. \A u \in Taps \ {t} : Same(u)
      BY <1>0, <2>0, <3>1 DEF Typed, Same
    <3>4. Honest(t)'
      BY <1>0, <1>a, <2>0, <3>1, <3>2 DEF Typed, Honest, Harmless
    <3> QED
      BY <1>a, <2>0, <3>1, <3>3, <3>4, HonestFrame DEF Promised
  <2> QED
    BY <2>1, <2>2
<1>6. ASSUME NEW t \in Taps, Record(t) PROVE HonestInv' /\ Promised
  <2>1. /\ job[t] = "requested" /\ job' = [job EXCEPT ![t] = "recorded"]
        /\ UNCHANGED <<told, handler, sent, tap, tx, queue, deaths>>
    BY <1>6 DEF Record, relay, history
  <2>2. \A u \in Taps \ {t} : Same(u)
    BY <1>0, <2>1 DEF Typed, Same
  <2>3. Honest(t)'
    BY <1>0, <1>a, <2>1 DEF Typed, Honest, Harmless
  <2> QED
    BY <1>a, <2>1, <2>2, <2>3, HonestFrame DEF Promised
<1>7. ASSUME NEW t \in Taps, EnqueueEnds(t) PROVE HonestInv' /\ Promised
  <2>0. /\ handler[t] = "waiting" /\ handler' = [handler EXCEPT ![t] = "done"]
        /\ UNCHANGED <<sent, tap, tx, queue, deaths>>
    BY <1>7 DEF EnqueueEnds, relay, history
  <2>1. CASE UNCHANGED <<job, told>>
    <3>1. \A u \in Taps \ {t} : Same(u)
      BY <1>0, <2>0, <2>1 DEF Typed, Same
    <3>2. Honest(t)'
      BY <1>0, <1>a, <2>0, <2>1 DEF Typed, Honest, Harmless
    <3> QED
      BY <1>a, <2>0, <2>1, <3>1, <3>2, HonestFrame DEF Promised
  <2>2. CASE /\ job[t] = "requested" /\ job' = [job EXCEPT ![t] = "none"]
             /\ Say(t, "not_sent")
    <3>1. told[t] = {} /\ sent[t] = 0 /\ tx[t].body = "none" /\ t \notin queue
      BY <1>0, <1>a, <2>2 DEF JobInv, Honest
    <3>2. /\ told' = [told EXCEPT ![t] = {"not_sent"}] /\ told'[t] = {"not_sent"}
          /\ told' \in [Taps -> SUBSET Outcomes]
          /\ \A u \in Taps \ {t} : told'[u] = told[u]
      BY <1>c, <2>2, <3>1 DEF Outcomes
    <3>3. \A u \in Taps \ {t} : Same(u)
      BY <1>0, <2>0, <2>2, <3>2 DEF Typed, Same
    <3>4. Honest(t)'
      BY <1>0, <1>a, <2>0, <2>2, <3>1, <3>2 DEF Typed, Honest, Harmless, Outcomes
    <3>5. Tells(t, "not_sent")
      BY <2>0, <3>1, <3>2 DEF Tells
    <3> QED
      BY <2>0, <3>2, <3>3, <3>4, <3>5, HonestFrame DEF Promised, Outcomes
  <2> QED
    BY <1>7, <2>1, <2>2 DEF EnqueueEnds
<1>8. ASSUME NEW t \in Taps, RunJob(t) PROVE HonestInv' /\ Promised
  <2>0. /\ job[t] = "recorded" /\ told[t] = {} /\ sent[t] = 0 /\ tx[t].body = "none"
        /\ t \notin queue /\ UNCHANGED <<handler, sent, tap, deaths>>
    BY <1>0, <1>8, <1>a DEF RunJob, JobInv, Honest, history
  <2>1. CASE EndJob(t, "not_sent") /\ UNCHANGED <<relay, tx>>
    <3>1. job' = [job EXCEPT ![t] = "ended"] /\ UNCHANGED <<queue, tx>>
      BY <2>1 DEF EndJob, relay
    <3>2. /\ told' = [told EXCEPT ![t] = {"not_sent"}] /\ told'[t] = {"not_sent"}
          /\ told' \in [Taps -> SUBSET Outcomes]
          /\ \A u \in Taps \ {t} : told'[u] = told[u]
      BY <1>c, <2>0, <2>1 DEF EndJob, Outcomes
    <3>3. \A u \in Taps \ {t} : Same(u)
      BY <1>0, <2>0, <3>1, <3>2 DEF Typed, Same
    <3>4. handler[t] \notin {"none", "accepted"}
      BY <1>0, <2>0 DEF JobInv
    <3>5. Honest(t)'
      BY <1>0, <1>a, <2>0, <3>1, <3>2, <3>4 DEF Typed, Honest, Harmless, Outcomes
    <3>6. Tells(t, "not_sent")
      BY <2>0, <3>2 DEF Tells
    <3> QED
      BY <2>0, <3>2, <3>3, <3>5, <3>6, HonestFrame DEF Promised, Outcomes
  <2>2. CASE Admit(t)
    <3> DEFINE fresh == [NoTransaction EXCEPT !.target = selection]
    <3>1. /\ fresh.body = "none" /\ ~fresh.answered /\ fresh.state = "PENDING"
      BY DEF NoTransaction
    <3>2. tx' = [tx EXCEPT ![t] = fresh]
      BY <2>2 DEF Admit
    <3> HIDE DEF fresh
    <3>3. /\ queue' = queue \cup {t} /\ job' = [job EXCEPT ![t] = "waiting"] /\ UNCHANGED told
      BY <2>2 DEF Admit
    <3>4. \A u \in Taps \ {t} : Same(u)
      BY <1>0, <1>b, <2>0, <3>2, <3>3 DEF Typed, Same
    <3>5. tx'[t].body = "none" /\ ~tx'[t].answered /\ tx'[t].state = "PENDING"
      BY <1>b, <3>1, <3>2
    <3>6. Honest(t)'
      BY <1>0, <1>a, <2>0, <3>3, <3>5 DEF Typed, Honest, Harmless, BeforeCommand, Delivering
    <3> QED
      BY <1>a, <2>0, <3>3, <3>4, <3>6, HonestFrame DEF Promised
  <2> QED
    BY <1>8, <2>1, <2>2 DEF RunJob
<1>9. ASSUME NEW t \in Taps, NEW o \in Outcomes, EndJob(t, o), job[t] \in {"waiting", "giving_up"},
             UNCHANGED <<handler, sent, tap, queue, deaths>>,
             o = "answered" => sent[t] > 0, o = "not_sent" => Harmless(t)',
             tx' \in [Taps -> Transactions], \A u \in Taps \ {t} : tx'[u] = tx[u],
             tx'[t].body = tx[t].body, tx'[t].answered => tx[t].answered,
             tx'[t] # NoTransaction => tx'[t].value = tx[t].value,
             t \in queue => tx'[t].state # "STARTED",
             tx[t].body # "none" => tx'[t].state = tx[t].state
      PROVE  HonestInv' /\ Promised
  <2>1. told[t] = {} /\ job' = [job EXCEPT ![t] = "ended"]
    BY <1>9, <1>a DEF Honest, EndJob
  <2>2. /\ told' = [told EXCEPT ![t] = {o}] /\ told'[t] = {o}
        /\ told' \in [Taps -> SUBSET Outcomes]
        /\ \A u \in Taps \ {t} : told'[u] = told[u]
    BY <1>9, <1>c, <2>1 DEF EndJob
  <2>3. \A u \in Taps \ {t} : Same(u)
    BY <1>0, <1>9, <2>1, <2>2 DEF Typed, Same
  <2>4. handler[t] \notin {"none", "accepted"} /\ job'[t] = "ended"
    BY <1>0, <1>9, <2>1 DEF JobInv, Typed
  <2>5. o = "not_sent" => sent[t] = 0
    BY <1>9 DEF Harmless
  <2>6. tx'[t].body \in {"end", "complete"} \/ tx'[t].answered => tx'[t] # NoTransaction
    BY <1>d
  <2>7. Honest(t)'
    <3>1. told'[t] = {} \/ \E x \in Outcomes : told'[t] = {x}
      BY <2>2
    <3>2. /\ handler'[t] \in {"none", "accepted"} => told'[t] = {}
          /\ job'[t] \in {"requested", "recorded", "waiting", "giving_up"} => told'[t] = {}
          /\ job'[t] \in {"none", "requested", "recorded"} => sent'[t] = 0
          /\ job'[t] \notin {"waiting", "giving_up"}
      BY <1>9, <2>4
    <3>3. /\ t \in queue' => sent'[t] = 0 /\ tx'[t].state # "STARTED"
          /\ tx'[t].body # "none" => tx'[t].state = "STARTED"
          /\ tx'[t].body \in BeforeCommand => sent'[t] = 0
          /\ tx'[t].body = "handed" => sent'[t] > 0
      BY <1>9, <1>a DEF Honest
    <3>4. tx'[t].body \in {"end", "complete"} \/ tx'[t].answered =>
             /\ tx'[t].value = "not_sent" => sent'[t] = 0
             /\ tx'[t].value = "answered" => sent'[t] > 0
      BY <1>9, <1>a, <2>6 DEF Honest
    <3>5. tap'[t].action = "refresh" =>
             tx'[t].body \in {"none", "read", "end", "complete"} /\ sent'[t] = 0
      BY <1>9, <1>a DEF Honest
    <3>6. "not_sent" \in told'[t] => Harmless(t)'
      BY <1>9, <2>2
    <3> QED
      BY <3>1, <3>2, <3>3, <3>4, <3>5, <3>6 DEF Honest
  <2>8. Tells(t, o)
    BY <1>9, <2>1, <2>2, <2>5 DEF Tells
  <2> QED
    BY <1>9, <2>2, <2>3, <2>7, <2>8, HonestFrame DEF Promised
<1>10. ASSUME NEW t \in Taps, JobAnswered(t) PROVE HonestInv' /\ Promised
  <2>1. /\ job[t] = "waiting" /\ tx[t].answered /\ EndJob(t, tx[t].value)
        /\ tx' = [tx EXCEPT ![t] = NoTransaction]
        /\ UNCHANGED <<handler, sent, tap, queue, deaths>>
    BY <1>10 DEF JobAnswered, relay, history
  <2>2. tx[t].body = "none" /\ t \notin queue
    BY <1>0, <2>1 DEF RunInv
  <2>3. /\ tx' \in [Taps -> Transactions] /\ tx'[t] = NoTransaction
        /\ \A u \in Taps \ {t} : tx'[u] = tx[u]
    BY <1>b, <1>d, <2>1
  <2>4. /\ tx[t].value \in Outcomes
        /\ tx[t].value = "answered" => sent[t] > 0
        /\ tx[t].value = "not_sent" => sent[t] = 0
    BY <1>a, <1>b, <2>1 DEF Honest, Transactions
  <2>5. tx[t].value = "not_sent" => Harmless(t)'
    BY <1>d, <2>1, <2>2, <2>3, <2>4 DEF Harmless
  <2> QED
    BY <1>9, <1>d, <2>1, <2>2, <2>3, <2>4, <2>5
<1>11. ASSUME NEW t \in Taps, GiveUp(t) PROVE HonestInv' /\ Promised
  <2>1. /\ job[t] = "waiting" /\ job' = [job EXCEPT ![t] = "giving_up"]
        /\ tx' = [tx EXCEPT ![t] = [tx[t] EXCEPT !.wanted = FALSE]]
        /\ UNCHANGED <<told, handler, sent, tap, queue, deaths>>
    BY <1>11 DEF GiveUp, relay, history
  <2>2. /\ tx'[t].body = tx[t].body /\ tx'[t].state = tx[t].state
        /\ tx'[t].value = tx[t].value /\ tx'[t].answered = tx[t].answered
        /\ \A u \in Taps \ {t} : tx'[u] = tx[u]
    BY <1>b, <2>1 DEF Transactions
  <2>3. \A u \in Taps \ {t} : Same(u)
    BY <1>0, <2>1, <2>2 DEF Typed, Same
  <2>4. Honest(t)'
    BY <1>0, <1>a, <2>1, <2>2 DEF Typed, Honest, Harmless
  <2> QED
    BY <1>a, <2>1, <2>3, <2>4, HonestFrame DEF Promised
<1>12. ASSUME NEW t \in Taps, Withdraw(t) PROVE HonestInv' /\ Promised
  <2>0. job[t] = "giving_up" /\ UNCHANGED <<handler, sent, tap, queue, deaths>>
    BY <1>12 DEF Withdraw, relay, history
  <2>1. CASE tx[t].state = "PENDING"
    <3>1. /\ EndJob(t, "not_sent")
          /\ tx' = [tx EXCEPT ![t] = [tx[t] EXCEPT !.state = "ABANDONED"]]
      BY <1>12, <2>1 DEF Withdraw
    <3>a. /\ [tx[t] EXCEPT !.state = "ABANDONED"] \in Transactions
      BY <1>b DEF Transactions
    <3>2. /\ tx'[t].body = tx[t].body /\ tx'[t].state = "ABANDONED"
          /\ tx'[t].value = tx[t].value /\ tx'[t].answered = tx[t].answered
      BY <1>b, <3>1 DEF Transactions
    <3>b. tx' \in [Taps -> Transactions] /\ \A u \in Taps \ {t} : tx'[u] = tx[u]
      BY <1>b, <3>1, <3>a
    <3>3. tx[t].body = "none"
      BY <1>a, <2>1 DEF Honest
    <3>4. t \in queue
      BY <1>a, <2>0, <2>1 DEF Honest
    <3>5. Harmless(t)'
      BY <1>a, <2>0, <3>2, <3>3, <3>4 DEF Honest, Harmless
    <3> QED
      BY <1>9, <2>0, <3>1, <3>2, <3>3, <3>b, <3>5 DEF Outcomes
  <2>2. CASE tx[t].state # "PENDING"
    <3> DEFINE o == IF tap[t].action = "refresh" THEN "not_sent" ELSE "uncertain"
    <3>0. /\ o \in Outcomes /\ o # "answered"
          /\ o = "not_sent" => tap[t].action = "refresh"
      BY DEF Outcomes
    <3>1. /\ EndJob(t, o)
          /\ tx' = IF tx[t].answered THEN [tx EXCEPT ![t] = NoTransaction] ELSE tx
      BY <1>12, <2>2 DEF Withdraw
    <3> HIDE DEF o
    <3>2. CASE tx[t].answered
      <4>1. tx' \in [Taps -> Transactions] /\ tx'[t] = NoTransaction
        BY <1>b, <1>d, <3>1, <3>2
      <4>2. \A u \in Taps \ {t} : tx'[u] = tx[u]
        BY <1>b, <3>1, <3>2
      <4>3. tx[t].body = "none" /\ t \notin queue
        BY <1>0, <3>2 DEF RunInv
      <4>4. o = "not_sent" => Harmless(t)'
        BY <1>a, <1>d, <2>0, <3>0, <4>1, <4>3 DEF Honest, Harmless
      <4> QED
        BY <1>9, <1>d, <2>0, <3>0, <3>1, <4>1, <4>2, <4>3, <4>4
    <3>3. CASE ~tx[t].answered
      <4>1. tx' = tx
        BY <3>1, <3>3
      <4>2. t \in queue => tx[t].state = "ABANDONED"
        BY <1>a, <1>b, <2>2 DEF Honest, Transactions
      <4>3. o = "not_sent" => Harmless(t)'
        BY <1>a, <2>0, <3>0, <4>1, <4>2 DEF Honest, Harmless
      <4> QED
        BY <1>9, <1>b, <2>0, <3>0, <3>1, <4>1, <4>2, <4>3
    <3> QED
      BY <3>2, <3>3
  <2> QED
    BY <2>1, <2>2
<1>13. ASSUME NEW t \in Taps, JobRecordedAsDone(t) PROVE HonestInv' /\ Promised
  <2>1. /\ job[t] = "ended" /\ job' = [job EXCEPT ![t] = "finished"]
        /\ UNCHANGED <<told, handler, sent, tap, tx, queue, deaths>>
    BY <1>13 DEF JobRecordedAsDone, relay, history
  <2>2. \A u \in Taps \ {t} : Same(u)
    BY <1>0, <2>1 DEF Typed, Same
  <2>3. Honest(t)'
    BY <1>0, <1>a, <2>1 DEF Typed, Honest, Harmless
  <2> QED
    BY <1>a, <2>1, <2>2, <2>3, HonestFrame DEF Promised
<1>14. ASSUME NEW t \in Taps, StartTransaction(t) PROVE HonestInv' /\ Promised
  <2>0. /\ t \in queue /\ queue' = queue \ {t}
        /\ UNCHANGED <<told, handler, job, sent, tap, deaths>>
    BY <1>14 DEF StartTransaction, history
  <2>1. sent[t] = 0 /\ ~tx[t].answered
    BY <1>0, <1>a, <2>0 DEF Honest, RunInv
  <2>2. CASE Started(t) /\ tx[t].state = "PENDING"
    <3> DEFINE b == IF ~Young(t) THEN "end" ELSE IF tap[t].action = "key" THEN "gate" ELSE "read"
               r == [tx[t] EXCEPT !.state = "STARTED", !.value = "not_sent", !.body = b]
    <3>0. b \in {"end", "gate", "read"} /\ (b = "gate" => tap[t].action = "key")
      OBVIOUS
    <3>1. tx' = [tx EXCEPT ![t] = r]
      BY <2>2 DEF Started
    <3> HIDE DEF b
    <3>2. /\ r.body = b /\ r.state = "STARTED" /\ r.value = "not_sent"
          /\ r.answered = tx[t].answered
      BY <1>b DEF Transactions
    <3> HIDE DEF r
    <3>3. /\ tx'[t].body = b /\ tx'[t].state = "STARTED" /\ ~tx'[t].answered
          /\ \A u \in Taps \ {t} : tx'[u] = tx[u]
      BY <1>b, <2>1, <3>1, <3>2
    <3>4. "not_sent" \notin told[t]
      BY <1>a, <2>0, <2>2 DEF Honest, Harmless
    <3>5. \A u \in Taps \ {t} : Same(u)
      BY <2>0, <3>3 DEF Same
    <3>6. tx'[t].value = "not_sent"
      BY <1>b, <3>1, <3>2
    <3>7. Honest(t)'
      BY <1>a, <2>0, <2>1, <3>0, <3>3, <3>4, <3>6 DEF Honest
    <3> QED
      BY <1>a, <2>0, <3>5, <3>7, HonestFrame DEF Promised
  <2>3. CASE tx' = [tx EXCEPT ![t] = NoTransaction] /\ tx[t].state # "PENDING"
    <3>0. job[t] \notin {"waiting", "giving_up"}
      <4>1. tx[t].state = "ABANDONED"
        BY <1>a, <1>b, <2>0, <2>3 DEF Honest, Transactions
      <4> QED
        BY <1>a, <4>1 DEF Honest
    <3>1. tx'[t] = NoTransaction /\ \A u \in Taps \ {t} : tx'[u] = tx[u]
      BY <1>b, <2>3
    <3>2. \A u \in Taps \ {t} : Same(u)
      BY <2>0, <3>1 DEF Same
    <3>3. Honest(t)'
      BY <1>a, <1>d, <2>0, <2>1, <3>0, <3>1 DEF Honest, Harmless, BeforeCommand, Delivering
    <3> QED
      BY <1>a, <2>0, <3>2, <3>3, HonestFrame DEF Promised
  <2> QED
    BY <1>14, <2>2, <2>3 DEF StartTransaction
<1>15. ASSUME NEW t \in Taps, CountOut(t) PROVE HonestInv' /\ Promised
  <2>1. tx[t].body = "end" /\ Goto(t, "complete") /\ UNCHANGED outside
    BY <1>15 DEF CountOut, Goto, outside, history
  <2>2. Moved(t, "complete") /\ tx'[t].state = tx[t].state /\ tx'[t].value = tx[t].value
    BY <1>b, <2>1, GotoFacts DEF Bodies
  <2>3. \A u \in Taps \ {t} : Same(u)
    BY <2>1, <2>2 DEF Moved, Same, outside
  <2>4. Honest(t)'
    BY <1>a, <2>1, <2>2 DEF Honest, Harmless, Moved, outside, BeforeCommand, Delivering
  <2> QED
    BY <1>a, <2>1, <2>3, <2>4, HonestFrame DEF outside, Promised
<1>16. ASSUME NEW t \in Taps, Complete(t) PROVE HonestInv' /\ Promised
  <2>0. tx[t].body = "complete" /\ UNCHANGED outside
    BY <1>16 DEF Complete, outside, history
  <2> DEFINE r == [tx[t] EXCEPT !.answered = TRUE, !.body = "none"]
  <2>1. \/ tx' = [tx EXCEPT ![t] = r]
        \/ /\ tx' = [tx EXCEPT ![t] = NoTransaction]
           /\ job[t] \notin {"waiting", "giving_up"}
    BY <1>16 DEF Complete
  <2>2. /\ r.body = "none" /\ r.state = tx[t].state /\ r.value = tx[t].value
    BY <1>b DEF Transactions
  <2> HIDE DEF r
  <2>3. t \notin queue
    BY <1>0, <2>0 DEF RunInv
  <2>4. /\ \A u \in Taps \ {t} : tx'[u] = tx[u]
        /\ tx'[t].body = "none" /\ (tx'[t].answered => tx'[t].value = tx[t].value)
        /\ job[t] \in {"waiting", "giving_up"} => tx'[t].state = tx[t].state
    BY <1>b, <1>d, <2>1, <2>2
  <2>5. \A u \in Taps \ {t} : Same(u)
    BY <2>0, <2>4 DEF Same, outside
  <2>6. Honest(t)'
    BY <1>a, <2>0, <2>3, <2>4 DEF Honest, Harmless, outside, BeforeCommand, Delivering
  <2> QED
    BY <1>a, <2>0, <2>5, <2>6, HonestFrame DEF outside, Promised
<1>17. ASSUME NEW t \in Taps, ReadAndChoose(t) PROVE HonestInv' /\ Promised
  <2>0. UNCHANGED outside /\ tx[t].body = "read" /\ sent[t] = 0
    BY <1>17, <1>a DEF ReadAndChoose, Within, outside, relay, history, Honest, BeforeCommand
  <2>1. Promised
    BY <2>0 DEF Promised, outside
  <2>2. CASE Returns(t, "not_sent")
    BY <2>0, <2>1, <2>2, ReturningIsHonest DEF Outcomes
  <2>3. CASE tap[t].action = "cast" /\ Goto(t, "gate")
    BY <2>0, <2>1, <2>3, GoingOnIsHonest DEF BeforeCommand
  <2> QED
    BY <1>17, <2>2, <2>3 DEF ReadAndChoose
<1>18. ASSUME NEW t \in Taps, MayCommand(t) PROVE HonestInv' /\ Promised
  <2>0. /\ UNCHANGED outside /\ tx[t].body \in {"gate", "gate_again"} /\ sent[t] = 0
    BY <1>18, <1>a DEF MayCommand, Within, outside, relay, history, Honest, BeforeCommand, Delivering
  <2>1. Promised
    BY <2>0 DEF Promised, outside
  <2>2. CASE Returns(t, "not_sent")
    BY <2>0, <2>1, <2>2, ReturningIsHonest DEF Outcomes
  <2>3. CASE \E b \in {"claim", "deliver_again"} : Goto(t, b)
    BY <2>0, <2>1, <2>3, GoingOnIsHonest DEF BeforeCommand, Delivering
  <2> QED
    BY <1>18, <2>2, <2>3 DEF MayCommand
<1>19. ASSUME NEW t \in Taps, Claim(t) PROVE HonestInv' /\ Promised
  <2>0. UNCHANGED outside /\ tx[t].body = "claim" /\ sent[t] = 0
    BY <1>19, <1>a DEF Claim, Within, outside, relay, history, Honest, BeforeCommand
  <2>1. Promised
    BY <2>0 DEF Promised, outside
  <2>2. CASE Returns(t, "uncertain")
    BY <2>0, <2>1, <2>2, ReturningIsHonest DEF Outcomes
  <2>3. CASE Goto(t, "deliver")
    BY <2>0, <2>1, <2>3, GoingOnIsHonest DEF BeforeCommand, Delivering
  <2> QED
    BY <1>19, <2>2, <2>3 DEF Claim
<1>20. ASSUME NEW t \in Taps, Deliver(t) PROVE HonestInv' /\ Promised
  <2>0. /\ tx[t].body \in {"deliver", "deliver_again"} /\ sent[t] = 0
        /\ "not_sent" \notin told[t] /\ tap[t].action # "refresh"
        /\ tx[t].state = "STARTED" /\ ~tx[t].answered /\ t \notin queue
        /\ UNCHANGED <<told, handler, job, tap, queue, deaths>>
    BY <1>0, <1>20, <1>a DEF Deliver, Within, relay, Honest, Harmless, BeforeCommand, Delivering, RunInv
  <2>1. CASE UNCHANGED sent /\ Returns(t, "not_sent")
    <3>1. UNCHANGED outside
      BY <2>0, <2>1 DEF outside
    <3> QED
      BY <2>0, <2>1, <3>1, ReturningIsHonest DEF Outcomes, Promised
  <2>2. CASE UNCHANGED sent /\ Goto(t, "search")
    <3>1. UNCHANGED outside
      BY <2>0, <2>2 DEF outside
    <3> QED
      BY <2>0, <2>2, <3>1, GoingOnIsHonest DEF BeforeCommand, Delivering, Promised
  <2>3. CASE sent' = [sent EXCEPT ![t] = @ + 1] /\ Goto(t, "handed")
    <3>1. sent' = [sent EXCEPT ![t] = 1]
      BY <2>0, <2>3
    <3>2. Moved(t, "handed") /\ tx'[t].state = tx[t].state
      BY <1>b, <2>3, GotoFacts DEF Bodies
    <3>3. \A u \in Taps \ {t} : Same(u)
      BY <1>b, <2>0, <3>1, <3>2 DEF Moved, Same
    <3>4. job[t] \notin {"none", "requested", "recorded"}
      BY <1>0, <2>0 DEF JobInv
    <3>5. sent'[t] = 1
      BY <1>b, <3>1
    <3>6. Honest(t)'
      BY <1>a, <2>0, <3>2, <3>4, <3>5 DEF Honest, Moved, BeforeCommand, Delivering
    <3>7. Delivers(t)
      BY <2>0, <3>1 DEF Delivers
    <3> QED
      BY <1>a, <2>0, <3>3, <3>6, <3>7, HonestFrame DEF Promised
  <2> QED
    BY <1>20, <2>1, <2>2, <2>3 DEF Deliver
<1>21. ASSUME NEW t \in Taps, Answered(t) PROVE HonestInv' /\ Promised
  <2>0. UNCHANGED outside /\ tx[t].body = "handed" /\ sent[t] > 0
    BY <1>21, <1>a DEF Answered, Within, outside, relay, history, Honest
  <2>1. PICK o \in {"answered", "uncertain"} : Returns(t, o)
    BY <1>21 DEF Answered
  <2> QED
    BY <2>0, <2>1, ReturningIsHonest DEF Outcomes, Promised, outside
<1>22. ASSUME NEW t \in Taps, Search(t) PROVE HonestInv' /\ Promised
  <2>0. UNCHANGED outside /\ tx[t].body = "search" /\ sent[t] = 0
    BY <1>22, <1>a DEF Search, Within, outside, relay, history, Honest, BeforeCommand, Delivering
  <2>1. Promised
    BY <2>0 DEF Promised, outside
  <2>2. CASE Returns(t, "not_sent")
    BY <2>0, <2>1, <2>2, ReturningIsHonest DEF Outcomes
  <2>3. CASE Goto(t, "gate_again")
    BY <2>0, <2>1, <2>3, GoingOnIsHonest DEF BeforeCommand, Delivering
  <2> QED
    BY <1>22, <2>2, <2>3 DEF Search
<1>23. CASE UNCHANGED vars
  BY <1>1, <1>23 DEF vars, outside, relay, history
<1> QED
  BY <1>2, <1>3, <1>4, <1>5, <1>6, <1>7, <1>8, <1>10, <1>11, <1>12, <1>13, <1>14, <1>15,
     <1>16, <1>17, <1>18, <1>19, <1>20, <1>21, <1>22, <1>23
     DEF Next, HandlerStep, JobStep, BodyStep

(* As long as the process lives and WorkManager records jobs in time, the   *)
(* tap implements Delivery: at most one command, one outcome, "answered"    *)
(* only of a command that left, and "not_sent" a promise about the future   *)
(* too. Both hypotheses are needed: run widget_slow_record breaks the       *)
(* promise without the second, and a job run again after a death is too old *)
(* or already claimed, and says so of a command that may have left.         *)
THEOREM TapKeepsThePromise ==
    ASSUME MaxDeaths = 0, SlowRecord = FALSE
    PROVE  Spec => KeepsThePromise
<1>1. Init => HonestInv
  <2> SUFFICES ASSUME Init PROVE HonestInv
    OBVIOUS
  <2>1. told \in [Taps -> SUBSET Outcomes] /\ deaths \in Nat
    BY DEF Init
  <2>2. ASSUME NEW t \in Taps PROVE Honest(t)
    <3>1. /\ told[t] = {} /\ sent[t] = 0 /\ tx[t] = NoTransaction /\ t \notin queue
          /\ tap[t].action = "none" /\ job[t] = "none"
      BY DEF Init, NoTap
    <3> QED
      BY <3>1 DEF Honest, NoTransaction, BeforeCommand, Delivering
  <2> QED
    BY <2>1, <2>2 DEF HonestInv
<1>2. Init => Promise!Init
  BY DEF Init, Promise!Init, SentTaps, ToldOutcome
<1>3. IInv /\ HonestInv /\ [Next]_vars => HonestInv' /\ Promised
  BY StepHonest
<1>4. IInv /\ HonestInv /\ Promised => [Promise!Next]_<<SentTaps, ToldOutcome>>
  BY PromisedImplements DEF IInv, Typed
<1> QED
  BY <1>1, <1>2, <1>3, <1>4, Invariant, PTL DEF Spec, KeepsThePromise, Promise!Spec
-----------------------------------------------------------------------------
(* What stands between a tap and its outcome, for as long as nothing has   *)
(* been told of it and the process lives: its handler, which still has to  *)
(* request or to hear of the job, or the job, recorded and not yet over.   *)
(* TapIsAnswered adds the fairness that makes these go on.                 *)
InHand(t) ==
    \/ told[t] # {}
    \/ handler[t] = "accepted"
    \/ handler[t] = "waiting" /\ job[t] = "requested"
    \/ job[t] \in {"recorded", "waiting", "giving_up"}

TapIsInHand == deaths = 0 => \A t \in used : InHand(t)

(* The types it adds to those of the taps' own records.                    *)
ToldTyped ==
    used \subseteq Taps /\ deaths \in Nat /\ told \in [Taps -> SUBSET Outcomes]

(* Only outcomes are told, of taps that exist.                             *)
LEMMA ToldStep == Typed /\ ToldTyped /\ [Next]_vars => ToldTyped'
<1> SUFFICES ASSUME Typed, ToldTyped, [Next]_vars PROVE ToldTyped'
  OBVIOUS
<1>0. /\ told \in [Taps -> SUBSET Outcomes] /\ used \subseteq Taps /\ deaths \in Nat
      /\ \A t \in Taps : tx[t].value \in Outcomes
  BY DEF Typed, ToldTyped, Transactions
<1>1. ASSUME UNCHANGED <<used, told, deaths>> PROVE ToldTyped'
  BY <1>1 DEF ToldTyped
<1>2. CASE Tick \/ Submit \/ RunWindow \/ EndWindow \/ (\E d \in Devices : SelectTv(d))
  BY <1>1, <1>2 DEF Tick, Submit, RunWindow, EndWindow, SelectTv, stored
<1>3. CASE UNCHANGED vars
  BY <1>1, <1>3 DEF vars, stored
<1>4. CASE Die
  BY <1>0, <1>4 DEF Die, ToldTyped, stored
<1>5. ASSUME NEW t \in Taps, Record(t) \/ JobRecordedAsDone(t) \/ StartTransaction(t) \/ BodyStep(t)
      PROVE  ToldTyped'
  BY <1>1, <1>5 DEF Record, JobRecordedAsDone, StartTransaction, BodyStep, ReadAndChoose,
     MayCommand, Claim, Deliver, Answered, Search, CountOut, Complete, Within, stored
<1>6. ASSUME NEW t \in Taps, NEW a \in Actions, Tapped(t, a) PROVE ToldTyped'
  BY <1>0, <1>6 DEF Tapped, ToldTyped
<1>7. ASSUME NEW t \in Taps, HandlerStep(t) \/ JobStep(t) PROVE ToldTyped'
  <2>1. UNCHANGED <<used, deaths>>
    BY <1>7 DEF HandlerStep, JobStep, Enqueue, EnqueueEnds, RunJob, JobAnswered, GiveUp,
       Withdraw, stored
  <2>2. told' = told \/ \E o \in Outcomes : Say(t, o)
    BY <1>0, <1>7 DEF HandlerStep, JobStep, Enqueue, EnqueueEnds, RunJob, JobAnswered, GiveUp,
       Withdraw, EndJob, Admit, Outcomes
  <2> QED
    BY <1>0, <2>1, <2>2 DEF ToldTyped, Say
<1> QED
  BY <1>2, <1>3, <1>4, <1>5, <1>6, <1>7 DEF Next

(* A step that leaves the records of all other taps alone and keeps its    *)
(* own tap in hand keeps every tap in hand.                                *)
LEMMA OthersStayInHand ==
    ASSUME ToldTyped, TapIsInHand, deaths' = deaths, NEW t \in Taps, used' \subseteq used \cup {t},
           deaths = 0 /\ t \in used' => InHand(t)',
           \A u \in Taps \ {t} : /\ told'[u] = told[u] /\ handler'[u] = handler[u]
                                 /\ job'[u] = job[u]
    PROVE  TapIsInHand'
<1> SUFFICES ASSUME deaths = 0, NEW u \in used' PROVE InHand(u)'
  BY DEF TapIsInHand
<1>1. u = t \/ (u \in used /\ u \in Taps \ {t})
  BY DEF ToldTyped
<1>2. u \in used => InHand(u)
  BY DEF TapIsInHand
<1> QED
  BY <1>1, <1>2 DEF InHand

(* Every step keeps every tap in hand, or is a death of the process.       *)
LEMMA InHandStep == Typed /\ ToldTyped /\ TapIsInHand /\ [Next]_vars => TapIsInHand'
<1> SUFFICES ASSUME Typed, ToldTyped, TapIsInHand, [Next]_vars PROVE TapIsInHand'
  OBVIOUS
<1>0. /\ told \in [Taps -> SUBSET Outcomes] /\ used \subseteq Taps /\ deaths \in Nat
      /\ handler \in [Taps -> {"none", "accepted", "waiting", "done"}]
      /\ DOMAIN job = Taps
  BY DEF Typed, ToldTyped
<1>1. \A t \in used : deaths = 0 => InHand(t)
  BY DEF TapIsInHand
<1>2. ASSUME UNCHANGED <<used, told, handler, job, deaths>> PROVE TapIsInHand'
  BY <1>2 DEF TapIsInHand, InHand
<1>3. CASE Tick \/ Submit \/ RunWindow \/ EndWindow \/ (\E d \in Devices : SelectTv(d))
  BY <1>2, <1>3 DEF Tick, Submit, RunWindow, EndWindow, SelectTv, stored
<1>4. CASE UNCHANGED vars
  BY <1>2, <1>4 DEF vars, stored
<1>5. CASE Die
  BY <1>0, <1>5 DEF Die, TapIsInHand
<1>6. ASSUME NEW t \in Taps, StartTransaction(t) \/ BodyStep(t) PROVE TapIsInHand'
  BY <1>2, <1>6 DEF StartTransaction, BodyStep, ReadAndChoose, MayCommand, Claim, Deliver,
     Answered, Search, CountOut, Complete, Within, stored
<1>7. ASSUME NEW t \in Taps, NEW a \in Actions, Tapped(t, a) PROVE TapIsInHand'
  <2>1. CASE t \in used
    BY <1>2, <1>7, <2>1 DEF Tapped
  <2>2. CASE t \notin used
    <3>1. /\ used' = used \cup {t} /\ handler' = [handler EXCEPT ![t] = "accepted"]
          /\ UNCHANGED <<told, job, deaths>>
      BY <1>7, <2>2 DEF Tapped
    <3> QED
      BY <1>0, <3>1, OthersStayInHand DEF InHand
  <2> QED
    BY <2>1, <2>2
<1>8. ASSUME NEW t \in Taps, Enqueue(t) PROVE TapIsInHand'
  <2>1. /\ used' = used /\ deaths' = deaths
        /\ \A u \in Taps \ {t} : told'[u] = told[u] /\ handler'[u] = handler[u] /\ job'[u] = job[u]
    BY <1>0, <1>8 DEF Enqueue, Say, stored
  <2>2. \/ told'[t] # {}
        \/ handler'[t] = "waiting" /\ job'[t] = "requested"
    BY <1>0, <1>8 DEF Enqueue, Say
  <2> QED
    BY <2>1, <2>2, OthersStayInHand DEF InHand
<1>9. ASSUME NEW t \in Taps, Record(t) PROVE TapIsInHand'
  <2>1. /\ UNCHANGED <<used, deaths, told, handler>>
        /\ job' = [job EXCEPT ![t] = "recorded"]
    BY <1>9 DEF Record, stored
  <2> QED
    BY <1>0, <2>1, OthersStayInHand DEF InHand
<1>10. ASSUME NEW t \in Taps, EnqueueEnds(t) PROVE TapIsInHand'
  <2>1. /\ used' = used /\ deaths' = deaths
        /\ \A u \in Taps \ {t} : told'[u] = told[u] /\ handler'[u] = handler[u] /\ job'[u] = job[u]
    BY <1>0, <1>10 DEF EnqueueEnds, Say, stored
  <2>2. \/ told'[t] # {}
        \/ job[t] # "requested" /\ job' = job /\ told' = told
    BY <1>0, <1>10 DEF EnqueueEnds, Say
  <2>3. handler[t] = "waiting"
    BY <1>10 DEF EnqueueEnds
  <2>4. deaths = 0 /\ t \in used => InHand(t)'
    BY <1>1, <2>2, <2>3 DEF InHand
  <2> QED
    BY <2>1, <2>4, OthersStayInHand
<1>11. ASSUME NEW t \in Taps, JobStep(t) PROVE TapIsInHand'
  <2>1. /\ UNCHANGED <<used, deaths, handler>>
        /\ \A u \in Taps \ {t} : told'[u] = told[u] /\ job'[u] = job[u]
    BY <1>0, <1>11 DEF JobStep, RunJob, JobAnswered, GiveUp, Withdraw, EndJob, Admit, Say, stored
  <2>2. told'[t] # {} \/ job'[t] \in {"waiting", "giving_up"}
    BY <1>0, <1>11 DEF JobStep, RunJob, JobAnswered, GiveUp, Withdraw, EndJob, Admit, Say
  <2> QED
    BY <2>1, <2>2, OthersStayInHand DEF InHand
<1>12. ASSUME NEW t \in Taps, JobRecordedAsDone(t) PROVE TapIsInHand'
  <2>1. /\ UNCHANGED <<used, deaths, handler, told>> /\ job[t] = "ended"
        /\ job' = [job EXCEPT ![t] = "finished"]
    BY <1>12 DEF JobRecordedAsDone, stored
  <2>2. deaths = 0 /\ t \in used => InHand(t)'
    BY <1>0, <1>1, <2>1 DEF InHand
  <2> QED
    BY <1>0, <2>1, <2>2, OthersStayInHand
<1> QED
  BY <1>3, <1>4, <1>5, <1>6, <1>7, <1>8, <1>9, <1>10, <1>11, <1>12
     DEF Next, HandlerStep

(* While the process lives, a tap that was accepted is told of, or its     *)
(* handler or its job still has to end, for any taps, however the worker   *)
(* hangs (WidgetTapHandler and WidgetJob leave no path without a word).    *)
THEOREM TapStaysInHand == Spec => []TapIsInHand
<1>1. Init => TapIsInHand /\ ToldTyped
  BY DEF Init, TapIsInHand, ToldTyped
<1>2. IInv => Typed
  BY DEF IInv
<1> QED
  BY <1>1, <1>2, ToldStep, InHandStep, Invariant, PTL DEF Spec
=============================================================================
