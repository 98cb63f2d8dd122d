------------------------------ MODULE WidgetTap ------------------------------
(***************************************************************************)
(* One tap on the Android home-screen widget, from the broadcast to the    *)
(* command: WidgetTapHandler consumes the drawing's token and has a job    *)
(* recorded; WidgetJob runs it as one non-queuing transaction of           *)
(* BridgeRelay; WidgetActionRunner claims the tap durably (ClaimedTaps)    *)
(* and hands one command to the embedded Python. Android may kill the      *)
(* process at any instant and run the recorded job again.                  *)
(***************************************************************************)
EXTENDS Integers, FiniteSets

CONSTANTS
    Taps,          \* the tokens ever armed; the one a tap carries is its identity
    Actions,       \* the buttons tapped: "key", "cast" (play/pause, stop), "refresh"
    Devices,       \* the TVs the person may choose
    Lifetime,      \* MAX_TAP_AGE_MILLIS
    Evictable,     \* EVICTABLE_AFTER_MILLIS
    Retention,     \* RETENTION_MILLIS
    MaxEntries,    \* MAX_ENTRIES
    Drift,         \* how far the wall clock may fall behind its highest value
    MaxClock,      \* bound: the wall clock
    MaxDeaths,     \* bound: process deaths
    MaxWindow,     \* bound: requests of the window at once
    SlowRecord     \* whether WorkManager may need more than ENQUEUE_TIMEOUT_SECONDS

ASSUME WidgetTapAssumption ==
    /\ Actions \subseteq {"key", "cast", "refresh"}
    /\ Lifetime \in Nat /\ Evictable \in Nat /\ Retention \in Nat
    /\ Drift \in Nat /\ MaxClock \in Nat
    /\ MaxEntries \in Nat \ {0}
    /\ MaxDeaths \in Nat /\ MaxWindow \in Nat
    /\ SlowRecord \in BOOLEAN
    /\ Evictable <= Retention
    /\ Lifetime + 2 * Drift <= Evictable
    /\ {"none", "idle", "window"} \cap (Taps \cup Devices) = {}

VARIABLES
    now, peak,   \* the wall clock and the highest value it had
    selection,   \* the stored TV
    used,        \* tokens consumed
    claimed,     \* the durable record: taps claimed ...
    claimedAt,   \*   ... and when
    handler,     \* per tap: the receiver's thread
    tap,         \* per tap: its TapSpec
    job,         \* per tap: its WorkManager job and the thread that runs it
    pending,     \* BridgeRelay.pending
    windowQueue, \* window requests waiting for the worker
    queue,       \* transactions waiting for the worker
    running,     \* what the worker thread runs
    tx,          \* per tap: its transaction, while somebody holds it
    told,        \* history: what the widget said of the tap
    sent,        \* history: commands of the tap that left for a TV ...
    sentTo,      \*   ... and the TVs they left for
    deaths

stored == <<selection, used, claimed, claimedAt>>
clock == <<now, peak>>
relay == <<pending, windowQueue, queue, running>>
history == <<sent, sentTo>>
vars == <<clock, stored, handler, tap, job, relay, tx, told, history, deaths>>

(* What the widget's line says of the command.                             *)
Outcomes == {"answered", "not_sent", "uncertain"}

(* The locals of tryTransaction and of the body it runs: the claim both    *)
(* sides settle, whether the caller still waits, where the body is, the TV *)
(* it is for, what it returned, and whether its future is complete.        *)
Transactions ==
    [state : {"PENDING", "STARTED", "ABANDONED"}, wanted : BOOLEAN,
     body : {"none", "read", "gate", "claim", "deliver", "handed", "search",
             "gate_again", "deliver_again", "end", "complete"},
     target : Devices \cup {"none"}, value : Outcomes, answered : BOOLEAN]

NoTransaction == [state |-> "PENDING", wanted |-> TRUE, body |-> "none", target |-> "none",
                  value |-> "uncertain", answered |-> FALSE]

(* Types: every job, transaction and outcome of a tap is one the code has, *)
(* also after the process died with some of them on disk.                  *)
TypeOK ==
    /\ now \in 0..MaxClock /\ peak \in 0..MaxClock
    /\ selection \in Devices \cup {"none"}
    /\ used \subseteq Taps /\ claimed \subseteq Taps
    /\ claimedAt \in [Taps -> 0..MaxClock]
    /\ handler \in [Taps -> {"none", "accepted", "waiting", "done"}]
    /\ tap \in [Taps -> [action : Actions \cup {"none"}, at : 0..MaxClock,
                         device : Devices \cup {"none"}]]
    /\ job \in [Taps -> {"none", "requested", "recorded", "waiting", "giving_up",
                         "ended", "finished"}]
    /\ pending \in Nat
    /\ windowQueue \in 0..MaxWindow
    /\ queue \subseteq Taps
    /\ running \in Taps \cup {"idle", "window"}
    /\ tx \in [Taps -> Transactions]
    /\ told \in [Taps -> SUBSET Outcomes]
    /\ sent \in [Taps -> Nat]
    /\ sentTo \in [Taps -> SUBSET Devices]
    /\ deaths \in 0..MaxDeaths

NoTap == [action |-> "none", at |-> 0, device |-> "none"]

Init ==
    /\ now = 0 /\ peak = 0
    /\ selection = "none"
    /\ used = {} /\ claimed = {}
    /\ claimedAt = [t \in Taps |-> 0]
    /\ handler = [t \in Taps |-> "none"]
    /\ tap = [t \in Taps |-> NoTap]
    /\ job = [t \in Taps |-> "none"]
    /\ pending = 0 /\ windowQueue = 0 /\ queue = {} /\ running = "idle"
    /\ tx = [t \in Taps |-> NoTransaction]
    /\ told = [t \in Taps |-> {}]
    /\ sent = [t \in Taps |-> 0]
    /\ sentTo = [t \in Taps |-> {}]
    /\ deaths = 0

Say(t, o) == told' = [told EXCEPT ![t] = @ \cup {o}]

(* age in 0..MAX_TAP_AGE_MILLIS                                            *)
Young(t) == now - tap[t].at \in 0..Lifetime

-----------------------------------------------------------------------------
(* The person and the clock. The clock may be set back, by at most Drift.  *)

Tick ==
    \E n \in 0..MaxClock :
        /\ n # now /\ n + Drift >= peak
        /\ now' = n
        /\ peak' = IF n > peak THEN n ELSE peak
        /\ UNCHANGED <<stored, handler, tap, job, relay, tx, told, history, deaths>>

SelectTv(d) ==
    /\ d # selection
    /\ selection' = d
    /\ UNCHANGED <<clock, used, claimed, claimedAt, handler, tap, job, relay, tx,
                   told, history, deaths>>

-----------------------------------------------------------------------------
(* WidgetTapHandler.handle. Tokens are armed one after the other, so a     *)
(* broadcast carries either the armed token, or one already consumed (a    *)
(* redelivery, a stale drawing), which only redraws the widget.            *)
Tapped(t, a) ==
    /\ IF t \in used
       THEN UNCHANGED <<used, handler, tap>>
       ELSE /\ used' = used \cup {t}
            /\ handler' = [handler EXCEPT ![t] = "accepted"]
            /\ tap' = [tap EXCEPT ![t].action = a]
    /\ UNCHANGED <<clock, selection, claimed, claimedAt, job, relay, tx, told,
                   history, deaths>>

(* After the token: the selection is read, the job is requested.           *)
Enqueue(t) ==
    /\ handler[t] = "accepted"
    /\ IF selection = "none"
       THEN /\ handler' = [handler EXCEPT ![t] = "done"]
            /\ Say(t, "not_sent")
            /\ UNCHANGED <<tap, job>>
       ELSE /\ handler' = [handler EXCEPT ![t] = "waiting"]
            /\ tap' = [tap EXCEPT ![t].at = now, ![t].device = selection]
            /\ job' = [job EXCEPT ![t] = "requested"]
            /\ UNCHANGED told
    /\ UNCHANGED <<clock, stored, relay, tx, history, deaths>>

Record(t) ==
    /\ job[t] = "requested"
    /\ job' = [job EXCEPT ![t] = "recorded"]
    /\ UNCHANGED <<clock, stored, handler, tap, relay, tx, told, history, deaths>>

(* The enqueue's future completes, fails, or (SlowRecord) is not complete   *)
(* within its timeout; the last two are one exception to the handler.       *)
EnqueueEnds(t) ==
    /\ handler[t] = "waiting"
    /\ handler' = [handler EXCEPT ![t] = "done"]
    /\ \/ /\ job[t] # "requested"
          /\ UNCHANGED <<job, told>>
       \/ /\ job[t] = "requested"
          /\ job' = [job EXCEPT ![t] = "none"]
          /\ Say(t, "not_sent")
       \/ /\ SlowRecord
          /\ job[t] = "requested"
          /\ Say(t, "not_sent")
          /\ UNCHANGED job
    /\ UNCHANGED <<clock, stored, tap, relay, tx, history, deaths>>

-----------------------------------------------------------------------------
(* WidgetJob.run on a WorkManager thread.                                  *)

EndJob(t, o) ==
    /\ job' = [job EXCEPT ![t] = "ended"]
    /\ Say(t, o)

(* tryTransaction's admission: only when nothing runs or waits.            *)
Admit(t) ==
    /\ pending' = 1
    /\ queue' = queue \cup {t}
    /\ job' = [job EXCEPT ![t] = "waiting"]
    /\ tx' = [tx EXCEPT ![t] = [NoTransaction EXCEPT !.target = selection]]
    /\ UNCHANGED <<windowQueue, running, told>>

(* Mutant: the TV of the tap is not compared with the selected one. *)
RunForAnyTv(t) ==
    /\ job[t] = "recorded"
    /\ IF ~Young(t) \/ pending # 0
       THEN EndJob(t, "not_sent") /\ UNCHANGED <<relay, tx>>
       ELSE Admit(t)
    /\ UNCHANGED <<clock, stored, handler, tap, history, deaths>>

(* Another TV selected since, a tap too old, a busy bridge: nothing sent.  *)
RunJob(t) ==
    /\ job[t] = "recorded"
    /\ IF selection # tap[t].device \/ ~Young(t) \/ pending # 0
       THEN EndJob(t, "not_sent") /\ UNCHANGED <<relay, tx>>
       ELSE Admit(t)
    /\ UNCHANGED <<clock, stored, handler, tap, history, deaths>>

JobAnswered(t) ==
    /\ job[t] = "waiting"
    /\ tx[t].answered
    /\ EndJob(t, tx[t].value)
    /\ tx' = [tx EXCEPT ![t] = NoTransaction]
    /\ UNCHANGED <<clock, stored, handler, tap, relay, history, deaths>>

(* Mutant: only a transaction that started is given up. *)
GiveUpIfStarted(t) ==
    /\ job[t] = "waiting"
    /\ ~tx[t].answered
    /\ tx[t].state = "STARTED"
    /\ tx' = [tx EXCEPT ![t].wanted = FALSE]
    /\ job' = [job EXCEPT ![t] = "giving_up"]
    /\ UNCHANGED <<clock, stored, handler, tap, relay, told, history, deaths>>

(* TRANSACTION_TIMEOUT_MILLIS passed: first the flag ...                   *)
GiveUp(t) ==
    /\ job[t] = "waiting"
    /\ ~tx[t].answered
    /\ tx' = [tx EXCEPT ![t].wanted = FALSE]
    /\ job' = [job EXCEPT ![t] = "giving_up"]
    /\ UNCHANGED <<clock, stored, handler, tap, relay, told, history, deaths>>

(* ... then the compare-and-swap: withdrawn for good, or may be sent.      *)
Withdraw(t) ==
    /\ job[t] = "giving_up"
    /\ IF tx[t].state = "PENDING"
       THEN /\ EndJob(t, "not_sent")
            /\ tx' = [tx EXCEPT ![t].state = "ABANDONED"]
       ELSE /\ EndJob(t, IF tap[t].action = "refresh" THEN "not_sent" ELSE "uncertain")
            /\ tx' = IF tx[t].answered THEN [tx EXCEPT ![t] = NoTransaction] ELSE tx
    /\ UNCHANGED <<clock, stored, handler, tap, relay, history, deaths>>

(* WorkManager records the job's success; until then it may run it again.  *)
JobRecordedAsDone(t) ==
    /\ job[t] = "ended"
    /\ job' = [job EXCEPT ![t] = "finished"]
    /\ UNCHANGED <<clock, stored, handler, tap, relay, tx, told, history, deaths>>

-----------------------------------------------------------------------------
(* BridgeRelay: the window's requests and the worker thread.               *)

Submit ==
    /\ windowQueue < MaxWindow
    /\ pending' = pending + 1
    /\ windowQueue' = windowQueue + 1
    /\ UNCHANGED <<clock, stored, handler, tap, job, queue, running, tx, told,
                   history, deaths>>

RunWindow ==
    /\ running = "idle" /\ windowQueue > 0
    /\ running' = "window"
    /\ windowQueue' = windowQueue - 1
    /\ UNCHANGED <<clock, stored, handler, tap, job, pending, queue, tx, told,
                   history, deaths>>

EndWindow ==
    /\ running = "window"
    /\ running' = "idle"
    /\ pending' = pending - 1
    /\ UNCHANGED <<clock, stored, handler, tap, job, windowQueue, queue, tx, told,
                   history, deaths>>

(* The worker runs the transaction's body from its start: a tap that is    *)
(* too old by now ends at once, with nothing sent.                         *)
Started(t) ==
    /\ running' = t
    /\ tx' = [tx EXCEPT ![t].state = "STARTED", ![t].value = "not_sent",
                        ![t].body = IF ~Young(t) THEN "end"
                                    ELSE IF tap[t].action = "key" THEN "gate" ELSE "read"]
    /\ UNCHANGED pending

(* Mutant: a withdrawn transaction is not counted out. *)
StartKeepingCount(t) ==
    /\ t \in queue
    /\ running = "idle"
    /\ queue' = queue \ {t}
    /\ IF tx[t].state = "PENDING"
       THEN Started(t)
       ELSE UNCHANGED <<running, tx, pending>>
    /\ UNCHANGED <<clock, stored, handler, tap, job, windowQueue, told, history, deaths>>

(* The worker takes a transaction: PENDING -> STARTED, else it only counts. *)
StartTransaction(t) ==
    /\ t \in queue
    /\ running = "idle"
    /\ queue' = queue \ {t}
    /\ IF tx[t].state = "PENDING"
       THEN Started(t)
       ELSE /\ pending' = pending - 1
            /\ tx' = [tx EXCEPT ![t] = NoTransaction]
            /\ UNCHANGED running
    /\ UNCHANGED <<clock, stored, handler, tap, job, windowQueue, told, history, deaths>>

(* The body returned: counted out first, then the future is completed,     *)
(* which a caller that gave up no longer reads.                            *)
CountOut(t) ==
    /\ tx[t].body = "end"
    /\ pending' = pending - 1
    /\ tx' = [tx EXCEPT ![t].body = "complete"]
    /\ UNCHANGED <<clock, stored, handler, tap, job, windowQueue, queue, running, told,
                   history, deaths>>

Complete(t) ==
    /\ tx[t].body = "complete"
    /\ tx' = [tx EXCEPT ![t] = IF job[t] \in {"waiting", "giving_up"}
                               THEN [@ EXCEPT !.answered = TRUE, !.body = "none"]
                               ELSE NoTransaction]
    /\ running' = "idle"
    /\ UNCHANGED <<clock, stored, handler, tap, job, pending, windowQueue, queue, told,
                   history, deaths>>

-----------------------------------------------------------------------------
(* WidgetActionRunner.run and pressKey, on the worker thread.              *)

Goto(t, place) == tx' = [tx EXCEPT ![t].body = place]
Returns(t, o) == tx' = [tx EXCEPT ![t].body = "end", ![t].value = o]

(* A step of the body changes the transaction, the claims and the history. *)
Within == UNCHANGED <<clock, selection, used, handler, tap, job, relay, told, deaths>>

(* readStatus and choose: the read may fail, be all that was asked, or     *)
(* leave nothing to command.                                               *)
ReadAndChoose(t) ==
    /\ tx[t].body = "read"
    /\ \/ Returns(t, "not_sent")
       \/ tap[t].action = "cast" /\ Goto(t, "gate")
    /\ Within /\ UNCHANGED <<claimed, claimedAt, history>>

(* mayCommand(): still wanted and still young.                             *)
MayCommand(t) ==
    /\ tx[t].body \in {"gate", "gate_again"}
    /\ IF tx[t].wanted /\ Young(t)
       THEN Goto(t, IF tx[t].body = "gate" THEN "claim" ELSE "deliver_again")
       ELSE Returns(t, "not_sent")
    /\ Within /\ UNCHANGED <<claimed, claimedAt, history>>

(* Mutant: a full record makes room by its oldest entries, however young. *)
ForgottenByCountOnly(gone) ==
    /\ gone \subseteq claimed
    /\ Cardinality(gone) = IF Cardinality(claimed) >= MaxEntries THEN 1 ELSE 0

(* Mutant: a claim makes room as soon as its own tap is too old, whatever  *)
(* the clock does next.                                                    *)
ForgottenWhenOld(gone) ==
    gone = IF Cardinality(claimed) < MaxEntries THEN {}
           ELSE {t \in claimed : now - claimedAt[t] > Lifetime}

(* ClaimedTaps.claim: what it forgets first. Claims past their retention   *)
(* go; above MaxEntries, the oldest evictable ones make room.              *)
Forgotten(gone) ==
    LET old == {t \in claimed : now - claimedAt[t] > Retention}
        left == claimed \ old
        evictable == {t \in left : now - claimedAt[t] > Evictable}
        room == gone \ old
    IN  /\ old \subseteq gone
        /\ room \subseteq evictable
        /\ Cardinality(left) < MaxEntries => room = {}
        /\ Cardinality(left) >= MaxEntries =>
             /\ \/ room = evictable
                \/ Cardinality(room) = Cardinality(left) - MaxEntries + 1
             /\ Cardinality(room) <= Cardinality(left) - MaxEntries + 1
             /\ \A t \in room, u \in evictable \ room : claimedAt[t] <= claimedAt[u]

(* guard.claim: a tap already claimed, or a record that cannot be read or  *)
(* written, sends nothing now but may have been sent.                      *)
Claim(t) ==
    /\ tx[t].body = "claim"
    /\ \/ /\ Returns(t, "uncertain")
          /\ UNCHANGED <<claimed, claimedAt>>
       \/ /\ t \notin claimed
          /\ \E gone \in SUBSET claimed :
               /\ Forgotten(gone)
               /\ claimed' = (claimed \ gone) \cup {t}
          /\ claimedAt' = [claimedAt EXCEPT ![t] = now]
          /\ Goto(t, "deliver")
    /\ Within /\ UNCHANGED <<sent, sentTo>>

(* deliver: the line enters Python, or is refused with nothing sent. A key *)
(* for a TV this process does not know yet goes on with a discovery.       *)
Deliver(t) ==
    /\ tx[t].body \in {"deliver", "deliver_again"}
    /\ \/ /\ sent' = [sent EXCEPT ![t] = @ + 1]
          /\ sentTo' = [sentTo EXCEPT ![t] = @ \cup {tx[t].target}]
          /\ Goto(t, "handed")
       \/ /\ Returns(t, "not_sent")
          /\ UNCHANGED <<sent, sentTo>>
       \/ /\ tap[t].action = "key" /\ tx[t].body = "deliver"
          /\ Goto(t, "search")
          /\ UNCHANGED <<sent, sentTo>>
    /\ Within /\ UNCHANGED <<claimed, claimedAt>>

(* Mutant: an answer that is an error says that nothing was sent. *)
EveryErrorIsNotSent(t) ==
    /\ tx[t].body = "handed"
    /\ \E o \in {"answered", "not_sent"} : Returns(t, o)
    /\ Within /\ UNCHANGED <<claimed, claimedAt, history>>

(* The answer, or an error, or an exception, that proves nothing.          *)
Answered(t) ==
    /\ tx[t].body = "handed"
    /\ \E o \in {"answered", "uncertain"} : Returns(t, o)
    /\ Within /\ UNCHANGED <<claimed, claimedAt, history>>

Search(t) ==
    /\ tx[t].body = "search"
    /\ Returns(t, "not_sent") \/ Goto(t, "gate_again")
    /\ Within /\ UNCHANGED <<claimed, claimedAt, history>>

-----------------------------------------------------------------------------
(* The process dies: threads, the relay and every transaction are gone;    *)
(* tokens, claims and recorded jobs stay. A job not yet known to be done   *)
(* is run again; one that was being recorded may or may not be.            *)
Die ==
    \E lost \in SUBSET {t \in Taps : job[t] = "requested"} :
        /\ deaths < MaxDeaths
        /\ deaths' = deaths + 1
        /\ handler' = [t \in Taps |-> IF handler[t] = "none" THEN "none" ELSE "done"]
        /\ job' = [t \in Taps |->
             IF t \in lost THEN "none"
             ELSE IF job[t] \in {"none", "finished"} THEN job[t] ELSE "recorded"]
        /\ pending' = 0 /\ windowQueue' = 0 /\ queue' = {} /\ running' = "idle"
        /\ tx' = [t \in Taps |-> NoTransaction]
        /\ UNCHANGED <<clock, stored, tap, told, history>>

HandlerStep(t) == Enqueue(t) \/ EnqueueEnds(t)
JobStep(t) == RunJob(t) \/ JobAnswered(t) \/ GiveUp(t) \/ Withdraw(t)
BodyStep(t) ==
    \/ ReadAndChoose(t) \/ MayCommand(t) \/ Claim(t) \/ Deliver(t) \/ Answered(t)
    \/ Search(t) \/ CountOut(t) \/ Complete(t)

Next ==
    \/ Tick \/ Submit \/ RunWindow \/ EndWindow \/ Die
    \/ \E d \in Devices : SelectTv(d)
    \/ \E t \in Taps :
         \/ \E a \in Actions : Tapped(t, a)
         \/ Record(t) \/ HandlerStep(t) \/ JobStep(t) \/ JobRecordedAsDone(t)
         \/ StartTransaction(t) \/ BodyStep(t)

(* The receiver's thread and the job's thread run, and WorkManager records *)
(* and starts jobs. Nothing is assumed of the worker: Python may hang.     *)
Fairness ==
    \A t \in Taps : WF_vars(HandlerStep(t)) /\ WF_vars(Record(t)) /\ WF_vars(JobStep(t))

Spec == Init /\ [][Next]_vars /\ Fairness

-----------------------------------------------------------------------------
(* A tap sends at most one command, through redelivered broadcasts, jobs   *)
(* run again after a process death, a full record that forgets claims, and *)
(* a clock set back by at most Drift (TapGuard, ClaimedTaps).              *)
SentOnce == \A t \in Taps : sent[t] <= 1

(* The command goes to the TV chosen when the tap was handled, whatever is *)
(* selected when the job runs (WidgetJob's SelectionChanged).              *)
OnlyTheTappedTv ==
    \A t \in Taps : sentTo[t] \subseteq {tap[t].device}

(* pending counts exactly the tasks the worker still has to count out: it  *)
(* never stays above zero, which would turn every later tap down as busy.  *)
PendingIsExact ==
    pending = windowQueue + Cardinality(queue)
              + IF running = "window" \/ running \in {t \in Taps : tx[t].body # "complete"}
                THEN 1 ELSE 0

(* What the widget said is true: a tap said to be not sent sent nothing,   *)
(* then or later.                                                          *)
NothingSentIsTrue == \A t \in Taps : "not_sent" \in told[t] => sent[t] = 0

SentTaps == {t \in Taps : sent[t] > 0}
ToldOutcome == [t \in Taps |-> IF told[t] = {} THEN "none" ELSE CHOOSE o \in told[t] : TRUE]

Promise == INSTANCE Delivery WITH
    Requests <- Taps, delivered <- SentTaps, outcome <- ToldOutcome

(* While the process lives, a tap keeps the promise of Delivery: at most   *)
(* one command, one honest outcome, and not_sent for good.                 *)
KeepsThePromise == Promise!Spec

(* Every accepted tap gets an outcome although Python may hang for ever.   *)
TapIsAnswered == \A t \in Taps : (t \in used) ~> (told[t] # {})
=============================================================================
