------------------------------ MODULE AppLaunch ------------------------------
(*****************************************************************************)
(* The TV's apps (tv_channels.py): listing them, opening one, pairing the    *)
(* TV's debugging.  Two ways lead to the TV: ControlTV Receiver, opened by a *)
(* link of the paired remote and answering on a listener of its own          *)
(* (adapters/receiver_apps.py), and the TV's debugging, through the adb      *)
(* program (adapters/tv_apps.py) or, on the phone, adb-shell                 *)
(* (adapters/tv_apps_adb_shell.py).  A list once read is kept in a file      *)
(* (adapters/tv_apps_memory.py).                                             *)
(*                                                                           *)
(* One request at a time; the TV, the listener's threads and the clock act   *)
(* between its steps.  Requests are for one app of one TV.  An answer may    *)
(* be lost, repeated, or arrive when its request is over and another listens *)
(* on the same port.                                                         *)
(*****************************************************************************)
EXTENDS Naturals, FiniteSets

CONSTANTS
    MaxRequests,    \* bound: requests of one run
    FrontReads      \* adb: how many times the app in front is read after a launch

ASSUME AppAssumption == MaxRequests \in Nat /\ FrontReads \in Nat \ {0}

VARIABLES
    req,        \* the request being handled
    heard,      \* its listener: what `received` holds, "none" while empty
    links,      \* links on their way to the receiver, by request
    posts,      \* answers the receiver has sent, for which request, saying what
    time,       \* the clock against the deadline
    inFront,    \* the TV: the app asked for is the one in front
    installed,  \* the TV: ControlTV Receiver is on it
    list,       \* the kept list: the file, and the .partial beside it
    began,      \* ghost: the TV started the app for these requests
    shown,      \* ghost: the app was seen in front after this request's launch went out
    shots       \* ghost: launches and pairing codes sent by each request

avars == <<req, heard, links, posts, time, inFront, installed, list, began, shown, shots>>

Requests == 1..MaxRequests

Ops == {"launch", "browse", "pair", "probe"}

LaunchResults == {"started", "not_installed", "refused"}

AppSteps == {"idle", "look", "link", "early", "grace", "wait", "final", "last", "read",
          "resolve", "adb_launch", "adb_front", "adb_list", "list_wait", "partial", "replace",
          "code", "connect", "status", "remote"}

Lists == {"none", "broken", "old", "new"}

AppTypeOK ==
    /\ req \in [n : 0..MaxRequests, op : Ops \cup {"none"}, at : AppSteps, early : BOOLEAN,
                saw : BOOLEAN, way : {"receiver", "fallback", "adb"}, reads : 0..FrontReads,
                result : {"none", "started", "sent", "rejected", "refusal", "failed", "listed",
                          "unknown", "absent", "present", "confirmed"},
                front : BOOLEAN, answered : BOOLEAN]
    /\ heard \in LaunchResults \cup {"none", "apps"}
    /\ links \subseteq (Requests \X {"launch", "browse"})
    /\ posts \subseteq (Requests \X (LaunchResults \cup {"apps"}))
    /\ time \in {"ample", "last", "over"} /\ inFront \in BOOLEAN /\ installed \in BOOLEAN
    /\ list \in [file : Lists, partial : Lists]
    /\ began \subseteq Requests /\ shown \in BOOLEAN /\ shots \in [Requests -> 0..2]

Goes(at) == req' = [req EXCEPT !.at = at]

Ended(result, front, answered) ==
    req' = [req EXCEPT !.at = "idle", !.result = result, !.front = front,
                       !.answered = answered]

Shot == shots' = [shots EXCEPT ![req.n] = IF @ = 2 THEN 2 ELSE @ + 1]

Env == <<links, posts, inFront, installed, began>>         \* what the TV changes
Ghosts == <<shown, shots>>

AppInit ==
    /\ req = [n |-> 0, op |-> "none", at |-> "idle", early |-> FALSE, saw |-> FALSE,
              way |-> "receiver", reads |-> 0, result |-> "none", front |-> FALSE,
              answered |-> FALSE]
    /\ heard = "none" /\ links = {} /\ posts = {} /\ time = "ample" /\ inFront \in BOOLEAN
    /\ installed \in BOOLEAN /\ list \in [file : {"none", "old"}, partial : {"none", "broken"}]
    /\ began = {} /\ shown = FALSE /\ shots = [n \in Requests |-> 0]

-----------------------------------------------------------------------------
(* The TV, its receiver, the listener and the clock                          *)

\* A link reaches the receiver, late or not: it lists the apps, or opens the one asked
\* for if it can, and sends one answer.
ReceiverActs ==
    /\ installed
    /\ \E n \in links :
         \/ /\ n[2] = "launch"
            /\ \E says \in LaunchResults :
                 /\ began' = IF says = "started" THEN began \cup {n[1]} ELSE began
                 /\ inFront' \in IF says = "started" THEN {inFront, TRUE} ELSE {inFront}
                 /\ posts' = posts \cup {<<n[1], says>>}
            /\ links' = links \ {n}
         \/ /\ n[2] = "browse"
            /\ posts' = posts \cup {<<n[1], "apps">>} /\ links' = links \ {n}
            /\ UNCHANGED <<began, inFront>>
    /\ shown' = (shown \/ (inFront' /\ req.op = "launch" /\ shots[req.n] > 0))
    /\ UNCHANGED <<req, heard, time, installed, list, shots>>

\* An app comes to the front late, or somebody changes it with another remote.
FrontChanges ==
    /\ req.at # "idle" /\ inFront' = ~inFront
    /\ shown' = (shown \/ (inFront' /\ shots[req.n] > 0))
    /\ UNCHANGED <<req, heard, links, posts, time, installed, list, began, shots>>

\* Mutant: an answer is taken without comparing its token.
ParseAnyToken(n, says) ==
    IF req.op = "launch" THEN says \in LaunchResults ELSE says = "apps"

\* parse_launch_answer and parse_app_list: the answer carries this request's token
\* and is one to its question.
Parses(n, says) ==
    n = req.n /\ IF req.op = "launch" THEN says \in LaunchResults ELSE says = "apps"

Listening == req.at \in {"early", "grace", "wait", "final", "last", "list_wait"}

\* Handler.do_POST: the first good answer is kept, any other turned away.
DoPost ==
    /\ Listening /\ heard = "none"
    /\ \E p \in posts : Parses(p[1], p[2]) /\ heard' = p[2]
    /\ UNCHANGED <<req, time, list, Env, Ghosts>>

TimePasses ==
    /\ req.at # "idle" /\ time # "over"
    /\ time' = IF time = "ample" THEN "last" ELSE "over"
    /\ UNCHANGED <<req, heard, list, Env, Ghosts>>

-----------------------------------------------------------------------------
(* Opening an app                                                            *)

Begin(op, way, at) ==
    /\ req.at = "idle" /\ req.n < MaxRequests
    /\ req' = [n |-> req.n + 1, op |-> op, at |-> at, early |-> FALSE, saw |-> FALSE,
               way |-> way, reads |-> 0, result |-> "none", front |-> FALSE,
               answered |-> FALSE]
    /\ heard' = "none" /\ time' = "ample" /\ shown' = FALSE
    /\ UNCHANGED <<list, Env, shots>>

\* launch_tv_app, _launch: through the receiver when this build has a remote and the
\* TV may offer it, else through the TV's debugging; or the TV is not found at all.
LaunchTvApp ==
    \/ Begin("launch", "receiver", "look")
    \/ Begin("launch", "adb", "resolve")

\* ReceiverAppList.launch_app: seeing the app in front proves nothing when it was
\* already there (or when the TV did not say).
LookBefore ==
    /\ req.at = "look"
    /\ \E early \in {~inFront, FALSE} : req' = [req EXCEPT !.at = "link", !.early = early]
    /\ UNCHANGED <<heard, time, list, Env, Ghosts>>

\* Mutant: any failure of the receiver's way tries the TV's debugging next.
FallBackAlways(why) == Goes("resolve")

\* _launch's handler: only a refusal before anything was sent (not paired, no remote
\* library) tries the TV's debugging; any other failure of the receiver's way is final.
FallBack(why) ==
    IF why = "refusal"
    THEN req' = [req EXCEPT !.at = "resolve", !.way = "fallback"]
    ELSE Ended("failed", FALSE, FALSE)

Quiet == UNCHANGED <<heard, time, list, Env, Ghosts>>

\* _ask: a route and a listener, then the link, sent once through the remote.
OpenLink ==
    /\ req.at = "link" /\ req.op = "launch"
    /\ \/ FallBack("refusal") /\ Quiet    \* PairingRequired, UnsupportedOperation
       \/ FallBack("failed") /\ Quiet     \* no route, no listener, the remote failed
       \/ /\ Shot /\ shown' = inFront
          /\ links' = links \cup {<<req.n, "launch">>}
          /\ \/ Goes(IF req.early THEN "early" ELSE "wait")
             \/ FallBack("failed")          \* sent, then the remote failed
          /\ UNCHANGED <<heard, time, list, posts, inFront, installed, began>>

\* The receiver's answer decides; the app in front, unless it was seen already, is then
\* read in the time left.
Answer(answer) ==
    IF answer # "started" THEN Ended("rejected", FALSE, TRUE)
    ELSE IF req.saw THEN Ended("started", TRUE, TRUE) ELSE Goes("read")

\* _ask, early: poll the app in front until it is the one asked for, the receiver
\* answers or the time is up.
PollEarly ==
    /\ req.at = "early" /\ Quiet
    /\ \/ heard # "none" /\ Answer(heard)
       \/ heard = "none" /\ time = "over" /\ FallBack("failed")
       \/ /\ heard = "none" /\ time # "over"
          /\ \E saw \in {inFront, FALSE} :
                IF saw THEN req' = [req EXCEPT !.at = "grace", !.saw = TRUE]
                       ELSE UNCHANGED req

\* An answer takes precedence over the observation, within a short grace.
GraceForAnswer ==
    /\ req.at = "grace" /\ Quiet
    /\ IF heard # "none" THEN Answer(heard)
       ELSE \/ Ended("started", TRUE, FALSE)
            \/ time = "over" /\ FallBack("failed")

\* _ask, not early: wait for the answer, look once near the end, wait to the end.
WaitForAnswer ==
    /\ req.at = "wait" /\ (heard # "none" \/ time # "ample")
    /\ Goes("final") /\ Quiet

FinalLook ==
    /\ req.at = "final" /\ Quiet
    /\ IF heard = "none" /\ time # "over"
       THEN \E saw \in {inFront, FALSE} : req' = [req EXCEPT !.at = "last", !.saw = saw]
       ELSE Goes("last")

LastWait ==
    /\ req.at = "last" /\ (heard # "none" \/ time = "over") /\ Quiet
    /\ IF heard # "none" THEN Answer(heard)
       ELSE IF req.saw THEN Ended("started", TRUE, FALSE)
       ELSE FallBack("failed")

ReadFront ==
    /\ req.at = "read" /\ Quiet
    /\ \E saw \in {inFront /\ time # "over", FALSE} : Ended("started", saw, TRUE)

-----------------------------------------------------------------------------
(* The TV's debugging                                                        *)

\* What the adb server says of the selected TV: its connections, the services the TV
\* advertises, and whether this adb discovers services at all.
AdbServers ==
    {a \in [serials : SUBSET {"tls", "classic"},
            adverts : SUBSET {"connect", "second_connect", "pairing"}, mdns : BOOLEAN] :
        ~a.mdns => a.adverts = {}}

\* _resolve, for a connection attempt that leads to one connection or not: one
\* unambiguous connection, or the reason there is none.
Resolved(a, connected) ==
    LET services == a.adverts \ {"pairing"}
    IN  CASE Cardinality(a.serials) = 1 -> "found"
          [] Cardinality(a.serials) > 1 -> "unavailable"
          [] Cardinality(services) > 1 -> "unavailable"
          [] Cardinality(services) = 1 /\ connected -> "found"
          [] "pairing" \in a.adverts -> "pairing_required"
          [] Cardinality(services) = 1 -> "unavailable"
          [] connected -> "found"               \* the classic port, never beside TLS
          [] ~a.mdns -> "unsupported"
          [] OTHER -> "debugging_off"

\* The outcomes of _resolve (PC) and of _session's connection (phone).
Connections ==
    {Resolved(a, c) : a \in AdbServers, c \in BOOLEAN}
        \cup {"timeout", "pairing_required", "debugging_off", "unavailable"}

\* A failure after the fallback reports the remote's refusal, not the debugging's.
AdbFails == Ended(IF req.way = "fallback" THEN "refusal" ELSE "failed", FALSE, FALSE)

ResolveAdb ==
    /\ req.at = "resolve" /\ Quiet
    /\ \E c \in Connections : IF c = "found" THEN Goes("adb_launch") ELSE AdbFails

\* launch_app: the launch goes out once; the TV may have no such activity, and the
\* command may fail after it ran.
AdbLaunch ==
    /\ req.at = "adb_launch" /\ Shot /\ UNCHANGED <<heard, time, list, links, posts, installed>>
    /\ \/ /\ Goes("adb_front") /\ began' = began \cup {req.n}
          /\ inFront' \in {inFront, TRUE}
       \/ Ended(IF req.way = "fallback" THEN "refusal" ELSE "rejected", FALSE, FALSE)
          /\ UNCHANGED <<began, inFront>>
       \/ AdbFails /\ began' \in {began, began \cup {req.n}} /\ UNCHANGED inFront
    /\ shown' = (shown \/ inFront')

\* The app in front is read a few times within the budget.
AdbFront ==
    /\ req.at = "adb_front" /\ Quiet
    /\ \/ AdbFails
       \/ time = "over" /\ Ended("sent", FALSE, FALSE)
       \/ \E saw \in {inFront, FALSE} :
            IF saw \/ req.reads + 1 = FrontReads
            THEN Ended("sent", saw, FALSE)
            ELSE req' = [req EXCEPT !.reads = @ + 1]

-----------------------------------------------------------------------------
(* Pairing the TV's debugging                                                *)

\* pair: the endpoint, the version and the help are checked, then the code goes out.
PairTvApps == Begin("pair", "adb", "code")

SendCode ==
    /\ req.at = "code" /\ UNCHANGED <<heard, time, list, Env, shown>>
    /\ \/ AdbFails /\ UNCHANGED shots
       \/ Shot /\ (Ended("rejected", FALSE, FALSE) \/ Goes("connect"))

\* The connection service comes up later: it is awaited a few times, the pairing is
\* never repeated.
ConnectPaired ==
    /\ req.at = "connect" /\ Quiet
    /\ \E c \in Connections :
         \/ c = "found" /\ Ended("sent", FALSE, FALSE)
         \/ c \in {"debugging_off", "pairing_required", "unsupported"}
              /\ (AdbFails \/ UNCHANGED req)
         \/ c \in {"timeout", "unavailable"} /\ AdbFails

-----------------------------------------------------------------------------
(* The list of apps                                                          *)

\* browse_tv_apps: the TV's debugging, else the receiver, else the kept list.
BrowseTvApps == Begin("browse", "adb", "adb_list")

\* list_apps of the TV's debugging, with the older query when the TV lacks the first.
AdbList ==
    /\ req.at = "adb_list" /\ req.op = "browse" /\ Quiet
    /\ \/ Goes("partial") \/ Goes("link")
       \/ Ended("listed", FALSE, FALSE)         \* an empty list is not kept

AskList ==
    /\ req.at = "link" /\ req.op = "browse"
    /\ \/ Ended("failed", FALSE, FALSE) /\ UNCHANGED links
       \/ Goes("list_wait") /\ links' = links \cup {<<req.n, "browse">>}
    /\ UNCHANGED <<heard, time, list, posts, inFront, installed, began, Ghosts>>

\* Neither way: recall gives the kept list when it reads as one.
ListAnswer ==
    /\ req.at = "list_wait" /\ req.op = "browse" /\ (heard # "none" \/ time = "over") /\ Quiet
    /\ IF heard # "none" THEN Goes("partial") ELSE Ended("failed", FALSE, FALSE)

\* Mutant: the list is written in place.
RememberInPlace ==
    /\ list' = [list EXCEPT !.file = "broken"] /\ Goes("replace")
    /\ UNCHANGED <<heard, time, Env, Ghosts>>

\* remember: the file beside, begun anew and written whole (or a failed write is
\* cleared away) ...
WritePartial ==
    /\ \/ list' = [list EXCEPT !.partial = "broken"] /\ Goes("replace")
       \/ list' = [list EXCEPT !.partial = "none"] /\ Ended("listed", FALSE, FALSE)
    /\ UNCHANGED <<heard, time, Env, Ghosts>>

\* ... then takes the kept list's place.
Replace ==
    /\ \/ list' = [file |-> "new", partial |-> "none"]
       \/ list' = [list EXCEPT !.partial = "none"]
    /\ Ended("listed", FALSE, FALSE) /\ UNCHANGED <<heard, time, Env, Ghosts>>

RememberList ==
    \/ req.at = "partial" /\ WritePartial
    \/ req.at = "replace" /\ Replace

-----------------------------------------------------------------------------
(* Whether the screen can be sent to ControlTV Receiver                      *)

\* get_screen_receiver_capabilities: a Cast status first.
ProbeReceiver == Begin("probe", "adb", "status")

ProbeStatus ==
    /\ req.at = "status" /\ Quiet
    /\ Goes("adb_list") \/ Ended("failed", FALSE, FALSE)

\* screen_receiver_installed: the TV's debugging lists it, or does not (saw: it listed
\* the apps), or cannot be read.
ProbeList ==
    /\ req.at = "adb_list" /\ req.op = "probe" /\ Quiet
    /\ \/ Goes("link")
       \/ IF installed THEN Goes("remote") ELSE req' = [req EXCEPT !.at = "link", !.saw = TRUE]

\* Mutant: a receiver that does not answer passes for absent.
NotAnsweredAbsent == Ended("absent", FALSE, FALSE)

\* Nobody answered: absent when the TV listed its apps, else nobody can tell.
NotAnswered == Ended(IF req.saw THEN "absent" ELSE "unknown", FALSE, FALSE)

\* receiver_answers: the receiver itself is asked, through the paired remote.
ProbeAsk ==
    /\ req.at = "link" /\ req.op = "probe"
    /\ \/ NotAnswered /\ UNCHANGED links
       \/ Goes("list_wait") /\ links' = links \cup {<<req.n, "browse">>}
    /\ UNCHANGED <<heard, time, list, posts, inFront, installed, began, Ghosts>>

ProbeAnswer ==
    /\ req.at = "list_wait" /\ req.op = "probe" /\ (heard # "none" \/ time = "over") /\ Quiet
    /\ IF heard # "none" THEN Goes("remote") ELSE NotAnswered

ProbeRemote ==
    /\ req.at = "remote" /\ Quiet
    /\ Ended("confirmed", FALSE, FALSE) \/ Ended("present", FALSE, FALSE)

\* The process is killed while it writes; elsewhere a kill leaves nothing behind.
AppKill ==
    /\ req.at \in {"partial", "replace"}
    /\ Ended("failed", FALSE, FALSE) /\ Quiet

AppNext ==
    \/ LaunchTvApp \/ PairTvApps \/ BrowseTvApps
    \/ LookBefore \/ OpenLink \/ PollEarly \/ GraceForAnswer
    \/ WaitForAnswer \/ FinalLook \/ LastWait \/ ReadFront
    \/ ResolveAdb \/ AdbLaunch \/ AdbFront \/ SendCode \/ ConnectPaired
    \/ AdbList \/ AskList \/ ListAnswer \/ RememberList
    \/ ProbeReceiver \/ ProbeStatus \/ ProbeList \/ ProbeAsk \/ ProbeAnswer \/ ProbeRemote
    \/ ReceiverActs \/ FrontChanges \/ DoPost \/ TimePasses \/ AppKill

AppSpec == AppInit /\ [][AppNext]_avars

-----------------------------------------------------------------------------
(* What the owner is told                                                    *)

\* A launch, or a one-time pairing code, leaves at most once for each request, whatever
\* fails and whichever way is tried next: "A launch that may have reached the TV is never
\* sent again another way" (tv_channels.py, _launch) and "Never replay the one-time
\* pairing operation" (tv_apps.py, pair).
OneShotEach == \A n \in Requests : shots[n] <= 1

\* A probe never mistakes "cannot tell" for "not installed", and says the receiver is
\* there only when it is: "inability to tell stays distinct from absence" (bridge.py,
\* get_screen_receiver_capabilities).
ProbeIsTrue ==
    req.op = "probe" /\ req.at = "idle" =>
        /\ req.result = "absent" => ~installed
        /\ req.result \in {"present", "confirmed"} => installed

\* What a launch reports is true of that launch: started or turned down by the receiver
\* is what the receiver did with this request and not with an earlier one, and an app
\* reported in front was there after this launch left (receiver_apps.py, launch_app).
ReportIsOfThisLaunch ==
    req.op = "launch" /\ req.at = "idle" =>
        /\ req.answered => ((req.result = "started") <=> (req.n \in began))
        /\ req.front => shown

\* The list kept for a TV stays readable through kills and failed writes: it is only
\* replaced by a whole newer one (tv_apps_memory.py, remember).
KeptListIsWhole == list.file # "broken"

\* A launch leaves at most once and its report is of that launch, although answers come
\* late and ways are tried in turn; a probe never takes silence for absence, and the kept
\* list is never half written (tv_channels.py, receiver_apps.py, tv_apps.py,
\* tv_apps_memory.py).
AppsAreHonest ==
    AppTypeOK /\ OneShotEach /\ ReportIsOfThisLaunch /\ ProbeIsTrue /\ KeptListIsWhole
=============================================================================
