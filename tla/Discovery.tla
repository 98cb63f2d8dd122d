------------------------------ MODULE Discovery ------------------------------
(*****************************************************************************)
(* Which TVs there are, and where: the scan (service.py, discover_devices    *)
(* and adapters/pychromecast.py, _discover with remote_detection.py), the    *)
(* TVs the owner kept (adapters/device_memory.py) and the address a remote,  *)
(* text, voice or app request is sent to (service.py, _reachable;            *)
(* tv_channels.py, _tv_host).                                                *)
(*                                                                           *)
(* The bridge handles one request at a time.  Beside it, the thread that     *)
(* starts an HLS screen stream scans through the same service (d1.py,        *)
(* through), when Beside is TRUE.  TVs change address: what the memory says  *)
(* may be another TV's by now.                                               *)
(*****************************************************************************)
EXTENDS Naturals, FiniteSets

CONSTANTS
    Tvs, Addrs,     \* identities and network addresses
    MaxScans,       \* bound: scans of one process
    MaxMishaps,     \* bound: failed scans, failed writes, unreadable memory
    MaxMoves,       \* bound: changes of the network
    Beside          \* whether a screen stream starts beside the requests

ASSUME DiscoveryAssumption ==
    /\ MaxScans \in Nat /\ MaxMishaps \in Nat /\ MaxMoves \in Nat /\ Beside \in BOOLEAN
    /\ "none" \notin Tvs /\ "browser" \notin Tvs /\ "away" \notin Addrs

VARIABLES
    net,        \* where each TV announces itself, "away" when it does not
    file,       \* the memory: whether it can be read, and each kept TV's saved address
    devices,    \* ControlService._devices
    scan,       \* the scans of the bridge's request and of the stream's thread
    ask,        \* the request being handled: which TV it is for
    casts,      \* transport._casts: the scan each cached Chromecast came with, 0 for none
    browser,    \* transport._browser, 0 for None
    alive,      \* the Chromecasts and browsers that were not disposed of
    scans, mishaps, moves,                      \* bounds
    seen, owned, sentTo                         \* ghosts: what was announced, kept, used

yvars == <<net, file, devices, scan, ask, casts, browser, alive, scans, mishaps, moves,
           seen, owned, sentTo>>

Scanners == {"bridge", "stream"}

Nowhere == [t \in Tvs |-> "away"]

Unknown == [host |-> "away", known |-> FALSE, available |-> FALSE]

NoScan == [at |-> "off", remembered |-> Nowhere, found |-> Nowhere, todo |-> {}]

NoAsk == [tv |-> "none", at |-> "free"]

DiscoveryTypeOK ==
    /\ net \in [Tvs -> Addrs \cup {"away"}]
    /\ file \in [ok : BOOLEAN, at : [Tvs -> Addrs \cup {"away"}]]
    /\ devices \in [Tvs -> [host : Addrs \cup {"away"}, known : BOOLEAN, available : BOOLEAN]]
    /\ \A t \in Scanners : scan[t].at \in {"off", "listen", "refresh"}
    /\ ask.at \in {"free", "scan", "send"} /\ casts \in [Tvs -> 0..MaxScans]
    /\ browser \in 0..MaxScans /\ owned \subseteq Tvs

Mishap == mishaps < MaxMishaps /\ mishaps' = mishaps + 1

Maybe(ok) == IF ok THEN UNCHANGED mishaps ELSE Mishap

-----------------------------------------------------------------------------
(* The memory of kept TVs                                                    *)

Recall == IF file.ok THEN file.at ELSE Nowhere

\* remember(): read, replace the entry, write atomically; unreadable is never overwritten.
KeepInMemory(t, host, ok) ==
    /\ ok => file.ok
    /\ file' = IF ok THEN [file EXCEPT !.at[t] = host] ELSE file

Forget(t, ok) ==
    /\ ok => file.ok
    /\ file' = IF ok THEN [file EXCEPT !.at[t] = "away"] ELSE file

Saved(remembered) ==
    [t \in Tvs |-> IF remembered[t] = "away" THEN Unknown
                   ELSE [host |-> remembered[t], known |-> TRUE, available |-> FALSE]]

-----------------------------------------------------------------------------
(* The transport's scan                                                      *)

\* Mutant: the scan it replaces keeps its browser.
SwapKeepingBrowser(n, found) ==
    LET new == [t \in Tvs |-> IF found[t] = "away" THEN 0 ELSE n] IN
    /\ casts' = new
    /\ browser' = IF found = Nowhere THEN 0 ELSE n
    /\ alive' = (alive \cap ({"browser"} \X (0..MaxScans)))
                \cup {<<t, n>> : t \in {u \in Tvs : new[u] # 0}}
                \cup (IF found = Nowhere THEN {} ELSE {<<"browser", n>>})

\* The new snapshot replaces the old one, whose casts and browser are disposed of; a scan
\* that finds nothing keeps no browser.
Swap(n, found) ==
    LET new == [t \in Tvs |-> IF found[t] = "away" THEN 0 ELSE n] IN
    /\ casts' = new
    /\ browser' = IF found = Nowhere THEN 0 ELSE n
    /\ alive' = {<<t, n>> : t \in {u \in Tvs : new[u] # 0}}
                \cup (IF found = Nowhere THEN {} ELSE {<<"browser", n>>})

\* What a scan may see: some of the TVs that announce themselves now.
Heard == {[t \in Tvs |-> IF t \in heard THEN net[t] ELSE "away"] :
             heard \in SUBSET {t \in Tvs : net[t] # "away"}}

\* _ready: a cached Chromecast that does not connect is dropped, and one scan replaces
\* the snapshot (or fails, and the rest of the old one stays).
RecoverTv(t) ==
    /\ ask = NoAsk /\ scan["bridge"].at = "off" /\ casts[t] # 0 /\ scans < MaxScans
    /\ \/ /\ scans' = scans + 1 /\ \E found \in Heard : Swap(scans + 1, found)
          /\ UNCHANGED mishaps
       \/ /\ Mishap /\ casts' = [casts EXCEPT ![t] = 0]
          /\ alive' = alive \ {<<t, casts[t]>>} /\ UNCHANGED <<browser, scans>>
    /\ UNCHANGED <<net, file, devices, scan, ask, moves, seen, owned, sentTo>>

-----------------------------------------------------------------------------
(* discover_devices, by either thread                                        *)

ScanBegins(th) ==
    scan' = [scan EXCEPT ![th] = [NoScan EXCEPT !.at = "listen", !.remembered = Recall]]

\* Mutant: every TV that announces itself is saved.
ToRefreshAll(th, found) == {t \in Tvs : found[t] # "away"}

\* The TVs the owner kept, as read when the scan began, get their new address saved.
ToRefresh(th, found) == {t \in Tvs : found[t] # "away" /\ scan[th].remembered[t] # "away"}

Listens(th) ==
    /\ scan[th].at = "listen" /\ scans < MaxScans
    /\ scans' = scans + 1
    /\ \E found \in Heard :
         /\ Swap(scans + 1, found)
         /\ seen' = seen \cup {<<t, found[t]>> : t \in {u \in Tvs : found[u] # "away"}}
         /\ scan' = [scan EXCEPT ![th].at = "refresh", ![th].found = found,
                                 ![th].todo = ToRefresh(th, found)]
    /\ UNCHANGED <<net, file, devices, ask, mishaps, moves, owned, sentTo>>

\* A failed scan falls back to the kept TVs, none of them available.
ScanFails(th) ==
    /\ scan[th].at = "listen" /\ Mishap
    /\ devices' = IF scan[th].remembered = Nowhere THEN devices ELSE Saved(scan[th].remembered)
    /\ scan' = [scan EXCEPT ![th] = NoScan]
    /\ UNCHANGED <<net, file, ask, casts, browser, alive, scans, moves, seen, owned, sentTo>>

\* One failing write ends the request with an error; the TVs found are not published.
Refreshes(th, t, ok) ==
    /\ scan[th].at = "refresh" /\ t \in scan[th].todo
    /\ Maybe(ok \/ ~file.ok) /\ KeepInMemory(t, scan[th].found[t], ok)
    /\ IF ok THEN scan' = [scan EXCEPT ![th].todo = @ \ {t}] /\ UNCHANGED ask
       ELSE /\ scan' = [scan EXCEPT ![th] = NoScan]
            /\ ask' = IF th = "bridge" THEN NoAsk ELSE ask
    /\ UNCHANGED <<net, devices, casts, browser, alive, scans, moves, seen, owned, sentTo>>

Publishes(th) ==
    /\ scan[th].at = "refresh" /\ scan[th].todo = {}
    /\ devices' = [t \in Tvs |->
                     IF scan[th].found[t] = "away" THEN Saved(scan[th].remembered)[t]
                     ELSE [host |-> scan[th].found[t], available |-> TRUE,
                           known |-> scan[th].remembered[t] # "away"]]
    /\ scan' = [scan EXCEPT ![th] = NoScan]
    /\ UNCHANGED <<net, file, ask, casts, browser, alive, scans, mishaps, moves, seen, owned,
                   sentTo>>

-----------------------------------------------------------------------------
(* The requests                                                              *)

DiscoveryInit ==
    /\ net \in {n \in [Tvs -> Addrs] : \A t, u \in Tvs : n[t] = n[u] => t = u}
    /\ \E at \in [Tvs -> Addrs \cup {"away"}] :
         /\ file = [ok |-> TRUE, at |-> at]
         /\ devices = Saved(at)
         /\ owned = {t \in Tvs : at[t] # "away"}
    /\ scan = [t \in Scanners |-> NoScan] /\ ask = NoAsk
    /\ casts = [t \in Tvs |-> 0] /\ browser = 0 /\ alive = {}
    /\ scans = 0 /\ mishaps = 0 /\ moves = 0 /\ seen = {} /\ sentTo = {}

Unused == ask = NoAsk /\ scan["bridge"].at = "off"

Discover(th) ==
    /\ th = "stream" => Beside
    /\ th = "bridge" => Unused
    /\ scan[th].at = "off" /\ ScanBegins(th)
    /\ UNCHANGED <<net, file, devices, ask, casts, browser, alive, scans, mishaps, moves, seen,
                   owned, sentTo>>

\* remember_device: by the owner, or by the get_remote_status of a paired TV. Both
\* keep it (owned); a scan does not.
RememberDevice(t, ok) ==
    /\ Unused /\ devices[t] # Unknown
    /\ Maybe(ok \/ ~file.ok) /\ KeepInMemory(t, devices[t].host, ok)
    /\ devices' = IF ok THEN [devices EXCEPT ![t].known = TRUE] ELSE devices
    /\ owned' = IF ok THEN owned \cup {t} ELSE owned
    /\ UNCHANGED <<net, scan, ask, casts, browser, alive, scans, moves, seen, sentTo>>

ForgetDevice(t, ok) ==
    /\ Unused
    /\ Maybe(ok \/ ~file.ok) /\ Forget(t, ok)
    /\ devices' = IF ~ok THEN devices
                  ELSE IF devices[t].available THEN [devices EXCEPT ![t].known = FALSE]
                  ELSE [devices EXCEPT ![t] = Unknown]
    /\ owned' = IF ok THEN owned \ {t} ELSE owned
    /\ UNCHANGED <<net, scan, ask, casts, browser, alive, scans, moves, seen, sentTo>>

\* _reachable: a TV restored from memory is first looked for on the network.
Reach(t) ==
    /\ Unused /\ devices[t] # Unknown
    /\ IF devices[t].available
       THEN ask' = [tv |-> t, at |-> "send"] /\ UNCHANGED scan
       ELSE ask' = [tv |-> t, at |-> "scan"] /\ ScanBegins("bridge")
    /\ UNCHANGED <<net, file, devices, casts, browser, alive, scans, mishaps, moves, seen,
                   owned, sentTo>>

\* Mutant: the saved address is good enough.
FoundAgainOrSaved ==
    /\ ask.at = "scan" /\ scan["bridge"].at = "off"
    /\ ask' = [ask EXCEPT !.at = "send"]
    /\ UNCHANGED <<net, file, devices, scan, casts, browser, alive, scans, mishaps, moves, seen,
                   owned, sentTo>>

\* _found_again, once its scan ended: the TV was seen, or the request is refused.
FoundAgain ==
    /\ ask.at = "scan" /\ scan["bridge"].at = "off"
    /\ ask' = IF devices[ask.tv].available THEN [ask EXCEPT !.at = "send"] ELSE NoAsk
    /\ UNCHANGED <<net, file, devices, scan, casts, browser, alive, scans, mishaps, moves, seen,
                   owned, sentTo>>

\* The table is read once more, and the request goes to the address it gives.
Send ==
    /\ ask.at = "send"
    /\ sentTo' = IF devices[ask.tv].host = "away" THEN {}
                 ELSE {<<ask.tv, devices[ask.tv].host>>}
    /\ ask' = NoAsk
    /\ UNCHANGED <<net, file, devices, scan, casts, browser, alive, scans, mishaps, moves, seen,
                   owned>>

-----------------------------------------------------------------------------
(* The network and the disk                                                  *)

\* A TV leaves, comes, or takes another address: two TVs never share one.
NetMoves ==
    /\ moves < MaxMoves /\ moves' = moves + 1
    /\ net' \in {n \in [Tvs -> Addrs \cup {"away"}] :
                   \A t, u \in Tvs : n[t] = n[u] /\ n[t] # "away" => t = u}
    /\ UNCHANGED <<file, devices, scan, ask, casts, browser, alive, scans, mishaps, seen, owned,
                   sentTo>>

MemoryBreaks ==
    /\ file.ok /\ Mishap /\ file' = [file EXCEPT !.ok = FALSE]
    /\ UNCHANGED <<net, devices, scan, ask, casts, browser, alive, scans, moves, seen, owned,
                   sentTo>>

DiscoveryNext ==
    \/ \E th \in Scanners :
         \/ Discover(th) \/ Listens(th) \/ ScanFails(th) \/ Publishes(th)
         \/ \E t \in Tvs, ok \in BOOLEAN : Refreshes(th, t, ok)
    \/ \E t \in Tvs, ok \in BOOLEAN : RememberDevice(t, ok) \/ ForgetDevice(t, ok)
    \/ \E t \in Tvs : Reach(t) \/ RecoverTv(t)
    \/ FoundAgain \/ Send \/ NetMoves \/ MemoryBreaks

DiscoverySpec == DiscoveryInit /\ [][DiscoveryNext]_yvars

-----------------------------------------------------------------------------
(* Nothing is sent to a saved address: the TV announced itself at the address *)
(* used, during this process ("never reach a stale address",                  *)
(* ControlService._reachable), whatever scan or write failed in between.      *)
SentToWhereItWasSeen == sentTo \subseteq seen

(* The memory holds only TVs that were kept, by the owner or by the use of    *)
(* their remote, and not forgotten since (RememberDevice): a scan refreshes   *)
(* an address and never brings a TV back ("Refresh coordinates only for       *)
(* identities the owner already retained").                                   *)
OnlyKeptTvsAreSaved == \A t \in Tvs : file.ok /\ file.at[t] # "away" => t \in owned

(* The cached Chromecasts and their browser live and die together: each       *)
(* cached one's browser is still running, and nothing of an older scan is     *)
(* left connected (PyChromecastTransport._discover, _ready).                  *)
CastsHaveTheirBrowser ==
    /\ \A t \in Tvs : casts[t] # 0 => casts[t] = browser
    /\ alive = {<<t, casts[t]>> : t \in {u \in Tvs : casts[u] # 0}}
               \cup (IF browser = 0 THEN {} ELSE {<<"browser", browser>>})

(* Whatever scan, save or forget comes between: commands go where the TV was  *)
(* seen, forgotten TVs are not saved again, and the cached Chromecasts go     *)
(* with their browser (service.py, adapters/pychromecast.py).                 *)
DiscoveryIsCurrent ==
    DiscoveryTypeOK /\ SentToWhereItWasSeen /\ OnlyKeptTvsAreSaved /\ CastsHaveTheirBrowser
=============================================================================
