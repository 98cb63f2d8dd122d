---------------------------- MODULE RemoteChannel ----------------------------
(*****************************************************************************)
(* The TV's own remote (adapters/tv_remote.py, reached through               *)
(* tv_channels.py and, for the phone's microphone, embedded.py).             *)
(*                                                                           *)
(* Calls run as coroutines on one private event loop.  The hosts send one    *)
(* request at a time, and a call that timed out is cancelled before the next *)
(* one starts (both are queued on the loop, in order), so at most one call   *)
(* is at work; between its awaits the connection's expiry timer, the TV and  *)
(* the caller's timeout act.  One TV is modelled: the tables of the adapter  *)
(* are indexed by address and never mix two of them.                         *)
(*****************************************************************************)
EXTENDS Naturals

CONSTANTS
    MaxClients,     \* bound: connections made in one run
    MaxTroubles     \* bound: lost connections, failures and timeouts

ASSUME RemoteAssumption == MaxClients \in Nat /\ MaxTroubles \in Nat

VARIABLES
    client,     \* the library's clients: where each connection stands
    conn,       \* _connections[host], 0 for none
    pairing,    \* _pairing[host]
    voice,      \* _voice[host]: the client its session runs on
    timer,      \* _expiry[host] is armed
    call,       \* the coroutine at work
    troubles    \* bound

rvars == <<client, conn, pairing, voice, timer, call, troubles>>

Clients == 1..MaxClients

SessionOps == {"observe", "volume", "power", "navigate", "type", "front", "link", "start_voice"}

Awaits == {"connect", "before", "after", "voice", "show_code", "check_code"}

Nobody == [op |-> "none", at |-> "idle", c |-> 0, fresh |-> FALSE]

RemoteTypeOK ==
    /\ client \in [Clients -> {"none", "opening", "open", "lost", "closed"}]
    /\ conn \in 0..MaxClients /\ pairing \in 0..MaxClients /\ voice \in 0..MaxClients
    /\ timer \in BOOLEAN
    /\ call \in [op : SessionOps \cup {"none", "pair", "finish"}, at : Awaits \cup {"idle"},
                 c : 0..MaxClients, fresh : BOOLEAN]
    /\ troubles \in 0..MaxTroubles

Trouble == troubles < MaxTroubles /\ troubles' = troubles + 1

-----------------------------------------------------------------------------
(* The tables                                                                *)

\* _open: the library holds this connection, neither lost nor closing.
IsOpen(c) == c # 0 /\ client[c] = "open"

Disconnect(cs, c) == IF c = 0 THEN cs ELSE [cs EXCEPT ![c] = "closed"]

\* Mutant: a dropped connection leaves its voice session in the table.
DropKeepingVoice(cs) ==
    client' = Disconnect(cs, conn) /\ conn' = 0 /\ timer' = FALSE /\ UNCHANGED voice

\* _drop_connection: the timer, the voice session and the connection go together.
Drop(cs) ==
    client' = Disconnect(cs, conn) /\ conn' = 0 /\ voice' = 0 /\ timer' = FALSE

ExpireLater == timer' = TRUE

New(c) == client[c] = "none" /\ \A p \in 1..(c - 1) : client[p] # "none"

\* The call failed or was cancelled during its action: nothing is left for the next.
Fails == Drop(client) /\ call' = Nobody /\ UNCHANGED pairing

-----------------------------------------------------------------------------
(* A session on the open connection, or on a new one                         *)

\* What is waited for before the key or the text goes out, and after it.
WaitsBefore(op, fresh) ==
    \/ op \in {"type", "front"}
    \/ op \in {"observe", "volume", "power"} /\ fresh

\* Mutant: the call's end arms the timer for a connection made by this call only.
EndsFresh(c, fresh) ==
    /\ call' = Nobody /\ UNCHANGED pairing
    /\ IF IsOpen(c)
       THEN timer' = fresh /\ UNCHANGED <<client, conn, voice>>
       ELSE Drop(client)

\* _session's end: an open connection is kept for KEEP_OPEN, another one dropped.
Ends(c, fresh) ==
    /\ call' = Nobody /\ UNCHANGED pairing
    /\ IF IsOpen(c)
       THEN ExpireLater /\ UNCHANGED <<client, conn, voice>>
       ELSE Drop(client)

\* The action between two awaits: it sends once (a text only when the TV reported a
\* field), on a connection the library may have closed, then waits or ends.
Acts(op, c, fresh) ==
    \/ /\ ~IsOpen(c) /\ op \in {"volume", "power", "navigate", "link"}
       /\ Fails
    \/ /\ op \in {"volume", "power"} /\ IsOpen(c)
       /\ call' = [op |-> op, at |-> "after", c |-> c, fresh |-> fresh]
       /\ UNCHANGED <<client, conn, pairing, voice, timer>>
    \/ /\ op \in {"observe", "front", "type"} \/ (op \in {"navigate", "link"} /\ IsOpen(c))
       /\ Ends(c, fresh)
    \/ op = "type" /\ ~IsOpen(c) /\ Fails
    \/ op = "start_voice" /\ Fails      \* already active, or not accepted by this TV
    \/ /\ op = "start_voice" /\ voice = 0
       /\ call' = [op |-> op, at |-> "voice", c |-> c, fresh |-> fresh]
       /\ UNCHANGED <<client, conn, pairing, voice, timer>>

Enters(op, c, fresh) ==
    IF WaitsBefore(op, fresh)
    THEN /\ call' = [op |-> op, at |-> "before", c |-> c, fresh |-> fresh]
         /\ UNCHANGED <<client, conn, pairing, voice, timer>>
    ELSE Acts(op, c, fresh)

RemoteInit ==
    /\ client = [c \in Clients |-> "none"]
    /\ conn = 0 /\ pairing = 0 /\ voice = 0 /\ timer = FALSE
    /\ call = Nobody /\ troubles = 0

Reuse(op) ==
    /\ call = Nobody /\ IsOpen(conn)
    /\ Enters(op, conn, FALSE)
    /\ UNCHANGED troubles

Connects(op, c) ==
    /\ call = Nobody /\ New(c)
    /\ ~IsOpen(conn)
    /\ Drop([client EXCEPT ![c] = "opening"])
    /\ call' = [op |-> op, at |-> "connect", c |-> c, fresh |-> TRUE]
    /\ UNCHANGED <<pairing, troubles>>

\* The action begins; the TV may close the connection before its first step.
Connected ==
    /\ call.at = "connect"
    /\ client' = [client EXCEPT ![call.c] = "open"] /\ conn' = call.c
    /\ call' = [call EXCEPT !.at = "before"]
    /\ UNCHANGED <<pairing, voice, timer, troubles>>

ConnectFails ==
    /\ call.at = "connect" /\ Trouble
    /\ client' = Disconnect(client, call.c) /\ call' = Nobody
    /\ UNCHANGED <<conn, pairing, voice, timer>>

WaitedBefore == call.at = "before" /\ Acts(call.op, call.c, call.fresh) /\ UNCHANGED troubles

WaitedAfter == call.at = "after" /\ Ends(call.c, call.fresh) /\ UNCHANGED troubles

VoiceStarts ==
    /\ call.at = "voice"
    /\ IF IsOpen(call.c)
       THEN voice' = call.c /\ call' = Nobody /\ ExpireLater /\ UNCHANGED <<client, conn, pairing>>
       ELSE Fails
    /\ UNCHANGED troubles

\* The library raised, or the caller's time is over and the coroutine is cancelled.
ActionFails == call.at \in {"before", "after", "voice"} /\ Trouble /\ Fails

-----------------------------------------------------------------------------
(* Voice chunks, pairing, close                                              *)

SendVoice ==
    /\ call = Nobody
    /\ \/ /\ voice # 0 /\ IsOpen(conn)
          /\ ExpireLater /\ UNCHANGED <<client, conn, voice, troubles>>
       \/ /\ voice = 0 \/ ~IsOpen(conn)
          /\ Drop(client) /\ UNCHANGED troubles
       \/ Trouble /\ Drop(client)       \* the session ended: the chunk was refused
    /\ UNCHANGED <<pairing, call>>

StopVoice ==
    /\ call = Nobody /\ voice # 0
    /\ \/ voice' = 0 /\ ExpireLater /\ UNCHANGED <<client, conn, troubles>>
       \/ Trouble /\ Drop(client)
    /\ UNCHANGED <<pairing, call>>

\* Mutant: a pairing started again leaves the first one's connection open.
StartPairingAgain(c) ==
    /\ call = Nobody /\ New(c)
    /\ Drop([client EXCEPT ![c] = "opening"])
    /\ call' = [op |-> "pair", at |-> "show_code", c |-> c, fresh |-> TRUE]
    /\ UNCHANGED <<pairing, troubles>>

StartPairing(c) ==
    /\ call = Nobody /\ New(c)
    /\ Drop(Disconnect([client EXCEPT ![c] = "opening"], pairing)) /\ pairing' = 0
    /\ call' = [op |-> "pair", at |-> "show_code", c |-> c, fresh |-> TRUE]
    /\ UNCHANGED troubles

CodeShown(ok) ==
    /\ call.at = "show_code"
    /\ IF ok THEN /\ client' = [client EXCEPT ![call.c] = "open"] /\ pairing' = call.c
                  /\ UNCHANGED troubles
             ELSE Trouble /\ client' = Disconnect(client, call.c) /\ UNCHANGED pairing
    /\ call' = Nobody
    /\ UNCHANGED <<conn, voice, timer>>

FinishPairing ==
    /\ call = Nobody /\ pairing # 0
    /\ call' = [op |-> "finish", at |-> "check_code", c |-> pairing, fresh |-> TRUE]
    /\ pairing' = 0
    /\ UNCHANGED <<client, conn, voice, timer, troubles>>

\* Accepted, refused, lost or cancelled: a connection of the old identity goes too.
CodeChecked ==
    /\ call.at = "check_code"
    /\ Drop(Disconnect(client, call.c)) /\ call' = Nobody
    /\ UNCHANGED <<pairing, troubles>>

RemoteClose ==
    /\ call = Nobody
    /\ Drop(Disconnect(client, pairing)) /\ pairing' = 0
    /\ UNCHANGED <<call, troubles>>

-----------------------------------------------------------------------------
(* What happens between the awaits                                           *)

TimerFires ==
    /\ timer /\ Drop(client)
    /\ UNCHANGED <<pairing, call, troubles>>

Lost(c) ==
    /\ client[c] = "open" /\ Trouble
    /\ client' = [client EXCEPT ![c] = "lost"]
    /\ UNCHANGED <<conn, pairing, voice, timer, call>>

RemoteNext ==
    \/ \E op \in SessionOps : Reuse(op) \/ \E c \in Clients : Connects(op, c)
    \/ Connected \/ ConnectFails \/ WaitedBefore \/ WaitedAfter \/ VoiceStarts \/ ActionFails
    \/ SendVoice \/ StopVoice
    \/ \E c \in Clients : StartPairing(c) \/ Lost(c)
    \/ \E ok \in BOOLEAN : CodeShown(ok)
    \/ FinishPairing \/ CodeChecked \/ RemoteClose \/ TimerFires

RemoteSpec == RemoteInit /\ [][RemoteNext]_rvars

-----------------------------------------------------------------------------
(* No connection to the TV is ever left open and forgotten: each one is the   *)
(* kept connection, the pending pairing, or the one the call at work is       *)
(* making, whatever failed, timed out or expired (tv_remote.py, _session,     *)
(* start_pairing, finish_pairing, close).                                     *)
NoConnectionIsForgotten ==
    \A c \in Clients : client[c] \in {"opening", "open"} => c \in {conn, pairing, call.c}

(* A voice session never outlives its connection: otherwise the table would   *)
(* refuse every later microphone session of this TV as already active.        *)
VoiceHasItsConnection == voice # 0 => voice = conn

(* Between two calls a kept connection always has its expiry armed: no order  *)
(* of keys, voice chunks, timers and losses leaves it open for ever.          *)
KeptConnectionExpires == conn # 0 /\ call = Nobody => timer

(* The three, with the types, for every order of calls, timers, losses and    *)
(* failures (tv_remote.py).                                                   *)
RemoteIsInOrder ==
    /\ RemoteTypeOK
    /\ NoConnectionIsForgotten
    /\ VoiceHasItsConnection
    /\ KeptConnectionExpires

(* "It is closed after `KEEP_OPEN` seconds without use": a call at work keeps *)
(* the connection it reuses until it fails or ends.                           *)
ConnectionInUseStaysOpen ==
    [][(call.at \in {"before", "after", "voice"} /\ call' = call /\ IsOpen(call.c))
         => client'[call.c] # "closed"]_rvars
=============================================================================
