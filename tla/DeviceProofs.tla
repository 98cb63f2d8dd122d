---------------------------- MODULE DeviceProofs ----------------------------
(* What the TV is asked, and what is known of it: the remote channel's      *)
(* connections and credentials, discovery and the memory of TVs, and the    *)
(* TV's applications, each for every value of its constants.                *)
EXTENDS RemoteChannel, RemoteCredentials, Discovery, AppLaunch, TLAPS

-----------------------------------------------------------------------------
(* The connections                                                          *)

(* Where the call at work stands. While it connects or pairs nothing else   *)
(* is kept; while it acts, its connection is the kept one, unless that was  *)
(* lost or closed under it.                                                 *)
CallInv ==
    /\ call.at # "idle" => call.c \in Clients
    /\ call.at \in {"connect", "before", "after", "voice"} => call.op \in SessionOps
    /\ call.at \in {"connect", "show_code"} => conn = 0
    /\ call.at \in {"show_code", "check_code"} => pairing = 0
    /\ call.at \in {"before", "after", "voice"} =>
         call.c = conn \/ client[call.c] \in {"lost", "closed"}

RemoteInv == RemoteIsInOrder /\ CallInv

CallTypes == [op : SessionOps \cup {"none", "pair", "finish"}, at : Awaits \cup {"idle"},
              c : 0..MaxClients, fresh : BOOLEAN]

(* The connections are numbered from 1; 0 is none.                          *)
LEMMA Numbers ==
    /\ 0 \in 0..MaxClients /\ 0 \notin Clients /\ Clients \subseteq 0..MaxClients
    /\ \A c \in 0..MaxClients : c # 0 => c \in Clients
    /\ 0 \in 0..MaxTroubles
    /\ Nobody \in CallTypes /\ Nobody.at = "idle" /\ Nobody.c = 0
BY RemoteAssumption DEF Clients, Nobody, CallTypes

(* Without a connection the invariant holds.                               *)
LEMMA RemoteInitInv == RemoteInit => RemoteInv
BY Numbers
   DEF RemoteInit, RemoteInv, RemoteIsInOrder, RemoteTypeOK, NoConnectionIsForgotten,
       VoiceHasItsConnection, KeptConnectionExpires, CallInv, CallTypes

(* _drop_connection leaves no connection but those it was not asked about.  *)
LEMMA DropClients ==
    ASSUME RemoteTypeOK,
           NEW cs \in [Clients -> {"none", "opening", "open", "lost", "closed"}], Drop(cs)
    PROVE  /\ client' \in [Clients -> {"none", "opening", "open", "lost", "closed"}]
           /\ conn' = 0 /\ voice' = 0 /\ timer' = FALSE
           /\ conn # 0 => client'[conn] = "closed"
           /\ \A c \in Clients : c # conn => client'[c] = cs[c]
BY DEF Drop, Disconnect, RemoteTypeOK, Clients

(* A call that fails, or whose connection is gone, leaves nothing kept.     *)
LEMMA FailsInv ==
    ASSUME RemoteInv, call = Nobody \/ call.at \in {"before", "after", "voice"},
           Drop(client), call' = Nobody, pairing' = pairing, troubles' \in 0..MaxTroubles
    PROVE  RemoteInv'
<1>1. /\ client' \in [Clients -> {"none", "opening", "open", "lost", "closed"}]
      /\ conn' = 0 /\ voice' = 0 /\ timer' = FALSE
      /\ conn # 0 => client'[conn] = "closed"
      /\ \A c \in Clients : c # conn => client'[c] = client[c]
    BY DropClients DEF RemoteInv, RemoteIsInOrder, RemoteTypeOK
<1>2. RemoteTypeOK'
    BY <1>1, Numbers DEF RemoteInv, RemoteIsInOrder, RemoteTypeOK, CallTypes
<1>3. NoConnectionIsForgotten'
    <2> SUFFICES ASSUME NEW c \in Clients, client'[c] \in {"opening", "open"}
                 PROVE  c = pairing'
        BY DEF NoConnectionIsForgotten
    <2>1. c # conn /\ client[c] \in {"opening", "open"}
        BY <1>1, Numbers
    <2>2. c # call.c
        BY <2>1 DEF RemoteInv, CallInv, Nobody, Clients
    <2> QED
        BY <2>1, <2>2 DEF RemoteInv, RemoteIsInOrder, NoConnectionIsForgotten
<1> QED
    BY <1>1, <1>2, <1>3 DEF RemoteInv, RemoteIsInOrder, VoiceHasItsConnection,
       KeptConnectionExpires, CallInv, Nobody

(* The connection a call acts on, as it begins or between its awaits.       *)
ActsOn(c) ==
    /\ c \in Clients
    /\ \/ call = Nobody /\ c = conn
       \/ call.at \in {"before", "after", "voice"} /\ c = call.c

(* An action that ends leaves its connection as kept or closed.            *)
LEMMA EndsInv ==
    ASSUME RemoteInv, NEW c, ActsOn(c), NEW fresh \in BOOLEAN, Ends(c, fresh),
           troubles' \in 0..MaxTroubles
    PROVE  RemoteInv'
<1>1. CASE ~IsOpen(c)
    BY <1>1, FailsInv DEF Ends, ActsOn
<1>2. CASE IsOpen(c)
    <2>1. /\ call' = Nobody /\ timer' = TRUE
          /\ UNCHANGED <<client, conn, pairing, voice>>
        BY <1>2 DEF Ends, ExpireLater
    <2>2. c = conn /\ call.c \in {0, conn}
        BY <1>2, Numbers DEF ActsOn, IsOpen, RemoteInv, CallInv
    <2> QED
        BY <2>1, <2>2, Numbers DEF RemoteInv, RemoteIsInOrder, RemoteTypeOK, CallTypes,
           NoConnectionIsForgotten, VoiceHasItsConnection, KeptConnectionExpires, CallInv
<1> QED
    BY <1>1, <1>2

(* The call waits, on the connection it acts on.                            *)
LEMMA WaitsInv ==
    ASSUME RemoteInv, NEW c, ActsOn(c), NEW op \in SessionOps, NEW fresh \in BOOLEAN,
           NEW at \in {"before", "after", "voice"},
           call' = [op |-> op, at |-> at, c |-> c, fresh |-> fresh],
           UNCHANGED <<client, conn, pairing, voice, timer>>, troubles' \in 0..MaxTroubles
    PROVE  RemoteInv'
<1>1. call'.at = at /\ call'.c = c /\ call'.op = op /\ call' # Nobody
    BY DEF Nobody
<1>2. RemoteTypeOK'
    BY Numbers DEF RemoteInv, RemoteIsInOrder, RemoteTypeOK, ActsOn, Awaits
<1>3. NoConnectionIsForgotten'
    BY <1>1, Numbers DEF RemoteInv, RemoteIsInOrder, NoConnectionIsForgotten, ActsOn
<1>4. CallInv'
    BY <1>1, Numbers DEF RemoteInv, CallInv, ActsOn
<1> QED
    BY <1>1, <1>2, <1>3, <1>4 DEF RemoteInv, RemoteIsInOrder, VoiceHasItsConnection,
       KeptConnectionExpires

(* An action sends once, then waits or ends.                               *)
LEMMA ActsInv ==
    ASSUME RemoteInv, NEW c, ActsOn(c), NEW op \in SessionOps, NEW fresh \in BOOLEAN,
           Acts(op, c, fresh), troubles' \in 0..MaxTroubles
    PROVE  RemoteInv'
<1>1. CASE Fails
    BY <1>1, FailsInv DEF Fails, ActsOn
<1>2. CASE Ends(c, fresh)
    BY <1>2, EndsInv
<1>3. ASSUME NEW at \in {"after", "voice"},
             call' = [op |-> op, at |-> at, c |-> c, fresh |-> fresh],
             UNCHANGED <<client, conn, pairing, voice, timer>>
      PROVE  RemoteInv'
    BY <1>3, WaitsInv
<1> QED
    BY <1>1, <1>2, <1>3 DEF Acts

(* A new connection or pairing: what was kept, and a pairing that is        *)
(* replaced, are closed.                                                    *)
LEMMA OpensInv ==
    ASSUME RemoteInv, call = Nobody, NEW c \in Clients, NEW op \in SessionOps \cup {"pair"},
           NEW at \in {"connect", "show_code"}, pairing' \in {0, pairing},
           at = "show_code" => pairing' = 0, at = "connect" => op \in SessionOps,
           Drop(Disconnect([client EXCEPT ![c] = "opening"], IF pairing' = 0 THEN pairing ELSE 0)),
           call' = [op |-> op, at |-> at, c |-> c, fresh |-> TRUE], troubles' = troubles
    PROVE  RemoteInv'
<1> DEFINE cs == Disconnect([client EXCEPT ![c] = "opening"], IF pairing' = 0 THEN pairing ELSE 0)
<1>1. /\ cs \in [Clients -> {"none", "opening", "open", "lost", "closed"}]
      /\ \A d \in Clients \ {c} : cs[d] \in {client[d], "closed"}
      /\ pairing' = 0 /\ pairing # 0 => cs[pairing] = "closed"
    BY Numbers DEF Disconnect, RemoteInv, RemoteIsInOrder, RemoteTypeOK
<1> HIDE DEF cs
<1>2. /\ client' \in [Clients -> {"none", "opening", "open", "lost", "closed"}]
      /\ conn' = 0 /\ voice' = 0 /\ timer' = FALSE
      /\ conn # 0 => client'[conn] = "closed"
      /\ \A d \in Clients : d # conn => client'[d] = cs[d]
    BY <1>1, DropClients DEF RemoteInv, RemoteIsInOrder, cs
<1>3. call'.at = at /\ call'.c = c /\ call'.op = op /\ call' # Nobody
    BY DEF Nobody
<1>4. RemoteTypeOK'
    BY <1>2, Numbers DEF RemoteInv, RemoteIsInOrder, RemoteTypeOK, Awaits
<1>5. ASSUME NEW d \in Clients, client'[d] \in {"opening", "open"}, d # c
      PROVE  d = pairing'
    <2>1. d # conn /\ client[d] \in {"opening", "open"} /\ cs[d] # "closed"
        BY <1>1, <1>2, <1>5, Numbers
    <2>2. d = pairing
        BY <2>1, Numbers DEF RemoteInv, RemoteIsInOrder, NoConnectionIsForgotten
    <2> QED
        BY <1>1, <2>1, <2>2, Numbers
<1> QED
    BY <1>2, <1>3, <1>4, <1>5 DEF RemoteInv, RemoteIsInOrder, NoConnectionIsForgotten,
       VoiceHasItsConnection, KeptConnectionExpires, CallInv

(* Every action keeps the invariant.                                        *)
LEMMA RemoteStepInv == RemoteInv /\ [RemoteNext]_rvars => RemoteInv'
<1> SUFFICES ASSUME RemoteInv, [RemoteNext]_rvars PROVE RemoteInv'
    OBVIOUS
<1>0. ASSUME Trouble PROVE troubles' \in 0..MaxTroubles
    BY <1>0, RemoteAssumption DEF Trouble, RemoteInv, RemoteIsInOrder, RemoteTypeOK
<1>a. /\ troubles \in 0..MaxTroubles
      /\ call \in CallTypes /\ call.fresh \in BOOLEAN /\ call.c \in 0..MaxClients
      /\ client \in [Clients -> {"none", "opening", "open", "lost", "closed"}]
    BY DEF RemoteInv, RemoteIsInOrder, RemoteTypeOK, CallTypes
<1>1. CASE UNCHANGED rvars
    BY <1>1 DEF rvars, RemoteInv, RemoteIsInOrder, RemoteTypeOK, CallTypes,
           NoConnectionIsForgotten, VoiceHasItsConnection, KeptConnectionExpires, CallInv
<1>2. ASSUME NEW op \in SessionOps, Reuse(op) PROVE RemoteInv'
    <2>1. ActsOn(conn) /\ troubles' \in 0..MaxTroubles
        BY <1>2, <1>a, Numbers DEF Reuse, IsOpen, ActsOn, RemoteInv, RemoteIsInOrder, RemoteTypeOK
    <2>2. CASE Acts(op, conn, FALSE)
        BY <2>1, <2>2, ActsInv
    <2>3. CASE /\ call' = [op |-> op, at |-> "before", c |-> conn, fresh |-> FALSE]
               /\ UNCHANGED <<client, conn, pairing, voice, timer>>
        BY <2>1, <2>3, WaitsInv
    <2> QED
        BY <1>2, <2>2, <2>3 DEF Reuse, Enters
<1>3. ASSUME NEW op \in SessionOps, NEW c \in Clients, Connects(op, c) PROVE RemoteInv'
    <2>1. Disconnect([client EXCEPT ![c] = "opening"], IF pairing' = 0 THEN pairing ELSE 0)
            = [client EXCEPT ![c] = "opening"]
        BY <1>3 DEF Connects, Disconnect
    <2> QED
        BY <1>3, <2>1, OpensInv DEF Connects
<1>4. CASE Connected
    BY <1>4, <1>a, Numbers DEF Connected, Awaits, RemoteInv, RemoteIsInOrder, RemoteTypeOK, CallTypes,
           NoConnectionIsForgotten, VoiceHasItsConnection, KeptConnectionExpires, CallInv
<1>5. CASE ConnectFails
    BY <1>0, <1>5, <1>a, Numbers DEF ConnectFails, Disconnect, RemoteInv, RemoteIsInOrder, RemoteTypeOK, CallTypes,
           NoConnectionIsForgotten, VoiceHasItsConnection, KeptConnectionExpires, CallInv
<1>b. ASSUME call.at \in {"before", "after", "voice"} PROVE ActsOn(call.c) /\ call.op \in SessionOps
    BY <1>b DEF ActsOn, RemoteInv, CallInv
<1>6. CASE WaitedBefore
    BY <1>6, <1>a, <1>b, ActsInv DEF WaitedBefore
<1>7. CASE WaitedAfter
    BY <1>7, <1>a, <1>b, EndsInv DEF WaitedAfter
<1>8. CASE VoiceStarts
    <2>1. CASE IsOpen(call.c)
        <3>1. call.c = conn
            BY <1>8, <1>a, <2>1 DEF VoiceStarts, IsOpen, RemoteInv, CallInv
        <3> QED
            BY <1>8, <1>a, <2>1, <3>1, Numbers DEF VoiceStarts, ExpireLater, RemoteInv, RemoteIsInOrder, RemoteTypeOK, CallTypes,
           NoConnectionIsForgotten, VoiceHasItsConnection, KeptConnectionExpires, CallInv
    <2>2. CASE ~IsOpen(call.c)
        BY <1>8, <1>a, <2>2, FailsInv DEF VoiceStarts, Fails
    <2> QED
        BY <2>1, <2>2
<1>9. CASE ActionFails
    BY <1>0, <1>9, FailsInv DEF ActionFails, Fails
<1>10. CASE SendVoice
    <2>1. CASE Drop(client) /\ troubles' \in 0..MaxTroubles
        BY <1>10, <2>1, FailsInv DEF SendVoice
    <2>2. CASE ExpireLater /\ UNCHANGED <<client, conn, voice, troubles>>
        BY <1>10, <2>2, Numbers DEF SendVoice, ExpireLater, RemoteInv, RemoteIsInOrder, RemoteTypeOK, CallTypes,
           NoConnectionIsForgotten, VoiceHasItsConnection, KeptConnectionExpires, CallInv
    <2> QED
        BY <1>0, <1>10, <1>a, <2>1, <2>2 DEF SendVoice
<1>11. CASE StopVoice
    <2>1. CASE Drop(client) /\ troubles' \in 0..MaxTroubles
        BY <1>11, <2>1, FailsInv DEF StopVoice
    <2>2. CASE voice' = 0 /\ ExpireLater /\ UNCHANGED <<client, conn, troubles>>
        BY <1>11, <2>2, Numbers DEF StopVoice, ExpireLater, RemoteInv, RemoteIsInOrder, RemoteTypeOK, CallTypes,
           NoConnectionIsForgotten, VoiceHasItsConnection, KeptConnectionExpires, CallInv
    <2> QED
        BY <1>0, <1>11, <2>1, <2>2 DEF StopVoice
<1>12. ASSUME NEW c \in Clients, StartPairing(c) PROVE RemoteInv'
    BY <1>12, OpensInv DEF StartPairing
<1>13. ASSUME NEW c \in Clients, Lost(c) PROVE RemoteInv'
    BY <1>0, <1>13, <1>a, Numbers DEF Lost, RemoteInv, RemoteIsInOrder, RemoteTypeOK, CallTypes,
           NoConnectionIsForgotten, VoiceHasItsConnection, KeptConnectionExpires, CallInv
<1>14. ASSUME NEW ok \in BOOLEAN, CodeShown(ok) PROVE RemoteInv'
    BY <1>0, <1>14, <1>a, Numbers DEF CodeShown, Disconnect, RemoteInv, RemoteIsInOrder, RemoteTypeOK, CallTypes,
           NoConnectionIsForgotten, VoiceHasItsConnection, KeptConnectionExpires, CallInv
<1>15. CASE FinishPairing
    BY <1>15, <1>a, Numbers DEF FinishPairing, Nobody, Awaits, RemoteInv, RemoteIsInOrder, RemoteTypeOK, CallTypes,
           NoConnectionIsForgotten, VoiceHasItsConnection, KeptConnectionExpires, CallInv
<1>16. CASE CodeChecked
    <2> DEFINE cs == Disconnect(client, call.c)
    <2>1. /\ cs \in [Clients -> {"none", "opening", "open", "lost", "closed"}]
          /\ \A d \in Clients : cs[d] = IF d = call.c THEN "closed" ELSE client[d]
        BY <1>a, Numbers DEF Disconnect
    <2>a. RemoteTypeOK /\ Drop(cs)
        BY <1>16 DEF CodeChecked, RemoteInv, RemoteIsInOrder
    <2> HIDE DEF cs
    <2>b. /\ client' \in [Clients -> {"none", "opening", "open", "lost", "closed"}]
          /\ conn' = 0 /\ voice' = 0 /\ timer' = FALSE
          /\ conn # 0 => client'[conn] = "closed"
          /\ \A d \in Clients : d # conn => client'[d] = cs[d]
        BY <2>1, <2>a, DropClients
    <2>2. /\ client' \in [Clients -> {"none", "opening", "open", "lost", "closed"}]
          /\ conn' = 0 /\ voice' = 0 /\ timer' = FALSE
          /\ \A d \in Clients : client'[d] = IF d \in {conn, call.c} THEN "closed" ELSE client[d]
        BY <2>1, <2>b, Numbers
    <2>3. call' = Nobody /\ pairing' = pairing /\ troubles' = troubles
        BY <1>16 DEF CodeChecked
    <2> QED
        BY <1>a, <2>2, <2>3, Numbers DEF RemoteInv, RemoteIsInOrder, RemoteTypeOK, CallTypes,
           NoConnectionIsForgotten, VoiceHasItsConnection, KeptConnectionExpires, CallInv
<1>17. CASE RemoteClose
    <2> DEFINE cs == Disconnect(client, pairing)
    <2>1. /\ cs \in [Clients -> {"none", "opening", "open", "lost", "closed"}]
          /\ \A d \in Clients : cs[d] = IF d = pairing THEN "closed" ELSE client[d]
        BY <1>a, Numbers DEF Disconnect, RemoteInv, RemoteIsInOrder, RemoteTypeOK
    <2>a. RemoteTypeOK /\ Drop(cs)
        BY <1>17 DEF RemoteClose, RemoteInv, RemoteIsInOrder
    <2> HIDE DEF cs
    <2>b. /\ client' \in [Clients -> {"none", "opening", "open", "lost", "closed"}]
          /\ conn' = 0 /\ voice' = 0 /\ timer' = FALSE
          /\ conn # 0 => client'[conn] = "closed"
          /\ \A d \in Clients : d # conn => client'[d] = cs[d]
        BY <2>1, <2>a, DropClients
    <2>2. /\ client' \in [Clients -> {"none", "opening", "open", "lost", "closed"}]
          /\ conn' = 0 /\ voice' = 0 /\ timer' = FALSE
          /\ \A d \in Clients : client'[d] = IF d \in {conn, pairing} THEN "closed" ELSE client[d]
        BY <2>1, <2>b, Numbers
    <2>3. call = Nobody /\ call' = Nobody /\ pairing' = 0 /\ troubles' = troubles
        BY <1>17 DEF RemoteClose
    <2> QED
        BY <1>a, <2>2, <2>3, Numbers DEF RemoteInv, RemoteIsInOrder, RemoteTypeOK, CallTypes,
           NoConnectionIsForgotten, VoiceHasItsConnection, KeptConnectionExpires, CallInv
<1>18. CASE TimerFires
    <2>1. /\ client' \in [Clients -> {"none", "opening", "open", "lost", "closed"}]
          /\ conn' = 0 /\ voice' = 0 /\ timer' = FALSE
          /\ \A d \in Clients : client'[d] = IF d = conn THEN "closed" ELSE client[d]
        BY <1>18, <1>a, DropClients, Numbers DEF TimerFires, RemoteInv, RemoteIsInOrder
    <2>2. UNCHANGED <<pairing, call, troubles>>
        BY <1>18 DEF TimerFires
    <2> QED
        BY <1>a, <2>1, <2>2, Numbers DEF RemoteInv, RemoteIsInOrder, RemoteTypeOK, CallTypes,
           NoConnectionIsForgotten, VoiceHasItsConnection, KeptConnectionExpires, CallInv
<1>. QED
    BY <1>1, <1>2, <1>3, <1>4, <1>5, <1>6, <1>7, <1>8, <1>9, <1>10, <1>11, <1>12, <1>13, <1>14,
       <1>15, <1>16, <1>17, <1>18 DEF RemoteNext

(* Whatever is lost, refused, cancelled or runs down, no connection to the  *)
(* TV is forgotten, a voice session goes with its connection, and a kept    *)
(* connection has its expiry armed (tv_remote.py).                          *)
THEOREM RemoteInOrder == RemoteSpec => []RemoteIsInOrder
<1>1. RemoteInv => RemoteIsInOrder
    BY DEF RemoteInv
<1>. QED
    BY <1>1, RemoteInitInv, RemoteStepInv, PTL DEF RemoteSpec

-----------------------------------------------------------------------------
(* The credentials                                                          *)

(* A certificate of this installation was written after its key, and ends   *)
(* the making of credentials.                                               *)
OwnInv ==
    /\ disk.cert.name = "own" =>
         /\ disk.cert.pair = disk.key /\ disk.key # 0
         /\ credAt \notin {"back_cert", "back_key", "generate", "key", "cert"}
    /\ credAt \in {"mark", "given"} \/ disk.mark => disk.cert.name = "own"
    /\ credAt \in {"key", "cert"} => made # 0
    /\ credAt = "cert" => disk.key = made

(* The older pair is in its place until its backup is whole.                *)
LegacyInv ==
    legacy =>
        /\ disk.key # 0
        /\ disk.oldKey \in {0, 1}
        /\ disk.oldCert \in {NoCert, [name |-> "shared", pair |-> 1]}
        /\ disk.cert.name # "own" => disk.cert = [name |-> "shared", pair |-> 1]
        /\ credAt \in {"back_key", "generate", "key", "cert"} \/ disk.cert.name = "own" =>
             disk.oldCert = [name |-> "shared", pair |-> 1]
        /\ credAt \in {"generate", "key", "cert"} \/ disk.key # 1 => disk.oldKey = 1

CredInv == CredTypeOK /\ OwnInv /\ LegacyInv

(* The directory a process finds satisfies the invariant.                  *)
LEMMA CredInitInv == CredInit => CredInv
BY CredentialsAssumption
   DEF CredInit, CredInv, CredTypeOK, OwnInv, LegacyInv, NoCert, Steps

(* A step that only moves on keeps what the disk holds.                     *)
LEMMA CredStepInv == CredInv /\ [CredNext]_dvars => CredInv'
<1> SUFFICES ASSUME CredInv, [CredNext]_dvars PROVE CredInv'
    OBVIOUS
<1> USE CredentialsAssumption DEF CredInv
<1>1. CASE UNCHANGED dvars
    BY <1>1 DEF dvars, CredTypeOK, OwnInv, LegacyInv
<1>2. CASE Asked
    BY <1>2 DEF Asked, WriteFile, CredTypeOK, OwnInv, LegacyInv, Steps
<1>3. CASE NameInstallation
    BY <1>3 DEF NameInstallation, WriteFile, CredTypeOK, OwnInv, LegacyInv, Steps
<1>4. CASE Check
    BY <1>4 DEF Check, WriteFile, Complete, CredTypeOK, OwnInv, LegacyInv, Steps, NoCert
<1>5. CASE BackUp
    BY <1>5 DEF BackUp, WriteFile, CredTypeOK, OwnInv, LegacyInv, Steps, NoCert
<1>6. CASE Generate
    BY <1>6 DEF Generate, CredTypeOK, OwnInv, LegacyInv, Steps
<1>7. CASE WritePair
    BY <1>7 DEF WritePair, WriteFile, CredTypeOK, OwnInv, LegacyInv, Steps
<1>8. CASE Mark
    BY <1>8 DEF Mark, WriteFile, CredTypeOK, OwnInv, LegacyInv, Steps
<1>9. CASE CredKilled
    BY <1>9 DEF CredKilled, WriteFile, CredTypeOK, OwnInv, LegacyInv, Steps
<1>. QED
    BY <1>1, <1>2, <1>3, <1>4, <1>5, <1>6, <1>7, <1>8, <1>9 DEF CredNext

(* After any number of kills the library is given a matching pair of this   *)
(* installation, and the older version's pair is in place or in its backup  *)
(* (tv_remote.py, _credentials).                                            *)
THEOREM CredentialsAlwaysSurvive == CredSpec => []CredentialsSurvive
<1>1. CredInv => CredentialsSurvive
    BY DEF CredInv, CredTypeOK, OwnInv, LegacyInv, CredentialsSurvive, GivenPairMatches,
       LegacyPairIsKept
<1>. QED
    BY <1>1, CredInitInv, CredStepInv, PTL DEF CredSpec

-----------------------------------------------------------------------------
(* Discovery: the scans, the memory and the cached Chromecasts             *)

Hosts == Addrs \cup {"away"}
Where == [Tvs -> Hosts]
DeviceType == [host : Hosts, known : BOOLEAN, available : BOOLEAN]
ScanType ==
    [at : {"off", "listen", "refresh"}, remembered : Where, found : Where, todo : SUBSET Tvs]
AskType == [tv : Tvs \cup {"none"}, at : {"free", "scan", "send"}]

DiscTypes ==
    /\ net \in Where /\ file \in [ok : BOOLEAN, at : Where] /\ devices \in [Tvs -> DeviceType]
    /\ scan \in [Scanners -> ScanType] /\ ask \in AskType
    /\ casts \in [Tvs -> 0..MaxScans] /\ browser \in 0..MaxScans /\ scans \in 0..MaxScans
    /\ owned \subseteq Tvs

(* A scan knows only kept TVs, and what it found was announced to it.      *)
ScanInv(th) ==
    scan[th].at # "off" =>
        /\ \A t \in Tvs : scan[th].remembered[t] # "away" => t \in owned
        /\ scan[th].at = "refresh" =>
             /\ \A t \in Tvs : scan[th].found[t] # "away" => <<t, scan[th].found[t]>> \in seen
             /\ scan[th].todo \subseteq owned

(* A TV shown as available was seen where it is shown.                     *)
SeenInv ==
    \A t \in Tvs : devices[t].available => <<t, devices[t].host>> \in seen

(* A request is for a TV, and is sent while that TV is available.          *)
AskInv ==
    /\ ask.at # "free" => ask.tv \in Tvs
    /\ ask.at = "send" => devices[ask.tv].available /\ scan["bridge"].at = "off"

DiscInv ==
    /\ DiscTypes /\ CastsHaveTheirBrowser
    /\ scan["stream"].at = "off" /\ ScanInv("bridge") /\ SeenInv /\ AskInv
    /\ SentToWhereItWasSeen /\ OnlyKeptTvsAreSaved

CastInv == DiscTypes /\ CastsHaveTheirBrowser

(* The values a request starts from.                                       *)
LEMMA DiscValues ==
    /\ Nowhere \in Where /\ NoScan \in ScanType /\ NoAsk \in AskType /\ Unknown \in DeviceType
    /\ NoScan.at = "off" /\ NoAsk.at = "free" /\ ~Unknown.available
    /\ \A t \in Tvs : Nowhere[t] = "away"
  BY DEF Nowhere, NoScan, NoAsk, Unknown, Where, Hosts, ScanType, AskType, DeviceType

(* The kept TVs, as the memory gives them: none of them available.         *)
LEMMA SavedFacts ==
    ASSUME NEW r \in Where
    PROVE  /\ Saved(r) \in [Tvs -> DeviceType]
           /\ \A t \in Tvs : ~Saved(r)[t].available
<1>1. ASSUME NEW t \in Tvs
      PROVE  Saved(r)[t] \in DeviceType /\ ~Saved(r)[t].available
  <2>1. CASE r[t] = "away"
    BY <2>1, DiscValues DEF Saved
  <2>2. CASE r[t] # "away"
    <3>1. Saved(r)[t] = [host |-> r[t], known |-> TRUE, available |-> FALSE]
      BY <2>2 DEF Saved
    <3> QED
      BY <3>1 DEF DeviceType, Where
  <2> QED
    BY <2>1, <2>2
<1>2. Saved(r) = [t \in Tvs |-> Saved(r)[t]]
  BY DEF Saved
<1> QED
  BY <1>1, <1>2

(* What a scan hears is where TVs are.                                     *)
LEMMA HeardFacts ==
    ASSUME net \in Where, NEW found \in Heard
    PROVE  found \in Where
  BY DEF Heard, Where, Hosts

(* What the memory gives is of kept TVs.                                   *)
LEMMA RecallFacts ==
    ASSUME DiscTypes
    PROVE  /\ Recall \in Where
           /\ OnlyKeptTvsAreSaved => \A t \in Tvs : Recall[t] # "away" => t \in owned
<1>1. CASE file.ok
  BY <1>1 DEF Recall, DiscTypes, OnlyKeptTvsAreSaved
<1>2. CASE ~file.ok
  BY <1>2, DiscValues DEF Recall
<1> QED
  BY <1>1, <1>2

(* A saved or forgotten TV changes its own entry of the memory.            *)
LEMMA MemoryFacts ==
    ASSUME DiscTypes, NEW t \in Tvs, NEW h \in Hosts,
           file' = [file EXCEPT !.at[t] = h]
    PROVE  /\ file' \in [ok : BOOLEAN, at : Where] /\ file'.ok = file.ok
           /\ \A u \in Tvs : file'.at[u] = IF u = t THEN h ELSE file.at[u]
<1> DEFINE m == [file.at EXCEPT ![t] = h]
<1>1. file \in [ok : BOOLEAN, at : Where]
  BY DEF DiscTypes
<1>2. m \in Where /\ \A u \in Tvs : m[u] = IF u = t THEN h ELSE file.at[u]
  BY <1>1 DEF Where
<1>3. file' = [file EXCEPT !.at = m]
  OBVIOUS
<1> HIDE DEF m
<1> QED
  BY <1>1, <1>2, <1>3

(* A new snapshot replaces the cached Chromecasts and their browser.       *)
LEMMA SwapCast ==
    ASSUME NEW n \in 1..MaxScans, NEW found \in Where, Swap(n, found)
    PROVE  CastsHaveTheirBrowser' /\ casts' \in [Tvs -> 0..MaxScans] /\ browser' \in 0..MaxScans
<1> USE DiscoveryAssumption
<1> DEFINE new == [t \in Tvs |-> IF found[t] = "away" THEN 0 ELSE n]
<1>1. /\ casts' = new /\ browser' = (IF found = Nowhere THEN 0 ELSE n)
      /\ alive' = {<<t, n>> : t \in {u \in Tvs : new[u] # 0}}
                  \cup (IF found = Nowhere THEN {} ELSE {<<"browser", n>>})
  BY DEF Swap
<1>2. n # 0 /\ n \in 0..MaxScans /\ 0 \in 0..MaxScans
  OBVIOUS
<1>3. new \in [Tvs -> 0..MaxScans] /\ \A t \in Tvs : new[t] # 0 => new[t] = n /\ found[t] # "away"
  BY <1>2
<1>4. \A t \in Tvs : found[t] # "away" => found # Nowhere
  BY DEF Nowhere
<1> HIDE DEF new
<1>5. \A t \in Tvs : casts'[t] # 0 => casts'[t] = browser'
  BY <1>1, <1>3, <1>4
<1>6. {<<t, n>> : t \in {u \in Tvs : new[u] # 0}}
        = {<<t, casts'[t]>> : t \in {u \in Tvs : casts'[u] # 0}}
  BY <1>1, <1>3
<1>7. (IF found = Nowhere THEN {} ELSE {<<"browser", n>>})
        = (IF browser' = 0 THEN {} ELSE {<<"browser", browser'>>})
  <2>1. CASE found = Nowhere
    BY <1>1, <2>1
  <2>2. CASE found # Nowhere
    BY <1>1, <1>2, <2>2
  <2> QED
    BY <2>1, <2>2
<1>8. browser' \in 0..MaxScans
  BY <1>1, <1>2
<1>9. alive' = {<<t, casts'[t]>> : t \in {u \in Tvs : casts'[u] # 0}}
               \cup (IF browser' = 0 THEN {} ELSE {<<"browser", browser'>>})
  BY <1>1, <1>6, <1>7, Zenon
<1> QED
  BY <1>1, <1>3, <1>5, <1>8, <1>9 DEF CastsHaveTheirBrowser

(* Most steps leave the cached Chromecasts alone.                          *)
LEMMA SameCasts ==
    ASSUME CastsHaveTheirBrowser, UNCHANGED <<casts, browser, alive>>
    PROVE  CastsHaveTheirBrowser'
  BY DEF CastsHaveTheirBrowser

(* A Chromecast that does not connect is dropped alone.                    *)
LEMMA DropCast ==
    ASSUME CastInv, NEW t \in Tvs, casts[t] # 0, UNCHANGED browser,
           casts' = [casts EXCEPT ![t] = 0], alive' = alive \ {<<t, casts[t]>>}
    PROVE  CastsHaveTheirBrowser' /\ casts' \in [Tvs -> 0..MaxScans]
<1> USE DiscoveryAssumption
<1>1. casts \in [Tvs -> 0..MaxScans] /\ CastsHaveTheirBrowser
  BY DEF CastInv, DiscTypes
<1>2. /\ casts' \in [Tvs -> 0..MaxScans] /\ casts'[t] = 0
      /\ \A u \in Tvs : u # t => casts'[u] = casts[u]
  BY <1>1
<1>3. \A u \in Tvs : casts'[u] # 0 => casts'[u] = browser'
  BY <1>1, <1>2 DEF CastsHaveTheirBrowser
<1> DEFINE A == {<<u, casts[u]>> : u \in {v \in Tvs : casts[v] # 0}}
           B == IF browser = 0 THEN {} ELSE {<<"browser", browser>>}
           A2 == {<<u, casts'[u]>> : u \in {v \in Tvs : casts'[v] # 0}}
<1>4. alive = A \cup B
  BY <1>1 DEF CastsHaveTheirBrowser
<1>5. A2 = A \ {<<t, casts[t]>>}
  BY <1>2
<1>6. B \ {<<t, casts[t]>>} = B
  OBVIOUS
<1>7. alive' = A2 \cup B
  <2> HIDE DEF A, B, A2
  <2> QED
    BY <1>4, <1>5, <1>6
<1> QED
  BY <1>2, <1>3, <1>7 DEF CastsHaveTheirBrowser

-----------------------------------------------------------------------------
(* The invariant, step by step. What a step leaves alone is named once.    *)

(* discover_devices, and the scan of a request for a saved TV: the memory  *)
(* is read first.                                                          *)
LEMMA ScanBeginsFacts ==
    ASSUME DiscTypes, NEW th \in Scanners, ScanBegins(th)
    PROVE  /\ scan' \in [Scanners -> ScanType]
           /\ scan'[th].at = "listen" /\ scan'[th].remembered = Recall
           /\ \A p \in Scanners : p # th => scan'[p] = scan[p]
<1> DEFINE rec == [NoScan EXCEPT !.at = "listen", !.remembered = Recall]
<1>1. Recall \in Where /\ NoScan \in ScanType
  BY RecallFacts, DiscValues
<1>2. rec \in ScanType /\ rec.at = "listen" /\ rec.remembered = Recall
  BY <1>1 DEF ScanType
<1>3. scan' = [scan EXCEPT ![th] = rec]
  BY DEF ScanBegins
<1> HIDE DEF rec
<1> QED
  BY <1>2, <1>3 DEF DiscTypes

(* A scan that ended.                                                      *)
LEMMA ScanEndsFacts ==
    ASSUME DiscTypes, NEW th \in Scanners, scan' = [scan EXCEPT ![th] = NoScan]
    PROVE  /\ scan' \in [Scanners -> ScanType] /\ scan'[th].at = "off"
           /\ \A p \in Scanners : p # th => scan'[p] = scan[p]
  BY DiscValues DEF DiscTypes

(* The types, and the cached Chromecasts, whichever thread scans.          *)
LEMMA CastStep ==
    ASSUME CastInv, DiscoveryNext
    PROVE  CastInv'
<1> USE DiscoveryAssumption
<1>0. DiscTypes /\ CastsHaveTheirBrowser
  BY DEF CastInv
<1>t. /\ net \in Where /\ file \in [ok : BOOLEAN, at : Where] /\ devices \in [Tvs -> DeviceType]
      /\ scan \in [Scanners -> ScanType] /\ ask \in AskType
      /\ casts \in [Tvs -> 0..MaxScans] /\ browser \in 0..MaxScans /\ scans \in 0..MaxScans
      /\ owned \subseteq Tvs
  BY <1>0 DEF DiscTypes
<1>1. ASSUME NEW th \in Scanners, Discover(th) PROVE CastInv'
  BY <1>0, <1>t, <1>1, ScanBeginsFacts, SameCasts DEF Discover, CastInv, DiscTypes
<1>2. ASSUME NEW th \in Scanners, Listens(th) PROVE CastInv'
  <2>1. PICK found \in Heard :
          /\ Swap(scans + 1, found)
          /\ scan' = [scan EXCEPT ![th].at = "refresh", ![th].found = found,
                                  ![th].todo = ToRefresh(th, found)]
    BY <1>2 DEF Listens
  <2>2. found \in Where /\ ToRefresh(th, found) \in SUBSET Tvs /\ scan[th] \in ScanType
    BY <1>t, HeardFacts DEF ToRefresh
  <2> DEFINE rec == [scan[th] EXCEPT !.at = "refresh", !.found = found, !.todo = ToRefresh(th, found)]
  <2>3. rec \in ScanType
    BY <2>2 DEF ScanType
  <2>4. scan' = [scan EXCEPT ![th] = rec]
    BY <2>1
  <2> HIDE DEF rec
  <2>5. scan' \in [Scanners -> ScanType]
    BY <1>t, <2>3, <2>4
  <2>6. scans + 1 \in 1..MaxScans /\ scans' = scans + 1
    BY <1>t, <1>2 DEF Listens
  <2>7. CastsHaveTheirBrowser' /\ casts' \in [Tvs -> 0..MaxScans] /\ browser' \in 0..MaxScans
    BY <2>1, <2>2, <2>6, SwapCast
  <2>8. UNCHANGED <<net, file, devices, ask, owned>> /\ scans' \in 0..MaxScans
    BY <1>2, <2>6 DEF Listens
  <2> QED
    BY <1>t, <2>5, <2>7, <2>8 DEF CastInv, DiscTypes
<1>3. ASSUME NEW th \in Scanners, ScanFails(th) PROVE CastInv'
  <2>1. scan[th].remembered \in Where
    BY <1>t DEF ScanType
  <2>2. devices' \in [Tvs -> DeviceType]
    BY <1>t, <1>3, <2>1, SavedFacts DEF ScanFails
  <2>3. scan' \in [Scanners -> ScanType]
    BY <1>0, <1>3, ScanEndsFacts DEF ScanFails
  <2> QED
    BY <1>0, <1>t, <1>3, <2>2, <2>3, SameCasts DEF ScanFails, CastInv, DiscTypes
<1>4. ASSUME NEW th \in Scanners, Publishes(th) PROVE CastInv'
  <2>1. scan[th].remembered \in Where /\ scan[th].found \in Where
    BY <1>t DEF ScanType
  <2>2. ASSUME NEW t \in Tvs PROVE devices'[t] \in DeviceType
    <3>1. CASE scan[th].found[t] = "away"
      BY <1>4, <2>1, <3>1, SavedFacts DEF Publishes
    <3>2. CASE scan[th].found[t] # "away"
      <4>1. devices'[t] = [host |-> scan[th].found[t], available |-> TRUE,
                           known |-> scan[th].remembered[t] # "away"]
        BY <1>4, <3>2 DEF Publishes
      <4> QED
        BY <2>1, <4>1 DEF DeviceType, Where
    <3> QED
      BY <3>1, <3>2
  <2>3. devices' \in [Tvs -> DeviceType]
    <3>1. devices' = [t \in Tvs |-> devices'[t]]
      BY <1>4 DEF Publishes
    <3> QED
      BY <2>2, <3>1
  <2>4. scan' \in [Scanners -> ScanType]
    BY <1>0, <1>4, ScanEndsFacts DEF Publishes
  <2> QED
    BY <1>0, <1>t, <1>4, <2>3, <2>4, SameCasts DEF Publishes, CastInv, DiscTypes
<1>5. ASSUME NEW th \in Scanners, NEW t \in Tvs, NEW ok \in BOOLEAN, Refreshes(th, t, ok)
      PROVE  CastInv'
  <2>1. scan[th].found[t] \in Hosts /\ scan[th].todo \in SUBSET Tvs
    BY <1>t DEF ScanType, Where
  <2>2. file' \in [ok : BOOLEAN, at : Where]
    BY <1>0, <1>t, <1>5, <2>1, MemoryFacts DEF Refreshes, KeepInMemory
  <2>3. scan' \in [Scanners -> ScanType]
    <3>1. CASE ok
      <4> DEFINE rec == [scan[th] EXCEPT !.todo = @ \ {t}]
      <4>1. scan' = [scan EXCEPT ![th] = rec]
        BY <1>5, <3>1 DEF Refreshes
      <4>2. scan[th] \in ScanType
        BY <1>t
      <4>3. rec \in ScanType
        BY <2>1, <4>2 DEF ScanType
      <4> HIDE DEF rec
      <4> QED
        BY <1>t, <4>1, <4>3
    <3>2. CASE ~ok
      BY <1>0, <1>5, <3>2, ScanEndsFacts DEF Refreshes
    <3> QED
      BY <3>1, <3>2
  <2>4. ask' \in AskType
    BY <1>t, <1>5, DiscValues DEF Refreshes
  <2> QED
    BY <1>0, <1>t, <1>5, <2>2, <2>3, <2>4, SameCasts DEF Refreshes, CastInv, DiscTypes
<1>6. ASSUME NEW t \in Tvs, NEW ok \in BOOLEAN, RememberDevice(t, ok) PROVE CastInv'
  <2>1. devices[t] \in DeviceType /\ devices[t].host \in Hosts
    BY <1>t DEF DeviceType
  <2>2. file' \in [ok : BOOLEAN, at : Where]
    BY <1>0, <1>t, <1>6, <2>1, MemoryFacts DEF RememberDevice, KeepInMemory
  <2>3. devices' \in [Tvs -> DeviceType]
    <3> DEFINE rec == [devices[t] EXCEPT !.known = TRUE]
    <3>1. rec \in DeviceType
      BY <2>1 DEF DeviceType
    <3>2. devices' = [devices EXCEPT ![t] = rec] \/ devices' = devices
      BY <1>6 DEF RememberDevice
    <3> HIDE DEF rec
    <3> QED
      BY <1>t, <3>1, <3>2
  <2>4. owned' \subseteq Tvs
    BY <1>t, <1>6 DEF RememberDevice
  <2> QED
    BY <1>0, <1>t, <1>6, <2>2, <2>3, <2>4, SameCasts DEF RememberDevice, CastInv, DiscTypes
<1>7. ASSUME NEW t \in Tvs, NEW ok \in BOOLEAN, ForgetDevice(t, ok) PROVE CastInv'
  <2>1. devices[t] \in DeviceType /\ "away" \in Hosts
    BY <1>t DEF Hosts
  <2>2. file' \in [ok : BOOLEAN, at : Where]
    BY <1>0, <1>t, <1>7, <2>1, MemoryFacts DEF ForgetDevice, Forget
  <2>3. devices' \in [Tvs -> DeviceType]
    <3> DEFINE rec == [devices[t] EXCEPT !.known = FALSE]
    <3>1. rec \in DeviceType
      BY <2>1 DEF DeviceType
    <3>2. \/ devices' = [devices EXCEPT ![t] = rec] \/ devices' = devices
          \/ devices' = [devices EXCEPT ![t] = Unknown]
      BY <1>7 DEF ForgetDevice
    <3> HIDE DEF rec
    <3> QED
      BY <1>t, <3>1, <3>2, DiscValues
  <2>4. owned' \subseteq Tvs
    BY <1>t, <1>7 DEF ForgetDevice
  <2> QED
    BY <1>0, <1>t, <1>7, <2>2, <2>3, <2>4, SameCasts DEF ForgetDevice, CastInv, DiscTypes
<1>8. ASSUME NEW t \in Tvs, Reach(t) PROVE CastInv'
  <2>1. scan' \in [Scanners -> ScanType]
    <3>1. "bridge" \in Scanners /\ (UNCHANGED scan \/ ScanBegins("bridge"))
      BY <1>8 DEF Reach, Scanners
    <3> QED
      BY <1>0, <1>t, <3>1, ScanBeginsFacts
  <2>2. ask' \in AskType
    BY <1>8 DEF Reach, AskType
  <2> QED
    BY <1>0, <1>t, <1>8, <2>1, <2>2, SameCasts DEF Reach, CastInv, DiscTypes
<1>9. ASSUME NEW t \in Tvs, RecoverTv(t) PROVE CastInv'
  <2>1. UNCHANGED <<net, file, devices, scan, ask, owned>> /\ casts[t] # 0
    BY <1>9 DEF RecoverTv
  <2>2. CASE scans' = scans + 1 /\ \E found \in Heard : Swap(scans + 1, found)
    <3>1. PICK found \in Heard : Swap(scans + 1, found)
      BY <2>2
    <3>2. scans + 1 \in 1..MaxScans /\ found \in Where
      BY <1>t, <1>9, HeardFacts DEF RecoverTv
    <3>3. CastsHaveTheirBrowser' /\ casts' \in [Tvs -> 0..MaxScans] /\ browser' \in 0..MaxScans
      BY <3>1, <3>2, SwapCast
    <3>4. scans' \in 0..MaxScans
      BY <2>2, <3>2
    <3> QED
      BY <1>t, <2>1, <3>3, <3>4 DEF CastInv, DiscTypes
  <2>3. CASE /\ casts' = [casts EXCEPT ![t] = 0] /\ alive' = alive \ {<<t, casts[t]>>}
             /\ UNCHANGED <<browser, scans>>
    <3>1. CastsHaveTheirBrowser' /\ casts' \in [Tvs -> 0..MaxScans]
      BY <2>1, <2>3, DropCast
    <3> QED
      BY <1>t, <2>1, <2>3, <3>1 DEF CastInv, DiscTypes
  <2> QED
    BY <1>9, <2>2, <2>3 DEF RecoverTv
<1>10. CASE FoundAgain
  <2>1. ask' \in AskType
    BY <1>t, <1>10, DiscValues DEF FoundAgain, AskType
  <2> QED
    BY <1>0, <1>t, <1>10, <2>1, SameCasts DEF FoundAgain, CastInv, DiscTypes
<1>11. CASE Send
  BY <1>0, <1>t, <1>11, DiscValues, SameCasts DEF Send, CastInv, DiscTypes
<1>12. CASE NetMoves
  <2>1. net' \in Where
    BY <1>12 DEF NetMoves, Where, Hosts
  <2> QED
    BY <1>0, <1>t, <1>12, <2>1, SameCasts DEF NetMoves, CastInv, DiscTypes
<1>13. CASE MemoryBreaks
  <2>1. file' \in [ok : BOOLEAN, at : Where]
    BY <1>t, <1>13 DEF MemoryBreaks
  <2> QED
    BY <1>0, <1>t, <1>13, <2>1, SameCasts DEF MemoryBreaks, CastInv, DiscTypes
<1> QED
  BY <1>1, <1>2, <1>3, <1>4, <1>5, <1>6, <1>7, <1>8, <1>9, <1>10, <1>11, <1>12, <1>13
     DEF DiscoveryNext

(* What is known of one scan is kept when the owner forgets nothing and    *)
(* nothing seen is unseen.                                                 *)
LEMMA SameScan ==
    ASSUME DiscInv, scan'["bridge"] = scan["bridge"], owned \subseteq owned', seen \subseteq seen'
    PROVE  ScanInv("bridge")'
  BY DEF DiscInv, ScanInv

(* No scan, nothing to know.                                               *)
LEMMA NoScanInv ==
    ASSUME scan'["bridge"].at = "off"
    PROVE  ScanInv("bridge")'
  BY DEF ScanInv

(* Without a scan beside the requests, every step keeps the rest too.      *)
LEMMA DiscStep ==
    ASSUME Beside = FALSE, DiscInv, DiscoveryNext
    PROVE  DiscInv'
<1> USE DiscoveryAssumption
<1>0. /\ DiscTypes /\ CastInv /\ scan["stream"].at = "off" /\ ScanInv("bridge") /\ SeenInv /\ AskInv
      /\ SentToWhereItWasSeen /\ OnlyKeptTvsAreSaved
  BY DEF DiscInv, CastInv
<1>c. DiscTypes' /\ CastsHaveTheirBrowser'
  BY <1>0, CastStep DEF CastInv
<1>t. /\ file \in [ok : BOOLEAN, at : Where] /\ devices \in [Tvs -> DeviceType]
      /\ scan \in [Scanners -> ScanType] /\ ask \in AskType
      /\ "bridge" \in Scanners /\ "stream" \in Scanners /\ "bridge" # "stream"
      /\ \A th \in Scanners : th = "bridge" \/ th = "stream"
  BY <1>0 DEF DiscTypes, Scanners
<1>1. ASSUME NEW th \in Scanners, Discover(th) PROVE DiscInv'
  <2>1. /\ th = "bridge" /\ Unused /\ ScanBegins("bridge")
        /\ UNCHANGED <<file, devices, ask, seen, owned, sentTo>>
    BY <1>t, <1>1 DEF Discover
  <2>2. /\ scan'["bridge"].at = "listen" /\ scan'["bridge"].remembered = Recall
        /\ scan'["stream"].at = "off"
    BY <1>0, <1>t, <2>1, ScanBeginsFacts
  <2>3. ScanInv("bridge")'
    BY <1>0, <2>1, <2>2, RecallFacts DEF ScanInv
  <2>4. AskInv'
    BY <2>1, DiscValues DEF AskInv, Unused
  <2>5. SeenInv' /\ SentToWhereItWasSeen' /\ OnlyKeptTvsAreSaved'
    BY <1>0, <2>1 DEF SeenInv, SentToWhereItWasSeen, OnlyKeptTvsAreSaved
  <2> QED
    BY <1>c, <2>2, <2>3, <2>4, <2>5 DEF DiscInv
<1>2. ASSUME NEW th \in Scanners, Listens(th) PROVE DiscInv'
  <2>1. th = "bridge" /\ scan["bridge"].at = "listen"
        /\ UNCHANGED <<file, devices, ask, owned, sentTo>>
    BY <1>0, <1>t, <1>2 DEF Listens
  <2>2. PICK found \in Heard :
          /\ seen' = seen \cup {<<t, found[t]>> : t \in {u \in Tvs : found[u] # "away"}}
          /\ scan' = [scan EXCEPT !["bridge"].at = "refresh", !["bridge"].found = found,
                                  !["bridge"].todo = ToRefresh("bridge", found)]
    BY <1>2, <2>1 DEF Listens
  <2> DEFINE old == scan["bridge"]
             rec == [old EXCEPT !.at = "refresh", !.found = found, !.todo = ToRefresh("bridge", found)]
  <2>3. scan' = [scan EXCEPT !["bridge"] = rec]
    BY <2>2
  <2>4. old \in ScanType
    BY <1>t
  <2>5. /\ rec.at = "refresh" /\ rec.found = found /\ rec.todo = ToRefresh("bridge", found)
        /\ rec.remembered = old.remembered
    BY <2>4 DEF ScanType
  <2>6. ToRefresh("bridge", found) \subseteq owned
    BY <1>0, <2>1 DEF ToRefresh, ScanInv
  <2> HIDE DEF rec
  <2>7. scan'["bridge"] = rec /\ scan'["stream"] = scan["stream"]
    BY <1>t, <2>3
  <2>8. ScanInv("bridge")'
    <3>1. \A t \in Tvs : found[t] # "away" => <<t, found[t]>> \in seen'
      BY <2>2
    <3>2. \A t \in Tvs : old.remembered[t] # "away" => t \in owned
      BY <1>0, <2>1 DEF ScanInv
    <3> QED
      BY <2>1, <2>5, <2>6, <2>7, <3>1, <3>2 DEF ScanInv
  <2>9. SeenInv' /\ SentToWhereItWasSeen' /\ OnlyKeptTvsAreSaved'
    BY <1>0, <2>1, <2>2 DEF SeenInv, SentToWhereItWasSeen, OnlyKeptTvsAreSaved
  <2>10. AskInv'
    BY <1>0, <2>1 DEF AskInv
  <2> QED
    BY <1>0, <1>c, <2>7, <2>8, <2>9, <2>10 DEF DiscInv
<1>3. ASSUME NEW th \in Scanners, ScanFails(th) PROVE DiscInv'
  <2>1. /\ th = "bridge" /\ scan["bridge"].at = "listen" /\ scan' = [scan EXCEPT !["bridge"] = NoScan]
        /\ UNCHANGED <<file, ask, seen, owned, sentTo>>
    BY <1>0, <1>t, <1>3 DEF ScanFails
  <2>2. scan'["bridge"].at = "off" /\ scan'["stream"].at = "off"
    BY <1>0, <1>t, <2>1, ScanEndsFacts
  <2>3. SeenInv'
    <3>1. CASE devices' = devices
      BY <1>0, <2>1, <3>1 DEF SeenInv
    <3>2. CASE devices' = Saved(scan["bridge"].remembered)
      <4>1. scan["bridge"].remembered \in Where
        BY <1>t DEF ScanType
      <4> QED
        BY <3>2, <4>1, SavedFacts DEF SeenInv
    <3> QED
      BY <1>3, <2>1, <3>1, <3>2 DEF ScanFails
  <2>4. AskInv'
    BY <1>0, <2>1 DEF AskInv
  <2> QED
    BY <1>0, <1>c, <2>1, <2>2, <2>3, <2>4, NoScanInv
       DEF DiscInv, SentToWhereItWasSeen, OnlyKeptTvsAreSaved
<1>4. ASSUME NEW th \in Scanners, Publishes(th) PROVE DiscInv'
  <2>1. /\ th = "bridge" /\ scan["bridge"].at = "refresh" /\ scan' = [scan EXCEPT !["bridge"] = NoScan]
        /\ UNCHANGED <<file, ask, seen, owned, sentTo>>
    BY <1>0, <1>t, <1>4 DEF Publishes
  <2>2. scan'["bridge"].at = "off" /\ scan'["stream"].at = "off"
    BY <1>0, <1>t, <2>1, ScanEndsFacts
  <2>3. SeenInv'
    <3> SUFFICES ASSUME NEW t \in Tvs, devices'[t].available
                 PROVE  <<t, devices'[t].host>> \in seen
      BY <2>1 DEF SeenInv
    <3>1. CASE scan["bridge"].found[t] = "away"
      <4>1. devices'[t] = Saved(scan["bridge"].remembered)[t]
        BY <1>4, <2>1, <3>1 DEF Publishes
      <4>2. scan["bridge"].remembered \in Where
        BY <1>t DEF ScanType
      <4> QED
        BY <4>1, <4>2, SavedFacts
    <3>2. CASE scan["bridge"].found[t] # "away"
      <4>1. devices'[t].host = scan["bridge"].found[t]
        BY <1>4, <2>1, <3>2 DEF Publishes
      <4> QED
        BY <1>0, <2>1, <3>2, <4>1 DEF ScanInv
    <3> QED
      BY <3>1, <3>2
  <2>4. AskInv'
    BY <1>0, <2>1 DEF AskInv
  <2> QED
    BY <1>0, <1>c, <2>1, <2>2, <2>3, <2>4, NoScanInv
       DEF DiscInv, SentToWhereItWasSeen, OnlyKeptTvsAreSaved
<1>5. ASSUME NEW th \in Scanners, NEW t \in Tvs, NEW ok \in BOOLEAN, Refreshes(th, t, ok)
      PROVE  DiscInv'
  <2>1. /\ th = "bridge" /\ scan["bridge"].at = "refresh" /\ t \in scan["bridge"].todo
        /\ UNCHANGED <<devices, seen, owned, sentTo>>
    BY <1>0, <1>t, <1>5 DEF Refreshes
  <2>2. OnlyKeptTvsAreSaved'
    <3>1. t \in owned /\ scan["bridge"].found[t] \in Hosts
      BY <1>0, <1>t, <2>1 DEF ScanInv, ScanType, Where
    <3>2. CASE ok
      <4>1. file' = [file EXCEPT !.at[t] = scan["bridge"].found[t]]
        BY <1>5, <2>1, <3>2 DEF Refreshes, KeepInMemory
      <4>2. /\ file'.ok = file.ok
            /\ \A u \in Tvs : file'.at[u] = IF u = t THEN scan["bridge"].found[t] ELSE file.at[u]
        BY <1>0, <3>1, <4>1, MemoryFacts
      <4> QED
        BY <1>0, <2>1, <3>1, <4>2 DEF OnlyKeptTvsAreSaved
    <3>3. CASE ~ok
      BY <1>0, <1>5, <2>1, <3>3 DEF Refreshes, KeepInMemory, OnlyKeptTvsAreSaved
    <3> QED
      BY <3>2, <3>3
  <2>3. CASE ok
    <3> DEFINE old == scan["bridge"]
               rec == [old EXCEPT !.todo = @ \ {t}]
    <3>1. scan' = [scan EXCEPT !["bridge"] = rec] /\ UNCHANGED ask
      BY <1>5, <2>1, <2>3 DEF Refreshes
    <3>2. old \in ScanType
      BY <1>t
    <3>3. /\ rec.at = old.at /\ rec.found = old.found /\ rec.remembered = old.remembered
          /\ rec.todo \subseteq old.todo
      BY <3>2 DEF ScanType
    <3> HIDE DEF rec
    <3>4. scan'["bridge"] = rec /\ scan'["stream"] = scan["stream"]
      BY <1>t, <3>1
    <3>5. ScanInv("bridge")'
      BY <1>0, <2>1, <3>3, <3>4 DEF ScanInv
    <3>6. AskInv'
      BY <1>0, <2>1, <3>1 DEF AskInv
    <3> QED
      BY <1>0, <1>c, <2>1, <2>2, <3>4, <3>5, <3>6 DEF DiscInv, SeenInv, SentToWhereItWasSeen
  <2>4. CASE ~ok
    <3>1. scan' = [scan EXCEPT !["bridge"] = NoScan] /\ ask' = NoAsk
      BY <1>5, <2>1, <2>4 DEF Refreshes
    <3>2. scan'["bridge"].at = "off" /\ scan'["stream"].at = "off"
      BY <1>0, <1>t, <3>1, ScanEndsFacts
    <3>3. AskInv'
      BY <3>1, DiscValues DEF AskInv
    <3> QED
      BY <1>0, <1>c, <2>1, <2>2, <3>2, <3>3, NoScanInv DEF DiscInv, SeenInv, SentToWhereItWasSeen
  <2> QED
    BY <2>3, <2>4
<1>6. ASSUME NEW t \in Tvs, NEW ok \in BOOLEAN, RememberDevice(t, ok) PROVE DiscInv'
  <2>1. Unused /\ UNCHANGED <<scan, ask, seen, sentTo>>
    BY <1>6 DEF RememberDevice
  <2>2. devices[t] \in DeviceType /\ devices[t].host \in Hosts
    BY <1>t DEF DeviceType
  <2>3. OnlyKeptTvsAreSaved'
    <3>1. CASE ok
      <4>1. file' = [file EXCEPT !.at[t] = devices[t].host] /\ owned' = owned \cup {t}
        BY <1>6, <3>1 DEF RememberDevice, KeepInMemory
      <4>2. /\ file'.ok = file.ok
            /\ \A u \in Tvs : file'.at[u] = IF u = t THEN devices[t].host ELSE file.at[u]
        BY <1>0, <2>2, <4>1, MemoryFacts
      <4> QED
        BY <1>0, <4>1, <4>2 DEF OnlyKeptTvsAreSaved
    <3>2. CASE ~ok
      BY <1>0, <1>6, <3>2 DEF RememberDevice, KeepInMemory, OnlyKeptTvsAreSaved
    <3> QED
      BY <3>1, <3>2
  <2>4. SeenInv'
    <3> DEFINE rec == [devices[t] EXCEPT !.known = TRUE]
    <3>1. rec.host = devices[t].host /\ rec.available = devices[t].available
      BY <2>2 DEF DeviceType
    <3>2. devices' = [devices EXCEPT ![t] = rec] \/ devices' = devices
      BY <1>6 DEF RememberDevice
    <3> HIDE DEF rec
    <3>3. \A u \in Tvs : devices'[u].host = devices[u].host
                         /\ devices'[u].available = devices[u].available
      BY <1>t, <3>1, <3>2
    <3> QED
      BY <1>0, <2>1, <3>3 DEF SeenInv
  <2>5. AskInv'
    BY <2>1, DiscValues DEF Unused, AskInv
  <2> QED
    BY <1>0, <1>c, <2>1, <2>3, <2>4, <2>5, NoScanInv DEF DiscInv, SentToWhereItWasSeen, Unused
<1>7. ASSUME NEW t \in Tvs, NEW ok \in BOOLEAN, ForgetDevice(t, ok) PROVE DiscInv'
  <2>1. Unused /\ UNCHANGED <<scan, ask, seen, sentTo>>
    BY <1>7 DEF ForgetDevice
  <2>2. devices[t] \in DeviceType /\ "away" \in Hosts
    BY <1>t DEF Hosts
  <2>3. OnlyKeptTvsAreSaved'
    <3>1. CASE ok
      <4>1. file' = [file EXCEPT !.at[t] = "away"] /\ owned' = owned \ {t}
        BY <1>7, <3>1 DEF ForgetDevice, Forget
      <4>2. /\ file'.ok = file.ok
            /\ \A u \in Tvs : file'.at[u] = IF u = t THEN "away" ELSE file.at[u]
        BY <1>0, <2>2, <4>1, MemoryFacts
      <4> QED
        BY <1>0, <4>1, <4>2 DEF OnlyKeptTvsAreSaved
    <3>2. CASE ~ok
      BY <1>0, <1>7, <3>2 DEF ForgetDevice, Forget, OnlyKeptTvsAreSaved
    <3> QED
      BY <3>1, <3>2
  <2>4. SeenInv'
    <3> DEFINE rec == [devices[t] EXCEPT !.known = FALSE]
    <3>1. rec.host = devices[t].host /\ rec.available = devices[t].available
      BY <2>2 DEF DeviceType
    <3>2. \/ devices' = [devices EXCEPT ![t] = rec] \/ devices' = devices
          \/ devices' = [devices EXCEPT ![t] = Unknown]
      BY <1>7 DEF ForgetDevice
    <3> HIDE DEF rec
    <3>3. ASSUME NEW u \in Tvs, devices'[u].available
          PROVE  devices'[u].host = devices[u].host /\ devices[u].available
      BY <1>t, <3>1, <3>2, <3>3, DiscValues
    <3> QED
      BY <1>0, <2>1, <3>3 DEF SeenInv
  <2>5. AskInv'
    BY <2>1, DiscValues DEF Unused, AskInv
  <2> QED
    BY <1>0, <1>c, <2>1, <2>3, <2>4, <2>5, NoScanInv DEF DiscInv, SentToWhereItWasSeen, Unused
<1>8. ASSUME NEW t \in Tvs, Reach(t) PROVE DiscInv'
  <2>1. Unused /\ UNCHANGED <<file, devices, seen, owned, sentTo>>
    BY <1>8 DEF Reach
  <2>2. SeenInv' /\ SentToWhereItWasSeen' /\ OnlyKeptTvsAreSaved'
    BY <1>0, <2>1 DEF SeenInv, SentToWhereItWasSeen, OnlyKeptTvsAreSaved
  <2>3. CASE devices[t].available
    <3>1. ask' = [tv |-> t, at |-> "send"] /\ scan' = scan /\ scan["bridge"].at = "off"
      BY <1>8, <2>1, <2>3 DEF Reach, Unused
    <3>2. AskInv'
      BY <2>1, <2>3, <3>1 DEF AskInv
    <3> QED
      BY <1>0, <1>c, <2>2, <3>1, <3>2, NoScanInv DEF DiscInv
  <2>4. CASE ~devices[t].available
    <3>1. ask' = [tv |-> t, at |-> "scan"] /\ ScanBegins("bridge")
      BY <1>8, <2>4 DEF Reach
    <3>2. /\ scan'["bridge"].at = "listen" /\ scan'["bridge"].remembered = Recall
          /\ scan'["stream"].at = "off"
      BY <1>0, <1>t, <3>1, ScanBeginsFacts
    <3>3. ScanInv("bridge")'
      BY <1>0, <2>1, <3>2, RecallFacts DEF ScanInv
    <3>4. AskInv'
      BY <3>1 DEF AskInv
    <3> QED
      BY <1>c, <2>2, <3>2, <3>3, <3>4 DEF DiscInv
  <2> QED
    BY <2>3, <2>4
<1>9. ASSUME NEW t \in Tvs, RecoverTv(t) PROVE DiscInv'
  <2>1. UNCHANGED <<file, devices, scan, ask, seen, owned, sentTo>>
    BY <1>9 DEF RecoverTv
  <2> QED
    BY <1>0, <1>c, <2>1, SameScan
       DEF DiscInv, SeenInv, AskInv, SentToWhereItWasSeen, OnlyKeptTvsAreSaved
<1>10. CASE FoundAgain
  <2>1. /\ UNCHANGED <<file, devices, scan, seen, owned, sentTo>>
        /\ ask.at = "scan" /\ scan["bridge"].at = "off"
    BY <1>10 DEF FoundAgain
  <2>2. AskInv'
    <3>1. CASE devices[ask.tv].available
      <4>1. ask'.at = "send" /\ ask'.tv = ask.tv
        BY <1>t, <1>10, <3>1 DEF FoundAgain, AskType
      <4> QED
        BY <1>0, <2>1, <3>1, <4>1 DEF AskInv
    <3>2. CASE ~devices[ask.tv].available
      BY <1>10, <3>2, DiscValues DEF FoundAgain, AskInv
    <3> QED
      BY <3>1, <3>2
  <2> QED
    BY <1>0, <1>c, <2>1, <2>2, SameScan DEF DiscInv, SeenInv, SentToWhereItWasSeen, OnlyKeptTvsAreSaved
<1>11. CASE Send
  <2>1. /\ UNCHANGED <<file, devices, scan, seen, owned>> /\ ask.at = "send" /\ ask' = NoAsk
        /\ sentTo' = IF devices[ask.tv].host = "away" THEN {} ELSE {<<ask.tv, devices[ask.tv].host>>}
    BY <1>11 DEF Send
  <2>2. <<ask.tv, devices[ask.tv].host>> \in seen
    BY <1>0, <2>1 DEF AskInv, SeenInv
  <2>3. SentToWhereItWasSeen'
    BY <2>1, <2>2 DEF SentToWhereItWasSeen
  <2>4. AskInv'
    BY <2>1, DiscValues DEF AskInv
  <2> QED
    BY <1>0, <1>c, <2>1, <2>3, <2>4, SameScan DEF DiscInv, SeenInv, OnlyKeptTvsAreSaved
<1>12. CASE NetMoves
  <2>1. UNCHANGED <<file, devices, scan, ask, seen, owned, sentTo>>
    BY <1>12 DEF NetMoves
  <2> QED
    BY <1>0, <1>c, <2>1, SameScan
       DEF DiscInv, SeenInv, AskInv, SentToWhereItWasSeen, OnlyKeptTvsAreSaved
<1>13. CASE MemoryBreaks
  <2>1. UNCHANGED <<devices, scan, ask, seen, owned, sentTo>> /\ file' = [file EXCEPT !.ok = FALSE]
    BY <1>13 DEF MemoryBreaks
  <2>2. ~file'.ok
    BY <1>t, <2>1
  <2> QED
    BY <1>0, <1>c, <2>1, <2>2, SameScan
       DEF DiscInv, SeenInv, AskInv, SentToWhereItWasSeen, OnlyKeptTvsAreSaved
<1> QED
  BY <1>1, <1>2, <1>3, <1>4, <1>5, <1>6, <1>7, <1>8, <1>9, <1>10, <1>11, <1>12, <1>13
     DEF DiscoveryNext

(* The memory as it was, nothing scanned, cached or sent.                  *)
LEMMA DiscInit ==
    ASSUME DiscoveryInit
    PROVE  DiscInv /\ CastInv
<1> USE DiscoveryAssumption
<1>1. PICK at \in Where :
         file = [ok |-> TRUE, at |-> at] /\ devices = Saved(at) /\ owned = {t \in Tvs : at[t] # "away"}
  BY DEF DiscoveryInit, Where, Hosts
<1>2. /\ scan = [t \in Scanners |-> NoScan] /\ ask = NoAsk /\ casts = [t \in Tvs |-> 0]
      /\ browser = 0 /\ alive = {} /\ scans = 0 /\ seen = {} /\ sentTo = {} /\ net \in Where
  BY DEF DiscoveryInit, Where, Hosts
<1>3. DiscTypes
  <2>1. file \in [ok : BOOLEAN, at : Where] /\ devices \in [Tvs -> DeviceType] /\ owned \subseteq Tvs
    BY <1>1, SavedFacts
  <2>2. /\ scan \in [Scanners -> ScanType] /\ ask \in AskType /\ casts \in [Tvs -> 0..MaxScans]
        /\ browser \in 0..MaxScans /\ scans \in 0..MaxScans
    BY <1>2, DiscValues
  <2> QED
    BY <1>2, <2>1, <2>2 DEF DiscTypes
<1>4. CastsHaveTheirBrowser
  BY <1>2 DEF CastsHaveTheirBrowser
<1>5. scan["stream"].at = "off" /\ scan["bridge"].at = "off" /\ ask.at = "free"
  BY <1>2, DiscValues DEF Scanners
<1>6. SeenInv
  BY <1>1, SavedFacts DEF SeenInv
<1>7. OnlyKeptTvsAreSaved
  BY <1>1 DEF OnlyKeptTvsAreSaved
<1> QED
  BY <1>2, <1>3, <1>4, <1>5, <1>6, <1>7 DEF DiscInv, CastInv, ScanInv, AskInv, SentToWhereItWasSeen

(* The cached Chromecasts have their browser, and nothing of an older scan *)
(* is left connected, for any TVs and any number of scans, failures and    *)
(* moves, with a stream's scan beside the requests or not                  *)
(* (PyChromecastTransport._discover, _ready).                              *)
THEOREM CastsAndBrowser == DiscoverySpec => []CastsHaveTheirBrowser
<1>1. CastInv /\ [DiscoveryNext]_yvars => CastInv'
  <2>1. CASE DiscoveryNext
    BY <2>1, CastStep
  <2>2. CASE UNCHANGED yvars
    BY <2>2 DEF yvars, CastInv, DiscTypes, CastsHaveTheirBrowser
  <2> QED
    BY <2>1, <2>2
<1>2. CastInv => CastsHaveTheirBrowser
  BY DEF CastInv
<1>3. DiscoveryInit => CastInv
  BY DiscInit
<1> QED
  BY <1>1, <1>2, <1>3, PTL DEF DiscoverySpec

(* Without a scan of the stream's thread, a request is sent only where its *)
(* TV announced itself to this process, and the memory holds only TVs the  *)
(* owner kept (ControlService.discover_devices, _reachable, _found_again,  *)
(* DeviceMemory).                                                          *)
THEOREM DiscoveryCurrent ==
    ASSUME Beside = FALSE
    PROVE  DiscoverySpec => []DiscoveryIsCurrent
<1>1. DiscInv /\ [DiscoveryNext]_yvars => DiscInv'
  <2>1. CASE DiscoveryNext
    BY <2>1, DiscStep
  <2>2. CASE UNCHANGED yvars
    BY <2>2 DEF yvars, DiscInv, DiscTypes, CastsHaveTheirBrowser, ScanInv, SeenInv, AskInv,
                SentToWhereItWasSeen, OnlyKeptTvsAreSaved
  <2> QED
    BY <2>1, <2>2
<1>2. DiscInv => DiscoveryIsCurrent
  <2> SUFFICES ASSUME DiscInv PROVE DiscoveryIsCurrent
    OBVIOUS
  <2>1. DiscoveryTypeOK
    BY DEF DiscInv, DiscTypes, DiscoveryTypeOK, Where, Hosts, DeviceType, ScanType, AskType
  <2> QED
    BY <2>1 DEF DiscInv, DiscoveryIsCurrent
<1>3. DiscoveryInit => DiscInv
  BY DiscInit
<1> QED
  BY <1>1, <1>2, <1>3, PTL DEF DiscoverySpec

-----------------------------------------------------------------------------
(* AppLaunch: one request, the ways it tries and the answers that come     *)

ReqType ==
    [n : 0..MaxRequests, op : Ops \cup {"none"}, at : AppSteps, early : BOOLEAN,
     saw : BOOLEAN, way : {"receiver", "fallback", "adb"}, reads : 0..FrontReads,
     result : {"none", "started", "sent", "rejected", "refusal", "failed", "listed",
               "unknown", "absent", "present", "confirmed"},
     front : BOOLEAN, answered : BOOLEAN]

BeforeShot == {"look", "link", "resolve", "adb_launch"}
AfterShot == {"early", "grace", "wait", "final", "last", "read", "adb_front"}

(* Which request is where.                                                 *)
PlaceInv ==
    /\ req.at # "idle" => req.n \in Requests /\ req.reads < FrontReads
    /\ req.at \in (BeforeShot \cup AfterShot) \ {"link"} => req.op = "launch"
    /\ req.at \in {"code", "connect"} => req.op = "pair"
    /\ req.at \in {"status", "remote"} => req.op = "probe"
    /\ req.at \in {"partial", "replace"} => req.op = "browse"
    /\ req.at = "grace" => req.saw
    /\ req.at = "read" => heard = "started"

(* What has left, and has not.                                             *)
ShotInv ==
    /\ \A n \in Requests : shots[n] <= 1 /\ (n > req.n => shots[n] = 0)
    /\ req.op = "launch" /\ req.at \in BeforeShot => shots[req.n] = 0
    /\ req.at = "code" => shots[req.n] = 0
    /\ req.at \in AfterShot => shots[req.n] > 0

(* An answer was given once, to a link that left, and says what was done.  *)
AnswerInv ==
    /\ \A n \in Requests :
         /\ <<n, "launch">> \in links =>
              shots[n] > 0 /\ n \notin began /\ \A says \in LaunchResults : <<n, says>> \notin posts
         /\ n \in began => shots[n] > 0
         /\ \A says \in LaunchResults :
              <<n, says>> \in posts => shots[n] > 0 /\ (says = "started" <=> n \in began)
    /\ posts # {} => installed
    /\ heard # "none" => <<req.n, heard>> \in posts
    /\ heard # "none" => (heard = "apps" <=> req.op # "launch")
    /\ req.op = "launch" /\ req.at = "idle" /\ req.answered =>
         \E says \in LaunchResults : /\ <<req.n, says>> \in posts
                                     /\ req.result = "started" <=> says = "started"

(* An app seen in front was there after the launch left.                   *)
FrontInv ==
    req.op = "launch" =>
        /\ req.n \in Requests /\ shots[req.n] > 0 /\ inFront => shown
        /\ req.at \in {"look", "link"} => ~req.saw
        /\ req.saw => shown
        /\ req.at = "idle" /\ req.front => shown

(* What a probe found out.                                                 *)
ProbeInv ==
    req.op = "probe" =>
        /\ req.at = "remote" => installed
        /\ req.saw => ~installed
        /\ req.at = "idle" /\ req.result = "absent" => ~installed
        /\ req.at = "idle" /\ req.result \in {"present", "confirmed"} => installed

AppInv ==
    AppTypeOK /\ PlaceInv /\ ShotInv /\ AnswerInv /\ FrontInv /\ ProbeInv /\ KeptListIsWhole

(* The type invariant, with the record set named.                          *)
LEMMA AppTypes ==
    AppTypeOK <=>
        /\ req \in ReqType /\ heard \in LaunchResults \cup {"none", "apps"}
        /\ links \subseteq (Requests \X {"launch", "browse"})
        /\ posts \subseteq (Requests \X (LaunchResults \cup {"apps"}))
        /\ time \in {"ample", "last", "over"} /\ inFront \in BOOLEAN /\ installed \in BOOLEAN
        /\ list \in [file : Lists, partial : Lists]
        /\ began \subseteq Requests /\ shown \in BOOLEAN /\ shots \in [Requests -> 0..2]
  BY DEF AppTypeOK, ReqType

(* A step of the request that sends no launch, and hears nothing new.      *)
Calm ==
    /\ UNCHANGED <<heard, posts, inFront, installed, began, shown, shots>>
    /\ time' \in {"ample", "last", "over"}
    /\ list' \in [file : Lists, partial : Lists] /\ list'.file # "broken"
    /\ links' \subseteq (Requests \X {"launch", "browse"})
    /\ \A n \in Requests : <<n, "launch">> \in links' => <<n, "launch">> \in links

(* Most steps of a request change nothing else.                            *)
LEMMA QuietIsCalm ==
    ASSUME AppInv, Quiet
    PROVE  Calm
  BY AppTypes DEF AppInv, KeptListIsWhole, Quiet, Env, Ghosts, Calm

(* What Goes and Ended leave in the request.                               *)
LEMMA GoesFacts ==
    ASSUME AppInv, NEW a \in AppSteps, Goes(a)
    PROVE  /\ req' \in ReqType /\ req'.n = req.n /\ req'.op = req.op /\ req'.at = a
           /\ req'.saw = req.saw /\ req'.reads = req.reads
<1>1. req \in ReqType
  BY AppTypes DEF AppInv
<1> QED
  BY <1>1 DEF Goes, ReqType

(* The results a request may end with.                                     *)
AppResults == {"none", "started", "sent", "rejected", "refusal", "failed", "listed",
               "unknown", "absent", "present", "confirmed"}

(* The request that ended.                                                 *)
LEMMA EndedFacts ==
    ASSUME AppInv, NEW res \in AppResults, NEW f \in BOOLEAN, NEW a \in BOOLEAN, Ended(res, f, a)
    PROVE  /\ req' \in ReqType /\ req'.n = req.n /\ req'.op = req.op /\ req'.at = "idle"
           /\ req'.saw = req.saw /\ req'.result = res /\ req'.front = f /\ req'.answered = a
<1>1. req \in ReqType /\ "idle" \in AppSteps
  BY AppTypes DEF AppInv, AppSteps
<1> QED
  BY <1>1 DEF Ended, ReqType, AppResults

(* The request goes on, or stays where it is.                              *)
LEMMA AppMovesInv ==
    ASSUME AppInv, Calm, req' \in ReqType, req'.n = req.n, req'.op = req.op,
           req.at # "idle", req'.at # "idle", req'.reads < FrontReads,
           req'.at \in AfterShot => req.at \in AfterShot,
           req'.at \in {"resolve", "adb_launch"} =>
              req.at \in {"resolve", "adb_launch"} \/ (req.at = "link" /\ req.op = "launch"),
           req'.at = "link" => req.op # "launch" \/ (req.at = "look" /\ ~req'.saw),
           req'.at \notin {"look", "code", "status"},
           req'.at = "connect" => req.op = "pair",
           req'.at = "remote" => req.op = "probe" /\ installed,
           req'.at \in {"partial", "replace"} => req.op = "browse",
           req'.at = "grace" => req'.saw,
           req'.at = "read" => heard = "started",
           req'.saw /\ req.op = "launch" => shown,
           req'.saw /\ req.op = "probe" => ~installed
    PROVE  AppInv'
<1>0. AppTypeOK /\ PlaceInv /\ ShotInv /\ AnswerInv /\ FrontInv /\ ProbeInv
      /\ UNCHANGED <<heard, posts, inFront, installed, began, shown, shots>>
  BY DEF AppInv, Calm
<1>1. AppTypeOK'
  <2>1. /\ heard' \in LaunchResults \cup {"none", "apps"}
        /\ posts' \subseteq (Requests \X (LaunchResults \cup {"apps"}))
        /\ inFront' \in BOOLEAN /\ installed' \in BOOLEAN
        /\ began' \subseteq Requests /\ shown' \in BOOLEAN /\ shots' \in [Requests -> 0..2]
    BY <1>0, AppTypes
  <2> QED
    BY <2>1 DEF Calm, AppTypeOK, ReqType
<1>2. PlaceInv'
  BY <1>0 DEF PlaceInv, BeforeShot, AfterShot
<1>3. ShotInv'
  BY <1>0 DEF ShotInv, PlaceInv, BeforeShot, AfterShot
<1>4. AnswerInv'
  BY <1>0 DEF AnswerInv, Calm
<1>5. FrontInv'
  BY <1>0 DEF FrontInv
<1>6. ProbeInv'
  BY <1>0 DEF ProbeInv
<1> QED
  BY <1>1, <1>2, <1>3, <1>4, <1>5, <1>6 DEF AppInv, KeptListIsWhole, Calm

(* The request ends, and says what it may say.                             *)
LEMMA AppEndsInv ==
    ASSUME AppInv, Calm, req.at # "idle",
           NEW res \in AppResults, NEW f \in BOOLEAN, NEW a \in BOOLEAN, Ended(res, f, a),
           req.op = "launch" /\ f => shown,
           req.op = "launch" /\ a => heard # "none" /\ (res = "started" <=> heard = "started"),
           req.op = "probe" /\ res = "absent" => ~installed,
           req.op = "probe" /\ res \in {"present", "confirmed"} => installed
    PROVE  AppInv'
<1>0. AppTypeOK /\ PlaceInv /\ ShotInv /\ AnswerInv /\ FrontInv /\ ProbeInv
      /\ UNCHANGED <<heard, posts, inFront, installed, began, shown, shots>>
  BY DEF AppInv, Calm
<1>e. /\ req' \in ReqType /\ req'.n = req.n /\ req'.op = req.op /\ req'.at = "idle"
      /\ req'.saw = req.saw /\ req'.result = res /\ req'.front = f /\ req'.answered = a
  BY EndedFacts
<1>1. AppTypeOK'
  <2>1. /\ heard' \in LaunchResults \cup {"none", "apps"}
        /\ posts' \subseteq (Requests \X (LaunchResults \cup {"apps"}))
        /\ inFront' \in BOOLEAN /\ installed' \in BOOLEAN
        /\ began' \subseteq Requests /\ shown' \in BOOLEAN /\ shots' \in [Requests -> 0..2]
    BY <1>0, AppTypes
  <2> QED
    BY <1>e, <2>1 DEF Calm, AppTypeOK, ReqType
<1>2. PlaceInv'
  BY <1>0, <1>e DEF PlaceInv, BeforeShot, AfterShot
<1>3. ShotInv'
  BY <1>0, <1>e DEF ShotInv, PlaceInv, BeforeShot, AfterShot
<1>4. AnswerInv'
  <2>1. ASSUME req.op = "launch", a
        PROVE  \E says \in LaunchResults : /\ <<req.n, says>> \in posts
                                           /\ res = "started" <=> says = "started"
    <3>1. heard \in LaunchResults /\ <<req.n, heard>> \in posts
      BY <1>0, <2>1, AppTypes DEF AnswerInv
    <3> QED
      BY <2>1, <3>1
  <2> QED
    BY <1>0, <1>e, <2>1 DEF AnswerInv, Calm
<1>5. FrontInv'
  BY <1>0, <1>e DEF FrontInv
<1>6. ProbeInv'
  BY <1>0, <1>e DEF ProbeInv
<1> QED
  BY <1>1, <1>2, <1>3, <1>4, <1>5, <1>6 DEF AppInv, KeptListIsWhole, Calm

(* The request itself is where it was.                                     *)
LEMMA SameReqInv ==
    ASSUME AppInv, Calm, UNCHANGED req
    PROVE  AppInv'
<1>1. AppTypeOK'
  BY DEF AppInv, AppTypeOK, Calm
<1>2. AnswerInv'
  BY DEF AppInv, AnswerInv, Calm
<1> QED
  BY <1>1, <1>2 DEF AppInv, PlaceInv, ShotInv, FrontInv, ProbeInv, KeptListIsWhole, Calm

(* A request that ends without saying anything of the app.                 *)
LEMMA EndsPlainly ==
    ASSUME AppInv, Calm, req.at # "idle",
           NEW res \in AppResults \ {"absent", "present", "confirmed"}, Ended(res, FALSE, FALSE)
    PROVE  AppInv'
  BY AppEndsInv DEF AppResults

(* The failure of a request, by either way.                                *)
LEMMA FailsPlainly ==
    ASSUME AppInv, Calm, req.at # "idle", AdbFails
    PROVE  AppInv'
<1>1. \E res \in {"refusal", "failed"} : Ended(res, FALSE, FALSE)
  BY DEF AdbFails
<1> QED
  BY <1>1, EndsPlainly DEF AppResults

(* A way fails: only a refusal before anything left tries the next one.    *)
LEMMA FallBackInv ==
    ASSUME AppInv, Calm, req.at # "idle", NEW why, FallBack(why),
           why = "refusal" => req.at = "link" /\ req.op = "launch"
    PROVE  AppInv'
<1>1. CASE why = "refusal"
  <2>1. req' = [req EXCEPT !.at = "resolve", !.way = "fallback"] /\ req \in ReqType
    BY <1>1, AppTypes DEF FallBack, AppInv
  <2>2. /\ req' \in ReqType /\ req'.n = req.n /\ req'.op = req.op /\ req'.at = "resolve"
        /\ req'.saw = req.saw /\ req'.reads = req.reads
    BY <2>1 DEF ReqType, AppSteps
  <2>3. req.reads < FrontReads /\ ~req.saw
    BY <1>1 DEF AppInv, PlaceInv, FrontInv
  <2> QED
    BY <1>1, <2>2, <2>3, AppMovesInv DEF AfterShot
<1>2. CASE why # "refusal"
  BY <1>2, EndsPlainly DEF FallBack, AppResults
<1> QED
  BY <1>1, <1>2

(* The receiver answered this launch.                                      *)
LEMMA AnswerGiven ==
    ASSUME AppInv, Calm, req.at \in {"early", "grace", "last"}, heard # "none", Answer(heard)
    PROVE  AppInv'
<1>0. req.op = "launch" /\ (req.saw => shown) /\ req.reads < FrontReads /\ req.at \in AfterShot
      /\ req.at # "idle"
  BY DEF AppInv, PlaceInv, FrontInv, AfterShot
<1>1. CASE heard # "started"
  BY <1>0, <1>1, AppEndsInv DEF Answer, AppResults
<1>2. CASE heard = "started" /\ req.saw
  BY <1>0, <1>2, AppEndsInv DEF Answer, AppResults
<1>3. CASE heard = "started" /\ ~req.saw
  <2>1. Goes("read") /\ "read" \in AppSteps
    BY <1>3 DEF Answer, AppSteps
  <2>2. /\ req' \in ReqType /\ req'.n = req.n /\ req'.op = req.op /\ req'.at = "read"
        /\ req'.saw = req.saw /\ req'.reads = req.reads
    BY <2>1, GoesFacts
  <2> QED
    BY <1>0, <1>3, <2>2, AppMovesInv
<1> QED
  BY <1>1, <1>2, <1>3

-----------------------------------------------------------------------------
(* The steps of a request                                                  *)

(* A new request: its number was never used.                               *)
LEMMA BeginInv ==
    ASSUME AppInv, NEW op \in Ops, NEW way \in {"receiver", "adb"}, NEW at, Begin(op, way, at),
           \/ op = "launch" /\ at \in {"look", "resolve"}
           \/ op = "pair" /\ at = "code"
           \/ op = "browse" /\ at = "adb_list"
           \/ op = "probe" /\ at = "status"
    PROVE  AppInv'
<1> USE AppAssumption
<1>0. /\ AppTypeOK /\ PlaceInv /\ ShotInv /\ AnswerInv /\ FrontInv /\ ProbeInv /\ KeptListIsWhole
      /\ req \in ReqType /\ req.n < MaxRequests /\ at \in AppSteps
      /\ UNCHANGED <<list, links, posts, inFront, installed, began, shots>>
      /\ heard' = "none" /\ time' = "ample" /\ shown' = FALSE
      /\ req' = [n |-> req.n + 1, op |-> op, at |-> at, early |-> FALSE, saw |-> FALSE,
                 way |-> way, reads |-> 0, result |-> "none", front |-> FALSE, answered |-> FALSE]
  BY AppTypes DEF AppInv, Begin, Env, AppSteps
<1>1. req.n \in 0..MaxRequests
  BY <1>0 DEF ReqType
<1>2. /\ req'.n = req.n + 1 /\ req'.op = op /\ req'.at = at /\ req'.saw = FALSE /\ req'.reads = 0
      /\ req'.front = FALSE /\ req'.answered = FALSE
  BY <1>0
<1>3. req.n + 1 \in Requests /\ 0 < FrontReads
  BY <1>0, <1>1 DEF Requests
<1>4. req' \in ReqType
  <2>1. req.n + 1 \in 0..MaxRequests /\ 0 \in 0..FrontReads
    BY <1>0, <1>1
  <2> QED
    BY <1>0, <2>1 DEF ReqType
<1>5. AppTypeOK'
  BY <1>0, <1>4 DEF AppTypeOK, ReqType
<1>6. shots[req.n + 1] = 0
  BY <1>0, <1>1, <1>3 DEF ShotInv
<1>7. PlaceInv'
  BY <1>2, <1>3 DEF PlaceInv, BeforeShot, AfterShot
<1>8. ShotInv'
  <2>1. ASSUME NEW n \in Requests, n > req'.n PROVE shots[n] = 0
    <3>1. n \in Nat /\ n > req.n
      BY <1>1, <1>2, <2>1 DEF Requests
    <3> QED
      BY <1>0, <3>1 DEF ShotInv
  <2> QED
    BY <1>0, <1>2, <1>6, <2>1 DEF ShotInv, AfterShot
<1>9. AnswerInv'
  <2>1. at # "idle"
    OBVIOUS
  <2> QED
    BY <1>0, <1>2, <2>1 DEF AnswerInv
<1>10. FrontInv'
  BY <1>0, <1>2, <1>6 DEF FrontInv
<1>11. ProbeInv'
  BY <1>2 DEF ProbeInv
<1> QED
  BY <1>0, <1>5, <1>7, <1>8, <1>9, <1>10, <1>11 DEF AppInv, KeptListIsWhole

(* What a launch that leaves changes: its count, once.                     *)
LEMMA ShotFacts ==
    ASSUME AppInv, req.n \in Requests, shots[req.n] = 0, Shot
    PROVE  /\ shots' \in [Requests -> 0..2] /\ shots'[req.n] = 1
           /\ \A n \in Requests : n # req.n => shots'[n] = shots[n]
<1>1. shots \in [Requests -> 0..2]
  BY AppTypes DEF AppInv
<1> QED
  BY <1>1 DEF Shot

(* The app in front before the launch.                                     *)
LEMMA LookBeforeInv ==
    ASSUME AppInv, LookBefore
    PROVE  AppInv'
<1>0. Calm /\ req.at = "look" /\ req \in ReqType /\ inFront \in BOOLEAN
  BY QuietIsCalm, AppTypes DEF LookBefore, AppInv, Quiet
<1>1. PICK e \in {~inFront, FALSE} : req' = [req EXCEPT !.at = "link", !.early = e]
  BY DEF LookBefore
<1>2. e \in BOOLEAN
  BY <1>0
<1>3. /\ req' \in ReqType /\ req'.n = req.n /\ req'.op = req.op /\ req'.at = "link"
      /\ req'.saw = req.saw /\ req'.reads = req.reads
  BY <1>0, <1>1, <1>2 DEF ReqType, AppSteps
<1>4. req.op = "launch" /\ ~req.saw /\ req.reads < FrontReads
  BY <1>0 DEF AppInv, PlaceInv, FrontInv, BeforeShot, AfterShot
<1> QED
  BY <1>0, <1>3, <1>4, AppMovesInv DEF AfterShot

(* The link leaves, at most once, or the way fails before.                 *)
LEMMA OpenLinkInv ==
    ASSUME AppInv, OpenLink
    PROVE  AppInv'
<1> USE AppAssumption
<1>0. /\ req.at = "link" /\ req.op = "launch" /\ req \in ReqType /\ req.n \in Requests
      /\ AppTypeOK /\ PlaceInv /\ ShotInv /\ AnswerInv /\ FrontInv /\ KeptListIsWhole
      /\ shots[req.n] = 0 /\ ~req.saw /\ req.reads < FrontReads
  BY AppTypes DEF OpenLink, AppInv, PlaceInv, ShotInv, FrontInv, BeforeShot
<1>1. CASE FallBack("refusal") /\ Quiet
  BY <1>0, <1>1, QuietIsCalm, FallBackInv
<1>2. CASE FallBack("failed") /\ Quiet
  BY <1>0, <1>2, QuietIsCalm, FallBackInv
<1>3. CASE /\ Shot /\ shown' = inFront
           /\ links' = links \cup {<<req.n, "launch">>}
           /\ Goes(IF req.early THEN "early" ELSE "wait") \/ FallBack("failed")
           /\ UNCHANGED <<heard, time, list, posts, inFront, installed, began>>
  <2>1. /\ shots' \in [Requests -> 0..2] /\ shots'[req.n] = 1
        /\ \A n \in Requests : n # req.n => shots'[n] = shots[n]
    BY <1>0, <1>3, ShotFacts
  <2>2. /\ req' \in ReqType /\ req'.n = req.n /\ req'.op = req.op /\ req'.saw = req.saw
        /\ \/ req'.at \in {"early", "wait"} /\ req'.reads = req.reads
           \/ req'.at = "idle" /\ req'.front = FALSE /\ req'.answered = FALSE
    <3>1. CASE Goes(IF req.early THEN "early" ELSE "wait")
      <4>1. PICK a \in {"early", "wait"} : Goes(a)
        BY <3>1
      <4> QED
        BY <4>1, GoesFacts DEF AppSteps
    <3>2. CASE FallBack("failed")
      BY <3>2, EndedFacts DEF FallBack, AppResults
    <3> QED
      BY <1>3, <3>1, <3>2
  <2>3. AppTypeOK'
    <3>1. links' \subseteq (Requests \X {"launch", "browse"}) /\ shown' \in BOOLEAN
      BY <1>0, <1>3, AppTypes
    <3> QED
      BY <1>0, <1>3, <2>1, <2>2, <3>1 DEF AppTypeOK, ReqType
  <2>4. PlaceInv'
    BY <1>0, <2>2 DEF PlaceInv, BeforeShot, AfterShot
  <2>5. ShotInv'
    <3>1. \A n \in Requests : shots'[n] <= 1 /\ (n > req'.n => shots'[n] = 0)
      BY <1>0, <2>1, <2>2 DEF ShotInv, Requests
    <3>2. req'.at \notin BeforeShot /\ req'.at # "code"
      BY <2>2 DEF BeforeShot
    <3> QED
      BY <2>1, <2>2, <3>1, <3>2 DEF ShotInv
  <2>6. AnswerInv'
    <3>1. ASSUME NEW n \in Requests
          PROVE  /\ <<n, "launch">> \in links' =>
                      shots'[n] > 0 /\ n \notin began /\ \A says \in LaunchResults : <<n, says>> \notin posts
                 /\ n \in began => shots'[n] > 0
                 /\ \A says \in LaunchResults :
                      <<n, says>> \in posts => shots'[n] > 0 /\ (says = "started" <=> n \in began)
      <4>1. CASE n = req.n
        BY <1>0, <2>1, <4>1 DEF AnswerInv
      <4>2. CASE n # req.n
        <5>1. <<n, "launch">> \in links' => <<n, "launch">> \in links
          BY <1>3, <4>2
        <5> QED
          BY <1>0, <2>1, <4>2, <5>1 DEF AnswerInv
      <4> QED
        BY <4>1, <4>2
    <3>2. /\ posts # {} => installed
          /\ heard # "none" => <<req.n, heard>> \in posts
          /\ heard # "none" => (heard = "apps" <=> req.op # "launch")
      BY <1>0 DEF AnswerInv
    <3> QED
      BY <1>3, <2>2, <3>1, <3>2 DEF AnswerInv
  <2>7. FrontInv'
    BY <1>0, <1>3, <2>2 DEF FrontInv
  <2>8. ProbeInv'
    BY <1>0, <2>2 DEF ProbeInv
  <2> QED
    BY <1>0, <1>3, <2>3, <2>4, <2>5, <2>6, <2>7, <2>8 DEF AppInv, KeptListIsWhole
<1> QED
  BY <1>1, <1>2, <1>3 DEF OpenLink

(* The app in front is polled while the answer is awaited.                 *)
LEMMA PollEarlyInv ==
    ASSUME AppInv, PollEarly
    PROVE  AppInv'
<1>0. Calm /\ req.at = "early" /\ req \in ReqType /\ inFront \in BOOLEAN
  BY QuietIsCalm, AppTypes DEF PollEarly, AppInv
<1>1. /\ req.op = "launch" /\ req.reads < FrontReads /\ (inFront => shown)
  BY <1>0 DEF AppInv, PlaceInv, ShotInv, FrontInv, AfterShot
<1>2. CASE heard # "none" /\ Answer(heard)
  BY <1>0, <1>2, AnswerGiven
<1>3. CASE FallBack("failed")
  BY <1>0, <1>3, FallBackInv
<1>4. CASE req' = [req EXCEPT !.at = "grace", !.saw = TRUE] /\ inFront
  <2>1. /\ req' \in ReqType /\ req'.n = req.n /\ req'.op = req.op /\ req'.at = "grace"
        /\ req'.saw = TRUE /\ req'.reads = req.reads
    BY <1>0, <1>4 DEF ReqType, AppSteps
  <2> QED
    BY <1>0, <1>1, <1>4, <2>1, AppMovesInv DEF AfterShot
<1>5. CASE UNCHANGED req
  BY <1>0, <1>5, SameReqInv
<1> QED
  BY <1>0, <1>2, <1>3, <1>4, <1>5 DEF PollEarly

(* An answer goes before the observation.                                  *)
LEMMA GraceInv ==
    ASSUME AppInv, GraceForAnswer
    PROVE  AppInv'
<1>0. Calm /\ req.at = "grace" /\ req.at # "idle"
  BY QuietIsCalm DEF GraceForAnswer
<1>1. CASE heard # "none" /\ Answer(heard)
  BY <1>0, <1>1, AnswerGiven
<1>2. CASE Ended("started", TRUE, FALSE) /\ req.saw
  <2>1. req.op = "launch" /\ shown
    BY <1>0, <1>2 DEF AppInv, PlaceInv, FrontInv, AfterShot
  <2> QED
    BY <1>0, <1>2, <2>1, AppEndsInv DEF AppResults
<1>3. CASE FallBack("failed")
  BY <1>0, <1>3, FallBackInv
<1>4. req.saw
  BY <1>0 DEF AppInv, PlaceInv
<1> QED
  BY <1>1, <1>2, <1>3, <1>4 DEF GraceForAnswer

(* The wait for the answer is over.                                        *)
LEMMA WaitInv ==
    ASSUME AppInv, WaitForAnswer
    PROVE  AppInv'
<1>0. Calm /\ req.at = "wait" /\ Goes("final") /\ "final" \in AppSteps
  BY QuietIsCalm DEF WaitForAnswer, AppSteps
<1>1. /\ req.op = "launch" /\ req.reads < FrontReads /\ (req.saw => shown)
  BY <1>0 DEF AppInv, PlaceInv, FrontInv, AfterShot
<1>2. /\ req' \in ReqType /\ req'.n = req.n /\ req'.op = req.op /\ req'.at = "final"
      /\ req'.saw = req.saw /\ req'.reads = req.reads
  BY <1>0, GoesFacts
<1> QED
  BY <1>0, <1>1, <1>2, AppMovesInv DEF AfterShot

(* One look near the end.                                                  *)
LEMMA FinalLookInv ==
    ASSUME AppInv, FinalLook
    PROVE  AppInv'
<1>0. Calm /\ req.at = "final" /\ req \in ReqType /\ inFront \in BOOLEAN /\ "last" \in AppSteps
  BY QuietIsCalm, AppTypes DEF FinalLook, AppInv, AppSteps
<1>1. /\ req.op = "launch" /\ req.reads < FrontReads /\ (inFront => shown) /\ (req.saw => shown)
  BY <1>0 DEF AppInv, PlaceInv, ShotInv, FrontInv, AfterShot
<1>2. CASE \E saw \in {inFront, FALSE} : req' = [req EXCEPT !.at = "last", !.saw = saw]
  <2>1. PICK saw \in {inFront, FALSE} : req' = [req EXCEPT !.at = "last", !.saw = saw]
    BY <1>2
  <2>2. saw \in BOOLEAN /\ (saw => shown)
    <3>1. CASE saw = inFront
      BY <1>0, <1>1, <3>1
    <3>2. CASE saw = FALSE
      BY <3>2
    <3> QED
      BY <3>1, <3>2
  <2>3. /\ req' \in ReqType /\ req'.n = req.n /\ req'.op = req.op /\ req'.at = "last"
        /\ req'.saw = saw /\ req'.reads = req.reads
    BY <1>0, <2>1, <2>2 DEF ReqType
  <2> QED
    BY <1>0, <1>1, <2>2, <2>3, AppMovesInv DEF AfterShot
<1>3. CASE Goes("last")
  <2>1. /\ req' \in ReqType /\ req'.n = req.n /\ req'.op = req.op /\ req'.at = "last"
        /\ req'.saw = req.saw /\ req'.reads = req.reads
    BY <1>0, <1>3, GoesFacts
  <2> QED
    BY <1>0, <1>1, <2>1, AppMovesInv DEF AfterShot
<1> QED
  BY <1>2, <1>3 DEF FinalLook

(* The last wait.                                                          *)
LEMMA LastWaitInv ==
    ASSUME AppInv, LastWait
    PROVE  AppInv'
<1>0. Calm /\ req.at = "last" /\ req.at # "idle"
  BY QuietIsCalm DEF LastWait
<1>1. req.op = "launch" /\ (req.saw => shown)
  BY <1>0 DEF AppInv, PlaceInv, FrontInv, AfterShot
<1>2. CASE heard # "none" /\ Answer(heard)
  BY <1>0, <1>2, AnswerGiven
<1>3. CASE Ended("started", TRUE, FALSE) /\ req.saw
  BY <1>0, <1>1, <1>3, AppEndsInv DEF AppResults
<1>4. CASE FallBack("failed")
  BY <1>0, <1>4, FallBackInv
<1> QED
  BY <1>2, <1>3, <1>4 DEF LastWait

(* The receiver said started: the app in front is read in the time left.   *)
LEMMA ReadFrontInv ==
    ASSUME AppInv, ReadFront
    PROVE  AppInv'
<1>0. Calm /\ req.at = "read" /\ req.at # "idle" /\ inFront \in BOOLEAN
  BY QuietIsCalm, AppTypes DEF ReadFront, AppInv
<1>1. req.op = "launch" /\ heard = "started" /\ (inFront => shown)
  BY <1>0 DEF AppInv, PlaceInv, ShotInv, FrontInv, AfterShot
<1>2. PICK saw \in {inFront /\ time # "over", FALSE} : Ended("started", saw, TRUE)
  BY DEF ReadFront
<1>3. saw \in BOOLEAN /\ (saw => shown)
  BY <1>0, <1>1
<1> QED
  BY <1>0, <1>1, <1>2, <1>3, AppEndsInv DEF AppResults

(* The TV's debugging: one connection, or none.                            *)
LEMMA ResolveInv ==
    ASSUME AppInv, ResolveAdb
    PROVE  AppInv'
<1>0. Calm /\ req.at = "resolve" /\ req.at # "idle" /\ "adb_launch" \in AppSteps
  BY QuietIsCalm DEF ResolveAdb, AppSteps
<1>1. CASE AdbFails
  BY <1>0, <1>1, FailsPlainly
<1>2. CASE Goes("adb_launch")
  <2>1. /\ req' \in ReqType /\ req'.n = req.n /\ req'.op = req.op /\ req'.at = "adb_launch"
        /\ req'.saw = req.saw /\ req'.reads = req.reads
    BY <1>0, <1>2, GoesFacts
  <2>2. req.op = "launch" /\ req.reads < FrontReads /\ (req.saw => shown)
    BY <1>0 DEF AppInv, PlaceInv, FrontInv, BeforeShot
  <2> QED
    BY <1>0, <2>1, <2>2, AppMovesInv DEF AfterShot
<1> QED
  BY <1>1, <1>2 DEF ResolveAdb

(* The launch through the TV's debugging leaves, at most once.             *)
LEMMA AdbLaunchInv ==
    ASSUME AppInv, AdbLaunch
    PROVE  AppInv'
<1>0. /\ req.at = "adb_launch" /\ req.op = "launch" /\ req \in ReqType /\ req.n \in Requests
      /\ AppTypeOK /\ PlaceInv /\ ShotInv /\ AnswerInv /\ FrontInv /\ KeptListIsWhole
      /\ shots[req.n] = 0 /\ req.reads < FrontReads
      /\ UNCHANGED <<heard, time, list, links, posts, installed>> /\ shown' = (shown \/ inFront')
  BY AppTypes DEF AdbLaunch, AppInv, PlaceInv, ShotInv, FrontInv, BeforeShot
<1>1. /\ shots' \in [Requests -> 0..2] /\ shots'[req.n] = 1
      /\ \A n \in Requests : n # req.n => shots'[n] = shots[n]
  BY <1>0, ShotFacts DEF AdbLaunch
<1>2. inFront \in BOOLEAN /\ shown \in BOOLEAN /\ began \subseteq Requests
  BY <1>0, AppTypes
<1>3. /\ req' \in ReqType /\ req'.n = req.n /\ req'.op = req.op /\ req'.saw = req.saw
      /\ \/ req'.at = "adb_front" /\ req'.reads = req.reads
         \/ req'.at = "idle" /\ req'.front = FALSE /\ req'.answered = FALSE
  <2>1. CASE Goes("adb_front")
    BY <2>1, GoesFacts DEF AppSteps
  <2>2. CASE AdbFails
    <3>1. PICK res \in {"refusal", "failed"} : Ended(res, FALSE, FALSE)
      BY <2>2 DEF AdbFails
    <3> QED
      BY <3>1, EndedFacts DEF AppResults
  <2>3. CASE Ended(IF req.way = "fallback" THEN "refusal" ELSE "rejected", FALSE, FALSE)
    <3>1. PICK res \in {"refusal", "rejected"} : Ended(res, FALSE, FALSE)
      BY <2>3
    <3> QED
      BY <3>1, EndedFacts DEF AppResults
  <2> QED
    BY <2>1, <2>2, <2>3 DEF AdbLaunch
<1>4. inFront' \in BOOLEAN /\ began' \in {began, began \cup {req.n}}
  <2>1. inFront' \in {inFront, TRUE}
    BY DEF AdbLaunch
  <2>2. began' \in {began, began \cup {req.n}}
    BY DEF AdbLaunch
  <2> QED
    BY <1>2, <2>1, <2>2
<1>5. shown' \in BOOLEAN /\ (inFront' => shown') /\ (shown => shown')
  BY <1>0, <1>2, <1>4
<1>6. AppTypeOK'
  <2>1. began' \subseteq Requests
    BY <1>0, <1>2, <1>4
  <2> QED
    BY <1>0, <1>1, <1>3, <1>4, <1>5, <2>1 DEF AppTypeOK, ReqType
<1>7. PlaceInv'
  BY <1>0, <1>3 DEF PlaceInv, BeforeShot, AfterShot
<1>8. ShotInv'
  <2>1. \A n \in Requests : shots'[n] <= 1 /\ (n > req'.n => shots'[n] = 0)
    BY <1>0, <1>1, <1>3 DEF ShotInv, Requests
  <2>2. req'.at \notin BeforeShot /\ req'.at # "code"
    BY <1>3 DEF BeforeShot
  <2> QED
    BY <1>1, <1>3, <2>1, <2>2 DEF ShotInv
<1>9. AnswerInv'
  <2>1. ASSUME NEW n \in Requests
        PROVE  /\ <<n, "launch">> \in links =>
                    shots'[n] > 0 /\ n \notin began' /\ \A says \in LaunchResults : <<n, says>> \notin posts
               /\ n \in began' => shots'[n] > 0
               /\ \A says \in LaunchResults :
                    <<n, says>> \in posts => shots'[n] > 0 /\ (says = "started" <=> n \in began')
    <3>1. CASE n = req.n
      BY <1>0, <1>1, <3>1 DEF AnswerInv
    <3>2. CASE n # req.n
      <4>1. n \in began' <=> n \in began
        BY <1>4, <3>2
      <4> QED
        BY <1>0, <1>1, <3>2, <4>1 DEF AnswerInv
    <3> QED
      BY <3>1, <3>2
  <2>2. /\ posts # {} => installed
        /\ heard # "none" => <<req.n, heard>> \in posts
        /\ heard # "none" => (heard = "apps" <=> req.op # "launch")
    BY <1>0 DEF AnswerInv
  <2> QED
    BY <1>0, <1>3, <2>1, <2>2 DEF AnswerInv
<1>10. FrontInv'
  BY <1>0, <1>3, <1>5 DEF FrontInv
<1>11. ProbeInv'
  BY <1>0, <1>3 DEF ProbeInv
<1> QED
  BY <1>0, <1>6, <1>7, <1>8, <1>9, <1>10, <1>11 DEF AppInv, KeptListIsWhole

(* The app in front is read a few times.                                   *)
LEMMA AdbFrontInv ==
    ASSUME AppInv, AdbFront
    PROVE  AppInv'
<1> USE AppAssumption
<1>0. Calm /\ req.at = "adb_front" /\ req.at # "idle" /\ req \in ReqType /\ inFront \in BOOLEAN
  BY QuietIsCalm, AppTypes DEF AdbFront, AppInv
<1>1. /\ req.op = "launch" /\ req.reads < FrontReads /\ (inFront => shown) /\ (req.saw => shown)
  BY <1>0 DEF AppInv, PlaceInv, ShotInv, FrontInv, AfterShot
<1>2. CASE AdbFails
  BY <1>0, <1>2, FailsPlainly
<1>3. CASE Ended("sent", FALSE, FALSE)
  BY <1>0, <1>3, EndsPlainly DEF AppResults
<1>4. ASSUME NEW saw \in {inFront, FALSE}, Ended("sent", saw, FALSE) PROVE AppInv'
  <2>1. saw \in BOOLEAN /\ (saw => shown)
    <3>1. CASE saw = inFront
      BY <1>0, <1>1, <3>1
    <3>2. CASE saw = FALSE
      BY <3>2
    <3> QED
      BY <1>4, <3>1, <3>2
  <2> QED
    BY <1>0, <1>4, <2>1, AppEndsInv DEF AppResults
<1>5. CASE req.reads + 1 # FrontReads /\ req' = [req EXCEPT !.reads = @ + 1]
  <2>1. req.reads \in 0..FrontReads
    BY <1>0 DEF ReqType
  <2>2. req.reads + 1 < FrontReads /\ req.reads + 1 \in 0..FrontReads
    BY <1>1, <1>5, <2>1
  <2>3. /\ req' \in ReqType /\ req'.n = req.n /\ req'.op = req.op /\ req'.at = req.at
        /\ req'.saw = req.saw /\ req'.reads = req.reads + 1
    BY <1>0, <1>5, <2>2 DEF ReqType
  <2> QED
    BY <1>0, <1>1, <2>2, <2>3, AppMovesInv DEF AfterShot
<1> QED
  BY <1>0, <1>2, <1>3, <1>4, <1>5 DEF AdbFront

(* The pairing code leaves, at most once.                                  *)
LEMMA SendCodeInv ==
    ASSUME AppInv, SendCode
    PROVE  AppInv'
<1>0. /\ req.at = "code" /\ req.op = "pair" /\ req \in ReqType /\ req.n \in Requests
      /\ AppTypeOK /\ PlaceInv /\ ShotInv /\ AnswerInv /\ KeptListIsWhole
      /\ shots[req.n] = 0 /\ req.reads < FrontReads
      /\ UNCHANGED <<heard, time, list, links, posts, inFront, installed, began, shown>>
  BY AppTypes DEF SendCode, AppInv, PlaceInv, ShotInv, Env
<1>1. CASE AdbFails /\ UNCHANGED shots
  <2>1. Calm
    BY <1>0, <1>1, AppTypes DEF Calm, KeptListIsWhole
  <2> QED
    BY <1>0, <1>1, <2>1, FailsPlainly
<1>2. CASE Shot /\ (Ended("rejected", FALSE, FALSE) \/ Goes("connect"))
  <2>1. /\ shots' \in [Requests -> 0..2] /\ shots'[req.n] = 1
        /\ \A n \in Requests : n # req.n => shots'[n] = shots[n]
    BY <1>0, <1>2, ShotFacts
  <2>2. /\ req' \in ReqType /\ req'.n = req.n /\ req'.op = req.op
        /\ req'.at = "idle" \/ (req'.at = "connect" /\ req'.reads = req.reads)
    <3>1. CASE Ended("rejected", FALSE, FALSE)
      BY <3>1, EndedFacts DEF AppResults
    <3>2. CASE Goes("connect")
      BY <3>2, GoesFacts DEF AppSteps
    <3> QED
      BY <1>2, <3>1, <3>2
  <2>3. AppTypeOK'
    BY <1>0, <2>1, <2>2 DEF AppTypeOK, ReqType
  <2>4. PlaceInv'
    BY <1>0, <2>2 DEF PlaceInv, BeforeShot, AfterShot
  <2>5. ShotInv'
    <3>1. \A n \in Requests : shots'[n] <= 1 /\ (n > req'.n => shots'[n] = 0)
      BY <1>0, <2>1, <2>2 DEF ShotInv, Requests
    <3>2. req'.at \notin BeforeShot /\ req'.at # "code" /\ req'.at \notin AfterShot
      BY <2>2 DEF BeforeShot, AfterShot
    <3> QED
      BY <2>2, <3>1, <3>2 DEF ShotInv
  <2>6. AnswerInv'
    <3>1. ASSUME NEW n \in Requests PROVE shots[n] > 0 => shots'[n] > 0
      BY <1>0, <2>1
    <3> QED
      BY <1>0, <2>2, <3>1 DEF AnswerInv
  <2>7. FrontInv' /\ ProbeInv'
    BY <1>0, <2>2 DEF FrontInv, ProbeInv
  <2> QED
    BY <1>0, <2>3, <2>4, <2>5, <2>6, <2>7 DEF AppInv, KeptListIsWhole
<1> QED
  BY <1>1, <1>2 DEF SendCode

(* The connection after the pairing.                                       *)
LEMMA ConnectPairedInv ==
    ASSUME AppInv, ConnectPaired
    PROVE  AppInv'
<1>0. Calm /\ req.at = "connect" /\ req.at # "idle"
  BY QuietIsCalm DEF ConnectPaired
<1>1. CASE Ended("sent", FALSE, FALSE)
  BY <1>0, <1>1, EndsPlainly DEF AppResults
<1>2. CASE AdbFails
  BY <1>0, <1>2, FailsPlainly
<1>3. CASE UNCHANGED req
  BY <1>0, <1>3, SameReqInv
<1> QED
  BY <1>1, <1>2, <1>3 DEF ConnectPaired

(* A request of a list that goes on to a place of its own.                 *)
LEMMA ListGoes ==
    ASSUME AppInv, Calm, req.at # "idle", req.op \in {"browse", "probe"},
           NEW a \in {"partial", "replace", "link", "list_wait", "adb_list", "remote"}, Goes(a),
           a = "remote" => req.op = "probe" /\ installed,
           a \in {"partial", "replace"} => req.op = "browse"
    PROVE  AppInv'
<1>1. a \in AppSteps /\ a \notin AfterShot
  BY DEF AppSteps, AfterShot
<1>2. /\ req' \in ReqType /\ req'.n = req.n /\ req'.op = req.op /\ req'.at = a
      /\ req'.saw = req.saw /\ req'.reads = req.reads
  BY <1>1, GoesFacts
<1>3. req.reads < FrontReads /\ (req.saw /\ req.op = "probe" => ~installed)
  BY DEF AppInv, PlaceInv, ProbeInv
<1> QED
  BY <1>1, <1>2, <1>3, AppMovesInv

(* The list, by the TV's debugging or by the receiver, and how it is kept. *)
LEMMA ListsInv ==
    ASSUME AppInv, AdbList \/ AskList \/ ListAnswer \/ RememberList
    PROVE  AppInv'
<1>1. CASE AdbList
  <2>0. Calm /\ req.at # "idle" /\ req.op = "browse"
    BY <1>1, QuietIsCalm DEF AdbList
  <2>1. CASE Goes("partial") \/ Goes("link")
    BY <2>0, <2>1, ListGoes
  <2>2. CASE Ended("listed", FALSE, FALSE)
    BY <2>0, <2>2, EndsPlainly DEF AppResults
  <2> QED
    BY <1>1, <2>1, <2>2 DEF AdbList
<1>2. CASE AskList
  <2>0. Calm /\ req.at # "idle" /\ req.op = "browse"
    <3>1. req.n \in Requests
      BY <1>2 DEF AskList, AppInv, PlaceInv
    <3>2. links' = links \/ links' = links \cup {<<req.n, "browse">>}
      BY <1>2 DEF AskList
    <3>3. UNCHANGED <<heard, time, list, posts, inFront, installed, began, shown, shots>>
      BY <1>2 DEF AskList, Ghosts
    <3>4. Calm
      BY <3>1, <3>2, <3>3, AppTypes DEF AppInv, KeptListIsWhole, Calm
    <3> QED
      BY <1>2, <3>4 DEF AskList
  <2>1. CASE Goes("list_wait")
    BY <2>0, <2>1, ListGoes
  <2>2. CASE Ended("failed", FALSE, FALSE)
    BY <2>0, <2>2, EndsPlainly DEF AppResults
  <2> QED
    BY <1>2, <2>1, <2>2 DEF AskList
<1>3. CASE ListAnswer
  <2>0. Calm /\ req.at # "idle" /\ req.op = "browse"
    BY <1>3, QuietIsCalm DEF ListAnswer
  <2>1. CASE Goes("partial")
    BY <2>0, <2>1, ListGoes
  <2>2. CASE Ended("failed", FALSE, FALSE)
    BY <2>0, <2>2, EndsPlainly DEF AppResults
  <2> QED
    BY <1>3, <2>1, <2>2 DEF ListAnswer
<1>4. CASE RememberList
  <2>0. /\ UNCHANGED <<heard, time, links, posts, inFront, installed, began, shown, shots>>
        /\ req.at \in {"partial", "replace"}
    BY <1>4 DEF RememberList, WritePartial, Replace, Env, Ghosts
  <2>1. list \in [file : Lists, partial : Lists] /\ list.file # "broken"
    BY AppTypes DEF AppInv, KeptListIsWhole
  <2>2. list' \in [file : Lists, partial : Lists] /\ list'.file # "broken"
    <3>1. CASE list' = [list EXCEPT !.partial = "broken"]
      BY <2>1, <3>1 DEF Lists
    <3>2. CASE list' = [list EXCEPT !.partial = "none"]
      BY <2>1, <3>2 DEF Lists
    <3>3. CASE list' = [file |-> "new", partial |-> "none"]
      BY <3>3 DEF Lists
    <3> QED
      BY <1>4, <3>1, <3>2, <3>3 DEF RememberList, WritePartial, Replace
  <2>3. Calm
    BY <2>0, <2>2, AppTypes DEF Calm, AppInv
  <2>4. CASE Ended("listed", FALSE, FALSE)
    BY <2>0, <2>3, <2>4, EndsPlainly DEF AppResults
  <2>5. req.op = "browse"
    BY <2>0 DEF AppInv, PlaceInv
  <2>6. CASE Goes("replace")
    BY <2>0, <2>3, <2>5, <2>6, ListGoes
  <2> QED
    BY <1>4, <2>4, <2>5, <2>6 DEF RememberList, WritePartial, Replace
<1> QED
  BY <1>1, <1>2, <1>3, <1>4

(* Nobody answered a probe.                                                *)
LEMMA NotAnsweredInv ==
    ASSUME AppInv, Calm, req.at # "idle", req.op = "probe", NotAnswered
    PROVE  AppInv'
<1>1. CASE req.saw
  <2>1. ~installed /\ Ended("absent", FALSE, FALSE)
    BY <1>1 DEF AppInv, ProbeInv, NotAnswered
  <2> QED
    BY <2>1, AppEndsInv DEF AppResults
<1>2. CASE ~req.saw
  BY <1>2, EndsPlainly DEF NotAnswered, AppResults
<1> QED
  BY <1>1, <1>2

(* Whether the receiver is there.                                          *)
LEMMA ProbesInv ==
    ASSUME AppInv, ProbeStatus \/ ProbeList \/ ProbeAsk \/ ProbeAnswer \/ ProbeRemote
    PROVE  AppInv'
<1>1. CASE ProbeStatus
  <2>0. Calm /\ req.at # "idle" /\ req.op = "probe"
    BY <1>1, QuietIsCalm DEF ProbeStatus, AppInv, PlaceInv
  <2>1. CASE Goes("adb_list")
    BY <2>0, <2>1, ListGoes
  <2>2. CASE Ended("failed", FALSE, FALSE)
    BY <2>0, <2>2, EndsPlainly DEF AppResults
  <2> QED
    BY <1>1, <2>1, <2>2 DEF ProbeStatus
<1>2. CASE ProbeList
  <2>0. Calm /\ req.at # "idle" /\ req.op = "probe"
    BY <1>2, QuietIsCalm DEF ProbeList
  <2>1. CASE Goes("link")
    BY <2>0, <2>1, ListGoes
  <2>2. CASE installed /\ Goes("remote")
    BY <2>0, <2>2, ListGoes
  <2>3. CASE ~installed /\ req' = [req EXCEPT !.at = "link", !.saw = TRUE]
    <3>1. req \in ReqType /\ req.reads < FrontReads
      BY <2>0, AppTypes DEF AppInv, PlaceInv
    <3>2. /\ req' \in ReqType /\ req'.n = req.n /\ req'.op = req.op /\ req'.at = "link"
          /\ req'.saw = TRUE /\ req'.reads = req.reads
      BY <2>3, <3>1 DEF ReqType, AppSteps
    <3> QED
      BY <2>0, <2>3, <3>1, <3>2, AppMovesInv DEF AfterShot
  <2> QED
    BY <1>2, <2>1, <2>2, <2>3 DEF ProbeList
<1>3. CASE ProbeAsk
  <2>0. Calm /\ req.at # "idle" /\ req.op = "probe"
    <3>1. req.n \in Requests
      BY <1>3 DEF ProbeAsk, AppInv, PlaceInv
    <3>2. links' = links \/ links' = links \cup {<<req.n, "browse">>}
      BY <1>3 DEF ProbeAsk
    <3>3. UNCHANGED <<heard, time, list, posts, inFront, installed, began, shown, shots>>
      BY <1>3 DEF ProbeAsk, Ghosts
    <3>4. Calm
      BY <3>1, <3>2, <3>3, AppTypes DEF AppInv, KeptListIsWhole, Calm
    <3> QED
      BY <1>3, <3>4 DEF ProbeAsk
  <2>1. CASE Goes("list_wait")
    BY <2>0, <2>1, ListGoes
  <2>2. CASE NotAnswered
    BY <2>0, <2>2, NotAnsweredInv
  <2> QED
    BY <1>3, <2>1, <2>2 DEF ProbeAsk
<1>4. CASE ProbeAnswer
  <2>0. Calm /\ req.at # "idle" /\ req.op = "probe"
    BY <1>4, QuietIsCalm DEF ProbeAnswer
  <2>1. CASE heard # "none" /\ Goes("remote")
    <3>1. installed
      BY <2>1 DEF AppInv, AnswerInv
    <3> QED
      BY <2>0, <2>1, <3>1, ListGoes
  <2>2. CASE NotAnswered
    BY <2>0, <2>2, NotAnsweredInv
  <2> QED
    BY <1>4, <2>1, <2>2 DEF ProbeAnswer
<1>5. CASE ProbeRemote
  <2>0. Calm /\ req.at # "idle" /\ req.op = "probe" /\ installed
    BY <1>5, QuietIsCalm DEF ProbeRemote, AppInv, PlaceInv, ProbeInv
  <2>1. PICK res \in {"confirmed", "present"} : Ended(res, FALSE, FALSE)
    BY <1>5 DEF ProbeRemote
  <2> QED
    BY <2>0, <2>1, AppEndsInv DEF AppResults
<1> QED
  BY <1>1, <1>2, <1>3, <1>4, <1>5

-----------------------------------------------------------------------------
(* The TV, the listener and the clock                                      *)

(* The receiver acts on a link, once, however late.                        *)
LEMMA ReceiverActsInv ==
    ASSUME AppInv, ReceiverActs
    PROVE  AppInv'
<1>0. /\ AppTypeOK /\ PlaceInv /\ ShotInv /\ AnswerInv /\ FrontInv /\ ProbeInv /\ KeptListIsWhole
      /\ UNCHANGED <<req, heard, time, installed, list, shots>> /\ installed
      /\ shown' = (shown \/ (inFront' /\ req.op = "launch" /\ shots[req.n] > 0))
  BY DEF AppInv, ReceiverActs
<1>1. /\ links \subseteq (Requests \X {"launch", "browse"})
      /\ posts \subseteq (Requests \X (LaunchResults \cup {"apps"}))
      /\ inFront \in BOOLEAN /\ shown \in BOOLEAN /\ began \subseteq Requests /\ req \in ReqType
  BY <1>0, AppTypes
<1>s. inFront' \in BOOLEAN => /\ shown' \in BOOLEAN /\ (shown => shown')
                              /\ (inFront' /\ req.op = "launch" /\ shots[req.n] > 0 => shown')
  BY <1>0, <1>1
<1>2. ASSUME NEW m \in Requests, NEW says \in LaunchResults, <<m, "launch">> \in links,
             links' = links \ {<<m, "launch">>}, posts' = posts \cup {<<m, says>>},
             began' = (IF says = "started" THEN began \cup {m} ELSE began), inFront' \in BOOLEAN
      PROVE  AppInv'
  <2>1. AppTypeOK'
    <3>1. /\ links' \subseteq (Requests \X {"launch", "browse"})
          /\ posts' \subseteq (Requests \X (LaunchResults \cup {"apps"})) /\ began' \subseteq Requests
      BY <1>1, <1>2
    <3> QED
      BY <1>0, <1>2, <1>s, <3>1 DEF AppTypeOK
  <2>2. AnswerInv'
    <3>1. ASSUME NEW n \in Requests
          PROVE  /\ <<n, "launch">> \in links' =>
                      shots[n] > 0 /\ n \notin began' /\ \A x \in LaunchResults : <<n, x>> \notin posts'
                 /\ n \in began' => shots[n] > 0
                 /\ \A x \in LaunchResults :
                      <<n, x>> \in posts' => shots[n] > 0 /\ (x = "started" <=> n \in began')
      <4>1. CASE n = m
        <5>1. /\ shots[n] > 0 /\ n \notin began /\ \A x \in LaunchResults : <<n, x>> \notin posts
          BY <1>0, <1>2, <4>1 DEF AnswerInv
        <5>2. <<n, "launch">> \notin links' /\ \A x \in LaunchResults : <<n, x>> \in posts' => x = says
          BY <1>2, <4>1, <5>1
        <5>3. says = "started" <=> n \in began'
          BY <1>2, <4>1, <5>1
        <5> QED
          BY <5>1, <5>2, <5>3
      <4>2. CASE n # m
        <5>1. /\ <<n, "launch">> \in links' => <<n, "launch">> \in links
              /\ n \in began' <=> n \in began
              /\ \A x \in LaunchResults : <<n, x>> \in posts' <=> <<n, x>> \in posts
          BY <1>2, <4>2
        <5> QED
          BY <1>0, <5>1 DEF AnswerInv
      <4> QED
        BY <4>1, <4>2
    <3>2. posts \subseteq posts'
      BY <1>2
    <3>3. /\ heard # "none" => <<req.n, heard>> \in posts'
          /\ heard # "none" => (heard = "apps" <=> req.op # "launch")
      BY <1>0, <3>2 DEF AnswerInv
    <3>4. req.op = "launch" /\ req.at = "idle" /\ req.answered =>
            \E x \in LaunchResults : /\ <<req.n, x>> \in posts'
                                     /\ req.result = "started" <=> x = "started"
      BY <1>0, <3>2 DEF AnswerInv
    <3> QED
      BY <1>0, <3>1, <3>3, <3>4 DEF AnswerInv
  <2>3. FrontInv'
    BY <1>0, <1>2, <1>s DEF FrontInv
  <2> QED
    BY <1>0, <2>1, <2>2, <2>3 DEF AppInv, PlaceInv, ShotInv, ProbeInv, KeptListIsWhole
<1>3. ASSUME NEW m \in Requests, <<m, "browse">> \in links,
             links' = links \ {<<m, "browse">>}, posts' = posts \cup {<<m, "apps">>},
             UNCHANGED <<began, inFront>>
      PROVE  AppInv'
  <2>1. AppTypeOK'
    <3>1. /\ links' \subseteq (Requests \X {"launch", "browse"})
          /\ posts' \subseteq (Requests \X (LaunchResults \cup {"apps"})) /\ inFront' \in BOOLEAN
      BY <1>1, <1>3
    <3> QED
      BY <1>0, <1>1, <1>3, <1>s, <3>1 DEF AppTypeOK
  <2>2. AnswerInv'
    <3>1. "apps" \notin LaunchResults /\ posts \subseteq posts' /\ links' \subseteq links
      BY <1>3 DEF LaunchResults
    <3>2. \A n \in Requests, x \in LaunchResults : <<n, x>> \in posts' <=> <<n, x>> \in posts
      BY <1>3, <3>1
    <3>3. req.op = "launch" /\ req.at = "idle" /\ req.answered =>
            \E x \in LaunchResults : /\ <<req.n, x>> \in posts'
                                     /\ req.result = "started" <=> x = "started"
      BY <1>0, <3>1 DEF AnswerInv
    <3> QED
      BY <1>0, <1>3, <3>1, <3>2, <3>3 DEF AnswerInv
  <2>3. FrontInv'
    BY <1>0, <1>1, <1>3, <1>s DEF FrontInv
  <2> QED
    BY <1>0, <2>1, <2>2, <2>3 DEF AppInv, PlaceInv, ShotInv, ProbeInv, KeptListIsWhole
<1>4. PICK n \in links :
        \/ /\ n[2] = "launch"
           /\ \E says \in LaunchResults :
                /\ began' = IF says = "started" THEN began \cup {n[1]} ELSE began
                /\ inFront' \in IF says = "started" THEN {inFront, TRUE} ELSE {inFront}
                /\ posts' = posts \cup {<<n[1], says>>}
           /\ links' = links \ {n}
        \/ /\ n[2] = "browse"
           /\ posts' = posts \cup {<<n[1], "apps">>} /\ links' = links \ {n}
           /\ UNCHANGED <<began, inFront>>
  BY DEF ReceiverActs
<1>5. n[1] \in Requests /\ n = <<n[1], n[2]>>
  BY <1>1, <1>4
<1>6. CASE n[2] = "launch"
  <2>1. PICK says \in LaunchResults :
          /\ began' = IF says = "started" THEN began \cup {n[1]} ELSE began
          /\ inFront' \in IF says = "started" THEN {inFront, TRUE} ELSE {inFront}
          /\ posts' = posts \cup {<<n[1], says>>}
    BY <1>4, <1>6
  <2>2. inFront' \in BOOLEAN
    <3>1. inFront' = inFront \/ inFront' = TRUE
      BY <2>1
    <3> QED
      BY <1>1, <3>1
  <2>3. n = <<n[1], "launch">> /\ links' = links \ {n}
    BY <1>4, <1>5, <1>6
  <2> QED
    BY <1>2, <1>4, <1>5, <2>1, <2>2, <2>3
<1>7. CASE n[2] = "browse"
  <2>1. n = <<n[1], "browse">> /\ links' = links \ {n} /\ posts' = posts \cup {<<n[1], "apps">>}
        /\ UNCHANGED <<began, inFront>>
    BY <1>4, <1>5, <1>7
  <2> QED
    BY <1>3, <1>4, <1>5, <2>1
<1> QED
  BY <1>4, <1>6, <1>7

(* Another app comes to the front.                                         *)
LEMMA FrontChangesInv ==
    ASSUME AppInv, FrontChanges
    PROVE  AppInv'
<1>0. /\ AppTypeOK /\ PlaceInv /\ ShotInv /\ AnswerInv /\ FrontInv /\ ProbeInv /\ KeptListIsWhole
      /\ UNCHANGED <<req, heard, links, posts, time, installed, list, began, shots>>
      /\ inFront' = ~inFront /\ shown' = (shown \/ (inFront' /\ shots[req.n] > 0))
  BY DEF AppInv, FrontChanges
<1>1. inFront \in BOOLEAN /\ shown \in BOOLEAN
  BY <1>0, AppTypes
<1>2. /\ inFront' \in BOOLEAN /\ shown' \in BOOLEAN /\ (shown => shown')
      /\ (inFront' /\ shots[req.n] > 0 => shown')
  BY <1>0, <1>1
<1>3. AppTypeOK'
  BY <1>0, <1>2 DEF AppTypeOK
<1>4. FrontInv'
  BY <1>0, <1>2 DEF FrontInv
<1> QED
  BY <1>0, <1>3, <1>4 DEF AppInv, PlaceInv, ShotInv, AnswerInv, ProbeInv, KeptListIsWhole

(* The listener keeps the first answer to this request.                    *)
LEMMA DoPostInv ==
    ASSUME AppInv, DoPost
    PROVE  AppInv'
<1>0. /\ AppTypeOK /\ PlaceInv /\ ShotInv /\ AnswerInv /\ FrontInv /\ ProbeInv /\ KeptListIsWhole
      /\ UNCHANGED <<req, time, list, links, posts, inFront, installed, began, shown, shots>>
      /\ heard = "none"
  BY DEF AppInv, DoPost, Env, Ghosts
<1>1. PICK p \in posts : Parses(p[1], p[2]) /\ heard' = p[2]
  BY DEF DoPost
<1>2. p = <<req.n, heard'>> /\ heard' \in LaunchResults \cup {"apps"}
      /\ (heard' = "apps" <=> req.op # "launch")
  <2>1. p \in Requests \X (LaunchResults \cup {"apps"})
    BY <1>0, <1>1, AppTypes
  <2>2. p = <<p[1], p[2]>> /\ p[2] \in LaunchResults \cup {"apps"}
    BY <2>1
  <2> QED
    BY <1>1, <2>2 DEF Parses, LaunchResults
<1>3. AppTypeOK'
  BY <1>0, <1>2 DEF AppTypeOK
<1>4. AnswerInv'
  BY <1>0, <1>1, <1>2 DEF AnswerInv
<1>5. PlaceInv'
  <2>1. req.at # "read"
    BY DEF DoPost, Listening
  <2> QED
    BY <1>0, <2>1 DEF PlaceInv
<1> QED
  BY <1>0, <1>3, <1>4, <1>5 DEF AppInv, ShotInv, FrontInv, ProbeInv, KeptListIsWhole

(* Time passes, and the process may be killed while it writes.             *)
LEMMA ClockInv ==
    ASSUME AppInv, TimePasses \/ AppKill
    PROVE  AppInv'
<1>1. CASE TimePasses
  <2>1. Calm /\ UNCHANGED req
    BY <1>1, AppTypes DEF AppInv, KeptListIsWhole, TimePasses, Env, Ghosts, Calm
  <2> QED
    BY <2>1, SameReqInv
<1>2. CASE AppKill
  <2>1. Calm /\ req.at # "idle" /\ Ended("failed", FALSE, FALSE)
    BY <1>2, QuietIsCalm DEF AppKill
  <2> QED
    BY <2>1, EndsPlainly DEF AppResults
<1> QED
  BY <1>1, <1>2

(* Nothing was asked yet.                                                  *)
LEMMA AppInitInv ==
    ASSUME AppInit
    PROVE  AppInv
<1> USE AppAssumption
<1>0. /\ req = [n |-> 0, op |-> "none", at |-> "idle", early |-> FALSE, saw |-> FALSE,
                way |-> "receiver", reads |-> 0, result |-> "none", front |-> FALSE, answered |-> FALSE]
      /\ heard = "none" /\ links = {} /\ posts = {} /\ time = "ample" /\ inFront \in BOOLEAN
      /\ installed \in BOOLEAN /\ list \in [file : {"none", "old"}, partial : {"none", "broken"}]
      /\ began = {} /\ shown = FALSE /\ shots = [n \in Requests |-> 0]
  BY DEF AppInit
<1>1. req \in ReqType /\ req.op = "none" /\ req.at = "idle"
  <2>1. 0 \in 0..MaxRequests /\ 0 \in 0..FrontReads
    OBVIOUS
  <2> QED
    BY <1>0, <2>1 DEF ReqType, AppSteps
<1>2. list \in [file : Lists, partial : Lists] /\ list.file # "broken"
  <2>1. list.file \in {"none", "old"} /\ list.partial \in {"none", "broken"}
        /\ list = [file |-> list.file, partial |-> list.partial]
    BY <1>0
  <2>2. list.file \in Lists /\ list.partial \in Lists /\ list.file # "broken"
    BY <2>1 DEF Lists
  <2> QED
    BY <2>1, <2>2
<1>3. AppTypeOK
  <2>1. shots \in [Requests -> 0..2]
    BY <1>0
  <2>2. /\ links \subseteq (Requests \X {"launch", "browse"})
        /\ posts \subseteq (Requests \X (LaunchResults \cup {"apps"})) /\ began \subseteq Requests
    BY <1>0
  <2>3. /\ heard \in LaunchResults \cup {"none", "apps"} /\ time \in {"ample", "last", "over"}
        /\ inFront \in BOOLEAN /\ installed \in BOOLEAN /\ shown \in BOOLEAN
    BY <1>0
  <2> QED
    BY <1>1, <1>2, <2>1, <2>2, <2>3, AppTypes
<1> QED
  BY <1>0, <1>1, <1>2, <1>3
     DEF AppInv, PlaceInv, ShotInv, AnswerInv, FrontInv, ProbeInv, KeptListIsWhole, BeforeShot, AfterShot

(* Every step of a request, of the TV or of the clock keeps it.            *)
LEMMA AppStepInv ==
    ASSUME AppInv, [AppNext]_avars
    PROVE  AppInv'
<1>1. CASE LaunchTvApp \/ PairTvApps \/ BrowseTvApps \/ ProbeReceiver
  BY <1>1, BeginInv DEF LaunchTvApp, PairTvApps, BrowseTvApps, ProbeReceiver, Ops
<1>2. CASE LookBefore \/ OpenLink \/ PollEarly \/ GraceForAnswer
  BY <1>2, LookBeforeInv, OpenLinkInv, PollEarlyInv, GraceInv
<1>3. CASE WaitForAnswer \/ FinalLook \/ LastWait \/ ReadFront
  BY <1>3, WaitInv, FinalLookInv, LastWaitInv, ReadFrontInv
<1>4. CASE ResolveAdb \/ AdbLaunch \/ AdbFront \/ SendCode \/ ConnectPaired
  BY <1>4, ResolveInv, AdbLaunchInv, AdbFrontInv, SendCodeInv, ConnectPairedInv
<1>5. CASE AdbList \/ AskList \/ ListAnswer \/ RememberList
  BY <1>5, ListsInv
<1>6. CASE ProbeStatus \/ ProbeList \/ ProbeAsk \/ ProbeAnswer \/ ProbeRemote
  BY <1>6, ProbesInv
<1>7. CASE ReceiverActs \/ FrontChanges \/ DoPost \/ TimePasses \/ AppKill
  BY <1>7, ReceiverActsInv, FrontChangesInv, DoPostInv, ClockInv
<1>8. CASE UNCHANGED avars
  BY <1>8 DEF avars, AppInv, AppTypeOK, PlaceInv, ShotInv, AnswerInv, FrontInv, ProbeInv,
              KeptListIsWhole
<1> QED
  BY <1>1, <1>2, <1>3, <1>4, <1>5, <1>6, <1>7, <1>8 DEF AppNext

(* A launch and a pairing code leave at most once for each request, a      *)
(* report is of its own launch, a probe never takes silence for absence,   *)
(* and the kept list is never half written: for any number of requests,    *)
(* with late, lost and repeated answers (tv_channels.py, receiver_apps.py, *)
(* tv_apps.py, tv_apps_memory.py).                                         *)
THEOREM AppsHonest == AppSpec => []AppsAreHonest
<1>1. AppInit => AppInv
  BY AppInitInv
<1>2. AppInv /\ [AppNext]_avars => AppInv'
  BY AppStepInv
<1>3. AppInv => AppsAreHonest
  <2> SUFFICES ASSUME AppInv PROVE AppsAreHonest
    OBVIOUS
  <2>1. OneShotEach
    BY DEF AppInv, ShotInv, OneShotEach
  <2>2. ReportIsOfThisLaunch
    <3> SUFFICES ASSUME req.op = "launch", req.at = "idle"
                 PROVE  /\ req.answered => ((req.result = "started") <=> (req.n \in began))
                        /\ req.front => shown
      BY DEF ReportIsOfThisLaunch
    <3>1. req.front => shown
      BY DEF AppInv, FrontInv
    <3>2. ASSUME req.answered PROVE (req.result = "started") <=> (req.n \in began)
      <4>1. PICK says \in LaunchResults : /\ <<req.n, says>> \in posts
                                          /\ req.result = "started" <=> says = "started"
        BY <3>2 DEF AppInv, AnswerInv
      <4>2. req.n \in Requests
        BY <4>1, AppTypes DEF AppInv
      <4> QED
        BY <4>1, <4>2 DEF AppInv, AnswerInv
    <3> QED
      BY <3>1, <3>2
  <2>3. ProbeIsTrue
    BY DEF AppInv, ProbeInv, ProbeIsTrue
  <2> QED
    BY <2>1, <2>2, <2>3 DEF AppInv, AppsAreHonest
<1> QED
  BY <1>1, <1>2, <1>3, PTL DEF AppSpec
=============================================================================
