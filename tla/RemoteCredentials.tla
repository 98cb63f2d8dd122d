-------------------------- MODULE RemoteCredentials --------------------------
(*****************************************************************************)
(* The remote's identity on disk (tv_remote.py, _credentials): the           *)
(* installation's name, the client certificate and its key, and the one-time *)
(* replacement of the pair an older version left, which every installation   *)
(* shared the name of.  Each file is replaced atomically (_write_private),   *)
(* but there are up to six of them and the process may be killed between any *)
(* two.  One bridge at a time uses the directory.                            *)
(*                                                                           *)
(* A generated pair is a number, 0 for a missing file; a certificate carries *)
(* the number of its pair and the name it was made for.                      *)
(*****************************************************************************)
EXTENDS Naturals

CONSTANTS MaxPairs      \* bound: pairs generated, so restarts after a kill

ASSUME CredentialsAssumption == MaxPairs \in Nat \ {0}

VARIABLES
    disk,       \* the files of the credentials directory
    credAt,     \* the step _credentials is at
    made,       \* the number of the last pair generated, and of the legacy one
    legacy      \* whether an older version left a pair

dvars == <<disk, credAt, made, legacy>>

Steps == {"dead", "look", "check", "back_cert", "back_key", "generate", "key", "cert", "mark",
          "given"}

NoCert == [name |-> "none", pair |-> 0]

CredTypeOK ==
    /\ disk \in [identity : BOOLEAN, mark : BOOLEAN, key : 0..MaxPairs, oldKey : 0..MaxPairs,
                 cert : [name : {"none", "shared", "own"}, pair : 0..MaxPairs],
                 oldCert : [name : {"none", "shared", "own"}, pair : 0..MaxPairs]]
    /\ credAt \in Steps /\ made \in 0..MaxPairs /\ legacy \in BOOLEAN

Complete == disk.cert # NoCert /\ disk.key # 0

CredInit ==
    /\ legacy \in BOOLEAN
    /\ made = IF legacy THEN 1 ELSE 0
    /\ disk = [identity |-> FALSE, mark |-> FALSE, key |-> made, oldKey |-> 0,
               cert |-> IF legacy THEN [name |-> "shared", pair |-> 1] ELSE NoCert,
               oldCert |-> NoCert]
    /\ credAt = "dead"

\* _write_private: one atomic replacement, then the next step.
WriteFile(files, next) == disk' = files /\ credAt' = next /\ UNCHANGED <<made, legacy>>

\* The first connection or pairing of a process asks for the credentials.
Asked == credAt \in {"dead", "given"} /\ WriteFile(disk, "look")

\* The name is derived from an existing certificate, drawn otherwise, and kept.
NameInstallation == credAt = "look" /\ WriteFile([disk EXCEPT !.identity = TRUE], "check")

Check ==
    /\ credAt = "check"
    /\ WriteFile(disk, IF ~Complete THEN "generate"
                   ELSE IF disk.mark THEN "given"
                   ELSE IF disk.cert.name # "own" THEN "back_cert" ELSE "mark")

\* Mutant: the backup is made again after an interruption.
BackUpAgain ==
    \/ credAt = "back_cert" /\ WriteFile([disk EXCEPT !.oldCert = disk.cert], "back_key")
    \/ credAt = "back_key" /\ WriteFile([disk EXCEPT !.oldKey = disk.key], "generate")

BackUp ==
    \/ /\ credAt = "back_cert"
       /\ WriteFile([disk EXCEPT !.oldCert = IF @ = NoCert THEN disk.cert ELSE @], "back_key")
    \/ /\ credAt = "back_key"
       /\ WriteFile([disk EXCEPT !.oldKey = IF @ = 0 THEN disk.key ELSE @], "generate")

Generate ==
    /\ credAt = "generate" /\ made < MaxPairs
    /\ made' = made + 1 /\ credAt' = "key"
    /\ UNCHANGED <<disk, legacy>>

\* Mutant: the certificate is written before its key.
WritePairCertFirst ==
    \/ credAt = "key" /\ WriteFile([disk EXCEPT !.cert = [name |-> "own", pair |-> made]], "cert")
    \/ credAt = "cert" /\ WriteFile([disk EXCEPT !.key = made], "mark")

\* Key first: an interruption leaves the old certificate's name in place.
WritePair ==
    \/ credAt = "key" /\ WriteFile([disk EXCEPT !.key = made], "cert")
    \/ credAt = "cert" /\ WriteFile([disk EXCEPT !.cert = [name |-> "own", pair |-> made]], "mark")

Mark == credAt = "mark" /\ WriteFile([disk EXCEPT !.mark = TRUE], "given")

CredKilled == credAt # "dead" /\ WriteFile(disk, "dead")

CredNext ==
    \/ Asked \/ NameInstallation \/ Check \/ BackUp \/ Generate \/ WritePair \/ Mark \/ CredKilled

CredSpec == CredInit /\ [][CredNext]_dvars

-----------------------------------------------------------------------------
(* Whatever was interrupted before, the certificate and key given to the      *)
(* library are one pair, made for this installation: a mismatched pair would  *)
(* be refused by every TV and never repaired ("instead of accepting a         *)
(* mismatched pair").                                                         *)
GivenPairMatches ==
    credAt = "given" => /\ disk.cert.pair = disk.key
                        /\ disk.cert.name = "own"

(* The pair of the older version survives every interruption, unmixed: its    *)
(* exact certificate and key are in place or in the backup.                   *)
LegacyPairIsKept ==
    legacy => /\ disk.cert.pair = 1 \/ disk.oldCert = [name |-> "shared", pair |-> 1]
              /\ disk.key = 1 \/ disk.oldKey = 1

(* Both, with the types: wherever the making of the credentials was killed,   *)
(* the next run is given a pair of this installation and nothing of the older *)
(* version is lost (tv_remote.py, _credentials).                              *)
CredentialsSurvive == CredTypeOK /\ GivenPairMatches /\ LegacyPairIsKept
=============================================================================
