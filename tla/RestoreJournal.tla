--------------------------- MODULE RestoreJournal ---------------------------
(***************************************************************************)
(* RestoreJournal (restore_journal.py): the file that says how to put the  *)
(* desktop back, and the flock that says whose it is. The kernel drops the *)
(* lock of a process that dies; the file stays.                            *)
(***************************************************************************)
CONSTANTS
    Hosts,      \* the control-TV processes of one desktop
    Payloads    \* what a journal may say

VARIABLES
    journal,    \* the file: a payload, or "none"
    owner,      \* the process that holds the flock, or "none"
    held        \* per process: its journal object holds the descriptor (_lock)

ASSUME RestoreJournalAssumption == "none" \notin Hosts \cup Payloads

JournalTypeOK ==
    /\ journal \in Payloads \cup {"none"}
    /\ owner \in Hosts \cup {"none"}
    /\ held \in [Hosts -> BOOLEAN]

JournalInit == journal = "none" /\ owner = "none" /\ held = [h \in Hosts |-> FALSE]

(* claim returns True.                                                     *)
Claim(h) ==
    /\ held[h] \/ owner = "none"
    /\ owner' = h
    /\ held' = [held EXCEPT ![h] = TRUE]

(* claim returns False: another open file holds the flock, of this process *)
(* or another.                                                             *)
Taken(h) == ~held[h] /\ owner # "none"

ReleaseClaim(h) ==
    /\ owner' = IF held[h] THEN "none" ELSE owner
    /\ held' = [held EXCEPT ![h] = FALSE]

(* The file is renamed into place, or stays what it was.                   *)
Write(payload) == journal' = payload

Clear(h) == journal' = "none" /\ ReleaseClaim(h)

(* The process is killed: its descriptors close, with or without an object *)
(* that knows them.                                                        *)
Dies(h) ==
    /\ owner' = IF owner = h THEN "none" ELSE owner
    /\ held' = [held EXCEPT ![h] = FALSE]
    /\ UNCHANGED journal
=============================================================================
