--------------------------- MODULE ExtendedDisplay ---------------------------
(***************************************************************************)
(* XrandrVirtualMonitor (virtual_display.py): the desktop is extended onto *)
(* a free output for the TV, and put back. Each xrandr command is a step:  *)
(* it may fail, with or without its effect, the owner may rearrange the    *)
(* desktop between any two, and the process may be killed. The journal     *)
(* lets the next start finish.                                             *)
(***************************************************************************)
EXTENDS RestoreJournal, Integers, Sequences

CONSTANTS
    MaxMoves,    \* bound: changes the owner makes to the desktop
    MaxFaults,   \* bound: commands and file operations that fail
    MaxKills     \* bound: processes killed

ASSUME ExtendedDisplayAssumption ==
    /\ Payloads = {"beside", "shifted"}   \* whether the screens move to make room
    /\ MaxMoves \in Nat /\ MaxFaults \in Nat /\ MaxKills \in Nat

VARIABLES
    layout,     \* the other screens: "home", "shifted" for the TV, or placed "elsewhere"
    output,      \* what the free output displays: "off", its "own" mode, or "tv"
    mode,        \* the extension's mode: "gone", "created", or "added" to the output
    saved,       \* the file: what it says the output displayed before
    phase,       \* per process: where its monitor is
    todo,        \* per process: the xrandr commands still to run
    extension,   \* per process: the extension it makes or undoes (_extension)
    reason,      \* per process: the call it works for
    looked,      \* history: the owner changed the desktop after a recovery looked at it
    overtaken,   \* history: a stream was accepted with a killed run's journal on disk
    warned,      \* history: an error was shown
    moves, faults, kills

xfile == <<journal, owner, held, saved>>
xdesktop == <<layout, output, mode>>
xhistory == <<looked, overtaken, warned>>
xcounts == <<moves, faults, kills>>
xvars == <<xfile, xdesktop, phase, todo, extension, reason, xhistory, xcounts>>

Shows == {"off", "own", "tv"}
Commands == {"newmode", "addmode", "show", "give_back", "delmode", "rmmode", "put_back"}
NoExtension == [moved |-> "none", before |-> "off"]

(* What xrandr may be running: the strict steps raise at the first failure, *)
(* the others go on.                                                       *)
Strict == {"extend", "remove"}
BestEffort == {"undo", "leftover", "forget"}
Phases == Strict \cup BestEffort \cup
    {"down", "idle", "recover", "reclaim", "reread", "look", "claim", "query", "write",
     "accept", "extended", "verify", "kept"}

XTypeOK ==
    /\ JournalTypeOK
    /\ layout \in {"home", "shifted", "elsewhere"} /\ output \in Shows
    /\ mode \in {"gone", "created", "added"} /\ saved \in Shows
    /\ phase \in [Hosts -> Phases] /\ todo \in [Hosts -> Seq(Commands)]
    /\ extension \in [Hosts -> [moved : Payloads \cup {"none"}, before : Shows]]
    /\ reason \in [Hosts -> {"boot", "stream", "create", "remove"}]
    /\ looked \in BOOLEAN /\ overtaken \in BOOLEAN /\ warned \in BOOLEAN
    /\ moves \in Nat /\ faults \in Nat /\ kills \in Nat

XInit ==
    /\ JournalInit /\ saved = "off"
    /\ layout = "home" /\ output \in {"off", "own"} /\ mode = "gone"
    /\ phase = [h \in Hosts |-> "idle"] /\ todo = [h \in Hosts |-> <<>>]
    /\ extension = [h \in Hosts |-> NoExtension] /\ reason = [h \in Hosts |-> "boot"]
    /\ looked = FALSE /\ overtaken = FALSE /\ warned = FALSE
    /\ moves = 0 /\ faults = 0 /\ kills = 0

At(h, place, commands) ==
    /\ phase' = [phase EXCEPT ![h] = place]
    /\ todo' = [todo EXCEPT ![h] = commands]

Holds(h, e) == extension' = [extension EXCEPT ![h] = e]

(* The commands that make the extension and that undo it.                  *)
PutBack(e) == IF e.moved = "shifted" THEN <<"put_back">> ELSE <<>>
Drops == <<"give_back", "delmode", "rmmode">>
Forgets(e) == PutBack(e) \o Drops
Extends == <<"newmode", "addmode", "show">>

-----------------------------------------------------------------------------
(* The X server.                                                           *)

Possible(c, e) ==
    CASE c = "newmode" -> mode = "gone"
      [] c = "addmode" -> mode = "created"
      [] c = "show" -> mode = "added"
      [] c = "delmode" -> mode = "added" /\ output # "tv"
      [] c = "rmmode" -> mode = "created"
      [] c = "give_back" -> e.before # "tv" \/ mode = "added"
      [] c = "put_back" -> TRUE

Effect(c, e) ==
    /\ mode' = CASE c = "newmode" -> "created" [] c = "addmode" -> "added"
                 [] c = "delmode" -> "created" [] c = "rmmode" -> "gone"
                 [] OTHER -> mode
    /\ output' = CASE c = "show" -> "tv" [] c = "give_back" -> e.before [] OTHER -> output
    /\ layout' = CASE c = "show" /\ e.moved = "shifted" -> "shifted"
                    [] c = "put_back" -> "home" [] OTHER -> layout

(* The owner places the screens, or switches the output.                   *)
OwnerChanges ==
    /\ moves < MaxMoves /\ moves' = moves + 1
    /\ \/ layout # "elsewhere" /\ layout' = "elsewhere" /\ UNCHANGED output
       \/ output' \in {"off", "own"} \ {output} /\ UNCHANGED layout
    /\ looked' = (looked \/ \E h \in Hosts : phase[h] = "undo")
    /\ UNCHANGED <<xfile, mode, phase, todo, extension, reason, overtaken, warned, faults, kills>>

-----------------------------------------------------------------------------
(* _recover, in every constructor: at the process's start and before each  *)
(* stream.                                                                 *)

AfterRecover(h) == At(h, IF reason[h] = "stream" THEN "claim" ELSE "idle", <<>>)

NewMonitor(h) ==
    /\ phase[h] = "idle"
    /\ At(h, "recover", <<>>) /\ reason' = [reason EXCEPT ![h] = "stream"]
    /\ UNCHANGED <<xfile, xdesktop, extension, xhistory, xcounts>>

ReadJournal(h) ==
    /\ phase[h] = "recover"
    /\ IF journal = "none" THEN AfterRecover(h) ELSE At(h, "reclaim", <<>>)
    /\ UNCHANGED <<xfile, xdesktop, extension, reason, xhistory, xcounts>>

(* Mutant: the answer of claim() is ignored.                               *)
RecoverUnclaimed(h) ==
    /\ phase[h] = "reclaim"
    /\ At(h, "reread", <<>>)
    /\ UNCHANGED <<xfile, xdesktop, extension, reason, xhistory, xcounts>>

RecoverClaim(h) ==
    /\ phase[h] = "reclaim"
    /\ \/ Taken(h) /\ AfterRecover(h) /\ UNCHANGED <<owner, held>>
       \/ Claim(h) /\ At(h, "reread", <<>>)
    /\ UNCHANGED <<journal, saved, xdesktop, extension, reason, xhistory, xcounts>>

(* Again: its owner may have restored it meanwhile.                        *)
Reread(h) ==
    /\ phase[h] = "reread"
    /\ \/ journal = "none" /\ AfterRecover(h) /\ ReleaseClaim(h) /\ UNCHANGED extension
       \/ /\ journal # "none" /\ At(h, "look", <<>>)
          /\ Holds(h, [moved |-> journal, before |-> saved])
          /\ UNCHANGED <<owner, held>>
    /\ UNCHANGED <<journal, saved, xdesktop, reason, xhistory, xcounts>>

(* Mutant: what the owner changed since is overridden.                     *)
UndoKilledRunBlindly(h) ==
    /\ phase[h] = "look"
    /\ At(h, "undo", Forgets(extension[h]))
    /\ UNCHANGED <<xfile, xdesktop, extension, reason, xhistory, xcounts>>

(* _undo_killed_run looks, and undoes what is still there.                 *)
UndoKilledRun(h) ==
    /\ phase[h] = "look"
    /\ At(h, "undo", (IF layout = "shifted" THEN PutBack(extension[h]) ELSE <<>>)
                     \o (IF output = "tv" THEN <<"give_back">> ELSE <<>>)
                     \o (IF mode # "gone" THEN <<"delmode", "rmmode">> ELSE <<>>))
    /\ UNCHANGED <<xfile, xdesktop, extension, reason, xhistory, xcounts>>

-----------------------------------------------------------------------------
(* create().                                                               *)

CreateClaim(h) ==
    /\ phase[h] = "claim"
    /\ \/ Taken(h) /\ At(h, "idle", <<>>) /\ warned' = TRUE /\ UNCHANGED <<owner, held>>
       \/ Claim(h) /\ At(h, "query", <<>>) /\ UNCHANGED warned
    /\ overtaken' = (overtaken \/ (~Taken(h) /\ journal # "none"))
    /\ UNCHANGED <<journal, saved, xdesktop, extension, reason, looked, xcounts>>

(* _extend: what the output shows now is what it goes back to. A mode that *)
(* is listed is what an interrupted run left.                              *)
Extend(h, moved) ==
    /\ phase[h] = "query"
    /\ Holds(h, [moved |-> moved, before |-> output])
    /\ IF mode # "gone" THEN At(h, "leftover", Drops) ELSE At(h, "write", <<>>)
    /\ reason' = [reason EXCEPT ![h] = "create"]
    /\ UNCHANGED <<xfile, xdesktop, xhistory, xcounts>>

(* Mutant: the mode is made before the journal is written.                 *)
WriteJournalLate(h) ==
    /\ phase[h] = "write"
    /\ At(h, "extend", Extends)
    /\ UNCHANGED <<xfile, xdesktop, extension, reason, xhistory, xcounts>>

WriteJournal(h) ==
    /\ phase[h] = "write"
    /\ Write(extension[h].moved) /\ saved' = extension[h].before
    /\ At(h, "extend", Extends)
    /\ UNCHANGED <<owner, held, xdesktop, extension, reason, xhistory, xcounts>>

(* _accepted: the desktop lists the new screen in time.                    *)
Accepted(h) ==
    /\ phase[h] = "accept" /\ output = "tv"
    /\ At(h, "extended", <<>>)
    /\ UNCHANGED <<xfile, xdesktop, extension, reason, xhistory, xcounts>>

-----------------------------------------------------------------------------
(* The commands, and how each series ends.                                 *)

Xrandr(h) ==
    /\ todo[h] # <<>>
    /\ Possible(Head(todo[h]), extension[h]) /\ Effect(Head(todo[h]), extension[h])
    /\ At(h, phase[h], Tail(todo[h]))
    /\ UNCHANGED <<xfile, extension, reason, xhistory, xcounts>>

SeriesEnds(h) ==
    /\ phase[h] \in Strict \cup BestEffort /\ todo[h] = <<>>
    /\ At(h, CASE phase[h] = "leftover" -> "write" [] phase[h] = "extend" -> "accept"
               [] OTHER -> "verify", <<>>)
    /\ UNCHANGED <<xfile, xdesktop, extension, reason, xhistory, xcounts>>

Remove(h) ==
    /\ phase[h] \in {"extended", "kept"}
    /\ At(h, "remove", IF phase[h] = "extended" THEN Drops \o PutBack(extension[h]) ELSE todo[h])
    /\ reason' = [reason EXCEPT ![h] = "remove"]
    /\ UNCHANGED <<xfile, xdesktop, extension, xhistory, xcounts>>

ExtensionRestored(h) == mode = "gone" /\ ~(extension[h].moved = "shifted" /\ layout = "shifted")

(* _clear_journal_if_restored.                                             *)
ClearIfRestored(h) ==
    /\ phase[h] = "verify" /\ ExtensionRestored(h)
    /\ Clear(h) /\ Holds(h, NoExtension)
    /\ AfterRecover(h)
    /\ UNCHANGED <<saved, xdesktop, reason, xhistory, xcounts>>

-----------------------------------------------------------------------------
(* Failures.                                                               *)

(* The call raises. create() and _recover() release the lock, the journal  *)
(* stays for the next recovery; remove() keeps the extension and what is   *)
(* left to do.                                                             *)
Raises(h) ==
    /\ warned' = TRUE
    /\ IF reason[h] = "remove"
          THEN At(h, "kept", todo[h]) /\ UNCHANGED <<owner, held, extension>>
          ELSE At(h, "idle", <<>>) /\ ReleaseClaim(h) /\ Holds(h, NoExtension)
    /\ UNCHANGED <<looked, overtaken, kills, moves>>

(* What a failing command leads to: the next one, the undo, or the raise.  *)
Failed(h) ==
    CASE phase[h] \in BestEffort ->
            /\ At(h, phase[h], Tail(todo[h]))
            /\ UNCHANGED <<owner, held, extension, xhistory, kills, moves>>
      [] phase[h] \in {"extend", "accept", "write"} ->
            /\ At(h, "forget", Forgets(extension[h])) /\ warned' = TRUE
            /\ UNCHANGED <<owner, held, extension, looked, overtaken, kills, moves>>
      [] OTHER -> Raises(h)

(* xrandr refuses.                                                         *)
Refused(h) ==
    /\ \/ todo[h] # <<>> /\ ~Possible(Head(todo[h]), extension[h])
       \/ phase[h] = "accept" /\ output # "tv"
       \/ phase[h] = "verify" /\ ~ExtensionRestored(h)
    /\ phase[h] # "kept" /\ Failed(h)
    /\ UNCHANGED <<journal, saved, xdesktop, reason, faults>>

(* A command, a query or a file operation fails or times out.              *)
Fault(h) ==
    /\ faults < MaxFaults /\ faults' = faults + 1
    /\ \/ phase[h] \in {"recover", "reclaim", "reread", "look", "claim", "query", "verify"}
       \/ phase[h] = "accept" \/ phase[h] = "write"
       \/ phase[h] \in Strict \cup BestEffort /\ todo[h] # <<>>
    /\ Failed(h)
    /\ UNCHANGED reason
    /\ \/ UNCHANGED <<journal, saved, xdesktop>>
       \/ /\ todo[h] # <<>> /\ Possible(Head(todo[h]), extension[h])
          /\ Effect(Head(todo[h]), extension[h])
          /\ UNCHANGED <<journal, saved>>
       \/ /\ phase[h] = "write"
          /\ Write(extension[h].moved) /\ saved' = extension[h].before
          /\ UNCHANGED xdesktop

(* GNOME refuses the mode silently.                                        *)
SilentlyIgnored(h) ==
    /\ faults < MaxFaults /\ faults' = faults + 1
    /\ todo[h] = <<"show">> /\ At(h, phase[h], <<>>)
    /\ UNCHANGED <<xfile, xdesktop, extension, reason, xhistory, moves, kills>>

(* The HLS session that made the extension forgets it after a failed stop: *)
(* the descriptor of the lock stays open.                                  *)
Dropped(h) ==
    /\ phase[h] = "kept"
    /\ held' = [held EXCEPT ![h] = FALSE]
    /\ At(h, "idle", <<>>) /\ Holds(h, NoExtension)
    /\ UNCHANGED <<journal, owner, saved, xdesktop, reason, xhistory, xcounts>>

Killed(h) ==
    /\ kills < MaxKills /\ kills' = kills + 1
    /\ phase[h] # "down" /\ At(h, "down", <<>>)
    /\ Dies(h) /\ Holds(h, NoExtension)
    /\ UNCHANGED <<saved, xdesktop, reason, xhistory, moves, faults>>

(* Mutant: only the next stream recovers.                                  *)
StartsIdle(h) ==
    /\ phase[h] = "down"
    /\ At(h, "idle", <<>>) /\ reason' = [reason EXCEPT ![h] = "boot"]
    /\ UNCHANGED <<xfile, xdesktop, extension, xhistory, xcounts>>

(* recover_interrupted_extension, at start-up.                             *)
Starts(h) ==
    /\ phase[h] = "down"
    /\ At(h, "recover", <<>>) /\ reason' = [reason EXCEPT ![h] = "boot"]
    /\ UNCHANGED <<xfile, xdesktop, extension, xhistory, xcounts>>

-----------------------------------------------------------------------------
XWorks(h) ==
    \/ ReadJournal(h) \/ RecoverClaim(h) \/ Reread(h) \/ UndoKilledRun(h)
    \/ CreateClaim(h) \/ \E moved \in Payloads : Extend(h, moved)
    \/ WriteJournal(h) \/ Accepted(h)
    \/ Xrandr(h) /\ phase[h] # "kept"
    \/ SeriesEnds(h) \/ ClearIfRestored(h) \/ Refused(h)

XNext ==
    \/ OwnerChanges
    \/ \E h \in Hosts : \/ XWorks(h) \/ NewMonitor(h) \/ Remove(h) \/ Dropped(h)
                        \/ Fault(h) \/ SilentlyIgnored(h) \/ Killed(h) \/ Starts(h)

(* A process goes on with what it began, and is started again once killed. *)
XFairness == \A h \in Hosts : WF_xvars(XWorks(h)) /\ WF_xvars(Starts(h))

XSpec == XInit /\ [][XNext]_xvars /\ XFairness

-----------------------------------------------------------------------------
(* Wherever the process is killed, what it changed is in the journal: the  *)
(* mode, the TV on the output or moved screens never outlive it.           *)
ExtensionIsOnDisk ==
    mode # "gone" \/ output = "tv" \/ layout = "shifted" => journal # "none" \/ overtaken

(* Neither another process's recovery nor its refused stream undoes the    *)
(* screen of a running stream.                                             *)
ExtendedScreenStays ==
    \A h \in Hosts : phase[h] = "extended" =>
        /\ mode = "added" /\ owner = h /\ held[h]
        /\ journal = extension[h].moved /\ saved = extension[h].before

(* What a stream adds to the desktop is in the journal before it is on the *)
(* screen, wherever the process is killed, and neither another process's   *)
(* recovery nor its refused stream takes it away (virtual_display.py).     *)
ExtensionIsSafe ==
    XTypeOK /\ ExtensionIsOnDisk /\ ExtendedScreenStays

(* The recovery keeps what the owner changed since the killed run (unless  *)
(* the change falls between its look and its command).                     *)
RecoveryKeepsTheOwnersDesktop ==
    [][\A h \in Hosts : phase[h] = "undo" /\ phase'[h] = "undo" /\ ~looked =>
          /\ layout' # layout => layout = "shifted" \/ layout' = "elsewhere"
          /\ output' # output => output = "tv" \/ moves' # moves]_xvars

(* What a killed run left goes by itself, or the owner is told.            *)
DesktopComesBack ==
    journal # "none" ~>
        (journal = "none" \/ warned \/ \E h \in Hosts : phase[h] = "extended")
=============================================================================
