------------------------ MODULE ExtendedDisplayProofs ------------------------
(***************************************************************************)
(* ExtendedDisplay, for any number of processes, commands that fail, kills *)
(* and changes by the owner: the way back is on disk, a stream keeps its   *)
(* screen, and a recovery undoes only what is still the extension's.       *)
(***************************************************************************)
EXTENDS ExtendedDisplay, TLAPS

(* The places of a monitor that owns the journal.                          *)
Owning == {"reread", "look", "undo", "query", "leftover", "write", "extend", "accept",
           "extended", "remove", "kept", "forget", "verify"}

(* The commands that only take something away.                             *)
Undoing == {"give_back", "delmode", "rmmode", "put_back"}

Lock ==
    /\ \A h \in Hosts : held[h] => owner = h
    /\ \A h \in Hosts : phase[h] \in Owning => held[h]

(* The commands of a process fit its phase.                                *)
Series(h) ==
    /\ phase[h] # "extend" => todo[h] \in Seq(Undoing)
    /\ todo[h] # <<>> => phase[h] \in Strict \cup BestEffort \cup {"kept"}
    /\ reason[h] = "remove" => phase[h] \in {"remove", "verify", "kept", "idle", "down"}

(* What the journal says while a process owns it.                          *)
Monitor(h) ==
    /\ phase[h] \in {"query", "leftover", "write"} => journal = "none" \/ overtaken
    /\ phase[h] \in {"leftover", "write", "extend", "accept", "extended"} =>
         extension[h].moved \in Payloads
    /\ phase[h] \in {"extend", "accept", "extended"} =>
         journal = extension[h].moved /\ saved = extension[h].before
    /\ phase[h] \in {"look", "undo", "remove", "kept", "forget", "verify"} =>
         journal \in {extension[h].moved, "none"} \/ overtaken
    /\ phase[h] = "extended" => mode = "added"

(* What a recovery still has to do is still there, unless the owner moved. *)
Recovers(h) ==
    phase[h] = "undo" /\ ~looked =>
        \A i \in 1..Len(todo[h]) :
            /\ todo[h][i] = "put_back" => i = 1 /\ layout = "shifted"
            /\ todo[h][i] = "give_back" =>
                 output = "tv" /\ (i = 1 \/ (i = 2 /\ todo[h][1] = "put_back"))

(* What the desktop shows and what the journal says of it.                 *)
Desktop ==
    /\ output = "tv" => mode = "added"
    /\ layout = "shifted" => journal = "shifted" \/ overtaken
    /\ ExtensionIsOnDisk

Host(h) == Series(h) /\ Monitor(h) /\ Recovers(h)

XInv == XTypeOK /\ Lock /\ (\A h \in Hosts : Host(h)) /\ Desktop

-----------------------------------------------------------------------------
(* The series of commands.                                                 *)

(* What is left of an undoing is undoing.                                  *)
LEMMA SeqOfUndoing ==
    ASSUME NEW s \in Seq(Undoing)
    PROVE  /\ s \in Seq(Commands)
           /\ s # <<>> => Head(s) \in Undoing /\ Tail(s) \in Seq(Undoing)
<1>1. Undoing \subseteq Commands
  BY DEF Undoing, Commands
<1>2. s \in Seq(Commands)
  BY <1>1
<1>3. s # <<>> => Head(s) \in Undoing /\ Tail(s) \in Seq(Undoing)
  OBVIOUS
<1> QED BY <1>2, <1>3

(* Each series of commands is of its type.                                 *)
LEMMA SeriesTypes ==
    /\ Extends \in Seq(Commands)
    /\ Drops \in Seq(Undoing)
    /\ \A e : PutBack(e) \in Seq(Undoing)
    /\ \A e : Forgets(e) \in Seq(Undoing)
    /\ \A e : Drops \o PutBack(e) \in Seq(Undoing)
<1>1. Extends \in Seq(Commands)
  BY DEF Extends, Commands
<1>2. Drops \in Seq(Undoing)
  BY DEF Drops, Undoing
<1>3. ASSUME NEW e PROVE PutBack(e) \in Seq(Undoing)
  <2>1. <<"put_back">> \in Seq(Undoing) /\ <<>> \in Seq(Undoing)
    BY DEF Undoing
  <2> QED BY <2>1 DEF PutBack
<1>4. ASSUME NEW e PROVE Forgets(e) \in Seq(Undoing)
  BY <1>2, <1>3 DEF Forgets
<1>5. ASSUME NEW e PROVE Drops \o PutBack(e) \in Seq(Undoing)
  BY <1>2, <1>3
<1> QED BY <1>1, <1>2, <1>3, <1>4, <1>5

(* What _undo_killed_run runs: each command at most once, in this order.   *)
LEMMA UndoSeries ==
    ASSUME NEW a \in {<<>>, <<"put_back">>}, NEW b \in {<<>>, <<"give_back">>},
           NEW c \in {<<>>, <<"delmode", "rmmode">>}
    PROVE  /\ a \o b \o c \in Seq(Undoing)
           /\ \A i \in 1..Len(a \o b \o c) :
                /\ (a \o b \o c)[i] = "put_back" => i = 1 /\ a = <<"put_back">>
                /\ (a \o b \o c)[i] = "give_back" =>
                     /\ b = <<"give_back">>
                     /\ i = 1 \/ (i = 2 /\ (a \o b \o c)[1] = "put_back")
<1>1. /\ <<>> \in Seq(Undoing) /\ <<"put_back">> \in Seq(Undoing)
      /\ <<"give_back">> \in Seq(Undoing) /\ <<"delmode", "rmmode">> \in Seq(Undoing)
  BY DEF Undoing
<1>2. a \in Seq(Undoing) /\ b \in Seq(Undoing) /\ c \in Seq(Undoing)
  BY <1>1
<1>3. /\ Len(a) \in {0, 1} /\ (Len(a) = 1 => a = <<"put_back">>)
      /\ \A i \in 1..Len(a) : a[i] = "put_back"
  <2>1. CASE a = <<>>
    BY <2>1
  <2>2. CASE a = <<"put_back">>
    BY <2>2
  <2> QED BY <2>1, <2>2
<1>4. /\ Len(b) \in {0, 1} /\ (Len(b) = 1 => b = <<"give_back">>)
      /\ \A i \in 1..Len(b) : b[i] = "give_back"
  <2>1. CASE b = <<>>
    BY <2>1
  <2>2. CASE b = <<"give_back">>
    BY <2>2
  <2> QED BY <2>1, <2>2
<1>5. Len(c) \in Nat /\ \A i \in 1..Len(c) : c[i] \in {"delmode", "rmmode"}
  <2>1. CASE c = <<>>
    BY <2>1
  <2>2. CASE c = <<"delmode", "rmmode">>
    BY <2>2
  <2> QED BY <2>1, <2>2
<1> DEFINE s == a \o b \o c
<1>6. s \in Seq(Undoing) /\ Len(s) = Len(a) + Len(b) + Len(c)
  BY <1>2
<1>7. \A i \in 1..Len(s) : s[i] = IF i <= Len(a) THEN a[i]
                                ELSE IF i <= Len(a) + Len(b) THEN b[i - Len(a)]
                                ELSE c[i - Len(a) - Len(b)]
  BY <1>2, <1>3, <1>4, <1>5
<1> HIDE DEF s
<1>8. ASSUME NEW i \in 1..Len(s), s[i] = "put_back"
      PROVE  i = 1 /\ a = <<"put_back">>
  <2>1. i \in Nat /\ i >= 1 /\ Len(a) \in Nat /\ Len(b) \in Nat /\ Len(c) \in Nat
    BY <1>2, <1>6
  <2>2. CASE i <= Len(a)
    BY <1>3, <2>1, <2>2
  <2>3. CASE i > Len(a) /\ i <= Len(a) + Len(b)
    <3>1. i - Len(a) \in 1..Len(b) /\ s[i] = b[i - Len(a)]
      BY <1>7, <2>1, <2>3
    <3> QED BY <3>1, <1>4, <1>8
  <2>4. CASE i > Len(a) + Len(b)
    <3>1. i - Len(a) - Len(b) \in 1..Len(c) /\ s[i] = c[i - Len(a) - Len(b)]
      BY <1>6, <1>7, <2>1, <2>4
    <3> QED BY <3>1, <1>5, <1>8
  <2> QED BY <2>1, <2>2, <2>3, <2>4
<1>9. ASSUME NEW i \in 1..Len(s), s[i] = "give_back"
      PROVE  b = <<"give_back">> /\ (i = 1 \/ (i = 2 /\ s[1] = "put_back"))
  <2>1. i \in Nat /\ i >= 1 /\ Len(a) \in Nat /\ Len(b) \in Nat /\ Len(c) \in Nat
    BY <1>2, <1>6
  <2>2. CASE i <= Len(a)
    <3>1. s[i] = a[i] /\ i \in 1..Len(a)
      BY <1>7, <2>1, <2>2
    <3> QED BY <3>1, <1>3, <1>9
  <2>3. CASE i > Len(a) /\ i <= Len(a) + Len(b)
    <3>1. Len(b) = 1 /\ i = Len(a) + 1
      BY <1>4, <2>1, <2>3
    <3>2. CASE Len(a) = 0
      BY <3>1, <3>2, <1>4
    <3>3. CASE Len(a) = 1
      <4>1. 1 \in 1..Len(s) /\ 1 \in 1..Len(a)
        BY <3>1, <3>3, <2>1
      <4>2. s[1] = a[1]
        BY <4>1, <1>7, <3>3
      <4> QED BY <4>1, <4>2, <3>1, <3>3, <1>3, <1>4
    <3> QED BY <3>2, <3>3, <1>3
  <2>4. CASE i > Len(a) + Len(b)
    <3>1. i - Len(a) - Len(b) \in 1..Len(c) /\ s[i] = c[i - Len(a) - Len(b)]
      BY <1>6, <1>7, <2>1, <2>4
    <3> QED BY <3>1, <1>5, <1>9
  <2> QED BY <2>1, <2>2, <2>3, <2>4
<1> QED BY <1>6, <1>8, <1>9 DEF s

-----------------------------------------------------------------------------
(* One process moves: the others keep what they know, because only the     *)
(* owner of the journal changes it or the desktop.                         *)

Only(h) ==
    /\ \A g \in Hosts : g # h =>
         /\ phase'[g] = phase[g] /\ todo'[g] = todo[g] /\ held'[g] = held[g]
         /\ extension'[g] = extension[g] /\ reason'[g] = reason[g]
         /\ held[g] => owner' = owner
    /\ looked => looked'
    /\ overtaken => overtaken'
    /\ held[h] \/ UNCHANGED <<journal, saved, layout, output, mode>>

Keeps(h) == (held'[h] => owner' = h) /\ (phase'[h] \in Owning => held'[h])

(* What one host does leaves the invariant of another.                     *)
LEMMA OtherHosts ==
    ASSUME XInv, XTypeOK', NEW h \in Hosts, NEW g \in Hosts, g # h, Only(h)
    PROVE  Host(g)'
<1>1. /\ phase'[g] = phase[g] /\ todo'[g] = todo[g]
      /\ extension'[g] = extension[g] /\ reason'[g] = reason[g]
      /\ looked => looked'
      /\ overtaken => overtaken'
      /\ held[h] \/ UNCHANGED <<journal, saved, layout, output, mode>>
  BY DEF Only
<1>2. Series(g)'
  BY <1>1 DEF XInv, Host, Series
<1>3. CASE held[h]
  <2>1. phase[g] \notin Owning
    BY <1>3 DEF XInv, Lock
  <2>2. Monitor(g)'
    BY <1>1, <2>1 DEF Monitor, Owning
  <2>3. Recovers(g)'
    BY <1>1, <2>1 DEF Recovers, Owning
  <2> QED BY <1>2, <2>2, <2>3 DEF Host
<1>4. CASE UNCHANGED <<journal, saved, layout, output, mode>>
  <2>1. Monitor(g)'
    BY <1>1, <1>4 DEF XInv, Host, Monitor
  <2>2. Recovers(g)'
    BY <1>1, <1>4 DEF XInv, Host, Recovers
  <2> QED BY <1>2, <2>1, <2>2 DEF Host
<1> QED BY <1>1, <1>3, <1>4

(* A step of one host keeps the whole, once it keeps what is of that host  *)
(* and the desktop.                                                        *)
LEMMA StepOfOne ==
    ASSUME XInv, XTypeOK', NEW h \in Hosts, Only(h), Keeps(h), Host(h)', Desktop'
    PROVE  XInv'
<1>1. Lock'
  <2>1. ASSUME NEW g \in Hosts PROVE (held[g] => owner = g)' /\ (phase[g] \in Owning => held[g])'
    <3>1. CASE g = h
      BY <3>1 DEF Keeps
    <3>2. CASE g # h
      BY <3>2 DEF Only, XInv, Lock
    <3> QED BY <3>1, <3>2
  <2> QED BY <2>1 DEF Lock
<1>2. \A g \in Hosts : Host(g)'
  BY OtherHosts
<1> QED BY <1>1, <1>2 DEF XInv

(* At moves one host.                                                      *)
LEMMA AtStep ==
    ASSUME XTypeOK, NEW h \in Hosts, NEW p \in Phases, NEW t \in Seq(Commands), At(h, p, t)
    PROVE  /\ phase' \in [Hosts -> Phases] /\ todo' \in [Hosts -> Seq(Commands)]
           /\ phase'[h] = p /\ todo'[h] = t
           /\ \A g \in Hosts : g # h => phase'[g] = phase[g] /\ todo'[g] = todo[g]
BY DEF XTypeOK, At

(* Holds changes what one host remembers of its extension.                 *)
LEMMA HoldsStep ==
    ASSUME XTypeOK, NEW h \in Hosts, Holds(h, NoExtension)
    PROVE  /\ extension' \in [Hosts -> [moved : Payloads \cup {"none"}, before : Shows]]
           /\ extension'[h] = NoExtension
           /\ \A g \in Hosts : g # h => extension'[g] = extension[g]
<1>1. NoExtension \in [moved : Payloads \cup {"none"}, before : Shows]
  BY DEF NoExtension, Shows
<1> HIDE DEF NoExtension
<1> QED BY <1>1 DEF XTypeOK, Holds

(* No command at all is a series.                                          *)
LEMMA NoCommands == <<>> \in Seq(Commands) /\ <<>> \in Seq(Undoing)
OBVIOUS

(* A step that changes neither the file nor the desktop.                   *)
LEMMA QuietStep ==
    ASSUME XInv, XTypeOK', NEW h \in Hosts, UNCHANGED <<journal, saved, layout, output, mode>>,
           UNCHANGED <<looked, overtaken, owner, held, extension>>,
           \A g \in Hosts : g # h => /\ phase'[g] = phase[g] /\ todo'[g] = todo[g]
                                     /\ reason'[g] = reason[g],
           phase'[h] \in Owning => phase[h] \in Owning,
           Series(h)', Monitor(h)', Recovers(h)'
    PROVE  XInv'
<1>1. Only(h)
  BY DEF Only
<1>2. Keeps(h)
  BY DEF Keeps, XInv, Lock
<1>3. Desktop'
  BY DEF XInv, Desktop, ExtensionIsOnDisk
<1> QED BY <1>1, <1>2, <1>3, StepOfOne DEF Host

(* A stream asks for a new monitor: what an earlier run left is looked for *)
(* first.                                                                  *)
LEMMA NewMonitorInv ==
    ASSUME XInv, NEW h \in Hosts, NewMonitor(h)
    PROVE  XInv'
<1>1. PICK p \in Phases, t \in Seq(Commands) :
        At(h, p, t) /\ p = "recover" /\ t = <<>>
  BY NoCommands DEF NewMonitor, XInv, XTypeOK, Strict, BestEffort, Phases
<1>2. /\ phase' \in [Hosts -> Phases] /\ todo' \in [Hosts -> Seq(Commands)]
      /\ phase'[h] = p /\ todo'[h] = t
      /\ \A g \in Hosts : g # h => phase'[g] = phase[g] /\ todo'[g] = todo[g]
  BY <1>1, AtStep DEF XInv
<1>3. /\ reason' \in [Hosts -> {"boot", "stream", "create", "remove"}]
      /\ \A g \in Hosts : g # h => reason'[g] = reason[g]
  BY DEF NewMonitor, XInv, XTypeOK
<1>4. UNCHANGED <<xfile, xdesktop, extension, xhistory, xcounts>>
  BY DEF NewMonitor
<1>5. XTypeOK'
  BY <1>2, <1>3, <1>4 DEF XInv, XTypeOK, JournalTypeOK, xfile, xdesktop, xhistory, xcounts
<1>6. Series(h)'
  BY <1>1, <1>2, SeriesTypes DEF NewMonitor, Series, XInv, XTypeOK, Host, Strict, BestEffort
<1>7. Monitor(h)'
  BY <1>1, <1>2, <1>4 DEF NewMonitor, Monitor, XInv, Host, xfile, xdesktop, xhistory, Strict, BestEffort, Desktop
<1>8. Recovers(h)'
  BY <1>1, <1>2, <1>4 DEF NewMonitor, Recovers, XInv, Host, xdesktop, xhistory, Strict, BestEffort
<1>9. phase'[h] \in Owning => phase[h] \in Owning
  BY <1>1, <1>2 DEF NewMonitor, Owning, Strict, BestEffort
<1> QED BY <1>2, <1>3, <1>4, <1>5, <1>6, <1>7, <1>8, <1>9, QuietStep DEF xfile, xdesktop, xhistory

(* A host starts, and recovers what an earlier run left.                   *)
LEMMA StartsInv ==
    ASSUME XInv, NEW h \in Hosts, Starts(h)
    PROVE  XInv'
<1>1. PICK p \in Phases, t \in Seq(Commands) :
        At(h, p, t) /\ p = "recover" /\ t = <<>>
  BY NoCommands DEF Starts, XInv, XTypeOK, Strict, BestEffort, Phases
<1>2. /\ phase' \in [Hosts -> Phases] /\ todo' \in [Hosts -> Seq(Commands)]
      /\ phase'[h] = p /\ todo'[h] = t
      /\ \A g \in Hosts : g # h => phase'[g] = phase[g] /\ todo'[g] = todo[g]
  BY <1>1, AtStep DEF XInv
<1>3. /\ reason' \in [Hosts -> {"boot", "stream", "create", "remove"}]
      /\ \A g \in Hosts : g # h => reason'[g] = reason[g]
  BY DEF Starts, XInv, XTypeOK
<1>4. UNCHANGED <<xfile, xdesktop, extension, xhistory, xcounts>>
  BY DEF Starts
<1>5. XTypeOK'
  BY <1>2, <1>3, <1>4 DEF XInv, XTypeOK, JournalTypeOK, xfile, xdesktop, xhistory, xcounts
<1>6. Series(h)'
  BY <1>1, <1>2, SeriesTypes DEF Starts, Series, XInv, XTypeOK, Host, Strict, BestEffort
<1>7. Monitor(h)'
  BY <1>1, <1>2, <1>4 DEF Starts, Monitor, XInv, Host, xfile, xdesktop, xhistory, Strict, BestEffort, Desktop
<1>8. Recovers(h)'
  BY <1>1, <1>2, <1>4 DEF Starts, Recovers, XInv, Host, xdesktop, xhistory, Strict, BestEffort
<1>9. phase'[h] \in Owning => phase[h] \in Owning
  BY <1>1, <1>2 DEF Starts, Owning, Strict, BestEffort
<1> QED BY <1>2, <1>3, <1>4, <1>5, <1>6, <1>7, <1>8, <1>9, QuietStep DEF xfile, xdesktop, xhistory

(* The journal is read.                                                    *)
LEMMA ReadJournalInv ==
    ASSUME XInv, NEW h \in Hosts, ReadJournal(h)
    PROVE  XInv'
<1>1. PICK p \in Phases, t \in Seq(Commands) :
        At(h, p, t) /\ p \in {"reclaim", "claim", "idle"} /\ t = <<>>
  BY NoCommands DEF ReadJournal, XInv, XTypeOK, Strict, BestEffort, Phases, AfterRecover
<1>2. /\ phase' \in [Hosts -> Phases] /\ todo' \in [Hosts -> Seq(Commands)]
      /\ phase'[h] = p /\ todo'[h] = t
      /\ \A g \in Hosts : g # h => phase'[g] = phase[g] /\ todo'[g] = todo[g]
  BY <1>1, AtStep DEF XInv
<1>3. /\ reason' \in [Hosts -> {"boot", "stream", "create", "remove"}]
      /\ \A g \in Hosts : g # h => reason'[g] = reason[g]
  BY DEF ReadJournal, XInv, XTypeOK
<1>4. UNCHANGED <<xfile, xdesktop, extension, xhistory, xcounts>>
  BY DEF ReadJournal
<1>5. XTypeOK'
  BY <1>2, <1>3, <1>4 DEF XInv, XTypeOK, JournalTypeOK, xfile, xdesktop, xhistory, xcounts
<1>6. Series(h)'
  BY <1>1, <1>2, SeriesTypes DEF ReadJournal, Series, XInv, XTypeOK, Host, Strict, BestEffort, AfterRecover
<1>7. Monitor(h)'
  BY <1>1, <1>2, <1>4 DEF ReadJournal, Monitor, XInv, Host, xfile, xdesktop, xhistory, Strict, BestEffort, Desktop
<1>8. Recovers(h)'
  BY <1>1, <1>2, <1>4 DEF ReadJournal, Recovers, XInv, Host, xdesktop, xhistory, Strict, BestEffort
<1>9. phase'[h] \in Owning => phase[h] \in Owning
  BY <1>1, <1>2 DEF ReadJournal, Owning, Strict, BestEffort
<1> QED BY <1>2, <1>3, <1>4, <1>5, <1>6, <1>7, <1>8, <1>9, QuietStep DEF xfile, xdesktop, xhistory

(* The desktop lists the new screen.                                       *)
LEMMA AcceptedInv ==
    ASSUME XInv, NEW h \in Hosts, Accepted(h)
    PROVE  XInv'
<1>1. PICK p \in Phases, t \in Seq(Commands) :
        At(h, p, t) /\ p = "extended" /\ t = <<>>
  BY NoCommands DEF Accepted, XInv, XTypeOK, Strict, BestEffort, Phases
<1>2. /\ phase' \in [Hosts -> Phases] /\ todo' \in [Hosts -> Seq(Commands)]
      /\ phase'[h] = p /\ todo'[h] = t
      /\ \A g \in Hosts : g # h => phase'[g] = phase[g] /\ todo'[g] = todo[g]
  BY <1>1, AtStep DEF XInv
<1>3. /\ reason' \in [Hosts -> {"boot", "stream", "create", "remove"}]
      /\ \A g \in Hosts : g # h => reason'[g] = reason[g]
  BY DEF Accepted, XInv, XTypeOK
<1>4. UNCHANGED <<xfile, xdesktop, extension, xhistory, xcounts>>
  BY DEF Accepted
<1>5. XTypeOK'
  BY <1>2, <1>3, <1>4 DEF XInv, XTypeOK, JournalTypeOK, xfile, xdesktop, xhistory, xcounts
<1>6. Series(h)'
  BY <1>1, <1>2, SeriesTypes DEF Accepted, Series, XInv, XTypeOK, Host, Strict, BestEffort
<1>7. Monitor(h)'
  BY <1>1, <1>2, <1>4 DEF Accepted, Monitor, XInv, Host, xfile, xdesktop, xhistory, Strict, BestEffort, Desktop
<1>8. Recovers(h)'
  BY <1>1, <1>2, <1>4 DEF Accepted, Recovers, XInv, Host, xdesktop, xhistory, Strict, BestEffort
<1>9. phase'[h] \in Owning => phase[h] \in Owning
  BY <1>1, <1>2 DEF Accepted, Owning, Strict, BestEffort
<1> QED BY <1>2, <1>3, <1>4, <1>5, <1>6, <1>7, <1>8, <1>9, QuietStep DEF xfile, xdesktop, xhistory

(* A series of commands is over.                                           *)
LEMMA SeriesEndsInv ==
    ASSUME XInv, NEW h \in Hosts, SeriesEnds(h)
    PROVE  XInv'
<1>1. PICK p \in Phases, t \in Seq(Commands) :
        At(h, p, t) /\ t = <<>> /\ p = CASE phase[h] = "leftover" -> "write" [] phase[h] = "extend" -> "accept" [] OTHER -> "verify"
  BY NoCommands DEF SeriesEnds, XInv, XTypeOK, Strict, BestEffort, Phases
<1>2. /\ phase' \in [Hosts -> Phases] /\ todo' \in [Hosts -> Seq(Commands)]
      /\ phase'[h] = p /\ todo'[h] = t
      /\ \A g \in Hosts : g # h => phase'[g] = phase[g] /\ todo'[g] = todo[g]
  BY <1>1, AtStep DEF XInv
<1>3. /\ reason' \in [Hosts -> {"boot", "stream", "create", "remove"}]
      /\ \A g \in Hosts : g # h => reason'[g] = reason[g]
  BY DEF SeriesEnds, XInv, XTypeOK
<1>4. UNCHANGED <<xfile, xdesktop, extension, xhistory, xcounts>>
  BY DEF SeriesEnds
<1>5. XTypeOK'
  BY <1>2, <1>3, <1>4 DEF XInv, XTypeOK, JournalTypeOK, xfile, xdesktop, xhistory, xcounts
<1>6. Series(h)'
  BY <1>1, <1>2, SeriesTypes, NoCommands DEF SeriesEnds, Series, XInv, XTypeOK, Host, Strict, BestEffort
<1>7. Monitor(h)'
  BY <1>1, <1>2, <1>4 DEF SeriesEnds, Monitor, XInv, Host, xfile, xdesktop, xhistory, Strict, BestEffort, Desktop
<1>8. Recovers(h)'
  BY <1>1, <1>2, <1>4 DEF SeriesEnds, Recovers, XInv, Host, xdesktop, xhistory, Strict, BestEffort
<1>9. phase'[h] \in Owning => phase[h] \in Owning
  BY <1>1, <1>2 DEF SeriesEnds, Owning, Strict, BestEffort
<1> QED BY <1>2, <1>3, <1>4, <1>5, <1>6, <1>7, <1>8, <1>9, QuietStep DEF xfile, xdesktop, xhistory

(* The removal of an extension begins.                                     *)
LEMMA RemoveInv ==
    ASSUME XInv, NEW h \in Hosts, Remove(h)
    PROVE  XInv'
<1>1. PICK p \in Phases, t \in Seq(Commands) :
        At(h, p, t) /\ p = "remove" /\ t \in Seq(Undoing)
  BY SeriesTypes, SeqOfUndoing DEF Remove, XInv, XTypeOK, Strict, BestEffort, Phases, Host, Series
<1>2. /\ phase' \in [Hosts -> Phases] /\ todo' \in [Hosts -> Seq(Commands)]
      /\ phase'[h] = p /\ todo'[h] = t
      /\ \A g \in Hosts : g # h => phase'[g] = phase[g] /\ todo'[g] = todo[g]
  BY <1>1, AtStep DEF XInv
<1>3. /\ reason' \in [Hosts -> {"boot", "stream", "create", "remove"}]
      /\ \A g \in Hosts : g # h => reason'[g] = reason[g]
  BY DEF Remove, XInv, XTypeOK
<1>4. UNCHANGED <<xfile, xdesktop, extension, xhistory, xcounts>>
  BY DEF Remove
<1>5. XTypeOK'
  BY <1>2, <1>3, <1>4 DEF XInv, XTypeOK, JournalTypeOK, xfile, xdesktop, xhistory, xcounts
<1>6. Series(h)'
  BY <1>1, <1>2, SeriesTypes DEF Remove, Series, XInv, XTypeOK, Host, Strict, BestEffort, Host, Series
<1>7. Monitor(h)'
  BY <1>1, <1>2, <1>4 DEF Remove, Monitor, XInv, Host, xfile, xdesktop, xhistory, Strict, BestEffort, Desktop
<1>8. Recovers(h)'
  BY <1>1, <1>2, <1>4 DEF Remove, Recovers, XInv, Host, xdesktop, xhistory, Strict, BestEffort
<1>9. phase'[h] \in Owning => phase[h] \in Owning
  BY <1>1, <1>2 DEF Remove, Owning, Strict, BestEffort
<1> QED BY <1>2, <1>3, <1>4, <1>5, <1>6, <1>7, <1>8, <1>9, QuietStep DEF xfile, xdesktop, xhistory

(* What a killed run left is undone.                                       *)
LEMMA UndoKilledRunInv ==
    ASSUME XInv, NEW h \in Hosts, UndoKilledRun(h)
    PROVE  XInv'
<1> DEFINE a == IF layout = "shifted" THEN PutBack(extension[h]) ELSE <<>>
           b == IF output = "tv" THEN <<"give_back">> ELSE <<>>
           c == IF mode # "gone" THEN <<"delmode", "rmmode">> ELSE <<>>
<1>1. At(h, "undo", a \o b \o c) /\ phase[h] = "look"
  BY DEF UndoKilledRun
<1>2. /\ a \in {<<>>, <<"put_back">>} /\ b \in {<<>>, <<"give_back">>}
      /\ c \in {<<>>, <<"delmode", "rmmode">>}
      /\ (a = <<"put_back">> => layout = "shifted") /\ (b = <<"give_back">> => output = "tv")
  BY DEF PutBack
<1> HIDE DEF a, b, c
<1>3. PICK s : /\ s = a \o b \o c /\ s \in Seq(Undoing)
               /\ \A i \in 1..Len(s) :
                    /\ s[i] = "put_back" => i = 1 /\ layout = "shifted"
                    /\ s[i] = "give_back" =>
                         output = "tv" /\ (i = 1 \/ (i = 2 /\ s[1] = "put_back"))
  <2> DEFINE u == a \o b \o c
  <2>1. /\ u \in Seq(Undoing)
        /\ \A i \in 1..Len(u) :
             /\ u[i] = "put_back" => i = 1 /\ a = <<"put_back">>
             /\ u[i] = "give_back" =>
                  b = <<"give_back">> /\ (i = 1 \/ (i = 2 /\ u[1] = "put_back"))
    BY <1>2, UndoSeries
  <2>2. u = a \o b \o c
    OBVIOUS
  <2> HIDE DEF u
  <2> QED BY <1>2, <2>1, <2>2
<1>4. /\ phase' \in [Hosts -> Phases] /\ todo' \in [Hosts -> Seq(Commands)]
      /\ phase'[h] = "undo" /\ todo'[h] = s
      /\ \A g \in Hosts : g # h => phase'[g] = phase[g] /\ todo'[g] = todo[g]
  <2>1. "undo" \in Phases /\ s \in Seq(Commands) /\ At(h, "undo", s)
    BY <1>1, <1>3, SeqOfUndoing DEF Phases, BestEffort
  <2> QED BY <2>1, AtStep DEF XInv
<1>5. UNCHANGED <<xfile, xdesktop, extension, reason, xhistory, xcounts>>
  BY DEF UndoKilledRun
<1>6. XTypeOK'
  BY <1>4, <1>5 DEF XInv, XTypeOK, JournalTypeOK, xfile, xdesktop, xhistory, xcounts
<1>7. Series(h)'
  BY <1>1, <1>3, <1>4, <1>5 DEF Series, XInv, Host, BestEffort
<1>8. Monitor(h)'
  BY <1>1, <1>4, <1>5 DEF Monitor, XInv, Host, xfile, xhistory, xdesktop
<1>9. Recovers(h)'
  BY <1>3, <1>4, <1>5 DEF Recovers, xdesktop
<1>10. phase'[h] \in Owning => phase[h] \in Owning
  BY <1>1 DEF Owning
<1> QED BY <1>4, <1>5, <1>6, <1>7, <1>8, <1>9, <1>10, QuietStep DEF xfile, xdesktop, xhistory

(* A step that changes who holds the journal, and not the desktop.         *)
LEMMA ClaimStep ==
    ASSUME XInv, XTypeOK', NEW h \in Hosts, UNCHANGED <<journal, saved, layout, output, mode>>,
           UNCHANGED looked, overtaken => overtaken', Keeps(h),
           \A g \in Hosts : g # h =>
              /\ phase'[g] = phase[g] /\ todo'[g] = todo[g]
              /\ reason'[g] = reason[g] /\ extension'[g] = extension[g]
              /\ held'[g] = held[g] /\ (held[g] => owner' = owner),
           Series(h)', Monitor(h)', Recovers(h)'
    PROVE  XInv'
<1>1. Only(h)
  BY DEF Only
<1>2. Desktop'
  BY DEF XInv, Desktop, ExtensionIsOnDisk
<1> QED BY <1>1, <1>2, StepOfOne DEF Host

(* A claim is taken only while nobody holds it.                            *)
LEMMA ClaimFacts ==
    ASSUME XInv, NEW h \in Hosts, Claim(h)
    PROVE  /\ owner' \in Hosts \cup {"none"} /\ held' \in [Hosts -> BOOLEAN]
           /\ owner' = h /\ held'[h]
           /\ \A g \in Hosts : g # h => held'[g] = held[g] /\ (held[g] => owner' = owner)
           /\ ~Taken(h)
BY RestoreJournalAssumption DEF XInv, Lock, Claim, Taken, XTypeOK, JournalTypeOK

(* A claim is released by the host that holds it.                          *)
LEMMA ReleaseFacts ==
    ASSUME XInv, NEW h \in Hosts, ReleaseClaim(h)
    PROVE  /\ owner' \in Hosts \cup {"none"} /\ held' \in [Hosts -> BOOLEAN]
           /\ ~held'[h]
           /\ \A g \in Hosts : g # h => held'[g] = held[g] /\ (held[g] => owner' = owner)
BY RestoreJournalAssumption DEF XInv, Lock, ReleaseClaim, XTypeOK, JournalTypeOK

(* After a recovery the host goes on to its own claim, or is done.         *)
LEMMA AfterRecoverFacts ==
    ASSUME XInv, NEW h \in Hosts, AfterRecover(h)
    PROVE  /\ phase' \in [Hosts -> Phases] /\ todo' \in [Hosts -> Seq(Commands)]
           /\ phase'[h] \in {"claim", "idle"} /\ todo'[h] = <<>>
           /\ reason[h] = "remove" => phase'[h] = "idle"
           /\ \A g \in Hosts : g # h => phase'[g] = phase[g] /\ todo'[g] = todo[g]
<1>1. PICK p \in {"claim", "idle"} : At(h, p, <<>>) /\ (reason[h] = "remove" => p = "idle")
  BY DEF AfterRecover
<1>2. p \in Phases
  BY DEF Phases
<1> QED BY <1>1, <1>2, AtStep, NoCommands DEF XInv

(* A process at rest owns nothing and has nothing to run.                  *)
LEMMA AtRest ==
    ASSUME NEW h \in Hosts, phase'[h] \in {"claim", "idle", "down"}, todo'[h] = <<>>,
           reason'[h] = "remove" => phase'[h] # "claim"
    PROVE  Series(h)' /\ Monitor(h)' /\ Recovers(h)'
<1>1. Series(h)'
  BY NoCommands DEF Series
<1>2. Monitor(h)'
  BY DEF Monitor
<1>3. Recovers(h)'
  BY DEF Recovers
<1> QED BY <1>1, <1>2, <1>3

(* The recovery claims the journal, or leaves it to its owner.             *)
LEMMA RecoverClaimInv ==
    ASSUME XInv, NEW h \in Hosts, RecoverClaim(h)
    PROVE  XInv'
<1>1. UNCHANGED <<journal, saved, xdesktop, extension, reason, xhistory, xcounts>>
  BY DEF RecoverClaim
<1>2. CASE Taken(h) /\ AfterRecover(h) /\ UNCHANGED <<owner, held>>
  <2>1. /\ phase' \in [Hosts -> Phases] /\ todo' \in [Hosts -> Seq(Commands)]
        /\ phase'[h] \in {"claim", "idle"} /\ todo'[h] = <<>>
        /\ reason[h] = "remove" => phase'[h] = "idle"
        /\ \A g \in Hosts : g # h => phase'[g] = phase[g] /\ todo'[g] = todo[g]
    BY <1>2, AfterRecoverFacts
  <2>2. XTypeOK'
    BY <1>1, <1>2, <2>1 DEF XInv, XTypeOK, JournalTypeOK, xdesktop, xhistory, xcounts
  <2>3. Keeps(h)
    BY <1>2, <2>1 DEF Keeps, XInv, Lock, Owning
  <2>4. Series(h)' /\ Monitor(h)' /\ Recovers(h)'
    BY <1>1, <2>1, AtRest
  <2> QED BY <1>1, <1>2, <2>1, <2>2, <2>3, <2>4, ClaimStep DEF xdesktop, xhistory
<1>3. CASE Claim(h) /\ At(h, "reread", <<>>)
  <2>1. /\ phase' \in [Hosts -> Phases] /\ todo' \in [Hosts -> Seq(Commands)]
        /\ phase'[h] = "reread" /\ todo'[h] = <<>>
        /\ \A g \in Hosts : g # h => phase'[g] = phase[g] /\ todo'[g] = todo[g]
    BY <1>3, AtStep, NoCommands DEF XInv, Phases
  <2>2. /\ owner' \in Hosts \cup {"none"} /\ held' \in [Hosts -> BOOLEAN]
        /\ owner' = h /\ held'[h]
        /\ \A g \in Hosts : g # h => held'[g] = held[g] /\ (held[g] => owner' = owner)
    BY <1>3, ClaimFacts
  <2>3. XTypeOK'
    BY <1>1, <2>1, <2>2 DEF XInv, XTypeOK, JournalTypeOK, xdesktop, xhistory, xcounts
  <2>4. Keeps(h)
    BY <2>2 DEF Keeps
  <2>5. Series(h)'
    BY <1>1, <2>1, NoCommands DEF RecoverClaim, Series, XInv, Host
  <2>6. Monitor(h)' /\ Recovers(h)'
    BY <2>1 DEF Monitor, Recovers
  <2> QED BY <1>1, <2>1, <2>2, <2>3, <2>4, <2>5, <2>6, ClaimStep DEF xdesktop, xhistory
<1> QED BY <1>2, <1>3 DEF RecoverClaim

(* The journal is read again under the claim.                              *)
LEMMA RereadInv ==
    ASSUME XInv, NEW h \in Hosts, Reread(h)
    PROVE  XInv'
<1>1. UNCHANGED <<journal, saved, xdesktop, reason, xhistory, xcounts>> /\ phase[h] = "reread"
  BY DEF Reread
<1>2. CASE journal = "none" /\ AfterRecover(h) /\ ReleaseClaim(h) /\ UNCHANGED extension
  <2>1. /\ phase' \in [Hosts -> Phases] /\ todo' \in [Hosts -> Seq(Commands)]
        /\ phase'[h] \in {"claim", "idle"} /\ todo'[h] = <<>>
        /\ reason[h] = "remove" => phase'[h] = "idle"
        /\ \A g \in Hosts : g # h => phase'[g] = phase[g] /\ todo'[g] = todo[g]
    BY <1>2, AfterRecoverFacts
  <2>2. /\ owner' \in Hosts \cup {"none"} /\ held' \in [Hosts -> BOOLEAN]
        /\ ~held'[h]
        /\ \A g \in Hosts : g # h => held'[g] = held[g] /\ (held[g] => owner' = owner)
    BY <1>2, ReleaseFacts
  <2>3. XTypeOK'
    BY <1>1, <1>2, <2>1, <2>2 DEF XInv, XTypeOK, JournalTypeOK, xdesktop, xhistory, xcounts
  <2>4. Keeps(h)
    BY <2>1, <2>2 DEF Keeps, Owning
  <2>5. Series(h)' /\ Monitor(h)' /\ Recovers(h)'
    BY <1>1, <2>1, AtRest
  <2> QED BY <1>1, <1>2, <2>1, <2>2, <2>3, <2>4, <2>5, ClaimStep DEF xdesktop, xhistory
<1>3. CASE /\ journal # "none" /\ At(h, "look", <<>>)
           /\ Holds(h, [moved |-> journal, before |-> saved])
           /\ UNCHANGED <<owner, held>>
  <2>1. /\ phase' \in [Hosts -> Phases] /\ todo' \in [Hosts -> Seq(Commands)]
        /\ phase'[h] = "look" /\ todo'[h] = <<>>
        /\ \A g \in Hosts : g # h => phase'[g] = phase[g] /\ todo'[g] = todo[g]
    BY <1>3, AtStep, NoCommands DEF XInv, Phases
  <2>2. /\ extension' \in [Hosts -> [moved : Payloads \cup {"none"}, before : Shows]]
        /\ extension'[h].moved = journal
        /\ \A g \in Hosts : g # h => extension'[g] = extension[g]
    BY <1>3 DEF XInv, XTypeOK, JournalTypeOK, Holds
  <2>3. XTypeOK'
    BY <1>1, <1>3, <2>1, <2>2 DEF XInv, XTypeOK, JournalTypeOK, xdesktop, xhistory, xcounts
  <2>4. Keeps(h)
    BY <1>1, <1>3, <2>1 DEF Keeps, XInv, Lock, Owning
  <2>5. Series(h)'
    BY <1>1, <2>1, NoCommands DEF Series, XInv, Host
  <2>6. Monitor(h)' /\ Recovers(h)'
    BY <1>1, <2>1, <2>2 DEF Monitor, Recovers
  <2> QED BY <1>1, <1>3, <2>1, <2>2, <2>3, <2>4, <2>5, <2>6, ClaimStep DEF xdesktop, xhistory
<1> QED BY <1>2, <1>3 DEF Reread

(* A creation claims the journal, or gives up.                             *)
LEMMA CreateClaimInv ==
    ASSUME XInv, NEW h \in Hosts, CreateClaim(h)
    PROVE  XInv'
<1>1. /\ UNCHANGED <<journal, saved, xdesktop, extension, reason, looked, xcounts>>
      /\ phase[h] = "claim"
      /\ overtaken' = (overtaken \/ (~Taken(h) /\ journal # "none"))
  BY DEF CreateClaim
<1>2. overtaken' \in BOOLEAN /\ (overtaken => overtaken')
  BY <1>1
<1>3. CASE Taken(h) /\ At(h, "idle", <<>>) /\ warned' = TRUE /\ UNCHANGED <<owner, held>>
  <2>1. /\ phase' \in [Hosts -> Phases] /\ todo' \in [Hosts -> Seq(Commands)]
        /\ phase'[h] = "idle" /\ todo'[h] = <<>>
        /\ \A g \in Hosts : g # h => phase'[g] = phase[g] /\ todo'[g] = todo[g]
    BY <1>3, AtStep, NoCommands DEF XInv, Phases
  <2>2. XTypeOK'
    BY <1>1, <1>2, <1>3, <2>1 DEF XInv, XTypeOK, JournalTypeOK, xdesktop, xcounts
  <2>3. Keeps(h)
    BY <1>3, <2>1 DEF Keeps, XInv, Lock, Owning
  <2>4. Series(h)' /\ Monitor(h)' /\ Recovers(h)'
    BY <1>1, <2>1, AtRest
  <2> QED BY <1>1, <1>2, <1>3, <2>1, <2>2, <2>3, <2>4, ClaimStep DEF xdesktop
<1>4. CASE Claim(h) /\ At(h, "query", <<>>) /\ UNCHANGED warned
  <2>1. /\ phase' \in [Hosts -> Phases] /\ todo' \in [Hosts -> Seq(Commands)]
        /\ phase'[h] = "query" /\ todo'[h] = <<>>
        /\ \A g \in Hosts : g # h => phase'[g] = phase[g] /\ todo'[g] = todo[g]
    BY <1>4, AtStep, NoCommands DEF XInv, Phases
  <2>2. /\ owner' \in Hosts \cup {"none"} /\ held' \in [Hosts -> BOOLEAN]
        /\ owner' = h /\ held'[h] /\ ~Taken(h)
        /\ \A g \in Hosts : g # h => held'[g] = held[g] /\ (held[g] => owner' = owner)
    BY <1>4, ClaimFacts
  <2>3. XTypeOK'
    BY <1>1, <1>2, <1>4, <2>1, <2>2 DEF XInv, XTypeOK, JournalTypeOK, xdesktop, xcounts
  <2>4. Keeps(h)
    BY <2>2 DEF Keeps
  <2>5. Series(h)'
    BY <1>1, <2>1, NoCommands DEF Series, XInv, Host
  <2>6. journal' = "none" \/ overtaken'
    BY <1>1, <2>2
  <2>7. Monitor(h)' /\ Recovers(h)'
    BY <2>1, <2>6 DEF Monitor, Recovers
  <2> QED BY <1>1, <1>2, <2>1, <2>2, <2>3, <2>4, <2>5, <2>7, ClaimStep DEF xdesktop
<1> QED BY <1>3, <1>4 DEF CreateClaim

(* What the output shows is noted, before anything changes.                *)
LEMMA ExtendInv ==
    ASSUME XInv, NEW h \in Hosts, NEW moved \in Payloads, Extend(h, moved)
    PROVE  XInv'
<1>1. /\ UNCHANGED <<xfile, xdesktop, xhistory, xcounts>> /\ phase[h] = "query"
      /\ Holds(h, [moved |-> moved, before |-> output])
  BY DEF Extend
<1>2. PICK p \in {"leftover", "write"}, t \in Seq(Undoing) :
        At(h, p, t) /\ (t # <<>> => p = "leftover")
  BY SeriesTypes, NoCommands DEF Extend
<1>3. /\ phase' \in [Hosts -> Phases] /\ todo' \in [Hosts -> Seq(Commands)]
      /\ phase'[h] = p /\ todo'[h] = t
      /\ \A g \in Hosts : g # h => phase'[g] = phase[g] /\ todo'[g] = todo[g]
  <2>1. p \in Phases /\ t \in Seq(Commands)
    BY SeqOfUndoing DEF Phases, BestEffort
  <2> QED BY <1>2, <2>1, AtStep DEF XInv
<1>4. /\ extension' \in [Hosts -> [moved : Payloads \cup {"none"}, before : Shows]]
      /\ extension'[h].moved = moved
      /\ \A g \in Hosts : g # h => extension'[g] = extension[g]
  BY <1>1 DEF XInv, XTypeOK, Holds
<1>5. /\ reason' \in [Hosts -> {"boot", "stream", "create", "remove"}] /\ reason'[h] = "create"
      /\ \A g \in Hosts : g # h => reason'[g] = reason[g]
  BY DEF Extend, XInv, XTypeOK
<1>6. XTypeOK'
  BY <1>1, <1>3, <1>4, <1>5 DEF XInv, XTypeOK, JournalTypeOK, xfile, xdesktop, xhistory, xcounts
<1>7. Keeps(h)
  BY <1>1, <1>3 DEF Keeps, XInv, Lock, Owning, xfile
<1>8. Series(h)'
  BY <1>2, <1>3, <1>5 DEF Series, BestEffort
<1>9. Monitor(h)' /\ Recovers(h)'
  BY <1>1, <1>3, <1>4 DEF Monitor, Recovers, XInv, Host, xfile, xhistory
<1> QED BY <1>1, <1>3, <1>4, <1>5, <1>6, <1>7, <1>8, <1>9, ClaimStep DEF xfile, xdesktop, xhistory

(* The session forgets the extension after a failed stop; the lock stays.  *)
LEMMA DroppedInv ==
    ASSUME XInv, NEW h \in Hosts, Dropped(h)
    PROVE  XInv'
<1>1. /\ UNCHANGED <<journal, owner, saved, xdesktop, reason, xhistory, xcounts>>
      /\ phase[h] = "kept" /\ At(h, "idle", <<>>) /\ Holds(h, NoExtension)
  BY DEF Dropped
<1>2. /\ phase' \in [Hosts -> Phases] /\ todo' \in [Hosts -> Seq(Commands)]
      /\ phase'[h] = "idle" /\ todo'[h] = <<>>
      /\ \A g \in Hosts : g # h => phase'[g] = phase[g] /\ todo'[g] = todo[g]
  BY <1>1, AtStep, NoCommands DEF XInv, Phases
<1>3. /\ held' \in [Hosts -> BOOLEAN] /\ ~held'[h]
      /\ \A g \in Hosts : g # h => held'[g] = held[g]
  BY DEF Dropped, XInv, XTypeOK, JournalTypeOK
<1>4. /\ extension' \in [Hosts -> [moved : Payloads \cup {"none"}, before : Shows]]
      /\ \A g \in Hosts : g # h => extension'[g] = extension[g]
  BY <1>1, HoldsStep DEF XInv
<1>5. XTypeOK'
  BY <1>1, <1>2, <1>3, <1>4 DEF XInv, XTypeOK, JournalTypeOK, xdesktop, xhistory, xcounts
<1>6. Keeps(h)
  BY <1>2, <1>3 DEF Keeps, Owning
<1>7. Series(h)' /\ Monitor(h)' /\ Recovers(h)'
  BY <1>2, AtRest
<1> QED BY <1>1, <1>2, <1>3, <1>4, <1>5, <1>6, <1>7, ClaimStep DEF xdesktop, xhistory

(* A host is killed, and its claim falls.                                  *)
LEMMA KilledInv ==
    ASSUME XInv, NEW h \in Hosts, Killed(h)
    PROVE  XInv'
<1>1. /\ UNCHANGED <<journal, saved, xdesktop, reason, xhistory, moves, faults>>
      /\ kills' = kills + 1
      /\ At(h, "down", <<>>) /\ Holds(h, NoExtension)
  BY DEF Killed, Dies
<1>2. /\ phase' \in [Hosts -> Phases] /\ todo' \in [Hosts -> Seq(Commands)]
      /\ phase'[h] = "down" /\ todo'[h] = <<>>
      /\ \A g \in Hosts : g # h => phase'[g] = phase[g] /\ todo'[g] = todo[g]
  BY <1>1, AtStep, NoCommands DEF XInv, Phases
<1>3. /\ owner' \in Hosts \cup {"none"} /\ held' \in [Hosts -> BOOLEAN] /\ ~held'[h]
      /\ \A g \in Hosts : g # h => held'[g] = held[g] /\ (held[g] => owner' = owner)
  BY DEF Killed, Dies, XInv, XTypeOK, JournalTypeOK, Lock
<1>4. /\ extension' \in [Hosts -> [moved : Payloads \cup {"none"}, before : Shows]]
      /\ \A g \in Hosts : g # h => extension'[g] = extension[g]
  BY <1>1, HoldsStep DEF XInv
<1>5. XTypeOK'
  BY <1>1, <1>2, <1>3, <1>4 DEF XInv, XTypeOK, JournalTypeOK, xdesktop, xhistory
<1>6. Keeps(h)
  BY <1>2, <1>3 DEF Keeps, Owning
<1>7. Series(h)' /\ Monitor(h)' /\ Recovers(h)'
  BY <1>1, <1>2, AtRest
<1> QED BY <1>1, <1>2, <1>3, <1>4, <1>5, <1>6, <1>7, ClaimStep DEF xdesktop, xhistory

(* The owner changes the desktop by hand.                                  *)
LEMMA OwnerChangesInv ==
    ASSUME XInv, OwnerChanges
    PROVE  XInv'
<1>1. /\ UNCHANGED <<xfile, mode, phase, todo, extension, reason, overtaken, warned, faults, kills>>
      /\ layout' \in {layout, "elsewhere"} /\ output' \in {output, "off", "own"}
      /\ looked' = (looked \/ \E h \in Hosts : phase[h] = "undo")
      /\ moves' = moves + 1
  BY DEF OwnerChanges
<1>2. XTypeOK'
  BY <1>1 DEF XInv, XTypeOK, JournalTypeOK, xfile, Shows
<1>3. Lock'
  BY <1>1 DEF XInv, Lock, xfile
<1>4. ASSUME NEW h \in Hosts PROVE Host(h)'
  BY <1>1 DEF XInv, Host, Series, Monitor, Recovers, xfile
<1>5. Desktop'
  BY <1>1 DEF XInv, Desktop, ExtensionIsOnDisk, xfile
<1> QED BY <1>2, <1>3, <1>4, <1>5 DEF XInv

-----------------------------------------------------------------------------
(* The steps that change the desktop or the file.                          *)

(* The journal is written before the desktop changes.                      *)
LEMMA WriteJournalInv ==
    ASSUME XInv, NEW h \in Hosts, WriteJournal(h)
    PROVE  XInv'
<1>1. /\ UNCHANGED <<owner, held, xdesktop, extension, reason, xhistory, xcounts>>
      /\ phase[h] = "write" /\ At(h, "extend", Extends)
      /\ journal' = extension[h].moved /\ saved' = extension[h].before
  BY DEF WriteJournal, Write
<1>2. /\ phase' \in [Hosts -> Phases] /\ todo' \in [Hosts -> Seq(Commands)]
      /\ phase'[h] = "extend" /\ todo'[h] = Extends
      /\ \A g \in Hosts : g # h => phase'[g] = phase[g] /\ todo'[g] = todo[g]
  <2>1. "extend" \in Phases
    BY DEF Phases, Strict
  <2> QED BY <1>1, <2>1, AtStep, SeriesTypes DEF XInv
<1>3. /\ journal' \in Payloads /\ saved' \in Shows /\ held[h]
      /\ journal = "none" \/ overtaken
  BY <1>1 DEF XInv, XTypeOK, Host, Monitor, Lock, Owning
<1>4. XTypeOK'
  BY <1>1, <1>2, <1>3 DEF XInv, XTypeOK, JournalTypeOK, xdesktop, xhistory, xcounts
<1>5. Only(h)
  BY <1>1, <1>2, <1>3 DEF Only, xhistory
<1>6. Keeps(h)
  BY <1>1, <1>3 DEF Keeps, XInv, Lock
<1>7. Series(h)'
  BY <1>1, <1>2 DEF Series, XInv, Host, Strict
<1>8. Monitor(h)' /\ Recovers(h)'
  BY <1>1, <1>2, <1>3 DEF Monitor, Recovers
<1>9. Desktop'
  BY <1>1, <1>3, RestoreJournalAssumption DEF XInv, Desktop, ExtensionIsOnDisk, xdesktop, xhistory
<1> QED BY <1>4, <1>5, <1>6, <1>7, <1>8, <1>9, StepOfOne DEF Host

(* The journal is cleared once the desktop is as it was.                   *)
LEMMA ClearIfRestoredInv ==
    ASSUME XInv, NEW h \in Hosts, ClearIfRestored(h)
    PROVE  XInv'
<1>1. /\ UNCHANGED <<saved, xdesktop, reason, xhistory, xcounts>>
      /\ phase[h] = "verify" /\ ExtensionRestored(h) /\ journal' = "none"
      /\ ReleaseClaim(h) /\ Holds(h, NoExtension) /\ AfterRecover(h)
  BY DEF ClearIfRestored, Clear
<1>2. /\ phase' \in [Hosts -> Phases] /\ todo' \in [Hosts -> Seq(Commands)]
      /\ phase'[h] \in {"claim", "idle"} /\ todo'[h] = <<>>
      /\ reason[h] = "remove" => phase'[h] = "idle"
      /\ \A g \in Hosts : g # h => phase'[g] = phase[g] /\ todo'[g] = todo[g]
  BY <1>1, AfterRecoverFacts
<1>3. /\ owner' \in Hosts \cup {"none"} /\ held' \in [Hosts -> BOOLEAN] /\ ~held'[h]
      /\ \A g \in Hosts : g # h => held'[g] = held[g] /\ (held[g] => owner' = owner)
  BY <1>1, ReleaseFacts
<1>4. /\ extension' \in [Hosts -> [moved : Payloads \cup {"none"}, before : Shows]]
      /\ \A g \in Hosts : g # h => extension'[g] = extension[g]
  BY <1>1, HoldsStep DEF XInv
<1>5. XTypeOK'
  BY <1>1, <1>2, <1>3, <1>4 DEF XInv, XTypeOK, JournalTypeOK, xdesktop, xhistory, xcounts
<1>6. held[h]
  BY <1>1 DEF XInv, Lock, Owning
<1>7. Only(h)
  BY <1>1, <1>2, <1>3, <1>4, <1>6 DEF Only, xhistory
<1>8. Keeps(h)
  BY <1>2, <1>3 DEF Keeps, Owning
<1>9. Series(h)' /\ Monitor(h)' /\ Recovers(h)'
  BY <1>1, <1>2, AtRest
<1>10. Desktop'
  <2>1. layout = "shifted" => overtaken
    BY <1>1 DEF XInv, Host, Monitor, Desktop, ExtensionRestored
  <2>2. mode = "gone" /\ output # "tv"
    BY <1>1 DEF XInv, Desktop, ExtensionRestored
  <2> QED BY <1>1, <2>1, <2>2 DEF Desktop, ExtensionIsOnDisk, xdesktop, xhistory
<1> QED BY <1>5, <1>7, <1>8, <1>9, <1>10, StepOfOne DEF Host

(* What one command does to the desktop, with or without an error: it adds *)
(* only what the journal names.                                            *)
LEMMA EffectStep ==
    ASSUME XInv, NEW h \in Hosts, todo[h] # <<>>, phase[h] # "kept",
           Possible(Head(todo[h]), extension[h]), Effect(Head(todo[h]), extension[h]),
           UNCHANGED <<journal, saved, looked, overtaken>>
    PROVE  /\ mode' \in {"gone", "created", "added"} /\ output' \in Shows
           /\ layout' \in {"home", "shifted", "elsewhere"}
           /\ held[h] /\ Desktop'
           /\ layout' # layout => Head(todo[h]) \in {"show", "put_back"}
           /\ output' # output => Head(todo[h]) \in {"show", "give_back"}
           /\ Head(todo[h]) = "show" => phase[h] = "extend"
<1> DEFINE c == Head(todo[h])
<1>1. c \in Commands /\ phase[h] \in Strict \cup BestEffort
  BY DEF XInv, XTypeOK, Host, Series
<1>2. held[h]
  BY <1>1 DEF XInv, Lock, Owning, Strict, BestEffort
<1>3. phase[h] # "extend" => c \in Undoing
  BY SeqOfUndoing DEF XInv, Host, Series
<1>4. phase[h] = "extend" => journal = extension[h].moved /\ journal \in Payloads
  BY DEF XInv, Host, Monitor
<1>5. extension[h].before \in Shows
  BY DEF XInv, XTypeOK
<1> HIDE DEF c
<1>6. Possible(c, extension[h]) /\ Effect(c, extension[h])
  BY DEF c
<1>7. XTypeOK /\ Desktop
  BY DEF XInv
<1>8. /\ mode' \in {"gone", "created", "added"} /\ output' \in Shows
      /\ layout' \in {"home", "shifted", "elsewhere"}
  BY <1>1, <1>5, <1>6, <1>7 DEF Effect, XTypeOK, Shows
<1>9. /\ layout' # layout => c \in {"show", "put_back"}
      /\ output' # output => c \in {"show", "give_back"}
  BY <1>1, <1>6 DEF Effect, Commands
<1>10. c = "show" => phase[h] = "extend"
  BY <1>3 DEF Undoing
<1>11. Desktop'
  <2>1. CASE c \in {"newmode", "addmode", "show"}
    <3>1. journal' # "none" /\ journal = extension[h].moved
      BY <2>1, <1>3, <1>4, RestoreJournalAssumption DEF Undoing
    <3> QED BY <2>1, <3>1, <1>6, <1>7 DEF Desktop, ExtensionIsOnDisk, Possible, Effect
  <2>2. CASE c = "give_back"
    BY <2>2, <1>6, <1>7 DEF Desktop, ExtensionIsOnDisk, Possible, Effect
  <2>3. CASE c \in {"delmode", "rmmode"}
    BY <2>3, <1>6, <1>7 DEF Desktop, ExtensionIsOnDisk, Possible, Effect
  <2>4. CASE c = "put_back"
    BY <2>4, <1>6, <1>7 DEF Desktop, ExtensionIsOnDisk, Possible, Effect
  <2> QED BY <1>1, <2>1, <2>2, <2>3, <2>4 DEF Commands
<1> QED BY <1>2, <1>8, <1>9, <1>10, <1>11 DEF c

(* A recovery that goes on to its next command.                            *)
LEMMA NextCommand ==
    ASSUME NEW s \in Seq(Commands), s # <<>>, NEW i \in 1..Len(Tail(s))
    PROVE  i + 1 \in 1..Len(s) /\ Tail(s)[i] = s[i + 1] /\ Head(s) = s[1] /\ 1 \in 1..Len(s)
OBVIOUS

(* A recovery whose next command ran keeps to what it still has to do.     *)
LEMMA RecoveryGoesOn ==
    ASSUME XInv, NEW h \in Hosts, todo[h] # <<>>, phase[h] = "undo", phase'[h] = "undo",
           todo'[h] = Tail(todo[h]), looked' = looked,
           layout' # layout => Head(todo[h]) = "put_back",
           output' # output => Head(todo[h]) = "give_back"
    PROVE  Recovers(h)'
<1>1. SUFFICES ASSUME ~looked, NEW i \in 1..Len(todo'[h])
      PROVE  /\ todo'[h][i] = "put_back" => i = 1 /\ layout' = "shifted"
             /\ todo'[h][i] = "give_back" =>
                  output' = "tv" /\ (i = 1 \/ (i = 2 /\ todo'[h][1] = "put_back"))
  BY DEF Recovers
<1>2. /\ i + 1 \in 1..Len(todo[h]) /\ todo'[h][i] = todo[h][i + 1]
      /\ Head(todo[h]) = todo[h][1] /\ 1 \in 1..Len(todo[h]) /\ i \in Nat /\ i >= 1
  <2>1. todo[h] \in Seq(Commands)
    BY DEF XInv, XTypeOK
  <2>2. i \in 1..Len(Tail(todo[h]))
    BY <1>1
  <2> QED BY <2>1, <2>2, NextCommand
<1>3. \A j \in 1..Len(todo[h]) :
            /\ todo[h][j] = "put_back" => j = 1 /\ layout = "shifted"
            /\ todo[h][j] = "give_back" =>
                 output = "tv" /\ (j = 1 \/ (j = 2 /\ todo[h][1] = "put_back"))
  BY <1>1 DEF XInv, Host, Recovers
<1>4. todo[h][i + 1] # "put_back"
  BY <1>2, <1>3
<1>5. ASSUME todo[h][i + 1] = "give_back"
      PROVE  i = 1 /\ todo[h][1] = "put_back" /\ output = "tv"
  BY <1>2, <1>3, <1>5
<1> QED BY <1>2, <1>4, <1>5

(* The next command of the same series.                                    *)
LEMMA SeriesGoesOn ==
    ASSUME XInv, NEW h \in Hosts, todo[h] # <<>>, phase[h] \in Strict \cup BestEffort,
           phase'[h] = phase[h], todo'[h] = Tail(todo[h]), extension'[h] = extension[h],
           UNCHANGED <<journal, saved, reason, overtaken, looked, held, owner>>,
           layout' # layout => Head(todo[h]) \in {"show", "put_back"},
           output' # output => Head(todo[h]) \in {"show", "give_back"},
           Head(todo[h]) = "show" => phase[h] = "extend"
    PROVE  Series(h)' /\ Monitor(h)' /\ Recovers(h)' /\ Keeps(h)
<1>1. Series(h)'
  BY SeqOfUndoing DEF XInv, Host, Series
<1>2. Monitor(h)'
  BY DEF XInv, Host, Monitor, Strict, BestEffort
<1>3. Recovers(h)'
  <2>1. CASE phase[h] = "undo"
    BY <2>1, RecoveryGoesOn
  <2>2. CASE phase[h] # "undo"
    BY <2>2 DEF Recovers
  <2> QED BY <2>1, <2>2
<1>4. Keeps(h)
  BY DEF XInv, Lock, Keeps
<1> QED BY <1>1, <1>2, <1>3, <1>4

(* One command runs.                                                       *)
LEMMA XrandrInv ==
    ASSUME XInv, NEW h \in Hosts, Xrandr(h), phase[h] # "kept"
    PROVE  XInv'
<1>1. /\ todo[h] # <<>> /\ Possible(Head(todo[h]), extension[h])
      /\ Effect(Head(todo[h]), extension[h]) /\ At(h, phase[h], Tail(todo[h]))
      /\ UNCHANGED <<xfile, extension, reason, xhistory, xcounts>>
  BY DEF Xrandr
<1>2. /\ phase' \in [Hosts -> Phases] /\ todo' \in [Hosts -> Seq(Commands)]
      /\ phase'[h] = phase[h] /\ todo'[h] = Tail(todo[h])
      /\ \A g \in Hosts : g # h => phase'[g] = phase[g] /\ todo'[g] = todo[g]
  <2>1. phase[h] \in Phases /\ Tail(todo[h]) \in Seq(Commands)
    BY <1>1 DEF XInv, XTypeOK
  <2> QED BY <1>1, <2>1, AtStep DEF XInv
<1>3. /\ mode' \in {"gone", "created", "added"} /\ output' \in Shows
      /\ layout' \in {"home", "shifted", "elsewhere"}
      /\ held[h] /\ Desktop'
      /\ layout' # layout => Head(todo[h]) \in {"show", "put_back"}
      /\ output' # output => Head(todo[h]) \in {"show", "give_back"}
      /\ Head(todo[h]) = "show" => phase[h] = "extend"
  BY <1>1, EffectStep DEF xfile, xhistory
<1>4. phase[h] \in Strict \cup BestEffort
  BY <1>1 DEF XInv, Host, Series
<1>5. XTypeOK'
  BY <1>1, <1>2, <1>3 DEF XInv, XTypeOK, JournalTypeOK, xfile, xhistory, xcounts
<1>6. Only(h)
  BY <1>1, <1>2, <1>3 DEF Only, xfile, xhistory
<1>7. Series(h)' /\ Monitor(h)' /\ Recovers(h)' /\ Keeps(h)
  BY <1>1, <1>2, <1>3, <1>4, SeriesGoesOn DEF xfile, xhistory
<1> QED BY <1>3, <1>5, <1>6, <1>7, StepOfOne DEF Host

(* One command runs and changes nothing.                                   *)
LEMMA SilentlyIgnoredInv ==
    ASSUME XInv, NEW h \in Hosts, SilentlyIgnored(h)
    PROVE  XInv'
<1>1. /\ faults' = faults + 1 /\ todo[h] = <<"show">> /\ At(h, phase[h], <<>>)
      /\ UNCHANGED <<xfile, xdesktop, extension, reason, xhistory, moves, kills>>
  BY DEF SilentlyIgnored
<1>2. phase[h] = "extend"
  <2>1. Head(todo[h]) = "show" /\ todo[h] # <<>>
    BY <1>1
  <2> QED BY <2>1, SeqOfUndoing DEF XInv, Host, Series, Undoing
<1>3. /\ phase' \in [Hosts -> Phases] /\ todo' \in [Hosts -> Seq(Commands)]
      /\ phase'[h] = "extend" /\ todo'[h] = <<>>
      /\ \A g \in Hosts : g # h => phase'[g] = phase[g] /\ todo'[g] = todo[g]
  <2>1. "extend" \in Phases
    BY DEF Phases, Strict
  <2> QED BY <1>1, <1>2, <2>1, NoCommands, AtStep DEF XInv
<1>4. XTypeOK'
  BY <1>1, <1>3 DEF XInv, XTypeOK, JournalTypeOK, xfile, xdesktop, xhistory
<1>5. Series(h)'
  BY <1>1, <1>2, <1>3 DEF XInv, Host, Series
<1>6. Monitor(h)' /\ Recovers(h)'
  BY <1>1, <1>2, <1>3 DEF XInv, Host, Monitor, Recovers, xfile
<1> QED BY <1>1, <1>2, <1>3, <1>4, <1>5, <1>6, QuietStep DEF xfile, xdesktop, xhistory

(* What the desktop and the file may be after a command, a query or a file *)
(* operation that failed.                                                  *)
FailedDesktop(h) ==
    /\ journal' \in {journal, extension[h].moved} /\ saved' \in Shows
    /\ journal' # journal \/ saved' # saved => phase[h] = "write"
    /\ mode' \in {"gone", "created", "added"} /\ output' \in Shows
    /\ layout' \in {"home", "shifted", "elsewhere"}
    /\ layout' # layout => Head(todo[h]) \in {"show", "put_back"}
    /\ output' # output => Head(todo[h]) \in {"show", "give_back"}
    /\ todo[h] # <<>> /\ Head(todo[h]) = "show" => phase[h] = "extend"
    /\ todo[h] = <<>> => UNCHANGED <<layout, output, mode>>
    /\ held[h] \/ UNCHANGED <<journal, saved, layout, output, mode>>
    /\ Desktop'
    /\ faults' \in Nat /\ UNCHANGED reason

Fallible == Strict \cup BestEffort \cup
    {"recover", "reclaim", "reread", "look", "claim", "query", "verify", "accept", "write"}

(* One command fails: the series is abandoned, or its next command tried.  *)
LEMMA FailedInv ==
    ASSUME XInv, NEW h \in Hosts, Failed(h), FailedDesktop(h), phase[h] \in Fallible,
           phase[h] \in BestEffort => todo[h] # <<>>
    PROVE  XInv'
<1>1. journal' \in Payloads \cup {"none"}
  BY DEF FailedDesktop, XInv, XTypeOK, JournalTypeOK
<1>2. CASE phase[h] \in BestEffort
  <2>1. /\ At(h, phase[h], Tail(todo[h])) /\ todo[h] # <<>>
        /\ UNCHANGED <<owner, held, extension, xhistory, kills, moves>>
    BY <1>2 DEF Failed, BestEffort
  <2>2. /\ phase' \in [Hosts -> Phases] /\ todo' \in [Hosts -> Seq(Commands)]
        /\ phase'[h] = phase[h] /\ todo'[h] = Tail(todo[h])
        /\ \A g \in Hosts : g # h => phase'[g] = phase[g] /\ todo'[g] = todo[g]
    <3>1. phase[h] \in Phases /\ Tail(todo[h]) \in Seq(Commands)
      BY <2>1 DEF XInv, XTypeOK
    <3> QED BY <2>1, <3>1, AtStep DEF XInv
  <2>3. UNCHANGED <<journal, saved>>
    BY <1>2 DEF FailedDesktop, BestEffort
  <2>4. XTypeOK'
    BY <1>1, <2>1, <2>2 DEF XInv, XTypeOK, JournalTypeOK, FailedDesktop, xhistory
  <2>5. Only(h)
    BY <2>1, <2>2 DEF Only, FailedDesktop, xhistory
  <2>6. Series(h)' /\ Monitor(h)' /\ Recovers(h)' /\ Keeps(h)
    BY <1>2, <2>1, <2>2, <2>3, SeriesGoesOn DEF FailedDesktop, xhistory
  <2> QED BY <2>4, <2>5, <2>6, StepOfOne DEF Host, FailedDesktop
<1>3. CASE phase[h] \in {"extend", "accept", "write"}
  <2>1. /\ At(h, "forget", Forgets(extension[h])) /\ warned' = TRUE
        /\ UNCHANGED <<owner, held, extension, looked, overtaken, kills, moves>>
    BY <1>3 DEF Failed, BestEffort
  <2>2. PICK t \in Seq(Undoing) : t = Forgets(extension[h])
    BY SeriesTypes
  <2>3. /\ phase' \in [Hosts -> Phases] /\ todo' \in [Hosts -> Seq(Commands)]
        /\ phase'[h] = "forget" /\ todo'[h] = t
        /\ \A g \in Hosts : g # h => phase'[g] = phase[g] /\ todo'[g] = todo[g]
    <3>1. "forget" \in Phases /\ t \in Seq(Commands)
      BY SeqOfUndoing DEF Phases, BestEffort
    <3> QED BY <2>1, <2>2, <3>1, AtStep DEF XInv
  <2>4. XTypeOK'
    BY <1>1, <2>1, <2>3 DEF XInv, XTypeOK, JournalTypeOK, FailedDesktop
  <2>5. Only(h)
    BY <2>1, <2>3 DEF Only, FailedDesktop
  <2>6. Keeps(h)
    BY <1>3, <2>1 DEF Keeps, XInv, Lock, Owning
  <2>7. Series(h)'
    BY <1>3, <2>3 DEF Series, XInv, Host, FailedDesktop, BestEffort
  <2>8. Monitor(h)' /\ Recovers(h)'
    BY <1>3, <2>1, <2>3 DEF Monitor, Recovers, XInv, Host, FailedDesktop
  <2> QED BY <2>4, <2>5, <2>6, <2>7, <2>8, StepOfOne DEF Host, FailedDesktop
<1>4. CASE phase[h] \notin BestEffort \cup {"extend", "accept", "write"}
  <2>1. Raises(h)
    BY <1>4 DEF Failed
  <2>2. UNCHANGED <<looked, overtaken, kills, moves, journal, saved, reason>> /\ warned' = TRUE
    BY <1>4, <2>1 DEF Raises, FailedDesktop
  <2>3. CASE reason[h] = "remove"
    <3>1. /\ At(h, "kept", todo[h]) /\ UNCHANGED <<owner, held, extension>>
          /\ phase[h] \in {"remove", "verify"}
      BY <2>1, <2>3 DEF Raises, XInv, Host, Series, Fallible, Strict, BestEffort
    <3>2. /\ phase' \in [Hosts -> Phases] /\ todo' \in [Hosts -> Seq(Commands)]
          /\ phase'[h] = "kept" /\ todo'[h] = todo[h]
          /\ \A g \in Hosts : g # h => phase'[g] = phase[g] /\ todo'[g] = todo[g]
      <4>1. "kept" \in Phases /\ todo[h] \in Seq(Commands)
        BY DEF Phases, XInv, XTypeOK
      <4> QED BY <3>1, <4>1, AtStep DEF XInv
    <3>3. XTypeOK'
      BY <1>1, <2>2, <3>1, <3>2 DEF XInv, XTypeOK, JournalTypeOK, FailedDesktop
    <3>4. Only(h)
      BY <2>2, <3>1, <3>2 DEF Only, FailedDesktop
    <3>5. Keeps(h)
      BY <3>1 DEF Keeps, XInv, Lock, Owning
    <3>6. Series(h)'
      BY <3>1, <3>2, <2>2 DEF Series, XInv, Host
    <3>7. Monitor(h)' /\ Recovers(h)'
      BY <3>1, <3>2, <2>2 DEF Monitor, Recovers, XInv, Host
    <3> QED BY <3>3, <3>4, <3>5, <3>6, <3>7, StepOfOne DEF Host, FailedDesktop
  <2>4. CASE reason[h] # "remove"
    <3>1. At(h, "idle", <<>>) /\ ReleaseClaim(h) /\ Holds(h, NoExtension)
      BY <2>1, <2>4 DEF Raises
    <3>2. /\ phase' \in [Hosts -> Phases] /\ todo' \in [Hosts -> Seq(Commands)]
          /\ phase'[h] = "idle" /\ todo'[h] = <<>>
          /\ \A g \in Hosts : g # h => phase'[g] = phase[g] /\ todo'[g] = todo[g]
      BY <3>1, AtStep, NoCommands DEF XInv, Phases
    <3>3. /\ owner' \in Hosts \cup {"none"} /\ held' \in [Hosts -> BOOLEAN] /\ ~held'[h]
          /\ \A g \in Hosts : g # h => held'[g] = held[g] /\ (held[g] => owner' = owner)
      BY <3>1, ReleaseFacts
    <3>4. /\ extension' \in [Hosts -> [moved : Payloads \cup {"none"}, before : Shows]]
          /\ \A g \in Hosts : g # h => extension'[g] = extension[g]
      BY <3>1, HoldsStep DEF XInv
    <3>5. XTypeOK'
      BY <1>1, <2>2, <3>2, <3>3, <3>4 DEF XInv, XTypeOK, JournalTypeOK, FailedDesktop
    <3>6. Only(h)
      BY <2>2, <3>2, <3>3, <3>4 DEF Only, FailedDesktop
    <3>7. Keeps(h)
      BY <3>2, <3>3 DEF Keeps, Owning
    <3>8. Series(h)' /\ Monitor(h)' /\ Recovers(h)'
      BY <3>2, AtRest
    <3> QED BY <3>5, <3>6, <3>7, <3>8, StepOfOne DEF Host, FailedDesktop
  <2> QED BY <2>3, <2>4
<1> QED BY <1>2, <1>3, <1>4

(* A failure that changed nothing satisfies what is asked of a failure.    *)
LEMMA UndisturbedDesktop ==
    ASSUME XInv, NEW h \in Hosts, UNCHANGED <<journal, saved, xdesktop, reason, looked, overtaken>>,
           faults' \in Nat
    PROVE  FailedDesktop(h)
<1>1. Desktop'
  BY DEF XInv, Desktop, ExtensionIsOnDisk, xdesktop
<1>2. ASSUME todo[h] # <<>>, Head(todo[h]) = "show" PROVE phase[h] = "extend"
  BY <1>2, SeqOfUndoing DEF XInv, Host, Series, Undoing
<1> QED BY <1>1, <1>2 DEF FailedDesktop, XInv, XTypeOK, xdesktop

(* A failure keeps what was looked at.                                     *)
LEMMA HistoryStays ==
    ASSUME NEW h \in Hosts, Failed(h)
    PROVE  UNCHANGED <<looked, overtaken>>
BY DEF Failed, Raises, xhistory

(* xrandr refuses, or the desktop is not as it should be.                  *)
LEMMA RefusedInv ==
    ASSUME XInv, NEW h \in Hosts, Refused(h)
    PROVE  XInv'
<1>1. /\ Failed(h) /\ UNCHANGED <<journal, saved, xdesktop, reason, faults>>
      /\ phase[h] # "kept"
      /\ todo[h] # <<>> \/ phase[h] \in {"accept", "verify"}
  BY DEF Refused
<1>2. FailedDesktop(h)
  BY <1>1, HistoryStays, UndisturbedDesktop DEF XInv, XTypeOK
<1>3. phase[h] \in Fallible /\ (phase[h] \in BestEffort => todo[h] # <<>>)
  BY <1>1 DEF XInv, Host, Series, Fallible, BestEffort
<1> QED BY <1>1, <1>2, <1>3, FailedInv

(* A command, a query or a file operation fails.                           *)
LEMMA FaultInv ==
    ASSUME XInv, NEW h \in Hosts, Fault(h)
    PROVE  XInv'
<1>1. /\ Failed(h) /\ UNCHANGED reason /\ faults' \in Nat
      /\ phase[h] \in Fallible /\ (phase[h] \in BestEffort => todo[h] # <<>>)
      /\ phase[h] # "kept"
  BY DEF Fault, Fallible, Strict, BestEffort, XInv, XTypeOK
<1>2. UNCHANGED <<looked, overtaken>>
  BY <1>1, HistoryStays
<1>3. CASE UNCHANGED <<journal, saved, xdesktop>>
  <2>1. FailedDesktop(h)
    BY <1>1, <1>2, <1>3, UndisturbedDesktop
  <2> QED BY <1>1, <2>1, FailedInv
<1>4. CASE /\ todo[h] # <<>> /\ Possible(Head(todo[h]), extension[h])
           /\ Effect(Head(todo[h]), extension[h])
           /\ UNCHANGED <<journal, saved>>
  <2>1. /\ mode' \in {"gone", "created", "added"} /\ output' \in Shows
        /\ layout' \in {"home", "shifted", "elsewhere"}
        /\ held[h] /\ Desktop'
        /\ layout' # layout => Head(todo[h]) \in {"show", "put_back"}
        /\ output' # output => Head(todo[h]) \in {"show", "give_back"}
        /\ Head(todo[h]) = "show" => phase[h] = "extend"
    BY <1>1, <1>2, <1>4, EffectStep
  <2>2. FailedDesktop(h)
    BY <1>1, <1>4, <2>1 DEF FailedDesktop, XInv, XTypeOK
  <2> QED BY <1>1, <2>2, FailedInv
<1>5. CASE /\ phase[h] = "write"
           /\ Write(extension[h].moved) /\ saved' = extension[h].before
           /\ UNCHANGED xdesktop
  <2>1. /\ journal' = extension[h].moved /\ journal' \in Payloads /\ saved' \in Shows
        /\ held[h] /\ (journal = "none" \/ overtaken)
    BY <1>5 DEF XInv, XTypeOK, Host, Monitor, Lock, Owning, Write
  <2>2. Desktop'
    BY <1>2, <1>5, <2>1, RestoreJournalAssumption DEF XInv, Desktop, ExtensionIsOnDisk, xdesktop
  <2>3. todo[h] = <<>>
    BY <1>5 DEF XInv, Host, Series, Strict, BestEffort
  <2>4. FailedDesktop(h)
    BY <1>1, <1>5, <2>1, <2>2, <2>3 DEF FailedDesktop, XInv, XTypeOK, xdesktop
  <2> QED BY <1>1, <2>4, FailedInv
<1> QED BY <1>3, <1>4, <1>5 DEF Fault

-----------------------------------------------------------------------------
(* The invariant holds of the desktop a host finds.                        *)
LEMMA InitXInv == XInit => XInv
<1> SUFFICES ASSUME XInit PROVE XInv
  OBVIOUS
<1>1. XTypeOK
  <2>1. NoExtension \in [moved : Payloads \cup {"none"}, before : Shows]
    BY DEF NoExtension, Shows
  <2> HIDE DEF NoExtension
  <2> QED BY <2>1, NoCommands DEF XInit, JournalInit, XTypeOK, JournalTypeOK, Shows, Phases
<1>2. Lock
  BY DEF XInit, JournalInit, Lock, Owning
<1>3. ASSUME NEW h \in Hosts PROVE Host(h)
  BY <1>3, NoCommands DEF XInit, Host, Series, Monitor, Recovers
<1>4. Desktop
  BY DEF XInit, Desktop, ExtensionIsOnDisk
<1> QED BY <1>1, <1>2, <1>3, <1>4 DEF XInv

(* Every step of a host, or of the owner, keeps it.                        *)
LEMMA NextXInv == XInv /\ [XNext]_xvars => XInv'
<1>1. ASSUME XInv, XNext PROVE XInv'
  <2>1. CASE OwnerChanges
    BY <1>1, <2>1, OwnerChangesInv
  <2>2. ASSUME NEW h \in Hosts, XWorks(h) PROVE XInv'
    <3>1. CASE ReadJournal(h) \/ RecoverClaim(h) \/ Reread(h) \/ UndoKilledRun(h) \/ CreateClaim(h)
      BY <1>1, <3>1, ReadJournalInv, RecoverClaimInv, RereadInv, UndoKilledRunInv, CreateClaimInv
    <3>2. CASE \E moved \in Payloads : Extend(h, moved)
      BY <1>1, <3>2, ExtendInv
    <3>3. CASE WriteJournal(h) \/ Accepted(h) \/ SeriesEnds(h) \/ ClearIfRestored(h) \/ Refused(h)
      BY <1>1, <3>3, WriteJournalInv, AcceptedInv, SeriesEndsInv, ClearIfRestoredInv, RefusedInv
    <3>4. CASE Xrandr(h) /\ phase[h] # "kept"
      BY <1>1, <3>4, XrandrInv
    <3> QED BY <2>2, <3>1, <3>2, <3>3, <3>4 DEF XWorks
  <2>3. ASSUME NEW h \in Hosts, \/ NewMonitor(h) \/ Remove(h) \/ Dropped(h) \/ Fault(h)
                                \/ SilentlyIgnored(h) \/ Killed(h) \/ Starts(h)
        PROVE  XInv'
    BY <1>1, <2>3, NewMonitorInv, RemoveInv, DroppedInv, FaultInv, SilentlyIgnoredInv, KilledInv,
       StartsInv
  <2> QED BY <1>1, <2>1, <2>2, <2>3 DEF XNext
<1>2. ASSUME XInv, UNCHANGED xvars PROVE XInv'
  <2>1. UNCHANGED <<journal, owner, held, saved, layout, output, mode>>
    BY <1>2 DEF xvars, xfile, xdesktop
  <2>2. UNCHANGED <<phase, todo, extension, reason, looked, overtaken, warned, moves, faults, kills>>
    BY <1>2 DEF xvars, xhistory, xcounts
  <2>3. XTypeOK' /\ Lock' /\ Desktop'
    BY <1>2, <2>1, <2>2 DEF XInv, XTypeOK, JournalTypeOK, Lock, Desktop, ExtensionIsOnDisk
  <2>4. ASSUME NEW h \in Hosts PROVE Host(h)'
    BY <1>2, <2>1, <2>2 DEF XInv, Host, Series, Monitor, Recovers
  <2> QED BY <2>3, <2>4 DEF XInv
<1> QED BY <1>1, <1>2

(* XrandrVirtualMonitor keeps XInv: only the holder of the lock touches    *)
(* the file and the desktop, and in each of its phases the file says what  *)
(* it would take to undo what is on the screen.                            *)
THEOREM ExtensionInductive == XSpec => []XInv
BY InitXInv, NextXInv, PTL DEF XSpec

(* For any number of control-TV processes, commands that fail, kills and   *)
(* changes by the owner: what a stream adds to the desktop is in the       *)
(* journal before it is on the screen, and no other process takes away the *)
(* screen of a running stream (virtual_display.py).                        *)
THEOREM ExtensionSafe == XSpec => []ExtensionIsSafe
<1>1. XInv => ExtensionIsSafe
  <2>1. ASSUME XInv PROVE ExtendedScreenStays
    BY <2>1 DEF XInv, Lock, Owning, Host, Monitor, ExtendedScreenStays
  <2> QED BY <2>1 DEF XInv, Desktop, ExtensionIsSafe
<1> QED BY <1>1, ExtensionInductive, PTL

(* _undo_killed_run: whatever the other processes do, a recovery moves a   *)
(* screen only back from where the stream had put it, and switches the     *)
(* output only while it shows the TV.                                      *)
THEOREM OwnersDesktopKept == XSpec => RecoveryKeepsTheOwnersDesktop
<1> DEFINE Undoes ==
      \A h \in Hosts : phase[h] = "undo" /\ phase'[h] = "undo" /\ ~looked =>
          /\ layout' # layout => layout = "shifted" \/ layout' = "elsewhere"
          /\ output' # output => output = "tv" \/ moves' # moves
<1>1. ASSUME XInv, [XNext]_xvars PROVE [Undoes]_xvars
  <2>1. SUFFICES ASSUME XNext, NEW h \in Hosts, phase[h] = "undo", phase'[h] = "undo", ~looked
        PROVE  /\ layout' # layout => layout = "shifted" \/ layout' = "elsewhere"
               /\ output' # output => output = "tv" \/ moves' # moves
    BY <1>1
  <2>2. CASE OwnerChanges
    BY <1>1, <2>2 DEF OwnerChanges, XInv, XTypeOK
  <2>3. ASSUME NEW g \in Hosts, Effect(Head(todo[g]), extension[g]), todo[g] # <<>>,
               phase[g] # "kept"
        PROVE  /\ layout' # layout => layout = "shifted" \/ layout' = "elsewhere"
               /\ output' # output => output = "tv" \/ moves' # moves
    <3>1. phase[g] \in Strict \cup BestEffort
      BY <1>1, <2>3 DEF XInv, Host, Series
    <3>2. g = h
      BY <1>1, <2>1, <3>1 DEF XInv, Lock, Owning, Strict, BestEffort
    <3>3. /\ Head(todo[h]) \in Undoing /\ Head(todo[h]) = todo[h][1] /\ 1 \in 1..Len(todo[h])
      <4>1. todo[h] \in Seq(Undoing) /\ todo[h] # <<>>
        BY <1>1, <2>1, <2>3, <3>2 DEF XInv, Host, Series
      <4> QED BY <4>1, SeqOfUndoing
    <3>4. /\ Head(todo[h]) = "put_back" => layout = "shifted"
          /\ Head(todo[h]) = "give_back" => output = "tv"
      BY <1>1, <2>1, <3>3 DEF XInv, Host, Recovers
    <3> QED BY <2>3, <3>2, <3>3, <3>4 DEF Effect, Undoing
  <2>4. CASE \E g \in Hosts : XWorks(g)
    BY <2>3, <2>4 DEF XWorks, ReadJournal, RecoverClaim, Reread, UndoKilledRun, CreateClaim, Extend,
         WriteJournal, Accepted, Xrandr, SeriesEnds, ClearIfRestored, Refused, xdesktop
  <2>5. ASSUME NEW g \in Hosts, Fault(g)
        PROVE  /\ layout' # layout => layout = "shifted" \/ layout' = "elsewhere"
               /\ output' # output => output = "tv" \/ moves' # moves
    <3>1. \/ UNCHANGED <<layout, output>>
          \/ /\ todo[g] # <<>> /\ phase[g] # "kept" /\ Effect(Head(todo[g]), extension[g])
      BY <2>5 DEF Fault, xdesktop, Strict, BestEffort
    <3> QED BY <2>3, <3>1
  <2>6. CASE \E g \in Hosts : \/ NewMonitor(g) \/ Remove(g) \/ Dropped(g)
                              \/ SilentlyIgnored(g) \/ Killed(g) \/ Starts(g)
    BY <2>6 DEF NewMonitor, Remove, Dropped, SilentlyIgnored, Killed, Starts, xdesktop
  <2> QED BY <2>1, <2>2, <2>4, <2>5, <2>6 DEF XNext
<1> QED BY <1>1, ExtensionInductive, PTL DEF XSpec, RecoveryKeepsTheOwnersDesktop
=============================================================================
