---------------------------- MODULE DisplayLayout ----------------------------
(***************************************************************************)
(* display_layout.py, the part without state: which screen configurations  *)
(* the owner may ask for.                                                  *)
(***************************************************************************)
EXTENDS Integers, Sequences

CONSTANTS
    Modes,           \* the modes the outputs offer: records of output, id, width, height
    MaxCoordinate    \* _MAX_COORDINATE

(* (No mode is so small that nothing of it is left at 200 %.)              *)
ASSUME DisplayLayoutAssumption ==
    /\ MaxCoordinate \in Nat
    /\ \A m \in Modes : m.width \in Nat \ {0, 1} /\ m.height \in Nat \ {0, 1}

(* SCALES, in thousandths: 100 %, 125 %, 150 % and 200 %.                  *)
SCALES == {1000, 800, 667, 500}
Rotations == {"normal", "left", "right", "inverted"}

(* round(value / 1000): to the nearest, a half to the even neighbour.      *)
Rounded(value) ==
    LET whole == value \div 1000
        rest == value % 1000
    IN  IF rest > 500 \/ (rest = 500 /\ whole % 2 = 1) THEN whole + 1 ELSE whole

(* Display.mode                                                            *)
ModesOf(setting) == {m \in Modes : m.output = setting.name /\ m.id = setting.mode}

(* The size a screen takes on the desktop: its mode, turned and scaled.    *)
logical_size(setting) ==
    LET mode == CHOOSE m \in ModesOf(setting) : TRUE
        turned == setting.rotation \in {"left", "right"}
    IN  [w |-> Rounded((IF turned THEN mode.height ELSE mode.width) * setting.scale),
         h |-> Rounded((IF turned THEN mode.width ELSE mode.height) * setting.scale)]

Box(setting) ==
    LET size == logical_size(setting)
    IN  [x |-> setting.x, y |-> setting.y, w |-> size.w, h |-> size.h]

(* Mutant: screens beside each other overlap. *)
OverlapOrTouch(a, b) ==
    /\ a.x <= b.x + b.w /\ b.x <= a.x + a.w
    /\ a.y < b.y + b.h /\ b.y < a.y + a.h

Overlap(a, b) ==
    /\ a.x < b.x + b.w /\ b.x < a.x + a.w
    /\ a.y < b.y + b.h /\ b.y < a.y + a.h

(* check: TRUE unless it raises. The settings name every output known once, *)
(* one screen that is on is the main one and no other is, each that is on  *)
(* is well formed, and two that overlap are clones.                        *)
check(known, settings) ==
    LET all == 1..Len(settings)
        on == {i \in all : settings[i].enabled}
    IN  /\ Len(settings) > 0
        /\ \A i, j \in all : i # j => settings[i].name # settings[j].name
        /\ {settings[i].name : i \in all} = known
        /\ \E i \in on : settings[i].primary /\ \A j \in all : settings[j].primary => j = i
        /\ \A i \in on :
             /\ ModesOf(settings[i]) # {}
             /\ settings[i].rotation \in Rotations
             /\ settings[i].scale \in SCALES
             /\ settings[i].x \in 0..MaxCoordinate /\ settings[i].y \in 0..MaxCoordinate
        /\ \A i, j \in on :
             i < j => \/ Box(settings[i]) = Box(settings[j])
                      \/ ~Overlap(Box(settings[i]), Box(settings[j]))
=============================================================================
