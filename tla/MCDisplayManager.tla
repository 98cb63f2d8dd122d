-------------------------- MODULE MCDisplayManager --------------------------
(* Two outputs that check() of DisplayLayout judges, for TLC.              *)
EXTENDS DisplayManager, DisplayLayout

MCModes ==
    {[output |-> o, id |-> "small", width |-> 4, height |-> 2] : o \in {"A", "B"}}
    \cup {[output |-> "A", id |-> "large", width |-> 7, height |-> 3]}

MCInitial == [o \in Outputs |-> IF o = "A" THEN "main" ELSE "off"]

(* An output is off, on beside the other one, the main screen, or on at a  *)
(* place that the other one's screen covers in part.                       *)
Asked(o, setting) ==
    [name |-> o, enabled |-> setting # "off", mode |-> "small",
     x |-> IF setting = "across" THEN 2 ELSE IF o = "A" THEN 0 ELSE 4, y |-> 0,
     rotation |-> "normal", scale |-> 1000, primary |-> setting = "main"]

MCUsable(listed, config) ==
    \E settings \in UNION {[1..n -> {Asked(o, config[o]) : o \in listed}] : n \in 0..2} :
        check(listed, settings)

-----------------------------------------------------------------------------
(* Configurations of two outputs with screens apart, touching, overlapping *)
(* and cloned, turned and scaled.                                          *)
On == [name : {"A", "B"}, enabled : {TRUE}, mode : {"small", "large"}, x : {0, 2, 3, 4, 5},
       y : {0, 1, 2}, rotation : {"normal", "left"}, scale : {1000, 667, 500}, primary : BOOLEAN]

Off == [name : {"A", "B"}, enabled : {FALSE}, mode : {"small"}, x : {0}, y : {0},
        rotation : {"normal"}, scale : {1000}, primary : BOOLEAN]

MCAsked ==
    {<<a, b>> : a \in {s \in On : s.x = 0 /\ s.y = 0} \cup Off, b \in On \cup Off}

(* The whole number nearest to value thousandths, the even one of two.      *)
Nearest(value) ==
    CHOOSE n \in 0..value : /\ 1000 * n - 500 <= value /\ value <= 1000 * n + 500
                            /\ value % 1000 = 500 => n % 2 = 0

(* What a screen shows: the points of the desktop, its own pixels turned   *)
(* and then scaled.                                                        *)
Shown(s) ==
    LET m == CHOOSE m \in ModesOf(s) : TRUE
        across == IF s.rotation \in {"left", "right"} THEN m.height ELSE m.width
        down == IF s.rotation \in {"left", "right"} THEN m.width ELSE m.height
    IN  (s.x..(s.x + Nearest(across * s.scale) - 1))
          \X (s.y..(s.y + Nearest(down * s.scale) - 1))

(* A configuration the owner can use: each output is set once, in a mode   *)
(* it offers, within reach, one screen that is on is the main one, and a   *)
(* point of the desktop is on two screens only if both show the same.      *)
UsableByEye(listed, settings) ==
    LET all == DOMAIN settings
        on == {i \in all : settings[i].enabled}
    IN  /\ \A o \in listed : \E i \in all : \A j \in all : settings[j].name = o <=> i = j
        /\ \A i \in all : settings[i].name \in listed
        /\ \E i \in on : \A j \in all : settings[j].primary <=> i = j
        /\ \A i \in on :
             /\ \E m \in Modes : m.output = settings[i].name /\ m.id = settings[i].mode
             /\ settings[i].rotation \in Rotations /\ settings[i].scale \in SCALES
             /\ {settings[i].x, settings[i].y} \subseteq 0..MaxCoordinate
        /\ \A i, j \in on :
             \/ Shown(settings[i]) = Shown(settings[j])
             \/ Shown(settings[i]) \cap Shown(settings[j]) = {}

Misjudged ==
    {settings \in MCAsked :
       check({"A", "B"}, settings) # UsableByEye({"A", "B"}, settings)}
=============================================================================
