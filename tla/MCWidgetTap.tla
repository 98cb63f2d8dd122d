---------------------------- MODULE MCWidgetTap ----------------------------
(* Instances of WidgetTap for TLC. *)
EXTENDS WidgetTap, TLC

(* What the safety invariants and the steps tell apart: neither what the   *)
(* widget said, which no step reads, nor the time of a claim that is       *)
(* forgotten or of a tap whose job and transaction are over.               *)
Over(t) == job[t] \in {"none", "finished"} /\ tx[t] = NoTransaction
SafetyView ==
    <<clock, selection, used, [t \in claimed |-> claimedAt[t]], handler,
      [t \in Taps |-> IF Over(t) THEN [tap[t] EXCEPT !.at = 0] ELSE tap[t]], job, relay,
      [t \in Taps |-> [tx[t] EXCEPT !.value = "uncertain"]], history, deaths>>

MCSymmetry == Permutations(Taps) \cup Permutations(Devices)
=============================================================================
