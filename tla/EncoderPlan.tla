----------------------------- MODULE EncoderPlan -----------------------------
(***************************************************************************)
(* select_plan (screencast/capabilities.py): the one policy that picks the *)
(* encoder, of the bounded encode and of the live one.                     *)
(***************************************************************************)

Preferences == {"vaapi_only", "software_only", "vaapi_then_software"}

(* What probe() finds on the host.                                         *)
Capabilities == SUBSET {"h264_vaapi", "render_node", "libx264"}

SelectPlan(preference, capabilities) ==
    LET vaapi == {"h264_vaapi", "render_node"} \subseteq capabilities
        software == "libx264" \in capabilities
    IN  CASE preference # "software_only" /\ vaapi -> "vaapi"
          [] preference # "vaapi_only" /\ software -> "software"
          [] OTHER -> "unavailable"
=============================================================================
