-------------------------- MODULE MCControlService --------------------------
(* Instances of ControlService for TLC. *)
EXTENDS ControlService, TLC

(* Replies as the Cast protocol gives them: a state is always reported,    *)
(* content, session, item, position and sound may be missing.              *)
MCOmissions == {{}, {"content"}, {"session"}, {"item"}, {"blank", "pos", "sound"}}
MCFewOmissions == {{}, {"content"}, {"session"}}
MCFullReplies == {{}}
MCSilentOmissions == {{}, {"content", "state"}}
=============================================================================
