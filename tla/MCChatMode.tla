----------------------------- MODULE MCChatMode -----------------------------
(* Instances of ChatMode for TLC. *)
EXTENDS ChatMode

HoldOnly == {"hold"}
FreeOnly == {"free"}
OneshotOnly == {"oneshot"}
=============================================================================
