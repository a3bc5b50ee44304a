----------------------------- MODULE MCPending -----------------------------
(* Instances of Pending for TLC. *)
EXTENDS Pending, TLC

CONSTANTS L1, L2, R1

TwoActions == (L1 :> "music_list") @@ (L2 :> "music_list") @@ (R1 :> "refresh_play_url")
=============================================================================
