---------------------------- MODULE MCAiPlayer ----------------------------
(* Instances of AiPlayer for TLC. *)
EXTENDS AiPlayer, TLC

CONSTANTS Agent, App

\* The agent's thread plays what the cloud sends, the application's plays and stops
AgentAndApp ==
    (Agent :> {"play_songs", "play_tts_url", "tts_start", "tts_stop", "stop_fg"}) @@
    (App :> {"play_data", "play_music", "stop_all", "pause", "resume"})

\* FG 2 as in wukong_audio_player_init; BG also 2, for its 32
Two == [p \in Players |-> 2]
===========================================================================
