------------------------------ MODULE ChatMode ------------------------------
(***************************************************************************)
(* The conversation state machines of the chat sub-modes (HOLD, ONESHOT,   *)
(* WAKEUP, FREE) and of TRANSLATE, with what they share: the audio         *)
(* recorder, the idle and low-power timers and the agent's input.          *)
(*                                                                         *)
(* Handlers run on several threads: cloud and player events, key presses,  *)
(* wake words, voice activity (the record task) and timers only set        *)
(* `state`; the toy task polls it every 20 ms, runs the entry callback of  *)
(* the state it finds and then copies `state`, read once more, to          *)
(* cur_state.  A state set and replaced between two polls is never         *)
(* entered, and neither is one set between the entry callback and the      *)
(* copy.                                                                   *)
(***************************************************************************)
EXTENDS Integers

CONSTANTS
    Modes,        \* the modes of the image
    LowPower,     \* ENABLE_LOW_POWER
    MaxEvents     \* bound on what the user, the cloud and the network do

AllModes == {"hold", "oneshot", "wakeup", "free", "translate"}

ASSUME ModesAssumption == Modes \subseteq AllModes /\ Modes # {}
ASSUME BoundsAssumption == LowPower \in BOOLEAN /\ MaxEvents \in Nat

VARIABLES
    mode,            \* the active mode
    state,           \* s_ai_<mode>.state
    cur_state,       \* s_ai_cur_state of each mode
    wakeup_stat,     \* s_ai_<mode>.wakeup_stat
    rec_wakeup,      \* recorder->wakeup_flag: audio may leave the device
    rec_vad,         \* recorder->vad_flag
    voice,           \* the front end's vad flag
    input,           \* wukong_ai_agent_input_start without a matching stop
    asked,           \* the cloud owes an ASR result for some input
    idle_timer,      \* armed?
    expired,         \* the idle timer ran out, its callback has not run yet
    lowpower_timer,  \* armed?
    playing,         \* wukong_audio_player_is_playing
    starting,        \* TTS_PRE was notified, the player has not started the stream yet
    stopped,         \* a STOPPED event of the player is on its way
    ready,           \* wukong_ai_agent_is_ready
    held,            \* the key is held after a LONG_KEY
    awake,           \* ~lp_stat
    entering,        \* between entry callback and copy: the mode polled, the state whose callback
                     \* ran, and the state the mode was left in if it was left since
    lost,            \* history: since the last entry callback, a move to IDLE was replaced before
                     \* a poll saw it, or the copy took a state whose callback had not run
    trigger,         \* history: key or wake word since the last idle callback
    budget           \* events left

context == <<state, cur_state, wakeup_stat, lost>>
recorder == <<rec_wakeup, rec_vad>>
timers == <<idle_timer, expired, lowpower_timer>>
agent == <<input, asked>>
player == <<playing, starting, stopped>>
vars == <<mode, context, recorder, voice, agent, timers, player, ready, held, awake, entering,
          trigger, budget>>

NotPolling == [mode |-> "none", ran |-> "none", left |-> "none"]

Manual == mode = "hold"                                \* WUKONG_AUDIO_VAD_MANUAL
KwsEnabled == mode \in {"wakeup", "free", "translate"}

\* A move to IDLE that no poll has seen is replaced
Overtakes(new) ==
    state = "IDLE" /\ new # "IDLE" /\ (cur_state[mode] # "IDLE" \/ entering # NotPolling)

\* CHAT_SUB_STATE_CHANGE
StateChange(new) ==
    /\ state' = new
    /\ lost' = (lost \/ Overtakes(new))

-----------------------------------------------------------------------------
(* The recorder (wukong_audio_input_board.c). *)

\* wukong_audio_board_input_wakeup_set.  In manual mode it sets the vad flag; START is
\* published at once (see Listen), STOP is not, wakeup_flag being FALSE by then.
WakeupSet(on) ==
    /\ rec_wakeup' = on
    /\ rec_vad' = IF Manual /\ rec_wakeup # on THEN (IF on THEN "start" ELSE "stop") ELSE rec_vad

\* wukong_audio_board_input_reset: an automatic front end restarts without voice
InputReset == voice' = IF Manual THEN voice ELSE "stop"

-----------------------------------------------------------------------------
(* Entry callbacks, run by the toy task. *)

\* __ai_<mode>_idle_cb
IdleCb ==
    /\ idle_timer' = FALSE
    /\ lowpower_timer' = TRUE
    /\ WakeupSet(FALSE)
    /\ wakeup_stat' = FALSE
    /\ trigger' = FALSE
    /\ UNCHANGED agent

\* Mutant: the listen callback forgets to wake the recorder
ListenCbAsleep ==
    /\ lowpower_timer' = FALSE
    /\ wakeup_stat' = TRUE
    /\ idle_timer' = TRUE
    /\ UNCHANGED <<recorder, agent, trigger>>

\* __ai_<mode>_listen_cb.  In manual mode waking the recorder publishes VAD START before
\* it returns, and wukong_ai_hold_vad stops the idle timer again.
ListenCb ==
    LET opens == Manual /\ ~rec_wakeup /\ ready IN
    /\ lowpower_timer' = FALSE
    /\ wakeup_stat' = TRUE
    /\ WakeupSet(TRUE)
    /\ idle_timer' = ~opens
    /\ input' = (input \/ opens)
    /\ asked' = (asked \/ opens)
    /\ UNCHANGED trigger

\* __ai_hold_upload_cb; the other modes never enter UPLOAD
HoldUploadCb ==
    /\ wakeup_stat' = FALSE
    /\ WakeupSet(FALSE)
    /\ input' = FALSE
    /\ UNCHANGED <<timers, asked, trigger>>

\* __ai_hold_think_cb
HoldThinkCb ==
    /\ input' = (input /\ ~wakeup_stat)
    /\ WakeupSet(FALSE)
    /\ wakeup_stat' = FALSE

\* __ai_wakeup_think_cb: wukong_vad_get_flag is the front end's flag
WakeupThinkCb ==
    /\ input' = (input /\ voice # "start")
    /\ WakeupSet(FALSE)
    /\ wakeup_stat' = FALSE

\* __ai_oneshot_think_cb: the recorder sleeps, the conversation goes on
OneshotThinkCb ==
    /\ WakeupSet(FALSE)
    /\ wakeup_stat' = TRUE
    /\ UNCHANGED input

\* __ai_free_think_cb: keep listening
FreeThinkCb ==
    /\ WakeupSet(TRUE)
    /\ wakeup_stat' = TRUE
    /\ UNCHANGED input

\* __ai_translate_think_cb
TranslateThinkCb == FreeThinkCb

\* Mutant: the think callbacks rely on the idle timer that listening started
ThinkCbNoTimer ==
    /\ \/ mode = "hold" /\ HoldThinkCb
       \/ mode = "wakeup" /\ WakeupThinkCb
       \/ mode = "oneshot" /\ OneshotThinkCb
       \/ mode \in {"free", "translate"} /\ FreeThinkCb
    /\ UNCHANGED <<timers, asked, trigger>>

ThinkCb ==
    /\ idle_timer' = TRUE
    /\ \/ mode = "hold" /\ HoldThinkCb
       \/ mode = "wakeup" /\ WakeupThinkCb
       \/ mode = "oneshot" /\ OneshotThinkCb
       \/ mode = "free" /\ FreeThinkCb
       \/ mode = "translate" /\ TranslateThinkCb
    /\ UNCHANGED <<lowpower_timer, asked, trigger>>

\* __ai_<mode>_speak_cb
SpeakCb ==
    /\ idle_timer' = FALSE
    /\ UNCHANGED <<lowpower_timer, recorder, wakeup_stat, agent, trigger>>

EntryCb ==
    \/ state = "IDLE" /\ IdleCb
    \/ state = "LISTEN" /\ ListenCb
    \/ state = "UPLOAD" /\ HoldUploadCb
    \/ state = "THINK" /\ ThinkCb
    \/ state = "SPEAK" /\ SpeakCb

\* The task callback up to the entry callback
PollEnter ==
    /\ awake /\ entering = NotPolling
    /\ state # cur_state[mode]
    /\ EntryCb
    /\ entering' = [mode |-> mode, ran |-> state, left |-> "none"]
    /\ lost' = FALSE
    /\ UNCHANGED <<mode, state, cur_state, voice, expired, player, ready, held, awake, budget>>

\* s_ai_cur_state = s_ai_<mode>.state, read again
PollCommit ==
    LET now == IF entering.left = "none" THEN state ELSE entering.left IN
    /\ entering # NotPolling
    /\ cur_state' = [cur_state EXCEPT ![entering.mode] = now]
    /\ lost' = (lost \/ (entering.left = "none" /\ now # entering.ran))
    /\ entering' = NotPolling
    /\ UNCHANGED <<mode, state, wakeup_stat, recorder, voice, agent, timers, player, ready,
                   held, awake, trigger, budget>>

-----------------------------------------------------------------------------
(* Cloud and player events (wukong_ai_<mode>_event_cb).                    *)
(* ASR_EMPTY stands for ASR_ERROR too; events that leave the conversation  *)
(* alone (text, emotion, skills, playback controls) are left out.          *)

PlayEndState == IF wakeup_stat THEN "LISTEN" ELSE "IDLE"

\* Mutant: an empty result keeps listening, as in the other modes
HoldEventListens(e) ==
    \/ e = "ASR_EMPTY" /\ StateChange("LISTEN")
    \/ e = "ASR_OK" /\ StateChange("THINK")
    \/ e = "TTS_PRE" /\ StateChange("SPEAK")
    \/ e = "PLAY_END" /\ StateChange(PlayEndState)
    \/ e = "EXIT" /\ UNCHANGED <<state, lost>>

\* wukong_ai_hold_event_cb: an empty result ends the conversation; EXIT is not handled
HoldEvent(e) ==
    \/ e = "ASR_EMPTY" /\ StateChange("IDLE")
    \/ e = "ASR_OK" /\ StateChange("THINK")
    \/ e = "TTS_PRE" /\ StateChange("SPEAK")
    \/ e = "PLAY_END" /\ StateChange(PlayEndState)
    \/ e = "EXIT" /\ UNCHANGED <<state, lost>>

\* Mutant: a result moves to UPLOAD, which the task callbacks of automatic modes ignore
FreeEventUpload(e) ==
    \/ e = "ASR_EMPTY" /\ StateChange("LISTEN")
    \/ e = "ASR_OK" /\ StateChange("UPLOAD")
    \/ e = "TTS_PRE" /\ StateChange("SPEAK")
    \/ e = "PLAY_END" /\ StateChange(PlayEndState)
    \/ e = "EXIT" /\ StateChange("IDLE")

\* wukong_ai_free_event_cb: an empty result means listening on
FreeEvent(e) ==
    \/ e = "ASR_EMPTY" /\ StateChange("LISTEN")
    \/ e = "ASR_OK" /\ StateChange("THINK")
    \/ e = "TTS_PRE" /\ StateChange("SPEAK")
    \/ e = "PLAY_END" /\ StateChange(PlayEndState)
    \/ e = "EXIT" /\ StateChange("IDLE")

\* The other automatic modes handle every event the same way
WakeupEvent(e) == FreeEvent(e)
OneshotEvent(e) == FreeEvent(e)
TranslateEvent(e) == FreeEvent(e)

Dispatch(e) ==
    \/ mode = "hold" /\ HoldEvent(e)
    \/ mode = "free" /\ FreeEvent(e)
    \/ mode = "wakeup" /\ WakeupEvent(e)
    \/ mode = "oneshot" /\ OneshotEvent(e)
    \/ mode = "translate" /\ TranslateEvent(e)

Spend == budget > 0 /\ budget' = budget - 1

\* ASR results come for input the cloud has heard, however late
AsrResult(e) ==
    /\ awake /\ asked /\ Spend
    /\ Dispatch(e)
    /\ asked' = FALSE
    /\ UNCHANGED <<mode, cur_state, wakeup_stat, recorder, voice, input, timers, player, ready,
                   held, awake, entering, trigger>>

\* The cloud ends the conversation
Exit ==
    /\ awake /\ Spend
    /\ Dispatch("EXIT")
    /\ UNCHANGED <<mode, cur_state, wakeup_stat, recorder, voice, agent, timers, player, ready,
                   held, awake, entering, trigger>>

\* wukong_audio_player stops what plays: its STOPPED event follows later
PlayerStop == playing' = FALSE /\ stopped' = (stopped \/ playing)
\* ... and starts an alert
PlayerAlert == playing' = TRUE /\ stopped' = (stopped \/ playing)

\* A reply stream begins: TTS_PRE is notified, what plays is stopped ...
TtsPre ==
    /\ awake /\ ~starting /\ Spend
    /\ Dispatch("TTS_PRE")
    /\ PlayerStop
    /\ starting' = TRUE
    /\ UNCHANGED <<mode, cur_state, wakeup_stat, recorder, voice, agent, timers, ready, held,
                   awake, entering, trigger>>

\* ... and then the stream starts
TtsStart ==
    /\ starting
    /\ starting' = FALSE
    /\ playing' = TRUE
    /\ UNCHANGED <<mode, context, recorder, voice, agent, timers, stopped, ready, held, awake,
                   entering, trigger, budget>>

\* Playback ends by itself
PlayerEnds ==
    /\ playing
    /\ playing' = FALSE
    /\ stopped' = TRUE
    /\ UNCHANGED <<mode, context, recorder, voice, agent, timers, starting, ready, held, awake,
                   entering, trigger, budget>>

\* __player_event, STOPPED: PLAY_END unless something else plays by now
StoppedEvent ==
    /\ awake /\ stopped
    /\ stopped' = FALSE
    /\ IF playing THEN UNCHANGED <<state, lost>> ELSE Dispatch("PLAY_END")
    /\ UNCHANGED <<mode, cur_state, wakeup_stat, recorder, voice, agent, timers, playing,
                   starting, ready, held, awake, entering, trigger, budget>>

\* wukong_ai_<mode>_client_run: the agent (re)connected
ClientRun ==
    /\ awake /\ Spend
    /\ ready' = TRUE
    /\ StateChange("IDLE")
    /\ UNCHANGED <<mode, cur_state, wakeup_stat, recorder, voice, agent, timers, player, held,
                   awake, entering, trigger>>

\* The connection is lost
Disconnect ==
    /\ awake /\ ready /\ Spend
    /\ ready' = FALSE
    /\ UNCHANGED <<mode, context, recorder, voice, agent, timers, player, held, awake, entering,
                   trigger>>

-----------------------------------------------------------------------------
(* Voice activity: the record task publishes a change while the recorder   *)
(* is awake (automatic modes only).                                        *)

\* The front end's detector
VoiceStarts ==
    /\ awake /\ ~Manual /\ voice = "stop" /\ Spend
    /\ voice' = "start"
    /\ UNCHANGED <<mode, context, recorder, agent, timers, player, ready, held, awake, entering,
                   trigger>>
VoiceStops ==
    /\ voice = "start"
    /\ voice' = "stop"
    /\ UNCHANGED <<mode, context, recorder, agent, timers, player, ready, held, awake, entering,
                   trigger, budget>>

\* wukong_ai_free_vad; ONESHOT and TRANSLATE have the same text
FreeVad ==
    /\ IF voice = "start"
       THEN IF ready THEN input' = TRUE /\ asked' = TRUE /\ idle_timer' = FALSE
                     ELSE UNCHANGED <<agent, idle_timer>>
       ELSE input' = FALSE /\ asked' = asked /\ idle_timer' = TRUE
OneshotVad == FreeVad
TranslateVad == FreeVad

\* wukong_ai_wakeup_vad leaves the idle timer alone
WakeupVad ==
    /\ IF voice = "start"
       THEN IF ready THEN input' = TRUE /\ asked' = TRUE
                     ELSE UNCHANGED agent
       ELSE input' = FALSE /\ asked' = asked
    /\ UNCHANGED idle_timer

\* __record_task, __update_vad_flag and __on_ai_toy_vad_change; every automatic mode
\* ignores voice while wakeup_stat is FALSE
RecordTask ==
    /\ awake /\ rec_wakeup /\ ~Manual
    /\ voice # rec_vad
    /\ rec_vad' = voice
    /\ \/ ~wakeup_stat /\ UNCHANGED <<agent, idle_timer>>
       \/ wakeup_stat /\ mode = "free" /\ FreeVad
       \/ wakeup_stat /\ mode = "oneshot" /\ OneshotVad
       \/ wakeup_stat /\ mode = "translate" /\ TranslateVad
       \/ wakeup_stat /\ mode = "wakeup" /\ WakeupVad
    /\ UNCHANGED <<mode, context, rec_wakeup, voice, expired, lowpower_timer, player, ready,
                   held, awake, entering, trigger, budget>>

-----------------------------------------------------------------------------
(* Keys and wake words. *)

\* wukong_ai_hold_key_cb, NORMAL_KEY
HoldNormalKey ==
    /\ PlayerStop
    /\ StateChange("IDLE")
    /\ wakeup_stat' = FALSE
    /\ UNCHANGED <<voice, trigger>>

\* wukong_ai_free_wakeup and the NORMAL_KEY of every automatic mode
FreeWakeup ==
    /\ PlayerAlert
    /\ InputReset
    /\ StateChange("LISTEN")
    /\ wakeup_stat' = TRUE
    /\ trigger' = TRUE
FreeNormalKey == FreeWakeup
WakeupNormalKey == FreeWakeup
OneshotNormalKey == FreeWakeup
TranslateNormalKey == FreeWakeup

NormalKey ==
    /\ awake /\ ~held /\ Spend
    /\ \/ mode = "hold" /\ HoldNormalKey
       \/ mode = "free" /\ FreeNormalKey
       \/ mode = "wakeup" /\ WakeupNormalKey
       \/ mode = "oneshot" /\ OneshotNormalKey
       \/ mode = "translate" /\ TranslateNormalKey
    /\ UNCHANGED <<mode, cur_state, recorder, agent, timers, starting, ready, held, awake,
                   entering>>

\* wukong_ai_hold_key_cb, LONG_KEY; no other mode handles it
LongKey ==
    /\ awake /\ ~held /\ Manual /\ Spend
    /\ held' = TRUE
    /\ PlayerStop
    /\ StateChange("LISTEN")
    /\ trigger' = TRUE
    /\ UNCHANGED <<mode, cur_state, wakeup_stat, recorder, voice, agent, timers, starting,
                   ready, awake, entering>>

\* wukong_ai_hold_key_cb, RELEASE_KEY: heeded only once the listen callback has run
ReleaseKey ==
    /\ held
    /\ held' = FALSE
    /\ IF awake /\ Manual /\ wakeup_stat THEN StateChange("UPLOAD") ELSE UNCHANGED <<state, lost>>
    /\ UNCHANGED <<mode, cur_state, wakeup_stat, recorder, voice, agent, timers, player, ready,
                   awake, entering, trigger, budget>>

\* A wake word is heard
WakeWord ==
    /\ awake /\ KwsEnabled /\ Spend
    /\ FreeWakeup
    /\ UNCHANGED <<mode, cur_state, recorder, agent, timers, starting, ready, held, awake,
                   entering>>
-----------------------------------------------------------------------------
(* Timers, mode switches and low power. *)

\* The idle timer runs out.  One that an entry callback has just started has 30 s to go.
IdleExpires ==
    /\ idle_timer /\ entering = NotPolling
    /\ idle_timer' = FALSE
    /\ expired' = TRUE
    /\ UNCHANGED <<mode, context, recorder, voice, agent, lowpower_timer, player, ready, held,
                   awake, entering, trigger, budget>>

\* __on_ai_toy_idle_timer and the notify_idle callback, which a stop of the timer cannot
\* take back; while something plays the timer only starts again
IdleTimeout ==
    /\ expired
    /\ expired' = FALSE
    /\ IF playing THEN idle_timer' = TRUE /\ UNCHANGED <<state, lost>>
                  ELSE StateChange("IDLE") /\ UNCHANGED idle_timer
    /\ UNCHANGED <<mode, cur_state, wakeup_stat, recorder, voice, agent, lowpower_timer, player,
                   ready, held, awake, entering, trigger, budget>>

\* The on_deinit of the active mode and the on_init of m.  The recorder stays awake until
\* the idle callback of m; it restarts when its vad mode changes.  A copy the toy task still
\* has to make for the mode that is left comes after its on_deinit, so on its return the mode
\* may find s_ai_cur_state already set.
Reinit(m) ==
    /\ mode' = m
    /\ input' = FALSE
    /\ cur_state' = [cur_state EXCEPT ![mode] = "INVALID"]
    /\ entering' = IF entering.mode = m THEN [entering EXCEPT !.left = "none"]
                   ELSE IF entering.mode = mode THEN [entering EXCEPT !.left = state] ELSE entering
    /\ state' = "IDLE"
    /\ lost' = (lost \/ cur_state'[m] # "INVALID")
    /\ wakeup_stat' = FALSE
    /\ voice' = IF (mode = "hold") # (m = "hold") THEN "stop" ELSE voice

\* A mode switch: a double press cycles the sub-modes and plays an alert, or leaves
\* TRANSLATE; UI and tools switch without touching the player.
SwitchMode(m) ==
    /\ awake /\ Spend
    /\ Reinit(m)
    /\ \/ ~held /\ "translate" \notin {mode, m} /\ PlayerAlert
       \/ ~held /\ mode = "translate" /\ m # "translate" /\ PlayerStop
       \/ UNCHANGED <<playing, stopped>>
    /\ UNCHANGED <<recorder, asked, timers, starting, ready, held, awake, trigger>>

\* __on_ai_toy_lowpower_timer: recorder, player and agent are torn down, the mode is not
\* told.  While something plays the timer only starts again.
EnterLowPower ==
    /\ LowPower /\ lowpower_timer /\ ~playing
    /\ lowpower_timer' = FALSE
    /\ awake' = FALSE
    /\ rec_wakeup' = FALSE
    /\ rec_vad' = "none"
    /\ voice' = "stop"
    /\ input' = FALSE
    /\ asked' = FALSE
    /\ starting' = FALSE
    /\ stopped' = FALSE
    /\ ready' = FALSE
    /\ UNCHANGED <<mode, context, idle_timer, expired, playing, held, entering, trigger, budget>>

\* ... or nothing happens in an image without low power
LowPowerIgnored ==
    /\ ~LowPower /\ lowpower_timer
    /\ lowpower_timer' = FALSE
    /\ UNCHANGED <<mode, context, recorder, voice, agent, idle_timer, expired, player, ready,
                   held, awake, entering, trigger, budget>>

\* __on_ai_toy_key_press_exit_lowpower, by either key: on_init without on_deinit, cur_state
\* is what it was.  The audio key then goes on to its own handler.
ExitLowPower ==
    /\ ~awake /\ Spend
    /\ awake' = TRUE
    /\ StateChange("IDLE")
    /\ wakeup_stat' = FALSE
    /\ ready' \in BOOLEAN
    /\ UNCHANGED <<mode, cur_state, recorder, voice, agent, timers, player, held, entering,
                   trigger>>

-----------------------------------------------------------------------------

Init ==
    /\ mode \in Modes
    /\ state = "IDLE" /\ cur_state = [m \in Modes |-> "INVALID"]
    /\ wakeup_stat = FALSE /\ lost = FALSE
    /\ rec_wakeup = FALSE /\ rec_vad = "none" /\ voice = "stop"
    /\ input = FALSE /\ asked = FALSE
    /\ idle_timer = FALSE /\ expired = FALSE /\ lowpower_timer = FALSE
    /\ playing = FALSE /\ starting = FALSE /\ stopped = FALSE
    /\ ready \in BOOLEAN
    /\ held = FALSE /\ awake = TRUE /\ entering = NotPolling
    /\ trigger = FALSE
    /\ budget = MaxEvents

CloudStep ==
    \/ \E e \in {"ASR_EMPTY", "ASR_OK"} : AsrResult(e)
    \/ Exit \/ TtsPre \/ ClientRun \/ Disconnect
PlayerStep == TtsStart \/ PlayerEnds \/ StoppedEvent
UserStep == NormalKey \/ LongKey \/ ReleaseKey \/ WakeWord \/ VoiceStarts \/ VoiceStops
            \/ (\E m \in Modes : SwitchMode(m))
TimerStep == IdleExpires \/ IdleTimeout \/ EnterLowPower \/ LowPowerIgnored \/ ExitLowPower
TaskStep == PollEnter \/ PollCommit \/ RecordTask

Next == CloudStep \/ PlayerStep \/ UserStep \/ TimerStep \/ TaskStep

Spec == Init /\ [][Next]_vars

-----------------------------------------------------------------------------
(* Properties. *)

States == {"IDLE", "LISTEN", "UPLOAD", "THINK", "SPEAK"}

\* Every variable keeps its type; UPLOAD belongs to HOLD, the only mode that enters it.
TypeOK ==
    /\ mode \in Modes
    /\ state \in States /\ cur_state \in [Modes -> States \cup {"INVALID"}]
    /\ (state = "UPLOAD" => mode = "hold")
    /\ rec_vad \in {"none", "start", "stop"} /\ voice \in {"start", "stop"}
    /\ wakeup_stat \in BOOLEAN /\ rec_wakeup \in BOOLEAN /\ trigger \in BOOLEAN
    /\ input \in BOOLEAN /\ asked \in BOOLEAN /\ idle_timer \in BOOLEAN /\ expired \in BOOLEAN
    /\ lowpower_timer \in BOOLEAN
    /\ playing \in BOOLEAN /\ starting \in BOOLEAN /\ stopped \in BOOLEAN
    /\ ready \in BOOLEAN /\ held \in BOOLEAN /\ awake \in BOOLEAN /\ lost \in BOOLEAN
    /\ \/ entering = NotPolling
       \/ entering \in [mode : Modes, ran : States, left : States \cup {"none"}]
    /\ budget \in 0..MaxEvents

\* The toy task has nothing to do: the active mode has entered the state it is in
Settled == awake /\ entering = NotPolling /\ state = cur_state[mode]

\* Nothing plays, is about to play or has just been stopped, and nobody talks
Quiet == ~playing /\ ~starting /\ ~stopped /\ voice = "stop" /\ rec_vad # "start"

\* "Idle timer: no activity for TOY_IDLE_TIMEOUT -> idle" (tuya_ai_toy.c): in an automatic
\* mode a microphone that is open while nothing happens has the idle timer to close it.
MicTimesOut == Settled /\ Quiet /\ ~Manual /\ rec_wakeup => idle_timer \/ expired

\* A mode that has settled in LISTEN records: who presses the key "to start talking" (the
\* desktop board's README) or says the wake word is heard.
ListenRecords == Settled /\ state = "LISTEN" => rec_wakeup

\* The two hold after any sequence of events, keys, mode switches, sleeps and reconnections
\* except from a lost change of state to the next entry callback: a move to IDLE that was
\* replaced before a poll saw it, or a state that only the copy of wukong_ai_<mode>_task_cb saw.
MicTimesOutUnlessLost == lost \/ MicTimesOut
ListenRecordsUnlessLost == lost \/ ListenRecords

\* Audio leaves the device only in a conversation that a key or a wake word began after the
\* last time the mode went idle: IDLE waits for a trigger.
MicNeedsTrigger == rec_wakeup => trigger

\* "Hold the key to talk, let go to send" (the desktop board's README): HOLD does not stay
\* listening with nobody on the key and no idle timer to end it (wukong_ai_hold_key_cb).
ReleaseEndsListening == Settled /\ Manual /\ state = "LISTEN" /\ rec_wakeup =>
    held \/ idle_timer \/ expired
=============================================================================
