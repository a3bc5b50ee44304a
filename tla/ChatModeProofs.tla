--------------------------- MODULE ChatModeProofs ---------------------------
(***************************************************************************)
(* What ChatMode guarantees for every set of modes and any number of       *)
(* events.                                                                 *)
(***************************************************************************)
EXTENDS ChatMode, TLAPS

-----------------------------------------------------------------------------
(* Types. *)

\* The mode, the states of its conversation and the two voice flags
ModeOK ==
    /\ mode \in Modes
    /\ state \in States /\ cur_state \in [Modes -> States \cup {"INVALID"}]
    /\ \/ entering = NotPolling
       \/ entering \in [mode : Modes, ran : States, left : States \cup {"none"}]
    /\ (state = "UPLOAD" => mode = "hold")
    /\ rec_vad \in {"none", "start", "stop"} /\ voice \in {"start", "stop"}

FlagsOK ==
    /\ wakeup_stat \in BOOLEAN /\ rec_wakeup \in BOOLEAN /\ trigger \in BOOLEAN
    /\ input \in BOOLEAN /\ asked \in BOOLEAN /\ idle_timer \in BOOLEAN /\ lowpower_timer \in BOOLEAN
    /\ playing \in BOOLEAN /\ starting \in BOOLEAN /\ stopped \in BOOLEAN
    /\ ready \in BOOLEAN /\ held \in BOOLEAN /\ awake \in BOOLEAN

LostOK == lost \in BOOLEAN /\ expired \in BOOLEAN

BudgetOK == budget \in 0..MaxEvents

\* An event leaves a mode other than HOLD out of UPLOAD.
LEMMA DispatchType ==
    ASSUME ModeOK, NEW e, Dispatch(e)
    PROVE  state' \in States /\ (state' = "UPLOAD" => mode = "hold")
BY DEF StateChange, ModeOK, Dispatch, HoldEvent, FreeEvent, WakeupEvent, OneshotEvent,
   TranslateEvent,
    PlayEndState, States

\* Every handler and task keeps the states of the mode.
LEMMA ModeStep == ModeOK /\ [Next]_vars => ModeOK'
<1> SUFFICES ASSUME ModeOK, [Next]_vars PROVE ModeOK'
    OBVIOUS
<1>1. ASSUME NEW e \in {"ASR_EMPTY", "ASR_OK"}, AsrResult(e) PROVE ModeOK'
    BY <1>1, DispatchType DEF AsrResult, recorder, ModeOK
<1>2. CASE Exit
    BY <1>2, DispatchType DEF Exit, recorder, ModeOK
<1>3. CASE TtsPre
    BY <1>3, DispatchType DEF TtsPre, recorder, ModeOK
<1>4. CASE StoppedEvent
    BY <1>4, DispatchType DEF StoppedEvent, recorder, ModeOK
<1>5. CASE ClientRun
    BY <1>5 DEF ClientRun, StateChange, recorder, ModeOK, States
<1>6. CASE Disconnect \/ TtsStart \/ PlayerEnds \/ VoiceStarts \/ VoiceStops \/ LowPowerIgnored
    BY <1>6 DEF Disconnect, TtsStart, PlayerEnds, VoiceStarts, VoiceStops, LowPowerIgnored, context,
        recorder, ModeOK
<1>7. CASE NormalKey
    BY <1>7 DEF NormalKey, StateChange, HoldNormalKey, FreeWakeup, FreeNormalKey, WakeupNormalKey,
       OneshotNormalKey, TranslateNormalKey, InputReset, recorder, ModeOK, States
<1>8. CASE LongKey
    BY <1>8 DEF LongKey, StateChange, recorder, Manual, ModeOK, States
<1>9. CASE ReleaseKey
    BY <1>9 DEF ReleaseKey, StateChange, recorder, Manual, ModeOK, States
<1>10. CASE WakeWord
    BY <1>10 DEF WakeWord, StateChange, FreeWakeup, InputReset, recorder, ModeOK, States
<1>11. ASSUME NEW m \in Modes, SwitchMode(m) PROVE ModeOK'
    <2>1. mode' = m /\ state' = "IDLE" /\ rec_vad' = rec_vad /\ voice' \in {"stop", voice}
        BY <1>11, Zenon DEF SwitchMode, Reinit, recorder
    <2>2. cur_state' = [cur_state EXCEPT ![mode] = "INVALID"]
        BY <1>11 DEF SwitchMode, Reinit
    <2>3. CASE entering = NotPolling
        <3>1. "none" \notin Modes
            BY ModesAssumption DEF AllModes
        <3>2. entering' = entering
            BY <1>11, <2>3, <3>1 DEF SwitchMode, Reinit, NotPolling, ModeOK
        <3> QED BY <2>1, <2>2, <2>3, <3>2 DEF ModeOK, States
    <2>4. CASE entering # NotPolling
        <3>1. entering' \in {entering, [entering EXCEPT !.left = "none"],
        [entering EXCEPT !.left = state]}
            BY <1>11, Zenon DEF SwitchMode, Reinit
        <3>2. entering' \in [mode : Modes, ran : States, left : States \cup {"none"}]
            BY <2>4, <3>1 DEF ModeOK
        <3> QED BY <2>1, <2>2, <3>2 DEF ModeOK, States
    <2> QED BY <2>3, <2>4
<1>12. CASE IdleTimeout \/ ExitLowPower
    BY <1>12 DEF IdleTimeout, ExitLowPower, StateChange, recorder, ModeOK, States
<1>18. CASE IdleExpires
    BY <1>18 DEF IdleExpires, context, recorder, ModeOK
<1>13. CASE EnterLowPower
    BY <1>13 DEF EnterLowPower, context, ModeOK
<1>14. CASE PollEnter
    <2>1. /\ UNCHANGED <<mode, state, cur_state, voice>>
          /\ entering' \in [mode : Modes, ran : States, left : States \cup {"none"}]
        BY <1>14 DEF PollEnter, ModeOK
    <2>2. rec_vad' \in {"start", "stop", rec_vad}
        BY <1>14 DEF PollEnter, EntryCb, IdleCb, ListenCb, HoldUploadCb, SpeakCb, WakeupSet,
           ThinkCb,
            HoldThinkCb, WakeupThinkCb, OneshotThinkCb, FreeThinkCb, TranslateThinkCb, recorder
    <2> QED
        BY <2>1, <2>2 DEF ModeOK
<1>15. CASE PollCommit
    BY <1>15 DEF PollCommit, recorder, ModeOK
<1>16. CASE RecordTask
    BY <1>16 DEF RecordTask, context, ModeOK
<1>17. CASE UNCHANGED vars
    BY <1>17 DEF vars, context, recorder, ModeOK
<1> QED
    BY <1>1, <1>2, <1>3, <1>4, <1>5, <1>6, <1>7, <1>8, <1>9, <1>10, <1>11, <1>12, <1>13, <1>14,
       <1>15, <1>16, <1>17, <1>18 DEF Next, CloudStep, PlayerStep, UserStep, TimerStep, TaskStep

\* Every flag stays a flag.
LEMMA FlagsStep == FlagsOK /\ [Next]_vars => FlagsOK'
<1> SUFFICES ASSUME FlagsOK, [Next]_vars PROVE FlagsOK'
    OBVIOUS
<1> USE DEF FlagsOK, recorder, agent, timers, player
<1>1. ASSUME NEW e \in {"ASR_EMPTY", "ASR_OK"}, AsrResult(e) PROVE FlagsOK'
    BY <1>1 DEF AsrResult
<1>2. CASE Exit
    BY <1>2 DEF Exit
<1>3. CASE TtsPre
    BY <1>3 DEF TtsPre, PlayerStop
<1>4. CASE StoppedEvent
    BY <1>4 DEF StoppedEvent
<1>5. CASE ClientRun
    BY <1>5 DEF ClientRun
<1>6. CASE Disconnect
    BY <1>6 DEF Disconnect, context
<1>7. CASE TtsStart \/ PlayerEnds
    <2>1. CASE TtsStart
        BY <2>1 DEF TtsStart, context
    <2>2. CASE PlayerEnds
        BY <2>2 DEF PlayerEnds, context
    <2> QED
        BY <1>7, <2>1, <2>2
<1>8. CASE VoiceStarts \/ VoiceStops
    <2>1. CASE VoiceStarts
        BY <2>1 DEF VoiceStarts, context
    <2>2. CASE VoiceStops
        BY <2>2 DEF VoiceStops, context
    <2> QED
        BY <1>8, <2>1, <2>2
<1>9. CASE LowPowerIgnored
    BY <1>9 DEF LowPowerIgnored, context
<1>10. CASE NormalKey
    BY <1>10 DEF NormalKey, HoldNormalKey, FreeWakeup, FreeNormalKey, WakeupNormalKey,
       OneshotNormalKey, TranslateNormalKey, PlayerStop, PlayerAlert
<1>11. CASE LongKey
    BY <1>11 DEF LongKey, PlayerStop
<1>12. CASE ReleaseKey
    BY <1>12 DEF ReleaseKey
<1>13. CASE WakeWord
    BY <1>13 DEF WakeWord, FreeWakeup, PlayerAlert
<1>14. ASSUME NEW m \in Modes, SwitchMode(m) PROVE FlagsOK'
    BY <1>14 DEF SwitchMode, Reinit, PlayerStop, PlayerAlert
<1>15. CASE IdleTimeout
    BY <1>15 DEF IdleTimeout
<1>16. CASE ExitLowPower
    BY <1>16 DEF ExitLowPower
<1>17. CASE EnterLowPower
    BY <1>17 DEF EnterLowPower, context
<1>18. CASE PollEnter
    <2>1. UNCHANGED <<playing, starting, stopped, ready, held, awake>>
        BY <1>18 DEF PollEnter
    <2>2. CASE state = "IDLE" /\ IdleCb
        BY <2>1, <2>2 DEF IdleCb, WakeupSet
    <2>3. CASE state = "LISTEN" /\ ListenCb
        BY <2>1, <2>3 DEF ListenCb, WakeupSet
    <2>4. CASE state = "UPLOAD" /\ HoldUploadCb
        BY <2>1, <2>4 DEF HoldUploadCb, WakeupSet
    <2>5. CASE state = "THINK" /\ ThinkCb
        BY <2>1, <2>5 DEF ThinkCb, HoldThinkCb, WakeupThinkCb, OneshotThinkCb, FreeThinkCb,
            TranslateThinkCb, WakeupSet
    <2>6. CASE state = "SPEAK" /\ SpeakCb
        BY <2>1, <2>6, Zenon DEF SpeakCb
    <2> QED
        BY <1>18, <2>2, <2>3, <2>4, <2>5, <2>6 DEF PollEnter, EntryCb
<1>19. CASE PollCommit
    BY <1>19 DEF PollCommit
<1>20. CASE RecordTask
    BY <1>20 DEF RecordTask, FreeVad, OneshotVad, TranslateVad, WakeupVad, context
<1>21. CASE UNCHANGED vars
    BY <1>21 DEF vars, context
<1>22. CASE IdleExpires
    BY <1>22 DEF IdleExpires, context
<1> QED
    BY <1>1, <1>2, <1>3, <1>4, <1>5, <1>6, <1>7, <1>8, <1>9, <1>10, <1>11, <1>12, <1>13, <1>14,
       <1>15, <1>16, <1>17, <1>18, <1>19, <1>20, <1>21, <1>22 DEF Next, CloudStep, PlayerStep,
       UserStep, TimerStep, TaskStep

\* So do the history of lost changes and the pending callback of the idle timer.
LEMMA LostStep == LostOK /\ [Next]_vars => LostOK'
BY Zenon DEF LostOK, timers, recorder, EntryCb, HoldUploadCb, ThinkCb, Next, CloudStep,
   PlayerStep, UserStep, TimerStep, TaskStep, AsrResult, Exit, TtsPre, ClientRun,
    Disconnect, TtsStart, PlayerEnds, StoppedEvent, NormalKey, LongKey, ReleaseKey, WakeWord,
    VoiceStarts,
    VoiceStops, SwitchMode, Reinit, IdleExpires, IdleTimeout, EnterLowPower, LowPowerIgnored,
    ExitLowPower,
    PollEnter, PollCommit, RecordTask, vars, context, Dispatch, HoldEvent, FreeEvent, WakeupEvent,
    OneshotEvent, TranslateEvent, HoldNormalKey, FreeWakeup, FreeNormalKey, WakeupNormalKey,
    OneshotNormalKey, TranslateNormalKey, StateChange

\* What the user, the cloud and the network may still do only shrinks.
LEMMA BudgetStep == BudgetOK /\ [Next]_vars => BudgetOK'
<1> SUFFICES ASSUME BudgetOK, [Next]_vars PROVE BudgetOK'
    OBVIOUS
<1>1. budget' = budget \/ Spend
    BY DEF Next, CloudStep, PlayerStep, UserStep, TimerStep, TaskStep, AsrResult, Exit, TtsPre,
       ClientRun,
        Disconnect, TtsStart, PlayerEnds, StoppedEvent, NormalKey, LongKey, ReleaseKey, WakeWord,
        VoiceStarts, VoiceStops, SwitchMode, IdleExpires, IdleTimeout, EnterLowPower,
        LowPowerIgnored, ExitLowPower,
        PollEnter, PollCommit, RecordTask, vars
<1> QED
    BY <1>1, BoundsAssumption DEF Spend, BudgetOK

\* Every variable keeps its type, wherever handlers run relative to a poll, in every set of
\* modes and under mode switches at any time; only HOLD is ever in UPLOAD, which the task
\* callbacks of the other modes would not leave (wukong_ai_<mode>_event_cb, _task_cb).
THEOREM TypeCorrect == Spec => []TypeOK
<1>1. Init => ModeOK
    BY DEF Init, ModeOK, States
<1>2. Init => FlagsOK
    BY DEF Init, FlagsOK
<1>3. Init => BudgetOK
    BY BoundsAssumption DEF Init, BudgetOK
<1>4. Init => LostOK
    BY DEF Init, LostOK
<1>5. ModeOK /\ FlagsOK /\ LostOK /\ BudgetOK => TypeOK
    BY DEF ModeOK, FlagsOK, LostOK, BudgetOK, TypeOK
<1> QED
    BY <1>1, <1>2, <1>3, <1>4, <1>5, ModeStep, FlagsStep, LostStep, BudgetStep, PTL DEF Spec
-----------------------------------------------------------------------------
(* HOLD records only after a long press. *)

\* Whatever may open the microphone follows a trigger
TriggerInv ==
    /\ mode = "hold"
    /\ rec_wakeup => trigger
    /\ wakeup_stat => trigger
    /\ state = "LISTEN" => trigger

\* Every handler and task of HOLD keeps TriggerInv, at any point of a poll.
LEMMA TriggerStep ==
    ASSUME Modes = {"hold"}
    PROVE TriggerInv /\ [Next]_vars => TriggerInv'
<1> SUFFICES ASSUME TriggerInv, [Next]_vars PROVE TriggerInv'
    OBVIOUS
<1> USE DEF TriggerInv
<1>1. ASSUME NEW e \in {"ASR_EMPTY", "ASR_OK"}, AsrResult(e) PROVE TriggerInv'
    BY <1>1 DEF AsrResult, StateChange, recorder, Dispatch, HoldEvent, FreeEvent,
       WakeupEvent, OneshotEvent, TranslateEvent, PlayEndState
<1>2. CASE Exit
    BY <1>2 DEF Exit, StateChange, recorder, Dispatch, HoldEvent, FreeEvent,
       WakeupEvent, OneshotEvent, TranslateEvent, PlayEndState
<1>3. CASE TtsPre
    BY <1>3 DEF TtsPre, StateChange, recorder, Dispatch, HoldEvent, FreeEvent, WakeupEvent,
       OneshotEvent, TranslateEvent, PlayEndState
<1>4. CASE ClientRun
    BY <1>4 DEF ClientRun, StateChange, recorder
<1>5. CASE Disconnect
    BY <1>5 DEF Disconnect, context, recorder
<1>6. CASE TtsStart
    BY <1>6 DEF TtsStart, context, recorder
<1>7. CASE PlayerEnds
    BY <1>7 DEF PlayerEnds, context, recorder
<1>8. CASE StoppedEvent
    BY <1>8 DEF StoppedEvent, StateChange, recorder, Dispatch, HoldEvent, FreeEvent,
       WakeupEvent, OneshotEvent, TranslateEvent, PlayEndState
<1>9. CASE NormalKey
    BY <1>9 DEF NormalKey, StateChange, HoldNormalKey, FreeWakeup, FreeNormalKey, WakeupNormalKey,
       OneshotNormalKey, TranslateNormalKey, PlayerStop, PlayerAlert, InputReset, recorder
<1>10. CASE LongKey
    BY <1>10 DEF LongKey, StateChange, PlayerStop, recorder, Manual
<1>11. CASE ReleaseKey
    BY <1>11 DEF ReleaseKey, StateChange, recorder
<1>12. CASE WakeWord
    BY <1>12 DEF WakeWord, StateChange, FreeWakeup, PlayerAlert, InputReset, recorder,
       KwsEnabled
<1>13. CASE VoiceStarts
    BY <1>13 DEF VoiceStarts, context, recorder
<1>14. CASE VoiceStops
    BY <1>14 DEF VoiceStops, context, recorder
<1>15. ASSUME NEW m \in Modes, SwitchMode(m) PROVE TriggerInv'
    BY <1>15 DEF SwitchMode, Reinit, recorder
<1>16. CASE IdleTimeout
    BY <1>16 DEF IdleTimeout, StateChange, recorder
<1>17. CASE EnterLowPower
    BY <1>17 DEF EnterLowPower, context
<1>18. CASE LowPowerIgnored
    BY <1>18 DEF LowPowerIgnored, context, recorder
<1>19. CASE ExitLowPower
    BY <1>19 DEF ExitLowPower, StateChange, recorder
<1>20. CASE PollEnter
    <2>1. mode' = "hold" /\ state' = state
        BY <1>20 DEF PollEnter
    <2>2. CASE state = "IDLE" /\ IdleCb
        BY <2>1, <2>2 DEF IdleCb, WakeupSet
    <2>3. CASE state = "LISTEN" /\ ListenCb
        <3>1. trigger' = trigger /\ trigger
            BY <2>3 DEF ListenCb
        <3> QED
            BY <2>1, <3>1
    <2>4. CASE state = "UPLOAD" /\ HoldUploadCb
        BY <2>1, <2>4 DEF HoldUploadCb, WakeupSet
    <2>5. CASE state = "THINK" /\ ThinkCb
        BY <2>1, <2>5 DEF ThinkCb, HoldThinkCb, WakeupSet
    <2>6. CASE state = "SPEAK" /\ SpeakCb
        BY <2>1, <2>6 DEF SpeakCb, recorder
    <2> QED
        BY <1>20, <2>2, <2>3, <2>4, <2>5, <2>6 DEF PollEnter, EntryCb
<1>21. CASE PollCommit
    BY <1>21 DEF PollCommit, recorder
<1>22. CASE RecordTask
    BY <1>22 DEF RecordTask, FreeVad, OneshotVad, TranslateVad, WakeupVad, context, Manual
<1>23. CASE UNCHANGED vars
    BY <1>23 DEF vars, context, recorder
<1>24. CASE IdleExpires
    BY <1>24 DEF IdleExpires, context, recorder
<1> QED
    BY <1>1, <1>2, <1>3, <1>4, <1>5, <1>6, <1>7, <1>8, <1>9, <1>10, <1>11, <1>12, <1>13, <1>14,
       <1>15, <1>16, <1>17, <1>18, <1>19, <1>20, <1>21, <1>22, <1>23, <1>24 DEF Next, CloudStep,
       PlayerStep, UserStep, TimerStep, TaskStep

\* In an image with HOLD only the recorder is awake only in a conversation begun by a long
\* press since the last idle callback, wherever handlers run relative to a poll.
THEOREM HoldMicNeedsKey ==
    ASSUME Modes = {"hold"}
    PROVE Spec => []MicNeedsTrigger
<1>1. Init => TriggerInv
    BY DEF Init, TriggerInv
<1>2. TriggerInv => MicNeedsTrigger
    BY DEF TriggerInv, MicNeedsTrigger
<1> QED
    BY <1>1, <1>2, TriggerStep, PTL DEF Spec

-----------------------------------------------------------------------------
(* Until a change of state is lost, the last entry callback speaks for the *)
(* recorder and the timers.                                                *)

\* What the entry callback of c does to the recorder lasts.  LISTEN needs its low-power timer
\* off: a sleep would destroy the recorder and leave cur_state as it is.
Recorder(c) ==
    /\ c = "LISTEN" => rec_wakeup /\ ~lowpower_timer
    /\ c = "IDLE" => ~rec_wakeup

\* While LISTEN and THINK of an automatic mode record, the idle timer runs, its callback is
\* due, the end of speech will start it (not in WAKEUP), or it has done its work.
Timed(c) ==
    c \in {"LISTEN", "THINK"} /\ ~Manual /\ rec_wakeup =>
        \/ state = "IDLE"
        \/ wakeup_stat /\ (idle_timer \/ expired \/ (rec_vad = "start" /\ mode # "wakeup"))

\* What the last entry callback left is still there, between polls and inside one
EnteredInv ==
    /\ ~lost /\ entering = NotPolling => Recorder(cur_state[mode]) /\ Timed(cur_state[mode])
    /\ ~lost /\ entering # NotPolling => Recorder(entering.ran)
    /\ ~lost /\ entering # NotPolling /\ entering.left = "none" => Timed(entering.ran)
    /\ ~lost /\ entering # NotPolling /\ entering.left # "none" => cur_state[mode] = "INVALID"

\* A poll in progress belongs to the active mode until that is left; asleep the recorder is
\* gone; SPEAK waits for the player.
PollInv ==
    /\ cur_state \in [Modes -> States \cup {"INVALID"}] /\ mode \in Modes
    /\ entering # NotPolling => entering.mode \in Modes
    /\ entering # NotPolling => (entering.left = "none" <=> entering.mode = mode)
    /\ ~awake => ~rec_wakeup
    /\ awake /\ state = "SPEAK" => playing \/ starting \/ stopped

\* A mode switch keeps a poll in progress and notes whether its mode has been left.
LEMMA SwitchEntering ==
    ASSUME PollInv, ModeOK, NEW m \in Modes, Reinit(m)
    PROVE  /\ (entering' # NotPolling) <=> (entering # NotPolling)
           /\ (entering # NotPolling) => (entering'.ran = entering.ran) /\ entering'.mode = entering.mode
           /\ entering' # NotPolling => entering'.mode \in Modes /\ (entering'.left = "none" <=> entering'.mode = m)
<1>1. "none" \notin Modes /\ "none" \notin States
    BY ModesAssumption DEF AllModes, States
<1>2. CASE entering = NotPolling
    <2>1. entering.mode \notin Modes
        BY <1>1, <1>2 DEF NotPolling
    <2>2. entering' = entering
        BY <2>1 DEF Reinit, PollInv
    <2> QED BY <1>2, <2>2
<1>3. CASE entering # NotPolling
    <2>1. entering \in [mode : Modes, ran : States, left : States \cup {"none"}] /\ state \in States
        BY <1>3 DEF ModeOK
    <2>2. CASE entering.mode = m
        <3>1. entering' = [entering EXCEPT !.left = "none"]
            BY <2>2 DEF Reinit
        <3>2. entering'.left = "none" /\ entering'.mode = entering.mode /\ entering'.ran = entering.ran
            BY <2>1, <3>1
        <3> QED BY <1>1, <1>3, <2>1, <2>2, <3>2 DEF NotPolling
    <2>3. CASE entering.mode # m /\ entering.mode = mode
        <3>1. entering' = [entering EXCEPT !.left = state]
            BY <2>3 DEF Reinit
        <3>2. entering'.left = state /\ entering'.mode = entering.mode /\ entering'.ran = entering.ran
            BY <2>1, <3>1
        <3> QED BY <1>1, <1>3, <2>1, <2>3, <3>2 DEF NotPolling
    <2>4. CASE entering.mode # m /\ entering.mode # mode
        <3>1. entering' = entering
            BY <2>4 DEF Reinit
        <3> QED BY <1>3, <2>1, <2>4, <3>1 DEF PollInv
    <2> QED BY <2>2, <2>3, <2>4
<1> QED BY <1>2, <1>3

\* An event of the cloud or the player changes the state or leaves it.
LEMMA DispatchChange ==
    ASSUME NEW e, Dispatch(e)
    PROVE  UNCHANGED <<state, lost>> \/ \E n : StateChange(n)
BY Zenon DEF Dispatch, HoldEvent, FreeEvent, WakeupEvent, OneshotEvent, TranslateEvent

\* A handler that leaves recorder and timers alone keeps EnteredInv: what it may spoil, a
\* pending move to IDLE, it counts as lost.
LEMMA ChangeEntered ==
    ASSUME EnteredInv, LostOK, UNCHANGED <<state, lost>> \/ \E n : StateChange(n),
           UNCHANGED <<mode, cur_state, recorder, timers, entering>>,
           Manual \/ wakeup_stat' = wakeup_stat \/ wakeup_stat' = TRUE
    PROVE  EnteredInv'
<1>1. ~lost' => ~lost /\ (state = "IDLE" =>
                            state' = "IDLE" \/ (cur_state[mode] = "IDLE" /\ entering = NotPolling))
    BY DEF StateChange, Overtakes, LostOK
<1> QED
    BY <1>1 DEF EnteredInv, Recorder, Timed, Manual, recorder, timers

\* Every handler and task keeps PollInv.
LEMMA PollStep ==
    ASSUME PollInv, ModeOK, [Next]_vars
    PROVE  PollInv'
<1> USE DEF PollInv, context, recorder, timers, agent, player
<1>1. ASSUME NEW e \in {"ASR_EMPTY", "ASR_OK"}, AsrResult(e) PROVE PollInv'
    BY <1>1 DEF AsrResult, Dispatch, HoldEvent, FreeEvent, WakeupEvent, OneshotEvent,
       TranslateEvent, PlayEndState, StateChange
<1>2. CASE Exit
    BY <1>2 DEF Exit, Dispatch, HoldEvent, FreeEvent, WakeupEvent, OneshotEvent, TranslateEvent,
       PlayEndState, StateChange
<1>3. CASE TtsPre
    BY <1>3 DEF TtsPre, Dispatch, HoldEvent, FreeEvent, WakeupEvent, OneshotEvent,
       TranslateEvent, PlayEndState, StateChange, PlayerStop
<1>4. CASE ClientRun
    BY <1>4 DEF ClientRun, StateChange
<1>5. CASE Disconnect
    BY <1>5 DEF Disconnect
<1>6. CASE TtsStart
    BY <1>6 DEF TtsStart
<1>7. CASE PlayerEnds
    BY <1>7 DEF PlayerEnds
<1>8. CASE StoppedEvent
    BY <1>8 DEF StoppedEvent, Dispatch, HoldEvent, FreeEvent, WakeupEvent, OneshotEvent,
       TranslateEvent, PlayEndState, StateChange
<1>9. CASE NormalKey
    BY <1>9 DEF NormalKey, HoldNormalKey, FreeWakeup, FreeNormalKey, WakeupNormalKey,
       OneshotNormalKey, TranslateNormalKey, PlayerStop, PlayerAlert, InputReset, StateChange
<1>10. CASE LongKey
    BY <1>10 DEF LongKey, PlayerStop, StateChange
<1>11. CASE ReleaseKey
    BY <1>11 DEF ReleaseKey, StateChange
<1>12. CASE WakeWord
    BY <1>12 DEF WakeWord, FreeWakeup, PlayerAlert, InputReset, StateChange
<1>13. CASE VoiceStarts
    BY <1>13 DEF VoiceStarts
<1>14. CASE VoiceStops
    BY <1>14 DEF VoiceStops
<1>15. CASE IdleExpires
    BY <1>15 DEF IdleExpires
<1>16. CASE IdleTimeout
    BY <1>16 DEF IdleTimeout, StateChange
<1>17. CASE EnterLowPower
    BY <1>17 DEF EnterLowPower
<1>18. CASE LowPowerIgnored
    BY <1>18 DEF LowPowerIgnored
<1>19. CASE ExitLowPower
    BY <1>19 DEF ExitLowPower, StateChange
<1>20. CASE PollEnter
    BY <1>20 DEF PollEnter, EntryCb, IdleCb, ListenCb, HoldUploadCb, SpeakCb, WakeupSet,
       ThinkCb, HoldThinkCb, WakeupThinkCb, OneshotThinkCb, FreeThinkCb, TranslateThinkCb
<1>21. CASE PollCommit
    <2>1. /\ entering # NotPolling /\ entering.mode \in Modes
          /\ (IF entering.left = "none" THEN state ELSE entering.left) \in States
        BY <1>21 DEF PollCommit, ModeOK
    <2>2. /\ cur_state' = [cur_state EXCEPT ![entering.mode] = IF entering.left = "none" THEN state ELSE entering.left]
          /\ entering' = NotPolling
          /\ UNCHANGED <<mode, state, rec_wakeup, playing, starting, stopped, awake>>
        BY <1>21 DEF PollCommit
    <2> QED BY <2>1, <2>2
<1>22. CASE RecordTask
    BY <1>22 DEF RecordTask, FreeVad, OneshotVad, TranslateVad, WakeupVad
<1>23. ASSUME NEW m \in Modes, SwitchMode(m) PROVE PollInv'
    <2>1. /\ mode' = m /\ state' = "IDLE"
          /\ cur_state' = [cur_state EXCEPT ![mode] = "INVALID"]
          /\ UNCHANGED <<awake, rec_wakeup>>
        BY <1>23 DEF SwitchMode, Reinit
    <2>2. entering' # NotPolling => entering'.mode \in Modes /\ (entering'.left = "none" <=> entering'.mode = m)
        BY <1>23, SwitchEntering, ModeOK DEF SwitchMode
    <2> QED BY <2>1, <2>2
<1>24. CASE UNCHANGED vars
    BY <1>24 DEF vars
<1> QED
    BY <1>1, <1>2, <1>3, <1>4, <1>5, <1>6, <1>7, <1>8, <1>9, <1>10, <1>11, <1>12, <1>13, <1>14,
       <1>15, <1>16, <1>17, <1>18, <1>19, <1>20, <1>21, <1>22, <1>23, <1>24
       DEF Next, CloudStep, PlayerStep, UserStep, TimerStep, TaskStep

\* Every handler and task keeps EnteredInv, wherever it runs relative to a poll.
LEMMA EnteredStep ==
    ASSUME EnteredInv, PollInv, ModeOK, FlagsOK, LostOK, [Next]_vars
    PROVE  EnteredInv'
<1> USE DEF EnteredInv, Recorder, Timed, Manual, context, recorder, timers, agent, player
<1>1. ASSUME NEW e \in {"ASR_EMPTY", "ASR_OK"}, AsrResult(e) PROVE EnteredInv'
    BY <1>1, DispatchChange, ChangeEntered DEF AsrResult
<1>2. CASE Exit
    BY <1>2, DispatchChange, ChangeEntered DEF Exit
<1>3. CASE TtsPre
    BY <1>3, DispatchChange, ChangeEntered DEF TtsPre
<1>4. CASE ClientRun
    BY <1>4, ChangeEntered DEF ClientRun
<1>5. CASE Disconnect
    BY <1>5 DEF Disconnect
<1>6. CASE TtsStart
    BY <1>6 DEF TtsStart
<1>7. CASE PlayerEnds
    BY <1>7 DEF PlayerEnds
<1>8. CASE StoppedEvent
    <2>1. UNCHANGED <<mode, cur_state, wakeup_stat, recorder, timers, entering>>
        BY <1>8 DEF StoppedEvent
    <2>2. UNCHANGED <<state, lost>> \/ \E n : StateChange(n)
        BY <1>8, DispatchChange, Zenon DEF StoppedEvent
    <2> QED BY <2>1, <2>2, ChangeEntered
<1>9. CASE NormalKey
    <2>1. UNCHANGED <<mode, cur_state, recorder, timers, entering>>
        BY <1>9 DEF NormalKey
    <2>2. /\ \E n : StateChange(n)
          /\ Manual \/ wakeup_stat' = TRUE
        BY <1>9, Zenon DEF NormalKey, HoldNormalKey, FreeWakeup, FreeNormalKey, WakeupNormalKey,
           OneshotNormalKey, TranslateNormalKey
    <2> QED BY <2>1, <2>2, ChangeEntered
<1>10. CASE LongKey
    BY <1>10, ChangeEntered DEF LongKey
<1>11. CASE ReleaseKey
    BY <1>11 DEF ReleaseKey, StateChange
<1>12. CASE WakeWord
    BY <1>12, ChangeEntered DEF WakeWord, FreeWakeup
<1>13. CASE VoiceStarts
    BY <1>13 DEF VoiceStarts
<1>14. CASE VoiceStops
    BY <1>14 DEF VoiceStops
<1>15. CASE IdleExpires
    BY <1>15 DEF IdleExpires
<1>16. CASE IdleTimeout
    BY <1>16 DEF IdleTimeout, StateChange
<1>17. CASE EnterLowPower
    BY <1>17 DEF EnterLowPower
<1>18. CASE LowPowerIgnored
    BY <1>18 DEF LowPowerIgnored
<1>19. CASE ExitLowPower
    BY <1>19 DEF ExitLowPower, StateChange
<1>20. CASE PollEnter
    <2>1. /\ entering' = [mode |-> mode, ran |-> state, left |-> "none"] /\ entering' # NotPolling
          /\ mode' = mode /\ state' = state /\ expired' = expired
        BY <1>20 DEF PollEnter, NotPolling, ModeOK, States
    <2>2. CASE state = "IDLE" /\ IdleCb
        BY <2>1, <2>2 DEF IdleCb, WakeupSet
    <2>3. CASE state = "LISTEN" /\ ListenCb
        BY <2>1, <2>3 DEF ListenCb, WakeupSet
    <2>4. CASE state = "THINK" /\ ThinkCb
        BY <2>1, <2>4 DEF ThinkCb, HoldThinkCb, WakeupThinkCb, OneshotThinkCb, FreeThinkCb,
           TranslateThinkCb, WakeupSet
    <2>5. CASE state \notin {"IDLE", "LISTEN", "THINK"}
        BY <2>1, <2>5
    <2> QED
        BY <1>20, <2>2, <2>3, <2>4, <2>5 DEF PollEnter, EntryCb
<1>21. CASE PollCommit
    <2>1. /\ entering # NotPolling /\ entering' = NotPolling
          /\ UNCHANGED <<mode, state, wakeup_stat, recorder, timers>>
        BY <1>21 DEF PollCommit
    <2>2. CASE entering.left = "none"
        <3>1. cur_state'[mode] = state
            BY <1>21, <2>1, <2>2 DEF PollCommit, PollInv
        <3>2. ~lost' => ~lost /\ state = entering.ran
            BY <1>21, <2>2 DEF PollCommit, LostOK
        <3> QED BY <2>1, <2>2, <3>1, <3>2
    <2>3. CASE entering.left # "none"
        <3>1. cur_state'[mode] = cur_state[mode] /\ entering.mode # mode
            BY <1>21, <2>1, <2>3 DEF PollCommit, PollInv
        <3>2. ~lost' => ~lost
            BY <1>21, <2>3 DEF PollCommit, LostOK
        <3> QED BY <2>1, <2>3, <3>1, <3>2
    <2> QED BY <2>2, <2>3
<1>22. CASE RecordTask
    <2>1. /\ UNCHANGED <<mode, state, cur_state, wakeup_stat, lost, entering, rec_wakeup,
                         expired, lowpower_timer>>
          /\ rec_vad' = voice /\ ~Manual
        BY <1>22 DEF RecordTask
    <2>2. \/ idle_timer' = TRUE
          \/ voice = "start" /\ mode # "wakeup"
          \/ ~wakeup_stat /\ idle_timer' = idle_timer
          \/ idle_timer' = idle_timer /\ mode = "wakeup"
        BY <1>22, Zenon DEF RecordTask, FreeVad, OneshotVad, TranslateVad, WakeupVad
    <2> QED BY <2>1, <2>2
<1>23. ASSUME NEW m \in Modes, SwitchMode(m) PROVE EnteredInv'
    <2>1. /\ mode' = m /\ state' = "IDLE" /\ UNCHANGED <<recorder, timers>>
          /\ cur_state' = [cur_state EXCEPT ![mode] = "INVALID"]
          /\ lost' = (lost \/ cur_state'[m] # "INVALID")
        BY <1>23 DEF SwitchMode, Reinit
    <2>2. ~lost' => ~lost /\ cur_state'[m] = "INVALID"
        BY <2>1 DEF LostOK
    <2>3. /\ (entering' # NotPolling) <=> (entering # NotPolling)
          /\ (entering # NotPolling) => (entering'.ran = entering.ran)
        BY <1>23, SwitchEntering DEF SwitchMode
    <2> QED BY <2>1, <2>2, <2>3
<1>24. CASE UNCHANGED vars
    BY <1>24 DEF vars
<1> QED
    BY <1>1, <1>2, <1>3, <1>4, <1>5, <1>6, <1>7, <1>8, <1>9, <1>10, <1>11, <1>12, <1>13, <1>14,
       <1>15, <1>16, <1>17, <1>18, <1>19, <1>20, <1>21, <1>22, <1>23, <1>24
       DEF Next, CloudStep, PlayerStep, UserStep, TimerStep, TaskStep

\* In every reachable state the last entry callback that was not overtaken speaks for the
\* recorder and the timers.
LEMMA EnteredAlways == Spec => [](PollInv /\ EnteredInv)
<1>1. Init => ModeOK /\ FlagsOK /\ LostOK
    BY DEF Init, ModeOK, FlagsOK, LostOK, States
<1>2. Init => PollInv /\ EnteredInv
    BY DEF Init, PollInv, EnteredInv, Recorder, Timed, States
<1> QED
    BY <1>1, <1>2, ModeStep, FlagsStep, LostStep, PollStep, EnteredStep, PTL DEF Spec

\* In every set of modes, wherever handlers run relative to a poll: an automatic mode whose
\* microphone is open while nothing happens has its idle timer running or its callback due,
\* unless a change of state was lost since the last entry callback.
THEOREM MicHasTimeout == Spec => []MicTimesOutUnlessLost
<1>1. PollInv /\ EnteredInv /\ ModeOK => MicTimesOutUnlessLost
    BY DEF PollInv, EnteredInv, Recorder, Timed, ModeOK, States, MicTimesOutUnlessLost,
       MicTimesOut, Settled, Quiet, Manual
<1>2. Init => ModeOK
    BY DEF Init, ModeOK, States
<1> QED
    BY <1>1, <1>2, ModeStep, EnteredAlways, PTL DEF Spec

\* Under the same exception a mode that has settled in LISTEN records, after any sequence of
\* mode switches, sleeps and reconnections.
THEOREM ListenDoesRecord == Spec => []ListenRecordsUnlessLost
<1>1. EnteredInv => ListenRecordsUnlessLost
    BY DEF EnteredInv, Recorder, ListenRecordsUnlessLost, ListenRecords, Settled
<1> QED
    BY <1>1, EnteredAlways, PTL
=============================================================================
