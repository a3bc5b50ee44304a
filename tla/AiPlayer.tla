------------------------------ MODULE AiPlayer ------------------------------
(***************************************************************************)
(* The audio player: the player task and its command queue                 *)
(* (svc_ai_player.c), the playlist of each player (svc_ai_playlist.c) and  *)
(* the calls through which the application uses them                       *)
(* (wukong_audio_player.c).  There are two players, the tone player in the *)
(* foreground and the music player in the background.                      *)
(*                                                                         *)
(* A call runs in its caller's thread.  It posts commands without waiting  *)
(* for room in the queue, and then looks at the player's state until the   *)
(* task has executed them, some calls with the playlist's mutex held.  The *)
(* task calls the playlist back, which takes the same mutex.               *)
(***************************************************************************)
EXTENDS Naturals, Sequences

CONSTANTS
    Threads,   \* threads that call the application's interface
    None,      \* no thread, no player
    CallsOf,   \* the calls each thread makes
    QueueMax,  \* messages that fit in the queue
    Capacity,  \* cfg.capacity of each playlist
    MaxCalls   \* bound on the number of calls

Players == {"FG", "BG"}

ASSUME NoneAssumption == None \notin Threads /\ None \notin Players
ASSUME BoundsAssumption ==
    QueueMax \in Nat /\ Capacity \in [Players -> Nat] /\ MaxCalls \in Nat

VARIABLES
    state,    \* player->state
    src,      \* what its data sink reads: a tone or TTS stream in memory, or a url or file
    eof,      \* the memory sink has been told that the stream is complete
    queue,    \* s_ai_player_ctx.queue
    active,   \* s_ai_player_ctx.active_player
    speaker,  \* consumer.start has been called, and not consumer.stop
    at,       \* where the player task is
    stopped,  \* the player whose playlist it calls back ...
    then,     \* ... and where it goes on
    count, index, playing,  \* ctx->count, ctx->index, ctx->playing of each playlist
    mutex,    \* the thread that holds ctx->mutex
    prog,     \* the operations a thread's call still has to do
    pc,       \* where the thread is in the first of them
    calls,    \* calls left
    missed    \* history: threads that wait for a STOPPED state that has come and gone

sink == <<src, eof>>
output == <<active, speaker>>
task == <<at, stopped, then>>
list == <<count, index, playing>>
thread == <<prog, pc>>
vars == <<state, sink, queue, output, task, list, mutex, thread, calls, missed>>

-----------------------------------------------------------------------------
(* The calls of the application, as sequences of operations. *)

Clear(p) == [op |-> "clear", p |-> p, src |-> "none"]
ListStop(p) == [op |-> "list_stop", p |-> p, src |-> "none"]
Add(p) == [op |-> "add", p |-> p, src |-> "url"]
Stop(p) == [op |-> "stop", p |-> p, src |-> "none"]
Start(s) == [op |-> "start", p |-> "FG", src |-> s]
Eof == [op |-> "eof", p |-> "FG", src |-> "none"]
Pause == [op |-> "pause", p |-> "BG", src |-> "none"]
Resume == [op |-> "resume", p |-> "BG", src |-> "none"]

Program == [
    play_music |-> <<Clear("BG"), Add("BG")>>,                  \* play_local too
    play_songs |-> <<Clear("BG"), Add("BG"), Add("BG")>>,       \* src_cnt = 2
    play_tts_url |-> <<Clear("FG"), Add("FG")>>,
    play_data |-> <<ListStop("FG"), Start("tone"), Eof>>,
    tts_start |-> <<Clear("FG"), Stop("FG"), Start("tts")>>,
    tts_stop |-> <<Eof>>,
    stop_fg |-> <<Clear("FG"), Stop("FG")>>,
    stop_bg |-> <<Clear("BG"), Stop("BG")>>,
    stop_all |-> <<Clear("FG"), Stop("FG"), Clear("BG"), Stop("BG")>>,
    pause |-> <<Pause>>,
    resume |-> <<Resume>>]

ASSUME CallsAssumption == CallsOf \in [Threads -> SUBSET DOMAIN Program]

Init ==
    /\ state = [p \in Players |-> "STOPPED"]
    /\ src = [p \in Players |-> "none"]
    /\ eof = [p \in Players |-> FALSE]
    /\ queue = <<>>
    /\ active = None
    /\ speaker = FALSE
    /\ at = "fetch"
    /\ stopped = None
    /\ then = "fetch"
    /\ count = [p \in Players |-> 0]
    /\ index = [p \in Players |-> 0]
    /\ playing = [p \in Players |-> FALSE]
    /\ mutex = [p \in Players |-> None]
    /\ prog = [t \in Threads |-> <<>>]
    /\ pc = [t \in Threads |-> "op"]
    /\ calls = MaxCalls
    /\ missed = {}

-----------------------------------------------------------------------------
(* The threads. *)

Op(t) == Head(prog[t])
At(t, l, ops) == prog[t] # <<>> /\ pc[t] = l /\ Op(t).op \in ops

Done(t) ==
    /\ prog' = [prog EXCEPT ![t] = Tail(@)]
    /\ pc' = [pc EXCEPT ![t] = "op"]

Goto(t, l) == pc' = [pc EXCEPT ![t] = l] /\ UNCHANGED prog

\* A playlist operation goes on to its list, any other is complete
Proceed(t) ==
    \/ Op(t).op \in {"clear", "list_stop"} /\ Goto(t, "body")
    \/ Op(t).op = "add" /\ Goto(t, "mark")
    \/ Op(t).op \notin {"clear", "list_stop", "add"} /\ Done(t)

Begin(t) ==
    /\ prog[t] = <<>>
    /\ calls > 0
    /\ calls' = calls - 1
    /\ \E c \in CallsOf[t] : prog' = [prog EXCEPT ![t] = Program[c]]
    /\ UNCHANGED <<state, sink, queue, output, task, list, mutex, pc, missed>>

\* tuya_ai_player_feed with no data; only the memory sink takes it
FeedEof(t) ==
    /\ At(t, "op", {"eof"})
    /\ eof' = [eof EXCEPT !["FG"] = @ \/ (state["FG"] # "STOPPED" /\ src["FG"] \in {"tone", "tts"})]
    /\ Done(t)
    /\ UNCHANGED <<state, src, queue, output, task, list, mutex, calls, missed>>

\* The states in which tuya_ai_player_start, stop, pause and resume post their command
Accepts(op, s) ==
    \/ op \in {"start", "add"} /\ s = "STOPPED"
    \/ op \in {"stop", "clear", "list_stop"} /\ s # "STOPPED"
    \/ op = "pause" /\ s = "PLAYING"
    \/ op = "resume" /\ s = "PAUSED"

\* tuya_ai_player_start, stop, pause, resume: look at the state
Test(t) ==
    /\ At(t, "op", {"start", "stop", "pause", "resume"})
    /\ IF Accepts(Op(t).op, state[Op(t).p]) THEN Goto(t, "post") ELSE Done(t)
    /\ UNCHANGED <<state, sink, queue, output, task, list, mutex, calls, missed>>

\* tuya_ai_playlist_clear, tuya_ai_playlist_stop: lock, and look at the state if the
\* player is to be stopped
ListLock(t) == LET p == Op(t).p IN
    /\ At(t, "op", {"clear", "list_stop"})
    /\ mutex[p] = None
    /\ mutex' = [mutex EXCEPT ![p] = t]
    /\ IF (Op(t).op = "list_stop" \/ playing[p]) /\ Accepts("stop", state[p])
       THEN Goto(t, "post") ELSE Goto(t, "body")
    /\ UNCHANGED <<state, sink, queue, output, task, list, calls, missed>>

Command(op) ==
    IF op \in {"stop", "clear", "list_stop"} THEN "STOP"
    ELSE IF op \in {"start", "add"} THEN "START"
    ELSE IF op = "pause" THEN "PAUSE" ELSE "RESUME"

Message(o) == [p |-> o.p, cmd |-> Command(o.op), src |-> o.src]

HasRoom == Len(queue) < QueueMax

\* Mutant: the result of tal_queue_post is not looked at
PostUnchecked(t) ==
    /\ prog[t] # <<>> /\ pc[t] = "post"
    /\ queue' = IF HasRoom THEN Append(queue, Message(Op(t))) ELSE queue
    /\ IF Op(t).op \in {"stop", "clear", "list_stop", "start"} THEN Goto(t, "wait") ELSE Proceed(t)
    /\ UNCHANGED <<state, sink, output, task, list, mutex, calls, missed>>

\* Mutant: a queue without the limit
PostOverfills(t) ==
    /\ prog[t] # <<>> /\ pc[t] = "post"
    /\ queue' = Append(queue, Message(Op(t)))
    /\ IF Op(t).op \in {"stop", "clear", "list_stop", "start"} THEN Goto(t, "wait") ELSE Proceed(t)
    /\ UNCHANGED <<state, sink, output, task, list, mutex, calls, missed>>

\* tal_queue_post; a full queue is an error, after which nothing is waited for
Post(t) ==
    /\ prog[t] # <<>> /\ pc[t] = "post"
    /\ queue' = IF HasRoom THEN Append(queue, Message(Op(t))) ELSE queue
    /\ IF HasRoom /\ Op(t).op \in {"stop", "clear", "list_stop", "start"}
       THEN Goto(t, "wait") ELSE Proceed(t)
    /\ UNCHANGED <<state, sink, output, task, list, mutex, calls, missed>>

\* tuya_ai_player_stop: the state is STOPPED when it is looked at
StopSeen(t) ==
    /\ At(t, "wait", {"stop", "clear", "list_stop"})
    /\ state[Op(t).p] = "STOPPED"
    /\ Proceed(t)
    /\ missed' = missed \ {t}
    /\ UNCHANGED <<state, sink, queue, output, task, list, mutex, calls>>

\* tuya_ai_player_start of a memory stream: PLAYING is seen, or 10 s have passed
StartReturns(t) ==
    /\ At(t, "wait", {"start"})
    /\ Done(t)
    /\ UNCHANGED <<state, sink, queue, output, task, list, mutex, calls, missed>>

\* Mutant: playlist_clear keeps the index
ListBodyKeepsIndex(t) == LET p == Op(t).p IN
    /\ At(t, "body", {"clear", "list_stop"})
    /\ playing' = [playing EXCEPT ![p] = FALSE]
    /\ count' = [count EXCEPT ![p] = IF Op(t).op = "clear" THEN 0 ELSE @]
    /\ mutex' = [mutex EXCEPT ![p] = None]
    /\ Done(t)
    /\ UNCHANGED <<state, sink, queue, output, task, index, calls, missed>>

\* playlist_clear, playlist_stop: what they do to the list, and unlock
ListBody(t) == LET p == Op(t).p IN
    /\ At(t, "body", {"clear", "list_stop"})
    /\ playing' = [playing EXCEPT ![p] = FALSE]
    /\ count' = [count EXCEPT ![p] = IF Op(t).op = "clear" THEN 0 ELSE @]
    /\ index' = [index EXCEPT ![p] = IF Op(t).op = "clear" THEN 0 ELSE @]
    /\ mutex' = [mutex EXCEPT ![p] = None]
    /\ Done(t)
    /\ UNCHANGED <<state, sink, queue, output, task, calls, missed>>

\* tuya_ai_playlist_add: look at the capacity
AddCheck(t) ==
    /\ At(t, "op", {"add"})
    /\ IF count[Op(t).p] < Capacity[Op(t).p] THEN Goto(t, "append") ELSE Done(t)
    /\ UNCHANGED <<state, sink, queue, output, task, list, mutex, calls, missed>>

\* tuya_ai_playlist_add: the part under the mutex
AddAppend(t) ==
    /\ At(t, "append", {"add"})
    /\ mutex[Op(t).p] = None
    /\ count' = [count EXCEPT ![Op(t).p] = @ + 1]
    /\ Goto(t, "auto")
    /\ UNCHANGED <<state, sink, queue, output, task, index, playing, mutex, calls, missed>>

\* tuya_ai_playlist_add: auto_play, for what is now the only item
AddAuto(t) == LET p == Op(t).p IN
    /\ At(t, "auto", {"add"})
    /\ \/ count[p] # 1 /\ Done(t)
       \/ count[p] = 1 /\ Accepts("start", state[p]) /\ Goto(t, "post")
       \/ count[p] = 1 /\ ~Accepts("start", state[p]) /\ Goto(t, "mark")
    /\ UNCHANGED <<state, sink, queue, output, task, list, mutex, calls, missed>>

\* tuya_ai_playlist_add: playing = TRUE, whatever the start returned
AddMark(t) ==
    /\ At(t, "mark", {"add"})
    /\ playing' = [playing EXCEPT ![Op(t).p] = TRUE]
    /\ Done(t)
    /\ UNCHANGED <<state, sink, queue, output, task, count, index, mutex, calls, missed>>

Step(t) ==
    \/ FeedEof(t) \/ Test(t) \/ ListLock(t) \/ Post(t) \/ StopSeen(t)
    \/ StartReturns(t) \/ ListBody(t) \/ AddCheck(t) \/ AddAppend(t) \/ AddAuto(t) \/ AddMark(t)

-----------------------------------------------------------------------------
(* The player task. *)

\* The player that is heard, or mixed with the one in the background
Audible(s) ==
    IF s["FG"] = "PLAYING" THEN "FG" ELSE IF s["BG"] = "PLAYING" THEN "BG" ELSE None

\* Mutant: the background player is forgotten when the foreground has stopped
SwitchForgets(s) ==
    /\ active' = IF s["FG"] = "PLAYING" THEN "FG" ELSE IF active = None THEN Audible(s) ELSE None
    /\ speaker' = (IF active' # None THEN speaker \/ active = None ELSE speaker /\ active = None)

\* __switch_player_mode
Switch(s) ==
    /\ active' = Audible(s)
    /\ speaker' = (IF active' # None THEN speaker \/ active = None ELSE speaker /\ active = None)

\* Threads that look for the state STOPPED of player p
Waiting(p) == {t \in Threads : At(t, "wait", {"stop", "clear", "list_stop"}) /\ Op(t).p = p}

\* Mutant: __cmd_player_stop sets the state only after the callback
CmdStopLate(p, next) ==
    /\ state' = IF mutex[p] = None THEN [state EXCEPT ![p] = "STOPPED"] ELSE state
    /\ at' = "callback"
    /\ stopped' = p
    /\ then' = next
    /\ UNCHANGED missed

\* __cmd_player_stop, up to the callback
CmdStop(p, next) ==
    /\ state' = [state EXCEPT ![p] = "STOPPED"]
    /\ at' = "callback"
    /\ stopped' = p
    /\ then' = next
    /\ UNCHANGED missed

\* A command sets the state of player p to s: it overtakes those who wait for STOPPED
CmdSet(p, s) ==
    /\ state' = [state EXCEPT ![p] = s]
    /\ missed' = IF state[p] = "STOPPED" THEN missed \cup Waiting(p) ELSE missed
    /\ Switch([state EXCEPT ![p] = s])
    /\ UNCHANGED task

\* tal_queue_fetch gives a START that succeeds; a START is executed in any state
FetchStart ==
    /\ at = "fetch" /\ queue # <<>> /\ Head(queue).cmd = "START"
    /\ LET m == Head(queue) IN
        /\ src' = [src EXCEPT ![m.p] = m.src]
        /\ eof' = [eof EXCEPT ![m.p] = FALSE]
        /\ CmdSet(m.p, "PLAYING")
    /\ queue' = Tail(queue)
    /\ UNCHANGED <<list, mutex, thread, calls>>

\* tal_queue_fetch gives a STOP, or a START whose data sink or decoder fails
FetchStop ==
    /\ at = "fetch" /\ queue # <<>> /\ Head(queue).cmd \in {"START", "STOP"}
    /\ CmdStop(Head(queue).p, "fetch")
    /\ queue' = Tail(queue)
    /\ UNCHANGED <<sink, output, list, mutex, thread, calls>>

\* tal_queue_fetch gives a PAUSE or RESUME, also executed in any state
FetchPause ==
    /\ at = "fetch" /\ queue # <<>> /\ Head(queue).cmd \in {"PAUSE", "RESUME"}
    /\ CmdSet(Head(queue).p, IF Head(queue).cmd = "PAUSE" THEN "PAUSED" ELSE "PLAYING")
    /\ queue' = Tail(queue)
    /\ UNCHANGED <<sink, list, mutex, thread, calls>>

\* tal_queue_fetch gives nothing: __handle_player_streaming, of both players if they mix
Stream ==
    /\ at = "fetch" /\ queue = <<>> /\ active # None
    /\ at' = IF active = "FG" /\ state["BG"] = "PLAYING" THEN "mix" ELSE "play"
    /\ UNCHANGED <<state, sink, queue, output, stopped, then, list, mutex, thread, calls, missed>>

\* A url or file can end or fail at any time, a stream in memory ends after its eof
CanEnd(p) == src[p] = "url" \/ eof[p]

\* __handle_player_streaming_source of the background player in the mix
StreamMix ==
    /\ at = "mix"
    /\ \/ CanEnd("BG") /\ CmdStop("BG", "play")
       \/ at' = "play" /\ UNCHANGED <<state, stopped, then, missed>>
    /\ UNCHANGED <<sink, queue, output, list, mutex, thread, calls>>

\* __handle_player_streaming_source of the active player
StreamActive ==
    /\ at = "play"
    /\ \/ CanEnd(active) /\ CmdStop(active, "fetch")
       \/ at' = "fetch" /\ UNCHANGED <<state, stopped, then, missed>>
    /\ UNCHANGED <<sink, queue, output, list, mutex, thread, calls>>

\* Mutant: the callback does not take the mutex
CallbackUnlocked == LET p == stopped IN
    /\ at = "callback"
    /\ IF index[p] + 1 >= count[p]
       THEN /\ index' = [index EXCEPT ![p] = 0]
            /\ playing' = [playing EXCEPT ![p] = FALSE]
            /\ UNCHANGED queue
       ELSE /\ index' = [index EXCEPT ![p] = @ + 1]
            /\ queue' = IF HasRoom THEN Append(queue, Message(Add(p))) ELSE queue
            /\ UNCHANGED playing
    /\ Switch(state)
    /\ at' = then
    /\ UNCHANGED <<state, sink, stopped, then, count, mutex, thread, calls, missed>>

\* __player_status_cb under the playlist's mutex: the next item is started, if there is
\* one and room in the queue.  Then the STOPPED event and __switch_player_mode.  (The event
\* also resets __s_tts_play_flag, which only decides whether data is fed.)
Callback == LET p == stopped IN
    /\ at = "callback"
    /\ mutex[p] = None
    /\ IF index[p] + 1 >= count[p]
       THEN /\ index' = [index EXCEPT ![p] = 0]
            /\ playing' = [playing EXCEPT ![p] = FALSE]
            /\ UNCHANGED queue
       ELSE /\ index' = [index EXCEPT ![p] = @ + 1]
            /\ queue' = IF HasRoom THEN Append(queue, Message(Add(p))) ELSE queue
            /\ UNCHANGED playing
    /\ Switch(state)
    /\ at' = then
    /\ UNCHANGED <<state, sink, stopped, then, count, mutex, thread, calls, missed>>

Task ==
    \/ FetchStart \/ FetchStop \/ FetchPause \/ Stream \/ StreamMix \/ StreamActive \/ Callback

Next == Task \/ \E t \in Threads : Step(t) \/ Begin(t)

\* Threads are scheduled, and a mutex that stays free is obtained
Fairness == WF_vars(Task) /\ \A t \in Threads : WF_vars(Step(t))

Spec == Init /\ [][Next]_vars /\ Fairness

-----------------------------------------------------------------------------
(* Properties. *)

States == {"STOPPED", "PLAYING", "PAUSED"}
Sources == {"none", "url", "tone", "tts"}
Messages == [p : Players, cmd : {"START", "STOP", "PAUSE", "RESUME"}, src : Sources]
Ops == [op : {"clear", "list_stop", "add", "stop", "start", "eof", "pause", "resume"},
        p : Players, src : Sources]

TypeOK ==
    /\ state \in [Players -> States]
    /\ src \in [Players -> Sources]
    /\ eof \in [Players -> BOOLEAN]
    /\ queue \in Seq(Messages) /\ Len(queue) <= QueueMax
    /\ active \in Players \cup {None}
    /\ speaker \in BOOLEAN
    /\ at \in {"fetch", "mix", "play", "callback"}
    /\ stopped \in Players \cup {None}
    /\ then \in {"fetch", "play"}
    /\ count \in [Players -> Nat]
    /\ index \in [Players -> Nat]
    /\ playing \in [Players -> BOOLEAN]
    /\ mutex \in [Players -> Threads \cup {None}]
    /\ prog \in [Threads -> Seq(Ops)]
    /\ pc \in [Threads -> {"op", "post", "wait", "body", "append", "auto", "mark"}]
    /\ calls \in 0..MaxCalls
    /\ missed \subseteq Threads

\* Between two commands the loudspeaker runs exactly while a player plays, and the active
\* player is the one that should be heard.
SpeakerFollows == at = "fetch" =>
    active = Audible(state) /\ speaker = (active # None)

\* Whoever looks for STOPPED has a STOP in the queue or sees STOPPED, unless a later START
\* has already replaced it.
WaitCovered == \A p \in Players : \A t \in Waiting(p) \ missed :
    state[p] = "STOPPED" \/ \E i \in 1..Len(queue) : queue[i].p = p /\ queue[i].cmd = "STOP"

\* A stop made with the playlist's mutex never misses the STOPPED state: until it has seen
\* it, the callback keeps the task from the next START.
ListStopNotMissed == \A p \in Players : mutex[p] # None => mutex[p] \notin missed

\* The index of a playlist is that of one of its items, or 0.
IndexInList == \A p \in Players : index[p] < count[p] \/ index[p] = 0

\* Every clear and stop of a playlist returns, whatever the task and the other threads do.
ListStopReturns == \A t \in Threads : At(t, "post", {"clear", "list_stop"}) ~> pc[t] = "op"
=============================================================================
