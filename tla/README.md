# A TLA+ model of the Wukong AI toy firmware

This project models the core of the firmware under `src/apps`: which mode the toy is in
and what it remembers of it, the conversation state machines of the modes, the audio
players, the music playlist with its worker and its requests to the cloud, the cron service
and the alarms on top of it. TLC checks the models on small instances; TLAPS proves the
central invariants for every value of their constants.

All paths below are relative to `src/apps/src` unless they start with `src/`.

## 1. The system

The firmware is C on an RTOS, with no process isolation and almost no locks. Its own
logic is `mode/`, `tuya_ai_toy.c`, `wukong/` and the player in `miscs/audio_player`; the
rest of `miscs/`, `boards/`, `drivers/` and `view/` are mostly peripherals, vendored
libraries and screens.

| Component | State it keeps | Operations | What makes it hard | What makes it correct |
|---|---|---|---|---|
| Mode manager (`mode/wukong_ai_mode.c`) | device mode, chat sub-mode, active entry; the copy in `cfg`; a byte in the key-value store | device and sub-mode switch, cycle, init, dispatch | switches from four threads without a lock; power loss and failed writes; another image after OTA | the three fields agree when switches do not overlap, only enabled modes run, the stored byte names a mode to come back to |
| Chat modes (`mode/wukong_ai_mode_{hold,oneshot,wakeup,free}.c`, `_translate.c`) | `state`, `s_ai_cur_state`, `wakeup_stat`; recorder flags; timers | handlers for events, keys, wake words, voice; entry callbacks run by a 20 ms poll | handlers only set `state`; a state replaced between polls is never entered; late cloud answers | idle is quiet, listening records, the microphone opens only on demand, every conversation ends |
| Toy core (`tuya_ai_toy.c`) | `cfg`, timers, `lp_stat` | start, stop, keys, timers, cloud events | sleep keeps part of the state, wake-up initialises again | a sleep and wake-up is invisible to the modes |
| Audio input (`wukong/audio/input`) | wake-up and voice flags, ring buffer, record task | set, reset, stop | the record task reads flags that handlers write | input starts and stops in pairs |
| Audio player (`miscs/audio_player`, `wukong/audio/wukong_audio_player.c`) | state of a foreground and a background player, playlists with index and playing flag, command queue of two | start, feed, stop, pause, resume; list add, stop, clear | callers poll for a state the player task sets; the task needs the mutex a caller holds; commands are dropped when the queue is full | the loudspeaker follows the players, nobody waits for a dropped command, the index names an item |
| Requests of the playback control (`wukong/audio/wukong_playback_ctrl.c`) | table of pending requests with result and semaphore | ask the cloud and wait; dispatch an answer | answers late, lost, repeated; timeout racing the answer | a call returns with nothing or with an answer to what it asked; no slot is lost |
| Playlist of the playback control (same file, `boards/T5AI_BOARD_DESKTOP/ui/desk_func_music.c`) | list, current id, flags for the worker, search context, file | add, play, next, prev, remove, clear, fetch more, automatic next, load, save | unlocked between find, fetch, play and mark; UI, MCP, skills, worker and player events at once | ids are unique, no request is lost, the current id names what plays, the file holds the list |
| Provider and channel (`wukong/provider`, `wukong/channel`) | provider table, current provider, agent loop | register, switch, upload, abort | abort racing a late answer | answers reach the conversation that asked |
| Cron (`wukong/cron`) | 16 job slots, one timer, `time_ready` | add, update, remove, time-ready, timer callback, init, deinit | no lock, although a function is called `_locked`; sleeps wipe the table | the timer is armed for the first job that waits |
| Alarms (`wukong/tm/wukong_tm_alarm.c`) | table of eight alarms with their cron job ids and round numbers; copy in the key-value store | add, update, remove, enable, disable, list, acknowledge, fire, timeout, snooze, start, stop | a job is handed to the work queue and its alarm changes before it is handled; cron, store or queue refuse; the clock is set late | every job that was added belongs to an alarm, nothing is forgotten unless something was refused, a round that is over stays over |
| Other time management (`wukong/tm`) | countdown, pomodoro, reminders, stopwatch | start, pause, stop, fire | as the alarms | each fires once |
| MCP server and tools (`wukong/mcp`) | tables of tools, prompts and resources | register, dispatch | calls in flight while the server stops | each request is answered once |
| Picture, record, P2P, detection modes | camera, call and recording state | open, close | transient modes must not be stored | closing returns to the mode before |
| Skills, video, utility, assets, drivers, boards, view, other `miscs` | none of their own that takes part in the conversation | – | – | not modelled |

Components meet in three ways. The mode manager dispatches every operation to the
handlers of the active mode. Handlers write `state`, which the toy task polls. The
recorder, player, timers and agent publish events, which the toy core forwards to the
active mode on the publisher's thread.

`PROJECT.json` lists every component, and under `hazards` the places where tests would
hardly reach a mistake.

## 2. Modules

| Module | Models |
|---|---|
| `ModeManager` | both switch functions, boot, sleep, factory reset, upgrade and power loss |
| `ChatMode` | the five conversation state machines with recorder, timers, player and agent |
| `Cron` | the job table and its timer |
| `AiPlayer` | the calls of `wukong_audio_player.c` as programs of several threads, command queue, player task, two playlists |
| `Mailbox` | abstract: a call asks, an answer somebody asked for arrives and goes into the box of one caller of its action or is dropped, the call returns with what is in its box or with nothing; only an answer that the network repeats can reach a second caller |
| `Pending` | the request table with mutex and semaphores; implements `Mailbox` |
| `Playback` | playlist, current song, worker, automatic next, search pages, file |
| `Alarm` | alarm table, store, cron jobs, work queue, rounds of ringing and snoozing |
| `MC...` | sets of images, modes, jobs, calls, files and ids for TLC |
| `...Proofs` | the theorems about a module (none for `Mailbox`) |

The modules meet where one component's calls are another's input. `Pending` stands for the
requests that `Playback` makes in its `Fetched`, `FetchFails`, `Page` and `NoPage` steps: what
`Pending` promises (a call returns, with an answer or without) is what `Playback` assumes.
`AiPlayer` shows the player that `Playback` and `ChatMode` see as a flag and an event. `Alarm`
uses the jobs of `Cron`: a job that waits fires while the timer is armed, once if it is for one
date, an add may fail with or without the job in the table, and a time sync may move it.

A definition whose comment starts with "Mutant" is a plausible mistake in the one that
follows it. No specification uses it; it shows that a property notices the mistake.

### ModeManager

`device_mode`, `chat_sub_mode` and `active` are the fields of `s_mode_mgr`; `cfg_dev` and
`cfg_sub` those of `s_ai_toy->cfg`; `kv` is the stored byte. A switch is the sequence
`Check`, `Deinit`, `DelSession`, `SetDev`, `SetSub`, `SetActive`, `SetCfg`, `Save`,
`InitMode` of the calling thread: one step per store that another thread can see. The
inputs are `DoublePress`, `RequestDevice` (P2P and screens) and `McpSetMode`, which asks for a
sub-mode in whatever device mode the toy is (`mcp_tool_control.c:168`).

`wukong_ai_mode_init` runs at every boot and wake-up, while keys and events are already
subscribed. It is three steps: `ClearManager` (the memset, in `Boot` and `ExitLowPower`),
`PickMode` and `StartMode` (INIT). Switches and events may come before, between and after
them; where the manager is cleared an event finds no entry and is dropped (`OpenSession` needs
one). `Written` lets a write fail, `PowerLoss` strikes between any two steps, and `Boot` reads
back what is left, perhaps with another image (`Upgrade`).

The code has no lock and promises nothing to overlapping callers, so the model assumes no
contract. What such callers can break is remembered instead: `astray` is set when a switch
starts while another thread is in one or in `wukong_ai_mode_init`, and by a sub-mode switch
outside CHAT; it ends with the next wake-up or the next device mode switch that passes its
checks alone, since these write every field again. `leaky` is set by the same events, by a
handler that runs inside a switch and by a wake-up into another mode than the one that slept;
it ends with the power.

### ChatMode

One machine at a time is active. A handler only sets `state`; `PollEnter` runs the entry
callback, `PollCommit` is the second read that sets `cur_state` (`wukong_ai_mode_hold.c:348`).
Handlers of other threads, mode switches and sleeps may run between any two polls and between
the two steps of a poll. Data is left out: texts, emotions, LEDs and display messages. The
player is its playing flag, a stream that has been announced and a STOPPED event on its way.
A timer that has run out (`expired`) can no longer be stopped.

`lost` is a history: since the last entry callback a move to IDLE was replaced before a poll
saw it, or the copy took a state whose callback had not run. These are the two ways in which
the polling misses a change, and two of the violation runs show what they do.

### Cron

A call takes the steps `AddAuto`, `AddNamed`, `Update` or `Remove` (choose the slot), `Apply`
(overwrite it), `Test` (`used`, `enabled`, `time_ready`; the time is cleared), `Store` or `Fail`
(the search ends), `Stop`, `Scan`, `Arm` (`__cron_reschedule_locked`). The time-ready
notification and the timer callback (`TimerFires`) do `Test` and `Store` slot by slot. Each step
may be overtaken by those of other threads and by a sleep (`Deinit`, `InitAgain`), which wipes
the table under a call. The search reads the expression of the slot, of the job before or after
a change. Time advances by seconds while nobody is in a call and no expired timer waits, so a
call takes less than a second. An expression is its period; period 0 is a date that never comes
(30 February), for which `wukong_cron_expr_next_fire` fails. `Wrap` stands for 2^32 ms.
`tal_sw_timer_start` succeeds here; in `Alarm` it may fail. `raced`, `overlap`, `stalled` and
`torn` are history variables: calls that overlapped, a reschedule that was not alone, a
notification that gave up, and slots that changed between the test and the store of their time.

### AiPlayer

A call of `wukong_audio_player.c` is a program, a list of the operations it makes
(`Program`); an operation is as many steps as it has places where others may run: the test
of the state, the mutex of the playlist, the message to the queue, the wait. `Task` is the
player task: it fetches a command, executes it, or moves a stream on, and calls
`__player_status_cb` (`Callback`), for which it needs the mutex. `StopSeen` is one look of
the loop in `tuya_ai_player_stop`: between two looks any number of things may happen. The
loudspeaker and the active player are set in `Switch`. Sinks, decoders and mixer are a
source that ends.

### Mailbox and Pending

`Pending` has one slot per `PLAYBACK_PENDING_MAX` with its action, result and semaphore.
`Call` allocates, `Send` or `SendFails`, then `Wake` or `TimeOut`, `Take` (under the mutex)
and `Finish`; `Dispatch` stores an answer for the first waiting slot with its action and
`Post` posts afterwards. The network keeps a set of the answers to what was sent, which it may
deliver late, twice or never. `disturbed` is a history: the actions for which an answer was late, came twice or had two
callers. A slot is matched by action, not by request, so `OwnAnswer` holds for the others.

`ImplementsMailbox` maps `asked` to the caller's query, `mail` to the answers the network may
still bring and `box` to the result of the slot the caller holds, or to what it has taken out of
it. In `Mailbox` an arrival fills at most one box and uses the answer up, unless the network
brings it again. A token that another call left in the semaphore
makes a call return early with nothing, which `Mailbox` allows; a result that went to a
caller who has left is dropped, which is a stutter.

### Playback

Each thread has its own copy of the locals of a call. `Find` looks up the song under the
lock, `Fetched` writes the URL through the pointer found before, `SetSwitching`,
`Music`, `Name`, `Mark` follow one by one without it; `Snap` and `Write` copy and save the
list. The worker is `Wake`, `Take`, `Decide`; `Pend`, `PlayAsync` and `Post` are what other
threads ask of it.

The player is its state, the STARTs in its queue (`starts`), the event it is delivering and the
songs after the first in its own list (`rest`). `Silence` is `tuya_ai_player_stop`: in STOPPED it
returns at once, also if a START is queued. `Music` hands over one song; `Refused` is a full
queue, `MusicFails` no memory. `Push` is the cloud's: MUSIC_PLAYER_DATA names the last song, then
the first of one or of `Several` is played, or none if the action is not one that plays
(`Unplayed`); a song without a name is played and not added (`Nameless`). `TaskStart`, `SongEnds`,
`OnPlaying`, `OnStopped` are the player and its events. `Reboot` is a power cut at any point,
followed by `Load`. `lost` and `torn` are histories that name the cases in which the current id
or the file need not follow.

### Alarm

The handlers, and the MCP tools that make the calls (`mcp_server_tools.c:436`), run on
WORKQ_SYSTEM one after the other, so each is one step; what interleaves is the hand-over.
`JobFires` is the timer callback of cron for one job: the request goes to the work queue or is
lost, and the job is gone unless it repeats. `Fire`, `TimeoutSnoozes`, `TimeoutFinishes`,
`SnoozeFires` and `TooLate` handle the first request. Removing a job does not take back its
request; `ring_seq` is what tells a late request from a current one. `StoreLoad` is one turn of
the loading loop.

An add of a job succeeds (`Taken`), is refused with the table as it was (`Leaves`), or returns
the error of the timer with the job in the table (`LeftBehind`; `wukong_cron.c:571` and `:585`).
In the last case the alarm forgets the id and the job is an orphan: `known` is FALSE. Only
`__alarm_snooze_timeout_rpc_handler` keeps the id of such a job. `armed` says whether the timer
was started by whoever rescheduled last; a job fires only then.

A repeated date may come at any time; a single date comes when the clock reaches it and never
(for a year) if cron computed it too late. `TimeSync` may happen at any time and any number of
times: every EVENT_TIME_SYNC computes all jobs again (`wukong_tm.c:74`, `wukong_cron.c:763`), so
single dates that have passed, and any timeout or snooze that is due in that second or was jumped
over, wait for a year. The clock is not set back. `RoundsAreShort` says that a date does not come
while a round of the same alarm is still going on: by default a ring lasts 30 s, a snooze 300 s
and there are three, while dates are a day apart; a timeout or snooze that waits for a year is
not waited for. `unscheduled`, `untimed` and `unsaved` remember what cron, the queue, the store
or a time sync took away, `over` the alarms whose round has ended.

## 3. Runs

| Run | Shows | Bounds |
|---|---|---|
| `ModeContract` | manager, `cfg` and stored byte agree unless astray (`Coherent`), the active mode is initialised and, unless something leaked, the only one, with no other session open (`OneModeOpen`), a boot that no request interrupts succeeds and lands in a durable mode, a running switch to CHAT is never refused | one thread with any request at any time, two images that differ in sub-modes, low power, failing writes, power loss |
| `ModeRaces` | the active entry is enabled except while the manager is cleared, no transient mode is stored, the next lone device mode switch makes the fields agree again | two threads, an image without HOLD, low power |
| `ChatAll` | an open microphone of an automatic mode has a timeout, a settled LISTEN records, unless a change was lost | five modes, 4 events, low power |
| `ChatHold` | in HOLD the microphone needs a long press | 6 events, an image without low power (the theorem covers both) |
| `ChatRelease` (violation) | a release before the poll is ignored, the microphone stays open | HOLD, 3 events |
| `ChatIdle` (violation) | the idle timeout is taken back before a poll sees it, the microphone stays open without a timer | FREE, 3 events |
| `ChatPoll` (violation) | a key inside a poll: LISTEN with the recorder asleep | ONESHOT, 3 events |
| `CronRaces` | the time in a slot is that of its job (`TimesBelong`), the table stays intact (`TableIntact`), a waiting job has the timer running and in time | two callers and the timer thread, two slots, two periods and a date that never comes, 3 calls or sleeps, 6 s |
| `PlayerApp` | loudspeaker follows the players, no stop waits for a dropped command, a stop with the mutex held sees STOPPED and returns, the index is in the list | the agent's and the application's thread with every call they make, queue of two, two playlists, 3 calls |
| `PendingAll` | slots are owned, no wake-up is lost, calls get their own answers and return, the table implements `Mailbox` | two callers, three queries of two actions, two slots |
| `PlaybackAll` | types and unique ids, no lost request, the current id names what plays, the file follows the list, requests are taken | UI and MCP thread, worker, player task; two songs of which one has no URL; a list of two; 2 inputs, power cuts and failures |
| `AlarmAll` | no job forgotten but an orphan, nothing else forgotten, a round that is over stays over, an unanswered alarm falls silent | two alarms, one repetition, a work queue of two, 2 calls, sleeps or power losses, 3 dates |

Why the bounds are enough. A switch has nine steps and touches its own locals and the
shared fields, so two threads show every pair of conflicting stores; a third thread adds
no new kind of conflict. Four events are a conversation with one late event, six a second key
press; cloud answers, ends of playback, timers and polls are not counted. Three cron calls are the
time becoming ready and two jobs, or a job and a change or a sleep; two slots are the least that can be full with
different jobs, and a period of three seconds against a timer that counts to two makes
the delay wrap. The application has two threads that call the player, and a queue of two is
the code's own. Three queries on two slots are a request that times out, a second of the
same action that gets its late answer, and one of another action for which the table is
full. A playlist of two is the least that evicts one song and keeps another; two inputs of
each thread overlap every pair of operations. For an alarm, two inputs are a call that sets it and
one, or a sleep or a power loss, before, between the hand-over and the handler, or after it; dates
are counted apart, three of them on two alarms; one repetition shows a second round and its end.
Deadlock is checked in `ModeContract`, `ModeRaces` and `PendingAll`; elsewhere the bound on events
ends every behaviour.

Fairness is weak fairness of what the code or its environment always does in the end.
- `PlayerApp`: the player task and the threads are scheduled, and a mutex that is free is
  obtained. No song has to end.
- `PendingAll`: the wait on a semaphore is bounded and threads are scheduled. No answer has
  to arrive.
- `PlaybackAll`: the worker, the player task and a thread inside a call go on, a request to
  the cloud ends (`CallsReturn` of `Pending`). No call, song end or power cut has to happen.
- `AlarmAll`: the work queue runs, a timeout or snooze fires while the timer is armed for it, a
  start goes on. No date has to come and nobody has to answer; `FallsSilent` claims nothing where
  a time sync moved the timeout or the timer could not be armed.

The properties of the modes and of cron are safety properties and assume no fairness.

## 4. Theorems

Every safety property that a passing run checks is also a theorem, for any number of threads,
images, slots, jobs, songs, alarms and events. The assumptions are the named `ASSUME`s of the
modules, which TLC evaluates in every run, and where a theorem has an `ASSUME ... PROVE` of its
own, the hypotheses named below. Each rests on an inductive invariant that says more than the
property; TLC checked these invariants on the instances of the runs before they were proved.

**ModeManager.** `TypeCorrect`, `DispatchHasMode` (`ActiveEnabled`) and `NoTransientStored`
(`KvNeverTransient`) follow from `SafeInv`. `ActiveEnabled` is not inductive: `SetActive` stores
a local `target` computed steps earlier, so `SwitchChecked` adds that a thread past `Check` has
an enabled target, `OffQuiet` that no such thread survives a power loss into another image, and
`Starting` what the manager holds at each step of `wukong_ai_mode_init`. It says nothing of the
time in which that function has cleared the manager: there is no entry then. `KvNeverTransient`
needs `SaveDurable`: the byte a thread is about to write is durable already.
- `ModesAgree` (`Coherent`) has no hypothesis. `AgreementInv` says of the times that are not
  `astray` that at most one thread is in a switch (`Alone`), that what it has written so far is
  what it was asked for (`RequestKept`) and which of the copies may differ at which step
  (`AgreeInv`), and of all times when the stored byte may differ from `cfg` (`KvInv`).
- `OneModeIsOpen` (`OneModeOpen`) has none either. `LeakInv` says that the active mode is
  initialised (`ActiveInited`) and, unless `leaky`, what is initialised and open at each step of
  a switch, a boot and a wake-up (`OpenInv`).
- `BootsLandInDurableMode` (`RebootLandsInDurableMode`, an action property) assumes `SameDevs`,
  that images enable the same device modes: a mode that is missing in the next image makes the
  start fail (section 5). `KnownInv` follows a device mode from the request through the locals of
  every thread to the stored byte, `BootInv` through the start.
- `ChatSwitchesPass` (`ChatSwitchNeverRefused`, an action property) assumes `HoldBuilt`, that
  every image has HOLD, which is what sub-mode 0 means. `SubsInv`: the manager's sub-mode, and
  the one of each switch in flight, is in the image.

**ChatMode.** All theorems let handlers, switches and sleeps run between polls and inside one.
`TypeCorrect`: that only HOLD is in UPLOAD is the part that an event could break
(`DispatchType`). `MicHasTimeout` (`MicTimesOutUnlessLost`) and `ListenDoesRecord`
(`ListenRecordsUnlessLost`) hold for any set of modes, from `PollInv`, what a poll that is half
done has seen, and `EnteredInv`: until a change is lost, recorder and idle timer are as the last
entry callback, and the handlers since, left them. Neither property is inductive without the
other states' share of it. `HoldMicNeedsKey` assumes an image with HOLD only; `TriggerInv`
follows a LISTEN that has been set and not yet entered back to the key.

**Cron.** `TypeCorrect`. `TimesBelongToJobs` (`TimesBelong`): test, search and store are steps of
their own, so it rests on `SeenInv`, that a thread about to store has tested a live job, and
excepts the slots that changed in between. `WaitingJobsArmTheTimer` (`WaitingJobArmsTimer`):
without a lock and with any number of threads, once all have returned and a job waits, the timer
runs. `ArmedOrRescheduling` says the timer runs or some thread has still to arm it, `LocalsInv`
that a thread which has found a time does not return before arming it.
- `TableStaysIntact` (`TableIntact`) assumes `NamesApart`, that no caller chooses an id of the
  generated form. `NumbersBounded` bounds the counter of generated ids; `IntactInv` says, as long
  as no two calls have overlapped, that every id in the table was given out and that the slot a
  call is about to write is free or holds the job it replaces.
- `TimerCoversTheJobs` (`TimerCoversJobs`): `CoverInv` says, from a reschedule that was alone on,
  that the nearest time a thread has found is not later than any job; `DelayIsShort` that
  reducing the delay modulo 2^32 can only make the timer fire earlier.

**AiPlayer.** `TypeCorrect`; `SpeakerCorrect`; `IndexCorrect`; `ListStopsAreSeen`;
`WaitersAreCovered` (`WaitCovered`). The loudspeaker invariant is about the moments between two
commands, so the induction follows the player task through its own steps as well.
`ListStopsAreSeen` rests on the mutex: a thread that waits for STOPPED with the mutex held
excludes the callback that could start the next song. `WaitersAreCovered` does without the
mutex; its lemmas say that posting and fetching commands keep the STOP of every other waiter in
the queue.

**Pending.** `TypeCorrect`, `SlotsAreOwned`, `WakeupsKept`, `AnswersReachTheirCall`, and
the refinement `TableImplementsMailbox`: initial states map to initial states and every
step to a step of `Mailbox` or a stutter. What it says: a call returns with
nothing, or with an answer to its action that somebody asked for and that arrived during the
call; each arrival goes to one caller. It needs `SlotsOwned` (two calls never share a slot,
so storing an answer fills exactly one box) and the type invariant. `AnswersReachTheirCall`
strengthens `OwnAnswer` by what is still on its way: a stored result, and the answers that
the network may yet deliver to the action.

**Playback.** `RequestsAreCovered` (`NoLostRequest`) with any number of threads, from
`Covered`, which adds to it only that every thread has a place in its program (`PcOK`): a flag
is set before the worker is woken, and the worker takes the wake-up before it reads the flag.
The other three rest on lemmas about lists of any length. `StoredAssumption` says of the file at
the first start that it is empty or one this program wrote: it fits and has no id twice.
- `NewIdIsNew` counts: a list shorter than `PlaylistMax` leaves an id free. `RemovedFits`,
  `EvictFits` and `AddedFits` say what removal, eviction and addition keep. `LoadFits` says what
  loading a file gives, by induction over its items (`SetInduction`, which takes a set where
  the library's theorem takes an operator): the list fits, and has all the songs of the file if
  no item without a URL follows one with its audio id (`Visible`).
- `TypeCorrect` (`TypeOK`, with unique ids in every list, copy and file).
- `FileIsKept` (`FileFollows`) from `FileInv`: as long as nothing is torn there is at most one
  writer; unless another save is about to begin its copy has the songs of the list, and if there
  is no writer the file has them. The list stays `Visible`, without which loading could drop
  a song that was saved.
- `CurrentSongIsNamed` (`CurrentIsPlayed`) from `PlayInv`: with no thread between handing a song
  to the player and naming it, the current id names what plays; with one, that thread has the
  song that plays, or has named the one it is about to hand over. `RestLost` says that the player
  has songs left in its own list only after `lost`. `lost` is set where the code does not keep
  them together: two threads play at once, the song is evicted or overwritten, the player refuses
  or fails, or the cloud pushes several songs, a song without a name, or one its action does not
  play.

**Alarm.** `TypeCorrect`, and `OverStaysOver` (`OverIsOver`) from `OverInv`: that the alarm is
silent is not inductive, since a snooze in the work queue would ring it; that its round
number is 0 as well is, since `TypeOK` says that every timeout and snooze carries a positive
one. `wukong_tm_alarm_update` clears the round and keeps the number, so it is not among the
ways a round ends. `JobsAreOwned` (`JobsOwned`) and `NothingIsForgotten` (`NothingForgotten`)
follow from `AlarmInv`: an id in a field of an alarm is the id of its own job of that kind
(`OwnInv`), an alarm has at most one job or request of a round whose add succeeded (`SingleInv`),
a timeout or snooze is to come soon or waits for a year (`DueInv`), and slots that are not in use are blank,
before, while and after the table is loaded (`UnusedInv`); `OnIsScheduled`, `RingIsTimed` and
`KvFollows` are the three parts of the property. Jobs that an add left behind with an error are
orphans, and `JobsOwned` says nothing of them. It uses `RoundsAreShort`, as the model does.

Model-checked only: liveness (`ListStopReturns`, `CallsReturn`, `RequestTaken`, `FallsSilent`), which is out of the prover's reach.

## 5. What the models show about the code

The three violation runs are `findings` in `PROJECT.json`. Other behaviour met on the way,
each reachable in the model or read off the lines it translates:

Modes and conversation
- Two overlapping switches leave an active entry that `device_mode` and `chat_sub_mode` do
  not name.
- A device mode stored by one image and missing in the next makes every start fail.
- After a boot into TRANSLATE, `chat_sub_mode` is 0 whatever is stored; a switch to CHAT
  then runs HOLD, and in an image without HOLD it is refused.
- `wukong_ai_chat_sub_mode_switch` outside CHAT leaves `cfg.device_mode` behind.
- During a boot or a wake-up the manager is cleared while keys and events are already
  subscribed: an event finds no active entry and is dropped, and a switch that comes then is
  overwritten.
- A handler between `DelSession` and `SetActive` of another thread opens the session of the old
  mode again; nobody closes it. A wake-up into another mode than the one that slept (a sleep
  from P2P, for example) leaves the old one initialised.
- A key press inside a poll: LISTEN is displayed and the recorder sleeps (`ChatPoll`).
- After a wake-up from low power the low-power timer is off (comment at `tuya_ai_toy.c:814`).
- HOLD waits in UPLOAD without a timer: a lost answer keeps it there until the next key.
- In FREE a late `ASR_EMPTY` opens the microphone of an idle toy.
- A `PLAY_END` between the idle timeout and the next poll takes IDLE back unseen: the
  mode listens without an idle timer (`ChatIdle`).

Cron and alarms
- Two cron calls that overlap may choose the same slot; the first job is lost.
- An update that cannot be scheduled deletes the job it was to replace.
- A slot that changes between the test and the store of its time keeps the time of the job
  before; a removed job leaves a time in a free slot.
- A time sync in the second in which a job is due moves the job past that second.
- One impossible date ends `wukong_cron_time_ready_notify` for all later jobs
  (`wukong/cron/README.md:92` says the notification schedules them).
- `wukong_tm_alarm_update` and `wukong_tm_alarm_snooze_enable_set(FALSE)` keep `ring_seq`: a
  snooze already in the work queue rings after an update, and the next date starts with
  number 2 (README_ALARM.md, 3.2: the first ring has number 1).
- A query while an alarm for one date rings or snoozes disables it without a STOP or FINISH
  event, and the snooze never comes.
- The handler of a date does not look at `enabled`: a request handed over before a
  disable rings.
- `wukong_cron_job_add` returns the error of the timer with the job already in the table
  (`wukong_cron.c:571`, `:585`), and the alarm forgets the id. The orphan fires with the next
  timer and may ring an alarm that has been disabled.
- A time sync in the second of a timeout or snooze, or past it, puts it off to the next year: the
  ring has no end but the user. A request for which the work queue has no room is lost in the
  same way.
- `wukong_tm.h:420` says that enabling an alarm for a date that has passed returns an error; the
  code moves the date and enables it. README_ALARM.md says that an acknowledged alarm for one
  date is removed; the code disables it.
- If cron refuses the snooze, `is_ringing` stays set with no timeout.
- Loading compares `start_time < now`, the query `<=`: an alarm due in that very second, or
  loaded before the clock is set, gets a job a year later and stays enabled until a query.
- Disabled alarms that are added or updated occupy a cron slot; eight alarms may need 24 of
  16.

Player and playlist
- A stop that comes before a queued START sees STOPPED and returns; the song then plays.
- A bare `tuya_ai_player_stop` may miss STOPPED when another start follows at once, and then
  waits for the end of that song too.
- A START that is dropped leaves the playlist with `playing` set and nothing playing; the
  capacity test of `tuya_ai_playlist_add` is outside its mutex; a PAUSE or RESUME may be
  executed after the STOP that followed it.
- A late answer of a request that timed out is taken by the next request of the same action;
  a token left behind makes the next request on the slot return with nothing; a second
  answer overwrites the first.
- `wukong_playback_ctrl_next` is documented as non-blocking for UI callbacks
  (`wukong_playback_ctrl.c:1676`) and waits up to 12 s for a URL on the UI thread.
- A push of several songs makes the last one the current song while the first plays; an action
  that does not play makes its song current all the same; a song without a name is played and
  not added.
- A START whose caller gave up after 10 s stays in the queue and takes effect later. The
  callback of a song that has ended moves the index of a list that was cleared and filled
  again meanwhile. STOPPED of what played before resets `__s_tts_play_flag` of the TTS that has
  just been started (`wukong_audio_player.c`); the flag only feeds data and is not modelled.
- The STOPPED event of a song that the user, a mode switch or a pushed song stopped starts
  the next one; `switching` is one flag for all threads, cleared by whoever plays first and
  left set by a START that fails.
- After the unlocked fetch the URL is written through a pointer to an item that may be gone;
  eviction does not reset `s_current_play_id`, and the id is used again; a song removed
  while it starts comes back through MUSIC_PLAYER_DATA.
- Two saves may reach the file in the other order; opening the file empties it, so a power
  cut before the write loses the list.

## 6. Plan

Done: `ModeManager`, `ChatMode`, `Cron`, `AiPlayer`, `Pending` with `Mailbox`, `Playback`, `Alarm`.
Left, in this order:

1. The other timers of `wukong/tm` (countdown, pomodoro, reminders) over the same queue.
2. `CronExpr`: field parser and calendar search against the definition "the first second
   that matches", over bounded calendars.
3. `Provider`: table, agent loop and abort; answers after an abort.
4. `McpServer`, the picture, record, P2P and detection modes, the ring buffer of the
   recorder.
5. Proofs: the properties of these modules as they come; of the present ones only liveness is
   left.

## 7. What is not modelled

Signal processing, codecs, screens, drivers, board start-up, JSON and text handling, and
the cloud itself are outside: they are data, vendored code or I/O. The toolchain's data
races are modelled at the grain of one store to one shared field (ModeManager), one
handler (ChatMode, Alarm), one phase of a call (Cron, AiPlayer, Pending, Playback); reads
torn within a field or a slot are not. Of the modelled components, the following is left
out: a `tal_sw_timer_start` that fails in `Cron` (it may in `Alarm`); a clock that is set back; a
low-power deinit while an alarm handler runs; `__s_tts_play_flag`; playlist calls nobody makes (previous, next, restart, loop), deinit and volume of the
player; the lite player; plain control messages and the offset of a search in the playback
control; the events an alarm sends to the screen and the setters of its durations, which
have no callers. Most of the repository is not the program's own logic: fonts, LVGL, codecs
and board images make up nearly all its lines, so the share the map covers is small.

## 8. Running

`tlc -config AlarmAll.cfg MCAlarm` (each run's module and cfg are in
`PROJECT.json`) and `tlapm CronProofs.tla`.
