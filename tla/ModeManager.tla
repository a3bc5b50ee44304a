---------------------------- MODULE ModeManager ----------------------------
(***************************************************************************)
(* The two-level mode manager of the toy (mode/wukong_ai_mode.c) together  *)
(* with the part of tuya_ai_toy.c that remembers the mode in RAM (cfg) and *)
(* in the key-value store (one byte: device mode in the high nibble, chat  *)
(* sub-mode in the low one).                                               *)
(*                                                                         *)
(* The switch functions take no lock.  They are called from the key        *)
(* thread, the MCP thread, the UI thread and the P2P callback, so a switch *)
(* is a sequence of steps of the calling thread, one per shared store, and *)
(* the steps of different threads interleave.  wukong_ai_mode_init, which  *)
(* runs at boot and at every wake-up, takes no lock either: it clears the  *)
(* manager, picks a mode, and dispatches INIT, while events and keys,      *)
(* which are set up before it, already reach the manager.                  *)
(***************************************************************************)
EXTENDS Integers, FiniteSets

CONSTANTS
    Threads,              \* threads that call the mode manager
    Builds,               \* firmware images the device may run: which modes Kconfig enables
    LowPower,             \* ENABLE_LOW_POWER
    WriteMayFail          \* wd_common_write may report an error

CHAT == 0
TRANSLATE == 1
P2P == 2
RECORD == 3
PICTURE == 4
DETECTION == 5
Devs == 0..5                 \* AI_DEVICE_MODE_E
Subs == 0..3                 \* AI_CHAT_SUB_MODE_E: hold, oneshot, wakeup, free
HOLD == 0
InvalidSub == 4              \* any argument >= AI_CHAT_SUB_MAX
Transient == {P2P, RECORD}
Build == [subs : SUBSET Subs, devs : SUBSET (Devs \ {CHAT}), default : Subs]

ASSUME BuildsAssumption ==
    /\ Builds \subseteq Build
    /\ Builds # {}
    /\ \A b \in Builds : b.subs # {}
ASSUME FlagsAssumption ==
    /\ LowPower \in BOOLEAN
    /\ WriteMayFail \in BOOLEAN

VARIABLES
    build,          \* the running image
    power,          \* "off", "booting", "on", "sleep" (low power), "waking", "failed" (start gave up)
    start,          \* the next step of wukong_ai_mode_init: "pick", "init", or "none"
    device_mode,    \* s_mode_mgr.device_mode
    chat_sub_mode,  \* s_mode_mgr.chat_sub_mode
    active,         \* s_mode_mgr.active: an entry, or NoEntry
    cfg_dev,        \* s_ai_toy->cfg.device_mode
    cfg_sub,        \* s_ai_toy->cfg.trigger_mode
    kv,             \* the byte stored under "ai_dev_mode", or NoKv
    kvStale,        \* a write failed or was made while astray, and no good one was made since
    inited,         \* entries whose on_init ran and whose on_deinit has not
    sessions,       \* device modes whose agent session (scode) is open
    pc,             \* per thread: the next step of its switch
    op,             \* per thread: which switch runs, and its argument
    target,         \* per thread: the local variable target of the switch
    byte,           \* per thread: the packed byte __ai_toy_mode_save is to write
    astray,         \* history: a switch has overlapped another switch or wukong_ai_mode_init, or
                    \* was a sub-mode switch outside CHAT, with no lone device mode switch since
    leaky           \* history: since power-up something may have been left open, see Leak

mgr == <<device_mode, chat_sub_mode, active>>
cfg == <<cfg_dev, cfg_sub>>
store == <<kv, kvStale>>
env == <<build, power, start>>
locals == <<op, target, byte>>
hist == <<astray, leaky>>
vars == <<env, mgr, cfg, store, inited, sessions, pc, locals, hist>>

-----------------------------------------------------------------------------
(* Entries, packing and fallbacks. *)

Entry == [kind : {"sub"}, id : Subs] \cup [kind : {"dev"}, id : Devs \ {CHAT}]
NoEntry == [kind |-> "none", id |-> 0]
SubEntry(s) == [kind |-> "sub", id |-> s]
DevEntry(d) == [kind |-> "dev", id |-> d]
NoKv == -1

Enabled(b, e) ==
    \/ e.kind = "sub" /\ e.id \in b.subs
    \/ e.kind = "dev" /\ e.id \in b.devs

\* AI_DEVICE_MODE_PACK / _DEV / _SUB
Pack(d, s) == d * 16 + s
UnpackDev(k) == k \div 16
UnpackSub(k) == k % 16

\* __resolve_active
ResolveActive(b, d, s) ==
    LET e == IF d = CHAT THEN SubEntry(s) ELSE DevEntry(d)
    IN  IF Enabled(b, e) THEN e ELSE NoEntry

\* __get_scode_by_mode: P2P and RECORD have none
HasScode(d) == d \notin Transient

\* The first enabled sub-mode at or after `from`, in ring order
FirstEnabled(S, from) ==
    CHOOSE s \in S : \A u \in S : (s + 4 - from) % 4 <= (u + 4 - from) % 4

\* __ai_toy_mode_load
LoadDev(k) ==
    IF k = NoKv \/ UnpackDev(k) \notin Devs \ Transient THEN CHAT ELSE UnpackDev(k)
LoadSub(k, default) ==
    IF k = NoKv \/ UnpackSub(k) \notin Subs THEN default ELSE UnpackSub(k)

\* Mutant: the stored sub-mode is not looked up in the image
InitSubTrusted(b, stored) == stored

\* The sub-mode wukong_ai_mode_init starts from: stored, else default, else from HOLD on
InitSub(b, stored) ==
    IF stored \in b.subs THEN stored
    ELSE IF b.default \in b.subs THEN b.default
    ELSE FirstEnabled(b.subs, HOLD)

\* Mutant: a boot into a device mode restores the stored sub-mode unchecked
ManagerSubRestored(b, d, s, current) == IF d = CHAT THEN InitSub(b, s) ELSE s

\* s_mode_mgr.chat_sub_mode after wukong_ai_mode_init: a boot into a device mode leaves
\* what is there, the zero of the memset
ManagerSub(b, d, s, current) == IF d = CHAT THEN InitSub(b, s) ELSE current

\* The entry wukong_ai_mode_init picks for the configuration (d, s)
PickEntry(b, d, s) == IF d = CHAT THEN SubEntry(InitSub(b, s)) ELSE DevEntry(d)

\* Which switch a thread runs: a device mode switch to `dev`, or a sub-mode switch to `sub`
DevOp(d) == [kind |-> "dev", dev |-> d, sub |-> HOLD]
SubOp(s) == [kind |-> "sub", dev |-> CHAT, sub |-> s]
NoOp == [kind |-> "none", dev |-> CHAT, sub |-> HOLD]
Idle(t) == pc[t] = "idle"
Quiescent == \A t \in Threads : Idle(t)

\* Every thread but t is out of a switch, and wukong_ai_mode_init is not running
Lone(t) == start = "none" /\ \A u \in Threads \ {t} : Idle(u)

\* wd_common_write of a byte: it may fail, and no caller looks
Written(k) ==
    \/ kv' = k /\ kvStale' = astray
    \/ WriteMayFail /\ kv' = kv /\ kvStale' = TRUE

\* Mutant: transient modes are not skipped
SaveByteAlways(d, s) == Pack(d, s)

\* The byte __ai_toy_mode_save writes for (d, s), NoKv when it skips a transient mode
SaveByte(d, s) == IF d \in Transient THEN NoKv ELSE Pack(d, s)

-----------------------------------------------------------------------------
(* Starting a switch.  A thread reads what its caller reads, then runs the *)
(* steps below.                                                            *)

Start(t, o) ==
    /\ power \in {"booting", "waking", "on"}
    /\ Idle(t)
    /\ op' = [op EXCEPT ![t] = o]
    /\ pc' = [pc EXCEPT ![t] = "check"]
    /\ astray' = (astray \/ ~Lone(t))
    /\ leaky' = (leaky \/ ~Lone(t))
    /\ UNCHANGED <<env, mgr, cfg, store, inited, sessions, target, byte>>

\* __on_ai_toy_audio_trigger_pin, SEQ_KEY: leave a device mode, or cycle the sub-mode.
\* The mode it tests is the one in cfg, the sub-mode it cycles from the manager's.
DoublePress(t) ==
    Start(t, IF cfg_dev # CHAT THEN DevOp(CHAT)
             ELSE SubOp(FirstEnabled(build.subs, (chat_sub_mode + 1) % 4)))

\* wukong_ai_device_mode_switch called by the UI, the P2P callback or a mode's key handler
RequestDevice(t, d) == Start(t, DevOp(d))

\* The MCP tool device_audio_mode_set: any number, in whatever device mode
McpSetMode(t, s) == Start(t, SubOp(s))

-----------------------------------------------------------------------------
(* The steps of wukong_ai_device_mode_switch and                           *)
(* wukong_ai_chat_sub_mode_switch.                                         *)

At(t, label) == power \in {"booting", "waking", "on", "sleep"} /\ pc[t] = label
Goto(t, label) == pc' = [pc EXCEPT ![t] = label]
Return(t) ==
    /\ Goto(t, "idle")
    /\ op' = [op EXCEPT ![t] = NoOp]
    /\ target' = [target EXCEPT ![t] = NoEntry]
    /\ byte' = [byte EXCEPT ![t] = NoKv]

\* The entry a request names; CHAT means the sub-mode in the manager
TargetOf(o) ==
    IF o.kind = "sub" THEN SubEntry(o.sub)
    ELSE IF o.dev = CHAT THEN SubEntry(chat_sub_mode) ELSE DevEntry(o.dev)

\* What a switch that passes its checks does to the history: a lone device mode switch
\* writes every field again; a sub-mode switch outside CHAT leaves cfg and a session behind
Committing(t) ==
    LET outside == op[t].kind = "sub" /\ device_mode # CHAT IN
    /\ astray' = IF op[t].kind = "dev" /\ Lone(t) THEN FALSE ELSE astray \/ outside
    /\ leaky' = (leaky \/ outside)

\* Mutant: the argument is not checked
CheckNothing(t) ==
    /\ At(t, "check")
    /\ target' = [target EXCEPT ![t] = TargetOf(op[t])]
    /\ Goto(t, "deinit")
    /\ Committing(t)
    /\ UNCHANGED <<env, mgr, cfg, store, inited, sessions, op, byte>>

\* Argument and enabled checks: a refused switch returns with no effect.  While
\* wukong_ai_mode_init registers the modes, one may still look disabled.
Check(t) ==
    /\ At(t, "check")
    /\ \/ /\ Enabled(build, TargetOf(op[t]))
          /\ target' = [target EXCEPT ![t] = TargetOf(op[t])]
          /\ Goto(t, "deinit")
          /\ Committing(t)
          /\ UNCHANGED <<op, byte>>
       \/ /\ ~Enabled(build, TargetOf(op[t])) \/ start = "pick"
          /\ Return(t)
          /\ UNCHANGED hist
    /\ UNCHANGED <<env, mgr, cfg, store, inited, sessions>>

\* Mutant: DEINIT goes to the mode that is about to start
DeinitTarget(t) ==
    /\ At(t, "deinit")
    /\ inited' = inited \ {target[t]}
    /\ Goto(t, IF op[t].kind = "dev" THEN "delsession" ELSE "setdev")
    /\ UNCHANGED <<env, mgr, cfg, store, sessions, locals, hist>>

\* Dispatch DEINIT to whatever is active now
Deinit(t) ==
    /\ At(t, "deinit")
    /\ inited' = inited \ {active}
    /\ Goto(t, IF op[t].kind = "dev" THEN "delsession" ELSE "setdev")
    /\ UNCHANGED <<env, mgr, cfg, store, sessions, locals, hist>>

\* tuya_ai_agent_del_session(old scode); only a device mode switch does it
DelSession(t) ==
    /\ At(t, "delsession")
    /\ sessions' = sessions \ {device_mode}
    /\ Goto(t, "setdev")
    /\ UNCHANGED <<env, mgr, cfg, store, inited, locals, hist>>

\* s_mode_mgr.device_mode = ...
SetDev(t) ==
    /\ At(t, "setdev")
    /\ device_mode' = IF op[t].kind = "dev" THEN op[t].dev ELSE CHAT
    /\ Goto(t, IF op[t].kind = "dev" THEN "setactive" ELSE "setsub")
    /\ UNCHANGED <<env, chat_sub_mode, active, cfg, store, inited, sessions, locals, hist>>

\* s_mode_mgr.chat_sub_mode = sub
SetSub(t) ==
    /\ At(t, "setsub")
    /\ chat_sub_mode' = op[t].sub
    /\ Goto(t, "setactive")
    /\ UNCHANGED <<env, device_mode, active, cfg, store, inited, sessions, locals, hist>>

\* s_mode_mgr.active = target
SetActive(t) ==
    /\ At(t, "setactive")
    /\ active' = target[t]
    /\ Goto(t, "setcfg")
    /\ UNCHANGED <<env, device_mode, chat_sub_mode, cfg, store, inited, sessions, locals, hist>>

\* Mutant: the byte to save is packed before the new mode is stored
SetCfgPackFirst(t) ==
    /\ At(t, "setcfg")
    /\ IF op[t].kind = "dev"
       THEN cfg_dev' = op[t].dev /\ cfg_sub' = cfg_sub
       ELSE cfg_sub' = op[t].sub /\ cfg_dev' = cfg_dev
    /\ byte' = [byte EXCEPT ![t] = IF cfg' = cfg THEN NoKv ELSE SaveByte(cfg_dev, cfg_sub)]
    /\ Goto(t, IF byte'[t] = NoKv THEN "init" ELSE "save")
    /\ UNCHANGED <<env, mgr, store, inited, sessions, op, target, hist>>

\* tuya_ai_toy_device_mode_set / tuya_ai_toy_trigger_mode_set: store and save only a
\* change.  The arguments of the save are read in the same step as the store.
SetCfg(t) ==
    /\ At(t, "setcfg")
    /\ IF op[t].kind = "dev"
       THEN cfg_dev' = op[t].dev /\ cfg_sub' = cfg_sub
       ELSE cfg_sub' = op[t].sub /\ cfg_dev' = cfg_dev
    /\ byte' = [byte EXCEPT ![t] = IF cfg' = cfg THEN NoKv ELSE SaveByte(cfg_dev', cfg_sub')]
    /\ Goto(t, IF byte'[t] = NoKv THEN "init" ELSE "save")
    /\ UNCHANGED <<env, mgr, store, inited, sessions, op, target, hist>>

\* wd_common_write at the end of __ai_toy_mode_save
Save(t) ==
    /\ At(t, "save")
    /\ Written(byte[t])
    /\ Goto(t, "init")
    /\ UNCHANGED <<env, mgr, cfg, inited, sessions, locals, hist>>

\* Dispatch INIT to whatever is active now, and return
InitMode(t) ==
    /\ At(t, "init")
    /\ inited' = IF active = NoEntry THEN inited ELSE inited \cup {active}
    /\ Return(t)
    /\ UNCHANGED <<env, mgr, cfg, store, sessions, hist>>

Step(t) ==
    \/ Check(t) \/ Deinit(t) \/ DelSession(t) \/ SetDev(t) \/ SetSub(t)
    \/ SetActive(t) \/ SetCfg(t) \/ Save(t) \/ InitMode(t)

\* An event reaches __mode_dispatch, which drops it while there is no active entry; the
\* active mode's handlers select its scode, which opens its session in the agent
OpenSession ==
    /\ power \in {"booting", "waking", "on"}
    /\ active # NoEntry
    /\ LET d == IF active.kind = "sub" THEN CHAT ELSE active.id IN
       /\ HasScode(d)
       /\ sessions' = sessions \cup {d}
    /\ leaky' = (leaky \/ ~Quiescent)
    /\ UNCHANGED <<env, mgr, cfg, store, inited, pc, locals, astray>>

-----------------------------------------------------------------------------
(* Start, low power, power loss, upgrade, factory reset. *)

\* The memset with which wukong_ai_mode_init begins, and the registration of the modes
ClearManager ==
    /\ device_mode' = CHAT /\ chat_sub_mode' = HOLD /\ active' = NoEntry
    /\ start' = "pick"

\* tuya_ai_toy_init: load the configuration, install the keys, then __ai_toy_start
Boot ==
    /\ power = "off"
    /\ power' = "booting"
    /\ ClearManager
    /\ cfg_dev' = LoadDev(kv) /\ cfg_sub' = LoadSub(kv, build.default)
    /\ UNCHANGED <<build, store, inited, sessions, pc, locals, hist>>

\* __on_ai_toy_lowpower_timer: __ai_toy_stop, which does not DEINIT the active mode
EnterLowPower ==
    /\ LowPower
    /\ power = "on"
    /\ power' = "sleep"
    /\ sessions' = {}
    /\ UNCHANGED <<build, start, mgr, cfg, store, inited, pc, locals, hist>>

\* A wake-up leaves the mode it slept in open when the configuration names another one
Leak == ~Quiescent \/ PickEntry(build, cfg_dev, cfg_sub) # active

\* __on_ai_toy_key_press_exit_lowpower: __ai_toy_start runs wukong_ai_mode_init again
ExitLowPower ==
    /\ power = "sleep"
    /\ power' = "waking"
    /\ ClearManager
    /\ astray' = ~Quiescent
    /\ leaky' = (leaky \/ Leak)
    /\ UNCHANGED <<build, cfg, store, inited, sessions, pc, locals>>

\* wukong_ai_mode_init picks the configuration's mode and stores it in the manager; in
\* CHAT tuya_ai_toy_trigger_mode_set stores and saves a sub-mode it had to replace.
\* Without an enabled mode the start fails.
PickMode ==
    /\ start = "pick"
    /\ LET entry == PickEntry(build, cfg_dev, cfg_sub)
           sub == ManagerSub(build, cfg_dev, cfg_sub, chat_sub_mode)
       IN  \/ /\ Enabled(build, entry)
              /\ device_mode' = cfg_dev /\ chat_sub_mode' = sub /\ active' = entry
              /\ start' = "init"
              /\ IF cfg_dev = CHAT /\ sub # cfg_sub
                 THEN cfg_sub' = sub /\ Written(Pack(CHAT, sub))
                 ELSE UNCHANGED <<cfg_sub, store>>
              /\ UNCHANGED power
           \/ /\ ~Enabled(build, entry)
              /\ power' = "failed" /\ start' = "none"
              /\ UNCHANGED <<mgr, cfg_sub, store>>
    /\ UNCHANGED <<build, cfg_dev, inited, sessions, pc, locals, hist>>

\* wukong_ai_mode_init dispatches INIT to whatever is active now; the start is done
StartMode ==
    /\ start = "init"
    /\ start' = "none" /\ power' = "on"
    /\ inited' = IF active = NoEntry THEN inited ELSE inited \cup {active}
    /\ UNCHANGED <<build, mgr, cfg, store, sessions, pc, locals, hist>>

\* Power loss or reset at any point: RAM is gone, the key-value store stays
PowerLoss ==
    /\ power # "off"
    /\ power' = "off" /\ start' = "none"
    /\ device_mode' = CHAT /\ chat_sub_mode' = HOLD /\ active' = NoEntry
    /\ cfg_dev' = CHAT /\ cfg_sub' = HOLD
    /\ inited' = {} /\ sessions' = {}
    /\ pc' = [t \in Threads |-> "idle"]
    /\ op' = [t \in Threads |-> NoOp]
    /\ target' = [t \in Threads |-> NoEntry]
    /\ byte' = [t \in Threads |-> NoKv]
    /\ astray' = FALSE /\ leaky' = FALSE
    /\ UNCHANGED <<build, store>>

\* Another image is flashed (OTA); its Kconfig may enable other modes
Upgrade ==
    /\ power = "off"
    /\ build' \in Builds \ {build}
    /\ UNCHANGED <<power, start, mgr, cfg, store, inited, sessions, pc, locals, hist>>

\* __on_ai_toy_reset: the stored byte is deleted, RAM is left alone
FactoryReset ==
    /\ power = "on"
    /\ kv' = NoKv
    /\ kvStale' = FALSE
    /\ UNCHANGED <<env, mgr, cfg, inited, sessions, pc, locals, hist>>

Init ==
    /\ build \in Builds
    /\ power = "off" /\ start = "none"
    /\ device_mode = CHAT /\ chat_sub_mode = HOLD /\ active = NoEntry
    /\ cfg_dev = CHAT /\ cfg_sub = HOLD
    /\ kv = NoKv /\ kvStale = FALSE
    /\ inited = {} /\ sessions = {}
    /\ pc = [t \in Threads |-> "idle"]
    /\ op = [t \in Threads |-> NoOp]
    /\ target = [t \in Threads |-> NoEntry]
    /\ byte = [t \in Threads |-> NoKv]
    /\ astray = FALSE /\ leaky = FALSE

Next ==
    \/ \E t \in Threads :
          \/ DoublePress(t)
          \/ \E d \in Devs : RequestDevice(t, d)
          \/ \E s \in Subs \cup {InvalidSub} : McpSetMode(t, s)
          \/ Step(t)
    \/ OpenSession
    \/ Boot \/ EnterLowPower \/ ExitLowPower \/ PickMode \/ StartMode
    \/ PowerLoss \/ Upgrade \/ FactoryReset

Spec == Init /\ [][Next]_vars

-----------------------------------------------------------------------------
(* Properties. *)

Op == [kind : {"none", "dev", "sub"}, dev : Devs, sub : Subs \cup {InvalidSub}]
Labels == {"idle", "check", "deinit", "delsession", "setdev", "setsub",
           "setactive", "setcfg", "save", "init"}

\* Every variable has its type.
TypeOK ==
    /\ build \in Builds
    /\ power \in {"off", "booting", "on", "sleep", "waking", "failed"}
    /\ start \in {"none", "pick", "init"}
    /\ device_mode \in Devs
    /\ chat_sub_mode \in Subs
    /\ active \in Entry \cup {NoEntry}
    /\ cfg_dev \in Devs
    /\ cfg_sub \in Subs
    /\ kv \in {NoKv} \cup 0..255
    /\ kvStale \in BOOLEAN
    /\ inited \subseteq Entry
    /\ sessions \subseteq Devs \ Transient
    /\ pc \in [Threads -> Labels]
    /\ op \in [Threads -> Op]
    /\ target \in [Threads -> Entry \cup {NoEntry}]
    /\ byte \in [Threads -> {NoKv} \cup 0..255]
    /\ astray \in BOOLEAN
    /\ leaky \in BOOLEAN

\* __mode_dispatch finds an entry that the image enables, whatever switches and starts of
\* other threads are doing, except where wukong_ai_mode_init has cleared the manager and
\* has not yet picked a mode: there it may find none and drops the event.
ActiveEnabled ==
    /\ power \in {"on", "sleep"} \/ start = "init" => Enabled(build, active)
    /\ start = "pick" => active = NoEntry \/ Enabled(build, active)

\* "P2P/RECORD must never be persisted" (__ai_toy_mode_load): the stored byte never
\* names a transient mode, nor a sub-mode out of range, even with switches in flight.
KvNeverTransient ==
    kv # NoKv => /\ UnpackDev(kv) \in Devs \ Transient
                 /\ UnpackSub(kv) \in Subs

\* The active entry is the one that device_mode and chat_sub_mode resolve to
\* (__resolve_active).
ActiveResolved == active = ResolveActive(build, device_mode, chat_sub_mode)

\* tuya_ai_toy_device_mode_get returns the "current device mode": the mode in cfg, which
\* the double press tests, is the mode the manager runs.
CfgIsRunningMode == cfg_dev = device_mode

\* What would be read back after a power loss is the mode in cfg, unless that mode is
\* transient, the write failed or was made while astray, or a factory reset deleted the byte.
KvTracksCfg ==
    kv # NoKv /\ ~kvStale /\ cfg_dev \notin Transient => kv = Pack(cfg_dev, cfg_sub)

\* Whenever no switch is in flight the fields of the manager, the configuration and the
\* stored byte agree on the mode, whatever switches, sleeps and failed writes came before.
\* Overlapping switches and a sub-mode switch outside CHAT can break the agreement; the
\* next wake-up, and the next device mode switch that runs alone, restore it.
Coherent ==
    power = "on" /\ Quiescent =>
        /\ ~astray => ActiveResolved /\ CfgIsRunningMode
        /\ KvTracksCfg

\* on_init and on_deinit pair up.  Between switches the active mode has been initialised.
\* And as long as no two switches overlapped, no handler ran during a switch and no
\* wake-up started another mode than the one that slept, no other mode is initialised (so
\* none holds the recorder, KWS or server VAD setting) and no other session is open.
OneModeOpen ==
    power = "on" /\ Quiescent =>
        /\ ~astray => active \in inited
        /\ ~leaky => inited = {active} /\ sessions \subseteq {device_mode}

\* Between images that enable the same device modes a boot during which no switch is
\* requested succeeds, wherever power was lost and whatever write failed, and lands in a
\* mode that survives a reboot: never in P2P or RECORD, and in CHAT never in a sub-mode
\* the new image lacks.
RebootLandsInDurableMode ==
    [][power = "booting" /\ start = "pick" /\ start' # "pick" /\ power' # "off" /\ ~astray =>
          /\ power' # "failed"
          /\ device_mode' \notin Transient
          /\ device_mode' = CHAT => chat_sub_mode' \in build'.subs]_vars

\* "A double press in any other mode first goes back to chat" (the desktop board's
\* README): a running switch to CHAT is never refused as not enabled, although the
\* sub-mode it returns to is whatever the last initialisation left there.
ChatSwitchNeverRefused ==
    [][\A t \in Threads :
          op[t].kind = "dev" /\ op[t].dev = CHAT /\ pc[t] = "check" /\ power' = "on" =>
              pc'[t] # "idle"]_vars
=============================================================================
