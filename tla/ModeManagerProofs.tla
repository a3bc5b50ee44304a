------------------------- MODULE ModeManagerProofs -------------------------
(***************************************************************************)
(* Proofs about ModeManager for every set of threads and every set of      *)
(* firmware images.                                                        *)
(***************************************************************************)
EXTENDS ModeManager, TLAPS

-----------------------------------------------------------------------------
(* Facts about the operators. *)

\* A packed byte fits in eight bits and unpacks to what was packed (PACK/DEV/SUB macros).
LEMMA PackUnpack ==
    ASSUME NEW d \in Devs, NEW s \in Subs
    PROVE  /\ Pack(d, s) \in 0..255
           /\ Pack(d, s) # NoKv
           /\ UnpackDev(Pack(d, s)) = d
           /\ UnpackSub(Pack(d, s)) = s
BY DEF Pack, UnpackDev, UnpackSub, NoKv, Devs, Subs

\* The search for an enabled sub-mode, from any start, finds one when there is one.
LEMMA FirstEnabledIn ==
    ASSUME NEW S \in SUBSET Subs, S # {}, NEW from \in Subs
    PROVE  FirstEnabled(S, from) \in S
<1> DEFINE dist(s) == (s + 4 - from) % 4
<1>1. \A s \in Subs : dist(s) \in 0..3
  BY DEF Subs
<1>2. \E s \in S : \A u \in S : dist(s) <= dist(u)
  <2>1. CASE \E s \in S : dist(s) = 0
    BY <2>1, <1>1
  <2>2. CASE (\A s \in S : dist(s) # 0) /\ \E s \in S : dist(s) = 1
    BY <2>2, <1>1
  <2>3. CASE (\A s \in S : dist(s) \notin {0, 1}) /\ \E s \in S : dist(s) = 2
    BY <2>3, <1>1
  <2>4. CASE \A s \in S : dist(s) \notin {0, 1, 2}
    BY <2>4, <1>1
  <2> QED
    BY <2>1, <2>2, <2>3, <2>4
<1> QED
  BY <1>2 DEF FirstEnabled

\* What the boot loads from any stored byte is a durable device mode and a sub-mode.
LEMMA LoadTypes ==
    ASSUME NEW k \in {NoKv} \cup 0..255, NEW def \in Subs
    PROVE  /\ LoadDev(k) \in Devs \ Transient
           /\ LoadSub(k, def) \in Subs
BY DEF LoadDev, LoadSub, Devs, Transient, CHAT, P2P, RECORD

\* The sub-mode wukong_ai_mode_init finds for CHAT is one that the image enables.
LEMMA InitSubOk ==
    ASSUME NEW b \in Builds, NEW s \in Subs
    PROVE  InitSub(b, s) \in b.subs /\ InitSub(b, s) \in Subs
<1>1. b.subs \in SUBSET Subs /\ b.subs # {} /\ b.default \in Subs
  BY BuildsAssumption DEF Build
<1>2. HOLD \in Subs
  BY DEF HOLD, Subs
<1> QED
  BY <1>1, <1>2, FirstEnabledIn DEF InitSub

\* NoEntry is not an entry; what SubEntry and DevEntry build are entries.
LEMMA EntryFacts ==
    /\ NoEntry \notin Entry
    /\ \A s \in Subs : SubEntry(s) \in Entry
    /\ \A d \in Devs : d # CHAT => DevEntry(d) \in Entry
BY DEF NoEntry, Entry, SubEntry, DevEntry

-----------------------------------------------------------------------------
(* What holds with any number of threads racing.                           *)

\* The steps of a switch after its checks.
Committed == Labels \ {"idle", "check"}

\* A powered-off device runs no switch (RAM and threads are gone).
OffQuiet == power = "off" => Quiescent

\* A switch past its checks carries an argument in range and a target entry that the
\* running image enables; only a sub-mode switch reaches the store of chat_sub_mode.
SwitchChecked ==
    \A t \in Threads :
        /\ pc[t] # "idle" => op[t].kind \in {"dev", "sub"}
        /\ pc[t] \in Committed =>
              /\ Enabled(build, target[t])
              /\ op[t].kind = "sub" => op[t].sub \in Subs
        /\ pc[t] = "setsub" => op[t].kind = "sub"

\* A byte that __ai_toy_mode_load accepts as it stands.
Durable(k) == UnpackDev(k) \in Devs \ Transient /\ UnpackSub(k) \in Subs

\* A byte on its way to the key-value store names a durable mode.
SaveDurable == \A t \in Threads : pc[t] = "save" => byte[t] \in 0..255 /\ Durable(byte[t])

\* wukong_ai_mode_init runs exactly during a boot or a wake-up.
Starting == (start # "none") <=> (power \in {"booting", "waking"})

\* The inductive invariant of the racing manager.
SafeInv ==
    /\ TypeOK
    /\ Starting
    /\ OffQuiet
    /\ SwitchChecked
    /\ ActiveEnabled
    /\ KvNeverTransient
    /\ SaveDurable

\* What a caller asks for is an operation.
LEMMA OpTypes ==
    /\ NoOp \in Op
    /\ \A d \in Devs : DevOp(d) \in Op
    /\ \A s \in Subs \cup {InvalidSub} : SubOp(s) \in Op
BY DEF NoOp, Op, DevOp, SubOp, Devs, Subs, CHAT, HOLD, InvalidSub

\* A packed durable mode is durable.
LEMMA PackDurable ==
    ASSUME NEW d \in Devs \ Transient, NEW s \in Subs
    PROVE  Durable(Pack(d, s))
BY PackUnpack DEF Durable

\* The target of a switch that passes its checks is an entry.
LEMMA EnabledEntry ==
    ASSUME NEW b \in Builds, NEW o \in Op, chat_sub_mode \in Subs, Enabled(b, TargetOf(o))
    PROVE  /\ TargetOf(o) \in Entry
           /\ o.kind = "sub" => o.sub \in Subs
<1>1. b.subs \subseteq Subs /\ b.devs \subseteq Devs \ {CHAT}
  BY BuildsAssumption DEF Build
<1>2. CASE o.kind = "sub"
  BY <1>1, <1>2 DEF Enabled, TargetOf, SubEntry, Entry
<1>3. CASE o.kind # "sub"
  BY <1>1, <1>3 DEF Enabled, TargetOf, SubEntry, DevEntry, Entry, Op
<1> QED
  BY <1>2, <1>3

\* The entry picked for a configuration in range is an entry.
LEMMA PickEntryOk ==
    ASSUME NEW b \in Builds, NEW d \in Devs, NEW s \in Subs
    PROVE  PickEntry(b, d, s) \in Entry
BY InitSubOk, EntryFacts DEF PickEntry

\* wukong_ai_mode_init preserves the invariant when it picks a mode, from any configuration.
LEMMA PickSafe ==
    ASSUME SafeInv, PickMode
    PROVE  SafeInv'
<1>1. build \in Builds /\ cfg_dev \in Devs /\ cfg_sub \in Subs /\ chat_sub_mode \in Subs
  BY DEF SafeInv, TypeOK
<1>2. PICK e \in Entry : e = PickEntry(build, cfg_dev, cfg_sub)
  BY <1>1, PickEntryOk
<1>3. PICK sub \in Subs : sub = ManagerSub(build, cfg_dev, cfg_sub, chat_sub_mode)
  BY <1>1, InitSubOk DEF ManagerSub
<1>4. Pack(CHAT, sub) \in 0..255 /\ Durable(Pack(CHAT, sub))
  BY PackUnpack, PackDurable DEF CHAT, Devs, Transient, P2P, RECORD
<1>5. start = "pick" /\ power \in {"booting", "waking"}
      /\ UNCHANGED <<build, cfg_dev, inited, sessions, pc, op, target, byte, astray, leaky>>
  BY DEF PickMode, locals, hist, SafeInv, Starting
<1>6. CASE Enabled(build, e)
  <2>1. /\ device_mode' = cfg_dev /\ chat_sub_mode' = sub /\ active' = e
        /\ start' = "init" /\ power' = power
    BY <1>2, <1>3, <1>6, Zenon DEF PickMode
  <2>2. /\ kv' = kv \/ kv' = Pack(CHAT, sub)
        /\ kvStale' \in BOOLEAN
        /\ cfg_sub' = cfg_sub \/ cfg_sub' = sub
    <3>1. \/ cfg_sub' = sub /\ Written(Pack(CHAT, sub))
          \/ UNCHANGED <<cfg_sub, store>>
      BY <1>2, <1>3, <1>6, Zenon DEF PickMode
    <3>2. kvStale \in BOOLEAN /\ astray \in BOOLEAN
      BY DEF SafeInv, TypeOK
    <3> QED BY <3>1, <3>2, Zenon DEF Written, store
  <2>3. TypeOK'
    BY <1>1, <1>4, <1>5, <2>1, <2>2 DEF SafeInv, TypeOK
  <2>4. Starting' /\ OffQuiet' /\ SwitchChecked' /\ SaveDurable'
    BY <1>5, <2>1 DEF SafeInv, Starting, OffQuiet, SwitchChecked, SaveDurable
  <2>5. ActiveEnabled' /\ KvNeverTransient'
    BY <1>4, <1>5, <1>6, <2>1, <2>2 DEF SafeInv, ActiveEnabled, KvNeverTransient, Durable
  <2> QED BY <2>3, <2>4, <2>5 DEF SafeInv
<1>7. CASE ~Enabled(build, e)
  <2>1. /\ power' = "failed" /\ start' = "none"
        /\ UNCHANGED <<device_mode, chat_sub_mode, active, cfg_sub, kv, kvStale>>
    BY <1>2, <1>7, Zenon DEF PickMode, mgr, store
  <2> QED
    BY <1>5, <2>1 DEF SafeInv, TypeOK, Starting, OffQuiet, SwitchChecked, SaveDurable, ActiveEnabled,
                      KvNeverTransient
<1> QED BY <1>6, <1>7

\* A caller that starts a switch preserves the invariant.
LEMMA StartSafe ==
    ASSUME SafeInv, NEW t \in Threads, NEW o \in Op, o.kind \in {"dev", "sub"}, Start(t, o)
    PROVE  SafeInv'
<1>0. astray' \in BOOLEAN /\ leaky' \in BOOLEAN
  <2>1. astray \in BOOLEAN /\ leaky \in BOOLEAN
    BY DEF SafeInv, TypeOK
  <2> QED BY <2>1, Zenon DEF Start
<1> USE DEF SafeInv, env, mgr, cfg, store
<1>1. TypeOK'
  BY <1>0 DEF TypeOK, Labels, Start
<1> USE DEF Start
<1>2. OffQuiet' /\ Starting'
  BY DEF OffQuiet, Starting
<1>3. SwitchChecked'
  BY DEF SwitchChecked, Committed, TypeOK, Labels
<1>4. ActiveEnabled' /\ KvNeverTransient'
  BY DEF ActiveEnabled, KvNeverTransient
<1>5. SaveDurable'
  BY DEF SaveDurable, TypeOK
<1> QED
  BY <1>1, <1>2, <1>3, <1>4, <1>5

\* Every step of a switch preserves the invariant, whatever the other threads are at.
LEMMA StepSafe ==
    ASSUME SafeInv, NEW t \in Threads, Step(t)
    PROVE  SafeInv'
<1>0. astray \in BOOLEAN /\ leaky \in BOOLEAN
  BY DEF SafeInv, TypeOK
<1> USE DEF SafeInv, At, Goto, env, mgr, cfg, store, locals, hist
<1>1. CASE Check(t)
  <2>1. CASE Enabled(build, TargetOf(op[t])) /\ target' = [target EXCEPT ![t] = TargetOf(op[t])]
             /\ pc' = [pc EXCEPT ![t] = "deinit"] /\ Committing(t) /\ UNCHANGED <<op, byte>>
    <3>0. astray' \in BOOLEAN /\ leaky' \in BOOLEAN
      BY <1>0, <2>1, Zenon DEF Committing
    <3>1. op[t] \in Op /\ build \in Builds /\ chat_sub_mode \in Subs
      BY DEF TypeOK
    <3>2. TargetOf(op[t]) \in Entry /\ (op[t].kind = "sub" => op[t].sub \in Subs)
      BY <2>1, <3>1, EnabledEntry
    <3>3. /\ target' = [target EXCEPT ![t] = TargetOf(op[t])]
          /\ pc' = [pc EXCEPT ![t] = "deinit"]
          /\ UNCHANGED <<env, mgr, cfg, store, inited, sessions, op, byte>>
          /\ pc[t] = "check"
      BY <1>1, <2>1, Zenon DEF Check
    <3> HIDE DEF TargetOf
    <3>4. TypeOK'
      BY <3>0, <3>2, <3>3 DEF TypeOK, Labels
    <3>5. OffQuiet' /\ SaveDurable' /\ Starting'
      BY <1>1, <3>3 DEF OffQuiet, SaveDurable, Starting, TypeOK, Check
    <3>6. SwitchChecked'
      BY <2>1, <3>2, <3>3 DEF SwitchChecked, Committed, TypeOK, Labels
    <3> QED
      BY <3>3, <3>4, <3>5, <3>6 DEF ActiveEnabled, KvNeverTransient
  <2>2. CASE Return(t) /\ UNCHANGED hist
    BY <1>1, <2>2, OpTypes
       DEF Check, Return, TypeOK, Labels, Starting, OffQuiet, Quiescent, Idle, SwitchChecked, Committed,
           ActiveEnabled, KvNeverTransient, SaveDurable
  <2> QED
    BY <1>1, <2>1, <2>2, Zenon DEF Check
<1> USE DEF Starting, OffQuiet, SwitchChecked, Committed, ActiveEnabled, KvNeverTransient, SaveDurable
<1>2. CASE Deinit(t)
  BY <1>2 DEF Deinit, TypeOK, Labels
<1>3. CASE DelSession(t)
  BY <1>3 DEF DelSession, TypeOK, Labels
<1>4. CASE SetDev(t)
  BY <1>4 DEF SetDev, TypeOK, Labels, Op, CHAT, Devs
<1>5. CASE SetSub(t)
  BY <1>5 DEF SetSub, TypeOK, Labels
<1>6. CASE SetActive(t)
  BY <1>6 DEF SetActive, TypeOK, Labels
<1>7. CASE SetCfg(t)
  <2>1. pc[t] = "setcfg" /\ op[t] \in Op /\ op[t].kind \in {"dev", "sub"}
    BY <1>7 DEF SetCfg, TypeOK
  <2>2. cfg_dev' \in Devs /\ cfg_sub' \in Subs
    BY <1>7, <2>1 DEF SetCfg, TypeOK, Op, Labels
  <2>3. PICK b : /\ b = NoKv \/ (b \in 0..255 /\ Durable(b))
                 /\ byte' = [byte EXCEPT ![t] = b]
    <3>1. \/ SaveByte(cfg_dev', cfg_sub') = NoKv
          \/ SaveByte(cfg_dev', cfg_sub') \in 0..255 /\ Durable(SaveByte(cfg_dev', cfg_sub'))
      BY <2>2, PackUnpack, PackDurable DEF SaveByte
    <3> QED
      BY <1>7, <3>1, Zenon DEF SetCfg
  <2>4. byte'[t] = b
    BY <2>3 DEF TypeOK
  <2>5. /\ pc' = [pc EXCEPT ![t] = IF b = NoKv THEN "init" ELSE "save"]
        /\ UNCHANGED <<env, mgr, store, inited, sessions, op, target, hist>>
    BY <1>7, <2>4 DEF SetCfg
  <2>6. TypeOK'
    BY <2>2, <2>3, <2>5 DEF TypeOK, Labels
  <2>7. Starting' /\ OffQuiet' /\ SwitchChecked' /\ ActiveEnabled' /\ KvNeverTransient'
    BY <1>7, <2>1, <2>5 DEF TypeOK, Labels, SetCfg
  <2>8. SaveDurable'
    BY <2>3, <2>4, <2>5 DEF TypeOK
  <2> QED
    BY <2>6, <2>7, <2>8
<1>8. CASE Save(t)
  <2>1. /\ pc[t] = "save"
        /\ pc' = [pc EXCEPT ![t] = "init"]
        /\ UNCHANGED <<env, mgr, cfg, inited, sessions, locals, hist>>
    BY <1>8 DEF Save
  <2>2. (kv' = kv \/ kv' = byte[t]) /\ kvStale' \in BOOLEAN
    BY <1>0, <1>8, Zenon DEF Save, Written
  <2>3. byte[t] \in 0..255 /\ Durable(byte[t])
    BY <2>1
  <2>4. TypeOK' /\ KvNeverTransient'
    BY <2>1, <2>2, <2>3 DEF TypeOK, Labels, Durable
  <2>5. Starting' /\ OffQuiet' /\ SwitchChecked' /\ ActiveEnabled' /\ SaveDurable'
    BY <1>8, <2>1 DEF TypeOK, Labels, Save
  <2> QED
    BY <2>4, <2>5
<1>9. CASE InitMode(t)
  BY <1>9, OpTypes, EntryFacts DEF InitMode, Return, TypeOK, Labels
<1> QED
  BY <1>1, <1>2, <1>3, <1>4, <1>5, <1>6, <1>7, <1>8, <1>9 DEF Step

\* Every step of the manager preserves the invariant.
LEMMA NextSafe ==
    ASSUME SafeInv, [Next]_vars
    PROVE  SafeInv'
<1> USE DEF env, mgr, cfg, store, locals, hist
<1>1. ASSUME NEW t \in Threads, DoublePress(t)
      PROVE  SafeInv'
  <2>1. build.subs \in SUBSET Subs /\ build.subs # {} /\ chat_sub_mode \in Subs
    BY BuildsAssumption DEF SafeInv, TypeOK, Build
  <2>2. (chat_sub_mode + 1) % 4 \in Subs
    BY <2>1 DEF Subs
  <2>3. FirstEnabled(build.subs, (chat_sub_mode + 1) % 4) \in Subs
    BY <2>1, <2>2, FirstEnabledIn
  <2>4. CHAT \in Devs
    BY DEF CHAT, Devs
  <2>5. PICK o \in Op : o.kind \in {"dev", "sub"} /\ Start(t, o)
    BY <1>1, <2>3, <2>4, OpTypes DEF DoublePress, DevOp, SubOp
  <2> QED
    BY <2>5, StartSafe
<1>2. ASSUME NEW t \in Threads, NEW d \in Devs, RequestDevice(t, d)
      PROVE  SafeInv'
  BY <1>2, OpTypes, StartSafe DEF RequestDevice, DevOp
<1>3. ASSUME NEW t \in Threads, NEW s \in Subs \cup {InvalidSub}, McpSetMode(t, s)
      PROVE  SafeInv'
  BY <1>3, OpTypes, StartSafe DEF McpSetMode, SubOp
<1>4. ASSUME NEW t \in Threads, Step(t)
      PROVE  SafeInv'
  BY <1>4, StepSafe
<1>5. CASE OpenSession
  <2>1. active \in Entry
    BY <1>5 DEF OpenSession, SafeInv, TypeOK
  <2>2. PICK d \in Devs \ Transient : sessions' = sessions \cup {d}
    BY <1>5, <2>1 DEF OpenSession, HasScode, Entry, CHAT, Devs
  <2>3. UNCHANGED <<env, mgr, cfg, store, inited, pc, locals, astray>>
    BY <1>5 DEF OpenSession
  <2>0. leaky' \in BOOLEAN
    <3>1. leaky \in BOOLEAN
      BY DEF SafeInv, TypeOK
    <3> QED BY <1>5, <3>1, Zenon DEF OpenSession
  <2>4. TypeOK'
    BY <2>0, <2>2, <2>3 DEF SafeInv, TypeOK
  <2> QED
    BY <2>3, <2>4 DEF SafeInv, Starting, OffQuiet, SwitchChecked, ActiveEnabled, KvNeverTransient,
                      SaveDurable, Quiescent, Idle
<1>6. CASE Boot
  <2>1. LoadDev(kv) \in Devs /\ LoadSub(kv, build.default) \in Subs
    BY LoadTypes, BuildsAssumption DEF SafeInv, TypeOK, Build
  <2>2. CHAT \in Devs /\ HOLD \in Subs
    BY DEF CHAT, HOLD, Devs, Subs
  <2> QED
    BY <1>6, <2>1, <2>2 DEF Boot, ClearManager, SafeInv, TypeOK, Starting, OffQuiet, SwitchChecked,
                            ActiveEnabled, KvNeverTransient, SaveDurable
<1>7. CASE EnterLowPower
  BY <1>7 DEF EnterLowPower, SafeInv, TypeOK, Starting, OffQuiet, SwitchChecked, ActiveEnabled,
              KvNeverTransient, SaveDurable
<1>8. CASE ExitLowPower
  <2>1. astray' \in BOOLEAN /\ leaky' \in BOOLEAN
    <3>1. leaky \in BOOLEAN
      BY DEF SafeInv, TypeOK
    <3> QED BY <1>8, <3>1, Zenon DEF ExitLowPower
  <2>2. CHAT \in Devs /\ HOLD \in Subs
    BY DEF CHAT, HOLD, Devs, Subs
  <2>3. /\ power' = "waking" /\ start' = "pick" /\ device_mode' = CHAT /\ chat_sub_mode' = HOLD
        /\ active' = NoEntry
        /\ UNCHANGED <<build, cfg, store, inited, sessions, pc, locals>>
    BY <1>8 DEF ExitLowPower, ClearManager
  <2> QED
    BY <2>1, <2>2, <2>3 DEF SafeInv, TypeOK, Starting, OffQuiet, SwitchChecked, ActiveEnabled,
                            KvNeverTransient, SaveDurable
<1>13. CASE PickMode
  BY <1>13, PickSafe
<1>14. CASE StartMode
  <2>1. Enabled(build, active) /\ active \in Entry \cup {NoEntry}
    BY <1>14 DEF StartMode, SafeInv, ActiveEnabled, TypeOK
  <2> QED
    BY <1>14, <2>1 DEF StartMode, SafeInv, TypeOK, Starting, OffQuiet, SwitchChecked, ActiveEnabled,
                       KvNeverTransient, SaveDurable
<1>9. CASE PowerLoss
  <2>1. astray' \in BOOLEAN /\ leaky' \in BOOLEAN
    BY <1>9, Zenon DEF PowerLoss
  <2> QED BY <1>9, <2>1, OpTypes
     DEF PowerLoss, SafeInv, TypeOK, Starting, OffQuiet, SwitchChecked, ActiveEnabled, KvNeverTransient,
         SaveDurable, Quiescent, Idle, Labels, Committed, CHAT, HOLD, Devs, Subs
<1>10. CASE Upgrade
  BY <1>10 DEF Upgrade, SafeInv, TypeOK, Starting, OffQuiet, SwitchChecked, ActiveEnabled,
               KvNeverTransient, SaveDurable, Quiescent, Idle, Committed
<1>11. CASE FactoryReset
  BY <1>11 DEF FactoryReset, SafeInv, TypeOK, Starting, OffQuiet, SwitchChecked, ActiveEnabled,
               KvNeverTransient, SaveDurable, Quiescent, Idle
<1>12. CASE UNCHANGED vars
  BY <1>12 DEF vars, SafeInv, TypeOK, Starting, OffQuiet, SwitchChecked, ActiveEnabled,
               KvNeverTransient, SaveDurable, Quiescent, Idle
<1> QED
  BY <1>1, <1>2, <1>3, <1>4, <1>5, <1>6, <1>7, <1>8, <1>9, <1>10, <1>11, <1>12, <1>13, <1>14 DEF Next

\* The initial state satisfies the invariant.
LEMMA InitSafe == Init => SafeInv
<1> SUFFICES ASSUME Init PROVE SafeInv
  OBVIOUS
<1>1. TypeOK
  <2>1. kvStale \in BOOLEAN /\ astray \in BOOLEAN /\ leaky \in BOOLEAN
    BY Zenon DEF Init
  <2>2. NoOp \in Op
    BY OpTypes
  <2> QED
    BY <2>1, <2>2 DEF Init, TypeOK, Labels, CHAT, HOLD, Devs, Subs
<1>2. Starting /\ OffQuiet /\ SwitchChecked /\ SaveDurable
  BY DEF Init, Starting, OffQuiet, SwitchChecked, SaveDurable, Quiescent, Idle, Committed
<1>3. ActiveEnabled /\ KvNeverTransient
  BY DEF Init, ActiveEnabled, KvNeverTransient
<1> QED
  BY <1>1, <1>2, <1>3 DEF SafeInv

\* The invariant holds in every reachable state, however many threads switch modes at
\* the same time and wherever power is lost.
THEOREM SafeAlways == Spec => []SafeInv
BY InitSafe, NextSafe, PTL DEF Spec

\* Types hold in every reachable state.
THEOREM TypeCorrect == Spec => []TypeOK
BY SafeAlways, PTL DEF SafeInv

\* __mode_dispatch finds an entry the image enables, with switches of several threads in
\* flight and during starts, except between the memset of wukong_ai_mode_init and its choice.
THEOREM DispatchHasMode == Spec => []ActiveEnabled
BY SafeAlways, PTL DEF SafeInv

\* P2P and RECORD never reach the key-value store, whatever the interleaving.
THEOREM NoTransientStored == Spec => []KvNeverTransient
BY SafeAlways, PTL DEF SafeInv
-----------------------------------------------------------------------------
(* What holds of the agreement between manager, configuration and stored   *)
(* byte while switches do not go astray, and how a lone switch restores it.*)

\* At most one thread is in a switch, and none is while wukong_ai_mode_init runs.
Alone ==
    /\ \A t, u \in Threads : ~Idle(t) /\ ~Idle(u) => t = u
    /\ start # "none" => Quiescent

\* Some thread is at one of these steps
Reached(labels) == \E t \in Threads : pc[t] \in labels

\* The steps of a switch before active is stored, and before the configuration is.
Unresolved == {"deinit", "delsession", "setdev", "setsub", "setactive"}
Unsaved == Unresolved \cup {"setcfg"}

\* A checked sub-mode switch finds CHAT and leaves it; the target is what the request names;
\* the fields that a step has written are the request's; the byte to save is the new mode.
RequestKept == \A t \in Threads :
    /\ pc[t] \in Committed /\ op[t].kind = "sub" => device_mode = CHAT /\ cfg_dev = CHAT
    /\ pc[t] \in Unresolved => target[t] = TargetOf(op[t])
    /\ pc[t] \in {"setactive", "setcfg"} =>
          IF op[t].kind = "dev" THEN device_mode = op[t].dev ELSE chat_sub_mode = op[t].sub
    /\ pc[t] = "save" => byte[t] = Pack(cfg_dev, cfg_sub) /\ byte[t] # NoKv

\* Manager and configuration agree except between the stores of a switch.
AgreeInv ==
    power \in {"on", "sleep"} \/ start = "init" =>
        /\ Reached(Unresolved) \/ ActiveResolved
        /\ Reached(Unsaved) \/ CfgIsRunningMode

\* What holds unless switches went astray.
LoneInv == Alone /\ RequestKept /\ AgreeInv

\* The stored byte is the configuration's, or is about to be overwritten, astray or not.
KvInv == power # "off" => Reached({"save"}) \/ KvTracksCfg

\* The inductive invariant for the agreement.
AgreementInv == (~astray => LoneInv) /\ KvInv

\* While thread t is in a switch every other thread is idle.
LEMMA OthersIdle ==
    ASSUME Alone, NEW t \in Threads, ~Idle(t)
    PROVE  /\ start = "none"
           /\ \A u \in Threads \ {t} : pc[u] = "idle"
           /\ \A L : "idle" \notin L => (Reached(L) <=> pc[t] \in L)
BY DEF Alone, Quiescent, Idle, Reached

\* A step of thread t from label p to label q, as the invariant sees it.
LEMMA OneMoves ==
    ASSUME SafeInv, Alone, NEW t \in Threads, NEW p, NEW q \in Labels, p # "idle",
           pc[t] = p, pc' = [pc EXCEPT ![t] = q], start' = start
    PROVE  /\ Alone' /\ start = "none"
           /\ pc'[t] = q
           /\ \A u \in Threads \ {t} : pc[u] = "idle" /\ pc'[u] = "idle"
           /\ \A L : "idle" \notin L => (Reached(L) <=> p \in L) /\ (Reached(L)' <=> q \in L)
<1>1. start = "none" /\ \A u \in Threads \ {t} : pc[u] = "idle"
  BY OthersIdle DEF Idle
<1>2. pc'[t] = q /\ \A u \in Threads \ {t} : pc'[u] = "idle"
  BY <1>1 DEF SafeInv, TypeOK
<1>3. Alone'
  BY <1>1, <1>2 DEF Alone, Quiescent, Idle
<1>4. ASSUME NEW L, "idle" \notin L
      PROVE  (Reached(L) <=> p \in L) /\ (Reached(L)' <=> q \in L)
  BY <1>1, <1>2, <1>4 DEF Reached
<1> QED
  BY <1>1, <1>2, <1>3, <1>4

\* A switch that passes its checks alone is in order from there on, even if what it found
\* was not: a device mode switch stores every field again.
LEMMA CheckLone ==
    ASSUME SafeInv, AgreementInv, NEW t \in Threads, At(t, "check"),
           Enabled(build, TargetOf(op[t])),
           pc' = [pc EXCEPT ![t] = "deinit"], target' = [target EXCEPT ![t] = TargetOf(op[t])],
           UNCHANGED <<env, mgr, cfg, op, byte>>, Committing(t), ~astray'
    PROVE  LoneInv'
<1> USE DEF env, mgr, cfg
<1>a. op \in [Threads -> Op] /\ target \in [Threads -> Entry \cup {NoEntry}]
      /\ byte \in [Threads -> {NoKv} \cup 0..255] /\ pc \in [Threads -> Labels]
      /\ op[t].kind \in {"dev", "sub"} /\ pc[t] = "check"
  BY DEF SafeInv, TypeOK, SwitchChecked, At
<1>1. \/ op[t].kind = "dev" /\ Lone(t)
      \/ ~astray /\ ~(op[t].kind = "sub" /\ device_mode # CHAT)
  BY Zenon DEF Committing
<1>2. Lone(t)
  BY <1>1, <1>a, OthersIdle DEF AgreementInv, LoneInv, Lone, Idle
<1>3. /\ start' = "none" /\ pc'[t] = "deinit" /\ \A u \in Threads \ {t} : pc'[u] = "idle"
      /\ op' = op /\ target'[t] = TargetOf(op[t])
  BY <1>a, <1>2 DEF Lone, Idle
<1>4. op[t].kind = "sub" => device_mode = CHAT /\ cfg_dev = CHAT
  <2> SUFFICES ASSUME op[t].kind = "sub" PROVE device_mode = CHAT /\ cfg_dev = CHAT
    OBVIOUS
  <2>1. ~astray /\ device_mode = CHAT
    BY <1>1
  <2>2. power \in {"on", "sleep"}
    BY <1>2 DEF At, Lone, SafeInv, Starting
  <2>3. ~Reached(Unsaved)
    BY <1>2, <1>a DEF Lone, Idle, Reached, Unsaved, Unresolved
  <2> QED BY <2>1, <2>2, <2>3 DEF AgreementInv, LoneInv, AgreeInv, CfgIsRunningMode
<1>5. Alone'
  BY <1>3 DEF Alone, Idle, Quiescent
<1>6. TargetOf(op[t])' = TargetOf(op[t])
  BY <1>3 DEF TargetOf
<1>7. RequestKept'
  BY <1>3, <1>4, <1>6 DEF RequestKept, Unresolved, Committed
<1>8. AgreeInv'
  BY <1>3 DEF AgreeInv, Reached, Unresolved, Unsaved
<1> QED BY <1>5, <1>7, <1>8 DEF LoneInv

\* Every later step of a lone switch keeps it in order.
LEMMA StepLone ==
    ASSUME SafeInv, LoneInv, KvInv, ~astray, NEW t \in Threads, Step(t), ~Check(t)
    PROVE  LoneInv' /\ astray' = astray
<1> USE DEF LoneInv, At, Goto, env, mgr, cfg, store, locals, hist
<1>a. op \in [Threads -> Op] /\ target \in [Threads -> Entry \cup {NoEntry}]
      /\ byte \in [Threads -> {NoKv} \cup 0..255] /\ pc \in [Threads -> Labels]
  BY DEF SafeInv, TypeOK
<1>k. pc[t] # "idle" => op[t].kind \in {"dev", "sub"}
  BY DEF SafeInv, SwitchChecked
<1>3. CASE Deinit(t)
  <2> DEFINE q == IF op[t].kind = "dev" THEN "delsession" ELSE "setdev"
  <2>1. /\ pc[t] = "deinit" /\ pc' = [pc EXCEPT ![t] = q] /\ start' = start /\ power' = power
        /\ UNCHANGED <<env, mgr, cfg, store, locals, hist>>
    BY <1>3 DEF Deinit
  <2>2. /\ Alone' /\ pc'[t] = q
        /\ \A u \in Threads \ {t} : pc[u] = "idle" /\ pc'[u] = "idle"
        /\ \A L : "idle" \notin L => (Reached(L) <=> "deinit" \in L) /\ (Reached(L)' <=> q \in L)
    BY <2>1, OneMoves DEF Labels
  <2>4. RequestKept'
    BY <2>1, <2>2 DEF RequestKept, Idle, TargetOf, Unresolved, Committed, Labels
  <2>5. AgreeInv'
    BY <2>1, <2>2 DEF AgreeInv, Unresolved, Unsaved
  <2> QED BY <2>1, <2>2, <2>4, <2>5
<1>4. CASE DelSession(t)
  <2>1. /\ pc[t] = "delsession" /\ pc' = [pc EXCEPT ![t] = "setdev"] /\ start' = start
        /\ UNCHANGED <<env, mgr, cfg, store, locals, hist>>
    BY <1>4 DEF DelSession
  <2>2. /\ Alone' /\ pc'[t] = "setdev"
        /\ \A u \in Threads \ {t} : pc[u] = "idle" /\ pc'[u] = "idle"
        /\ \A L : "idle" \notin L => (Reached(L) <=> "delsession" \in L) /\ (Reached(L)' <=> "setdev" \in L)
    BY <2>1, OneMoves DEF Labels
  <2>4. RequestKept'
    BY <2>1, <2>2 DEF RequestKept, Idle, TargetOf, Unresolved, Committed, Labels
  <2>5. AgreeInv'
    BY <2>1, <2>2 DEF AgreeInv, Unresolved, Unsaved
  <2> QED BY <2>1, <2>2, <2>4, <2>5
<1>5. CASE SetDev(t)
  <2> DEFINE q == IF op[t].kind = "dev" THEN "setactive" ELSE "setsub"
  <2>1. /\ pc[t] = "setdev" /\ pc' = [pc EXCEPT ![t] = q] /\ start' = start
        /\ device_mode' = IF op[t].kind = "dev" THEN op[t].dev ELSE CHAT
        /\ UNCHANGED <<env, chat_sub_mode, active, cfg, store, locals, hist>>
    BY <1>5 DEF SetDev
  <2>2. /\ Alone' /\ pc'[t] = q
        /\ \A u \in Threads \ {t} : pc[u] = "idle" /\ pc'[u] = "idle"
        /\ \A L : "idle" \notin L => (Reached(L) <=> "setdev" \in L) /\ (Reached(L)' <=> q \in L)
    BY <2>1, OneMoves DEF Labels
  <2>4. RequestKept'
    BY <1>k, <2>1, <2>2 DEF RequestKept, Idle, TargetOf, Unresolved, Committed, Labels
  <2>5. AgreeInv'
    BY <2>1, <2>2 DEF AgreeInv, Unresolved, Unsaved
  <2> QED BY <2>1, <2>2, <2>4, <2>5
<1>6. CASE SetSub(t)
  <2>1. /\ pc[t] = "setsub" /\ pc' = [pc EXCEPT ![t] = "setactive"] /\ start' = start
        /\ chat_sub_mode' = op[t].sub /\ op[t].kind = "sub"
        /\ UNCHANGED <<env, device_mode, active, cfg, store, locals, hist>>
    BY <1>6 DEF SetSub, SafeInv, SwitchChecked
  <2>2. /\ Alone' /\ pc'[t] = "setactive"
        /\ \A u \in Threads \ {t} : pc[u] = "idle" /\ pc'[u] = "idle"
        /\ \A L : "idle" \notin L => (Reached(L) <=> "setsub" \in L) /\ (Reached(L)' <=> "setactive" \in L)
    BY <2>1, OneMoves DEF Labels
  <2>4. RequestKept'
    BY <2>1, <2>2 DEF RequestKept, Idle, TargetOf, Unresolved, Committed, Labels
  <2>5. AgreeInv'
    BY <2>1, <2>2 DEF AgreeInv, Unresolved, Unsaved
  <2> QED BY <2>1, <2>2, <2>4, <2>5
<1>7. CASE SetActive(t)
  <2>1. /\ pc[t] = "setactive" /\ pc' = [pc EXCEPT ![t] = "setcfg"] /\ start' = start
        /\ active' = target[t]
        /\ UNCHANGED <<env, device_mode, chat_sub_mode, cfg, store, locals, hist>>
    BY <1>7 DEF SetActive
  <2>2. /\ Alone' /\ pc'[t] = "setcfg"
        /\ \A u \in Threads \ {t} : pc[u] = "idle" /\ pc'[u] = "idle"
        /\ \A L : "idle" \notin L => (Reached(L) <=> "setactive" \in L) /\ (Reached(L)' <=> "setcfg" \in L)
    BY <2>1, OneMoves DEF Labels
  <2>3. ActiveResolved'
    <3>1. Enabled(build, target[t]) /\ target[t] = TargetOf(op[t])
      BY <2>1 DEF SafeInv, SwitchChecked, Committed, Labels, RequestKept, Unresolved
    <3>2. TargetOf(op[t]) = IF device_mode = CHAT THEN SubEntry(chat_sub_mode) ELSE DevEntry(device_mode)
      BY <1>k, <2>1 DEF RequestKept, TargetOf, Idle, Committed, Labels
    <3> QED
      BY <2>1, <3>1, <3>2 DEF ActiveResolved, ResolveActive
  <2>4. RequestKept'
    BY <2>1, <2>2 DEF RequestKept, Idle, Unresolved, Committed, Labels
  <2>5. AgreeInv'
    BY <2>1, <2>2, <2>3 DEF AgreeInv, Unresolved, Unsaved
  <2> QED BY <2>1, <2>2, <2>4, <2>5
<1>8. CASE SetCfg(t)
  <2> DEFINE b == byte'[t]
             q == IF b = NoKv THEN "init" ELSE "save"
  <2>0. /\ op[t].kind = "dev" => cfg_dev' = op[t].dev /\ cfg_sub' = cfg_sub
        /\ op[t].kind # "dev" => cfg_sub' = op[t].sub /\ cfg_dev' = cfg_dev
    BY <1>8, Zenon DEF SetCfg
  <2>1. /\ pc[t] = "setcfg" /\ pc' = [pc EXCEPT ![t] = q] /\ start' = start
        /\ power \in {"booting", "waking", "on", "sleep"}
        /\ UNCHANGED <<env, mgr, store, op, target, hist>>
    BY <1>8 DEF SetCfg
  <2>b. b = IF cfg' = cfg THEN NoKv ELSE SaveByte(cfg_dev', cfg_sub')
    <3>1. byte' = [byte EXCEPT ![t] = IF cfg' = cfg THEN NoKv ELSE SaveByte(cfg_dev', cfg_sub')]
      BY <1>8, Zenon DEF SetCfg
    <3> QED BY <1>a, <3>1
  <2>2. /\ Alone' /\ pc'[t] = q /\ start = "none"
        /\ \A u \in Threads \ {t} : pc[u] = "idle" /\ pc'[u] = "idle"
        /\ \A L : "idle" \notin L => (Reached(L) <=> "setcfg" \in L) /\ (Reached(L)' <=> q \in L)
    <3> HIDE DEF q
    <3>1. q \in Labels
      BY DEF q, Labels
    <3> QED
      BY <2>1, <3>1, OneMoves
  <2>3. CfgIsRunningMode'
    BY <1>k, <2>0, <2>1 DEF CfgIsRunningMode, RequestKept, Idle, Committed, Labels
  <2>4. b # NoKv => b = Pack(cfg_dev', cfg_sub')
    BY <2>b DEF SaveByte
  <2>6. RequestKept'
    BY <1>k, <2>0, <2>1, <2>2, <2>4 DEF RequestKept, Idle, Unresolved, Committed, Labels
  <2>7. AgreeInv'
    <3>1. power \in {"on", "sleep"}
      BY <2>1, <2>2 DEF SafeInv, Starting
    <3>2. ActiveResolved
      BY <2>2, <3>1 DEF AgreeInv, Unresolved
    <3>3. ActiveResolved'
      BY <2>1, <3>2 DEF ActiveResolved
    <3> QED
      BY <2>1, <2>2, <2>3, <3>3 DEF AgreeInv
  <2> QED BY <2>1, <2>2, <2>6, <2>7
<1>9. CASE Save(t)
  <2>1. /\ pc[t] = "save" /\ pc' = [pc EXCEPT ![t] = "init"] /\ start' = start
        /\ UNCHANGED <<env, mgr, cfg, locals, hist>>
    BY <1>9 DEF Save
  <2>2. /\ Alone' /\ pc'[t] = "init"
        /\ \A u \in Threads \ {t} : pc[u] = "idle" /\ pc'[u] = "idle"
        /\ \A L : "idle" \notin L => (Reached(L) <=> "save" \in L) /\ (Reached(L)' <=> "init" \in L)
    BY <2>1, OneMoves DEF Labels
  <2>4. RequestKept'
    BY <2>1, <2>2 DEF RequestKept, Idle, Unresolved, Committed, Labels
  <2>5. AgreeInv'
    BY <2>1, <2>2 DEF AgreeInv, ActiveResolved, CfgIsRunningMode, Unresolved, Unsaved
  <2> QED BY <2>1, <2>2, <2>4, <2>5
<1>10. CASE InitMode(t)
  <2>1. /\ pc[t] = "init" /\ pc' = [pc EXCEPT ![t] = "idle"] /\ start' = start
        /\ UNCHANGED <<env, mgr, cfg, store, hist>>
    BY <1>10 DEF InitMode, Return
  <2>2. /\ Alone' /\ pc'[t] = "idle"
        /\ \A u \in Threads \ {t} : pc[u] = "idle" /\ pc'[u] = "idle"
        /\ \A L : "idle" \notin L => (Reached(L) <=> "init" \in L) /\ (Reached(L)' <=> "idle" \in L)
    BY <2>1, OneMoves DEF Labels
  <2>4. RequestKept'
    BY <2>2 DEF RequestKept, Idle, Unresolved, Committed
  <2>5. AgreeInv'
    BY <2>1, <2>2 DEF AgreeInv, ActiveResolved, CfgIsRunningMode, Unresolved, Unsaved
  <2> QED BY <2>1, <2>2, <2>4, <2>5
<1> QED
  BY <1>3, <1>4, <1>5, <1>6, <1>7, <1>8, <1>9, <1>10 DEF Step

\* A step that changes neither the configuration nor the stored byte keeps KvInv when no
\* thread leaves the save.
LEMMA KvSame ==
    ASSUME KvInv, UNCHANGED <<cfg, store>>, power # "off", Reached({"save"}) => Reached({"save"})'
    PROVE  KvInv'
BY DEF KvInv, KvTracksCfg, cfg, store

\* Every step of a switch keeps KvInv, with any number of switches in flight.
LEMMA StepKv ==
    ASSUME SafeInv, AgreementInv, NEW t \in Threads, Step(t)
    PROVE  KvInv'
<1> USE DEF At, Goto
<1>a. op \in [Threads -> Op] /\ byte \in [Threads -> {NoKv} \cup 0..255] /\ pc \in [Threads -> Labels]
  BY DEF SafeInv, TypeOK
<1>b. KvInv /\ power # "off"
  BY DEF AgreementInv, Step, Check, Deinit, DelSession, SetDev, SetSub, SetActive, SetCfg, Save, InitMode
<1>1. ASSUME NEW q, pc[t] # "save", pc' = [pc EXCEPT ![t] = q], UNCHANGED <<cfg, store>>
      PROVE  KvInv'
  <2>1. Reached({"save"}) => Reached({"save"})'
    BY <1>1, <1>a DEF Reached
  <2> QED BY <1>1, <1>b, <2>1, KvSame
<1>2. CASE Check(t)
  <2>1. PICK q : pc' = [pc EXCEPT ![t] = q] /\ pc[t] # "save" /\ UNCHANGED <<cfg, store>>
    BY <1>2, Zenon DEF Check, Return
  <2> QED BY <1>1, <2>1
<1>3. CASE Deinit(t) \/ DelSession(t) \/ SetDev(t)
  <2>1. PICK q : pc' = [pc EXCEPT ![t] = q] /\ pc[t] # "save" /\ UNCHANGED <<cfg, store>>
    BY <1>3, Zenon DEF Deinit, DelSession, SetDev
  <2> QED BY <1>1, <2>1
<1>4. CASE SetSub(t) \/ SetActive(t) \/ InitMode(t)
  <2>1. PICK q : pc' = [pc EXCEPT ![t] = q] /\ pc[t] # "save" /\ UNCHANGED <<cfg, store>>
    BY <1>4, Zenon DEF SetSub, SetActive, InitMode, Return
  <2> QED BY <1>1, <2>1
<1>5. CASE SetCfg(t)
  <2>1. /\ pc[t] = "setcfg" /\ UNCHANGED store
        /\ byte' = [byte EXCEPT ![t] = IF cfg' = cfg THEN NoKv ELSE SaveByte(cfg_dev', cfg_sub')]
        /\ pc' = [pc EXCEPT ![t] = IF byte'[t] = NoKv THEN "init" ELSE "save"]
    BY <1>5, Zenon DEF SetCfg
  <2>2. CASE cfg' = cfg
    <3>1. byte'[t] = NoKv
      BY <1>a, <2>1, <2>2
    <3>2. pc' = [pc EXCEPT ![t] = "init"] /\ pc[t] # "save"
      BY <2>1, <3>1
    <3> QED BY <1>1, <2>1, <2>2, <3>2 DEF cfg, store
  <2>3. CASE cfg' # cfg
    <3>1. byte'[t] = SaveByte(cfg_dev', cfg_sub')
      BY <1>a, <2>1, <2>3
    <3>2. CASE cfg_dev' \in Transient
      BY <3>2 DEF KvInv, KvTracksCfg
    <3>3. CASE cfg_dev' \notin Transient
      <4>0. /\ op[t].kind = "dev" => cfg_dev' = op[t].dev /\ cfg_sub' = cfg_sub
            /\ op[t].kind # "dev" => cfg_sub' = op[t].sub /\ cfg_dev' = cfg_dev
        BY <1>5, Zenon DEF SetCfg
      <4>1. cfg_dev' \in Devs /\ cfg_sub' \in Subs
        BY <1>a, <2>1, <4>0 DEF SafeInv, TypeOK, Op, SwitchChecked, Committed, Labels
      <4>2. byte'[t] # NoKv
        BY <3>1, <3>3, <4>1, PackUnpack DEF SaveByte
      <4>3. pc'[t] = "save"
        BY <1>a, <2>1, <4>2
      <4> QED BY <4>3 DEF KvInv, Reached
    <3> QED BY <3>2, <3>3
  <2> QED BY <2>2, <2>3
<1>6. CASE Save(t)
  <2>1. /\ pc[t] = "save" /\ pc' = [pc EXCEPT ![t] = "init"] /\ Written(byte[t])
        /\ UNCHANGED cfg
    BY <1>6 DEF Save
  <2>2. CASE kvStale'
    BY <2>2 DEF KvInv, KvTracksCfg
  <2>3. CASE ~kvStale'
    <3>0. kv' = byte[t] /\ kvStale' = astray
      BY <2>1, <2>3, Zenon DEF Written
    <3>1. kv' = byte[t] /\ ~astray
      BY <2>3, <3>0, SMT
    <3>2. byte[t] = Pack(cfg_dev, cfg_sub)
      BY <2>1, <3>1 DEF AgreementInv, LoneInv, RequestKept
    <3> QED BY <2>1, <3>1, <3>2 DEF KvInv, KvTracksCfg, cfg
  <2> QED BY <2>2, <2>3
<1> QED BY <1>2, <1>3, <1>4, <1>5, <1>6 DEF Step

\* Every step of a switch keeps the agreement's invariant.
LEMMA StepAgreement ==
    ASSUME SafeInv, AgreementInv, NEW t \in Threads, Step(t)
    PROVE  AgreementInv'
<1>1. KvInv'
  BY StepKv
<1>2. ASSUME ~astray' PROVE LoneInv'
  <2>1. CASE Check(t)
    <3>1. CASE Return(t) /\ UNCHANGED hist
      <4>1. /\ ~astray /\ pc[t] = "check" /\ pc' = [pc EXCEPT ![t] = "idle"]
            /\ UNCHANGED <<env, mgr, cfg, store>>
        BY <1>2, <2>1, <3>1 DEF Check, At, Return, Goto, hist
      <4> USE DEF env, mgr, cfg, LoneInv
      <4>2. SafeInv /\ LoneInv /\ start' = start
        BY <4>1 DEF AgreementInv
      <4>3. /\ Alone' /\ pc'[t] = "idle"
            /\ \A u \in Threads \ {t} : pc[u] = "idle" /\ pc'[u] = "idle"
            /\ \A L : "idle" \notin L => (Reached(L) <=> "check" \in L) /\ (Reached(L)' <=> "idle" \in L)
        BY <4>1, <4>2, OneMoves DEF Labels
      <4>4. RequestKept'
        BY <4>3 DEF RequestKept, Unresolved, Committed
      <4>5. AgreeInv'
        BY <4>1, <4>2, <4>3 DEF AgreeInv, ActiveResolved, CfgIsRunningMode, Unresolved, Unsaved
      <4> QED BY <4>3, <4>4, <4>5
    <3>2. CASE ~(Return(t) /\ UNCHANGED hist)
      <4>1. /\ At(t, "check") /\ Enabled(build, TargetOf(op[t])) /\ Committing(t)
            /\ pc' = [pc EXCEPT ![t] = "deinit"] /\ target' = [target EXCEPT ![t] = TargetOf(op[t])]
            /\ UNCHANGED <<env, mgr, cfg, op, byte>>
        BY <2>1, <3>2, Zenon DEF Check, Goto
      <4> QED BY <1>2, <4>1, CheckLone
    <3> QED BY <3>1, <3>2
  <2>2. CASE ~Check(t)
    <3>1. astray' = astray
      BY <2>2, Zenon DEF Step, Deinit, DelSession, SetDev, SetSub, SetActive, SetCfg, Save, InitMode, hist
    <3> QED BY <1>2, <2>2, <3>1, StepLone DEF AgreementInv
  <2> QED BY <2>1, <2>2
<1> QED BY <1>1, <1>2 DEF AgreementInv

\* The byte that is stored unpacks to a mode whose packing it is.
LEMMA UnpackPack ==
    ASSUME NEW k \in 0..255
    PROVE  Pack(UnpackDev(k), UnpackSub(k)) = k
BY DEF Pack, UnpackDev, UnpackSub

\* A caller that starts a switch keeps the invariant: it goes astray, or is alone.
LEMMA StartAgreement ==
    ASSUME SafeInv, AgreementInv, NEW t \in Threads, NEW o \in Op, Start(t, o)
    PROVE  AgreementInv'
<1> USE DEF env, mgr, cfg, store
<1>0. /\ pc \in [Threads -> Labels] /\ op \in [Threads -> Op]
      /\ pc[t] = "idle" /\ pc' = [pc EXCEPT ![t] = "check"]
      /\ UNCHANGED <<env, mgr, cfg, store>> /\ power # "off"
  BY DEF SafeInv, TypeOK, Start, Idle
<1>1. KvInv'
  <2>1. Reached({"save"}) => Reached({"save"})'
    BY <1>0 DEF Reached
  <2> QED BY <1>0, <2>1, KvSame DEF AgreementInv
<1>2. ASSUME ~astray' PROVE LoneInv'
  <2>1. Lone(t) /\ ~astray
    BY <1>2, Zenon DEF Start
  <2>2. LoneInv
    BY <2>1 DEF AgreementInv
  <2>3. /\ pc'[t] = "check" /\ start = "none" /\ start' = "none"
        /\ \A u \in Threads \ {t} : pc[u] = "idle" /\ pc'[u] = "idle"
    BY <1>0, <2>1 DEF Lone, Idle
  <2>4. Alone'
    BY <2>3 DEF Alone, Quiescent, Idle
  <2>5. RequestKept'
    BY <2>3 DEF RequestKept, Unresolved, Committed
  <2>6. \A L : "check" \notin L /\ "idle" \notin L => ~Reached(L) /\ ~Reached(L)'
    BY <1>0, <2>3 DEF Reached
  <2>7. AgreeInv'
    BY <1>0, <2>2, <2>6 DEF LoneInv, AgreeInv, ActiveResolved, CfgIsRunningMode, Unresolved, Unsaved
  <2> QED BY <2>4, <2>5, <2>7 DEF LoneInv
<1> QED BY <1>1, <1>2 DEF AgreementInv

\* A step that leaves the threads, the manager and the configuration alone.
LEMMA IdleAgreement ==
    ASSUME AgreementInv, UNCHANGED <<build, start, mgr, cfg, pc, locals, astray>>,
           UNCHANGED store \/ kv' = NoKv,
           power' = power \/ (power' = "sleep" /\ power = "on")
    PROVE  AgreementInv'
<1> USE DEF AgreementInv, mgr, cfg, locals, store
<1>1. \A L : Reached(L)' <=> Reached(L)
  BY DEF Reached
<1>2. KvInv'
  BY <1>1 DEF KvInv, KvTracksCfg
<1>3. ASSUME ~astray' PROVE LoneInv'
  <2>1. LoneInv
    BY <1>3
  <2>2. Alone' /\ RequestKept'
    BY <2>1 DEF LoneInv, Alone, Quiescent, Idle, RequestKept, TargetOf
  <2>3. (ActiveResolved => ActiveResolved') /\ (CfgIsRunningMode => CfgIsRunningMode')
    BY DEF ActiveResolved, CfgIsRunningMode
  <2>4. AgreeInv'
    BY <1>1, <2>1, <2>3 DEF LoneInv, AgreeInv
  <2> QED BY <2>2, <2>4 DEF LoneInv
<1> QED BY <1>2, <1>3

\* What wukong_ai_mode_init picks agrees: the mode that runs is the configuration's, and the
\* stored byte is too if it was before, or if it was just written.
LEMMA PickAgreement ==
    ASSUME SafeInv, AgreementInv, PickMode
    PROVE  AgreementInv'
<1>0. build \in Builds /\ cfg_dev \in Devs /\ cfg_sub \in Subs
  BY DEF SafeInv, TypeOK
<1>1. PICK e : e = PickEntry(build, cfg_dev, cfg_sub)
  OBVIOUS
<1>2. PICK sub : sub = ManagerSub(build, cfg_dev, cfg_sub, chat_sub_mode)
  OBVIOUS
<1>3. /\ start = "pick" /\ UNCHANGED <<build, cfg_dev, pc, op, target, byte, astray>>
      /\ power \in {"booting", "waking"}
  BY DEF PickMode, locals, hist, SafeInv, Starting
<1>4. \A L : Reached(L)' <=> Reached(L)
  BY <1>3 DEF Reached
<1>5. CASE Enabled(build, e)
  <2>1. /\ device_mode' = cfg_dev /\ chat_sub_mode' = sub /\ active' = e
        /\ start' = "init" /\ power' = power
        /\ \/ cfg_dev = CHAT /\ sub # cfg_sub /\ cfg_sub' = sub /\ Written(Pack(CHAT, sub))
           \/ UNCHANGED <<cfg_sub, kv, kvStale>>
    BY <1>1, <1>2, <1>5, Zenon DEF PickMode, store
  <2>2. KvInv'
    <3>1. CASE UNCHANGED <<cfg_sub, kv, kvStale>>
      BY <1>3, <1>4, <2>1, <3>1 DEF AgreementInv, KvInv, KvTracksCfg
    <3>2. CASE cfg_dev = CHAT /\ cfg_sub' = sub /\ Written(Pack(CHAT, sub))
      <4>1. kv' = Pack(CHAT, sub) \/ kvStale'
        BY <3>2, Zenon DEF Written
      <4> QED BY <1>3, <3>2, <4>1 DEF KvInv, KvTracksCfg
    <3> QED BY <2>1, <3>1, <3>2
  <2>3. ASSUME ~astray' PROVE LoneInv'
    <3>1. LoneInv /\ \A t \in Threads : pc[t] = "idle" /\ pc'[t] = "idle"
      BY <1>3, <2>3 DEF AgreementInv, LoneInv, Alone, Quiescent, Idle
    <3>2. Alone' /\ RequestKept'
      BY <3>1 DEF Alone, RequestKept, Quiescent, Idle, Unresolved, Committed
    <3>3. ResolveActive(build, cfg_dev, sub) = e
      BY <1>1, <1>2, <1>5 DEF ResolveActive, PickEntry, ManagerSub
    <3>4. ActiveResolved' /\ CfgIsRunningMode'
      BY <1>3, <2>1, <3>3 DEF ActiveResolved, CfgIsRunningMode
    <3> QED BY <3>2, <3>4 DEF LoneInv, AgreeInv
  <2> QED BY <2>2, <2>3 DEF AgreementInv
<1>6. CASE ~Enabled(build, e)
  <2>1. /\ power' = "failed" /\ start' = "none" /\ UNCHANGED <<mgr, cfg_sub, kv, kvStale>>
    BY <1>1, <1>6, Zenon DEF PickMode, store
  <2>2. KvInv'
    BY <1>3, <1>4, <2>1 DEF AgreementInv, KvInv, KvTracksCfg
  <2>3. ASSUME ~astray' PROVE LoneInv'
    <3>1. LoneInv /\ \A t \in Threads : pc[t] = "idle" /\ pc'[t] = "idle"
      BY <1>3, <2>3 DEF AgreementInv, LoneInv, Alone, Quiescent, Idle
    <3> QED
      BY <2>1, <3>1 DEF LoneInv, AgreeInv, Alone, RequestKept, Quiescent, Idle, Unresolved, Committed
  <2> QED BY <2>2, <2>3 DEF AgreementInv
<1> QED BY <1>5, <1>6

\* Every step of the manager keeps the invariant, for any threads and any overlap.
LEMMA NextAgreement ==
    ASSUME SafeInv, AgreementInv, [Next]_vars
    PROVE  AgreementInv'
<1>1. ASSUME NEW t \in Threads, DoublePress(t)
      PROVE  AgreementInv'
  <2>1. build.subs \in SUBSET Subs /\ build.subs # {} /\ chat_sub_mode \in Subs
    BY BuildsAssumption DEF SafeInv, TypeOK, Build
  <2>2. (chat_sub_mode + 1) % 4 \in Subs
    BY <2>1 DEF Subs
  <2>3. FirstEnabled(build.subs, (chat_sub_mode + 1) % 4) \in Subs /\ CHAT \in Devs
    BY <2>1, <2>2, FirstEnabledIn DEF CHAT, Devs
  <2>4. PICK o \in Op : Start(t, o)
    BY <1>1, <2>3, OpTypes DEF DoublePress
  <2> QED BY <2>4, StartAgreement
<1>2. ASSUME NEW t \in Threads, NEW d \in Devs, RequestDevice(t, d)
      PROVE  AgreementInv'
  BY <1>2, OpTypes, StartAgreement DEF RequestDevice
<1>3. ASSUME NEW t \in Threads, NEW s \in Subs \cup {InvalidSub}, McpSetMode(t, s)
      PROVE  AgreementInv'
  BY <1>3, OpTypes, StartAgreement DEF McpSetMode
<1>4. ASSUME NEW t \in Threads, Step(t)
      PROVE  AgreementInv'
  BY <1>4, StepAgreement
<1>5. CASE OpenSession
  BY <1>5, IdleAgreement DEF OpenSession, env
<1>6. CASE Boot
  <2>1. LoadDev(kv) \in Devs /\ LoadSub(kv, build.default) \in Subs
    BY LoadTypes, BuildsAssumption DEF SafeInv, TypeOK, Build
  <2>2. kv # NoKv => kv = Pack(LoadDev(kv), LoadSub(kv, build.default))
    BY UnpackPack DEF SafeInv, TypeOK, KvNeverTransient, LoadDev, LoadSub
  <2>3. /\ cfg_dev' = LoadDev(kv) /\ cfg_sub' = LoadSub(kv, build.default) /\ kv' = kv
        /\ pc' = pc /\ start' = "pick" /\ power' = "booting" /\ Quiescent
    BY <1>6 DEF Boot, ClearManager, store, SafeInv, OffQuiet
  <2>4. KvInv'
    BY <2>2, <2>3 DEF KvInv, KvTracksCfg
  <2>5. LoneInv'
    BY <2>3 DEF LoneInv, Alone, RequestKept, AgreeInv, Quiescent, Idle, Unresolved, Committed
  <2> QED
    BY <2>4, <2>5 DEF AgreementInv
<1>7. CASE EnterLowPower
  BY <1>7, IdleAgreement DEF EnterLowPower, hist
<1>8. CASE ExitLowPower
  <2>1. /\ pc' = pc /\ start' = "pick" /\ power' = "waking" /\ power = "sleep"
        /\ UNCHANGED <<cfg, store>>
    BY <1>8 DEF ExitLowPower, ClearManager
  <2>2. KvInv'
    <3>1. Reached({"save"}) => Reached({"save"})'
      BY <2>1 DEF Reached
    <3> QED BY <2>1, <3>1, KvSame DEF AgreementInv
  <2>3. ASSUME ~astray' PROVE LoneInv'
    <3>1. Quiescent
      BY <1>8, <2>3, Zenon DEF ExitLowPower
    <3> QED
      BY <2>1, <3>1 DEF LoneInv, Alone, RequestKept, AgreeInv, Quiescent, Idle, Unresolved, Committed
  <2> QED BY <2>2, <2>3 DEF AgreementInv
<1>9. CASE PowerLoss
  BY <1>9 DEF PowerLoss, AgreementInv, KvInv, LoneInv, Alone, RequestKept, AgreeInv, Quiescent, Idle,
              Unresolved, Committed
<1>10. CASE Upgrade
  <2>1. power' = "off" /\ start' = start /\ pc' = pc /\ Quiescent /\ start = "none"
    BY <1>10 DEF Upgrade, SafeInv, OffQuiet, Starting, TypeOK
  <2> QED
    BY <2>1 DEF AgreementInv, KvInv, LoneInv, Alone, RequestKept, AgreeInv, Quiescent, Idle,
                Unresolved, Committed
<1>11. CASE FactoryReset
  <2>1. UNCHANGED <<build, start, mgr, cfg, pc, locals, astray>> /\ kv' = NoKv /\ power' = power
    BY <1>11 DEF FactoryReset, env, hist
  <2> QED BY <2>1, IdleAgreement
<1>12. CASE UNCHANGED vars
  <2>1. /\ UNCHANGED <<build, start, mgr, cfg, pc, locals, astray>>
        /\ UNCHANGED store /\ power' = power
    BY <1>12, Zenon DEF vars, env, hist
  <2> QED BY <2>1, IdleAgreement
<1>13. CASE PickMode
  BY <1>13, PickAgreement
<1>14. CASE StartMode
  <2>1. /\ start = "init" /\ start' = "none" /\ power' = "on" /\ power # "off"
        /\ UNCHANGED <<build, mgr, cfg, store, pc, locals, astray>>
    BY <1>14 DEF StartMode, hist, SafeInv, Starting
  <2>2. \A L : Reached(L)' <=> Reached(L)
    BY <2>1 DEF Reached
  <2>3. KvInv'
    BY <2>1, <2>2, KvSame DEF AgreementInv
  <2>4. ASSUME ~astray' PROVE LoneInv'
    <3>1. LoneInv /\ \A t \in Threads : pc[t] = "idle" /\ pc'[t] = "idle"
      BY <2>1, <2>4 DEF AgreementInv, LoneInv, Alone, Quiescent, Idle
    <3>2. Alone' /\ RequestKept'
      BY <2>1, <3>1 DEF Alone, RequestKept, Quiescent, Idle, Unresolved, Committed
    <3>3. ActiveResolved /\ CfgIsRunningMode
      BY <2>1, <3>1 DEF LoneInv, AgreeInv, Reached, Unresolved, Unsaved
    <3>4. ActiveResolved' /\ CfgIsRunningMode'
      BY <2>1, <3>3 DEF ActiveResolved, CfgIsRunningMode, mgr, cfg
    <3> QED BY <3>2, <3>4 DEF LoneInv, AgreeInv
  <2> QED BY <2>3, <2>4 DEF AgreementInv
<1> QED
  BY <1>1, <1>2, <1>3, <1>4, <1>5, <1>6, <1>7, <1>8, <1>9, <1>10, <1>11, <1>12, <1>13, <1>14 DEF Next

\* The initial state satisfies the agreement's invariant.
LEMMA InitAgreement == Init => AgreementInv
BY DEF Init, AgreementInv, KvInv, LoneInv, Alone, RequestKept, AgreeInv, Quiescent, Idle, Unresolved,
       Committed

\* For any threads and any images, with switches overlapping, failed writes, factory resets,
\* sleeps and power losses at any step: between switches manager, configuration and stored
\* byte agree, unless the last switch went astray and none restored the agreement since.
THEOREM ModesAgree == Spec => []Coherent
<1>1. AgreementInv => Coherent
  BY DEF AgreementInv, LoneInv, AgreeInv, KvInv, Coherent, Quiescent, Idle, Reached, Unresolved, Unsaved
<1> QED
  BY <1>1, InitAgreement, NextAgreement, SafeAlways, PTL DEF Spec

-----------------------------------------------------------------------------
(* What is initialised and open.                                           *)

\* The steps of a switch between DEINIT and INIT, and after the session was deleted.
Closed == {"delsession", "setdev", "setsub", "setactive", "setcfg", "save", "init"}
Deleted(t) == op[t].kind = "dev" /\ pc[t] \in Closed \ {"delsession"}

\* Unless switches went astray, the active mode is initialised or a switch is under way.
ActiveInited ==
    ~astray /\ power \in {"on", "sleep"} => active \in inited \/ Reached(Committed)

\* Initialised modes and open sessions, during a switch and during a start too.
OpenInv ==
    /\ ~astray
    /\ power \in {"on", "sleep"} => inited = IF Reached(Closed) THEN {} ELSE {active}
    /\ power = "on" => sessions \subseteq IF \E t \in Threads : Deleted(t) THEN {} ELSE {device_mode}
    /\ power \in {"off", "sleep"} => sessions = {}
    /\ power = "off" => inited = {}
    /\ start = "pick" =>
          /\ active = NoEntry /\ sessions = {}
          /\ inited \subseteq {PickEntry(build, cfg_dev, cfg_sub)}
    /\ start = "init" => inited \subseteq {active} /\ sessions \subseteq {device_mode}

\* The inductive invariant for what is open.
LeakInv == ActiveInited /\ (~leaky => OpenInv)

\* A step that moves one thread, or none, between steps on the same side of DEINIT and INIT
\* and touches nothing that OpenInv reads.
LEMMA OpenSame ==
    ASSUME OpenInv, start = "none",
           UNCHANGED <<power, start, active, device_mode, inited, sessions, astray>>,
           Reached(Closed)' <=> Reached(Closed),
           (\E u \in Threads : Deleted(u)') <=> (\E u \in Threads : Deleted(u))
    PROVE  OpenInv'
BY DEF OpenInv

\* A step of a switch that is not astray, as the invariant sees it.
LEMMA LoneStep ==
    ASSUME SafeInv, LoneInv, NEW t \in Threads, pc[t] # "idle", NEW q \in Labels,
           pc' = [pc EXCEPT ![t] = q], start' = start, op'[t] = op[t] \/ q = "idle"
    PROVE  /\ start = "none"
           /\ \A L : "idle" \notin L => (Reached(L) <=> pc[t] \in L) /\ (Reached(L)' <=> q \in L)
           /\ (\E u \in Threads : Deleted(u)) <=> Deleted(t)
           /\ (\E u \in Threads : Deleted(u)') <=> (op[t].kind = "dev" /\ q \in Closed \ {"delsession"})
<1>1. /\ start = "none" /\ pc'[t] = q
      /\ \A u \in Threads \ {t} : pc[u] = "idle" /\ pc'[u] = "idle"
      /\ \A L : "idle" \notin L => (Reached(L) <=> pc[t] \in L) /\ (Reached(L)' <=> q \in L)
  <2>1. start = "none" /\ \A u \in Threads \ {t} : pc[u] = "idle"
    BY OthersIdle DEF Idle, LoneInv
  <2>2. pc'[t] = q /\ \A u \in Threads \ {t} : pc'[u] = "idle"
    BY <2>1 DEF SafeInv, TypeOK
  <2>3. ASSUME NEW L, "idle" \notin L
        PROVE  (Reached(L) <=> pc[t] \in L) /\ (Reached(L)' <=> q \in L)
    BY <2>1, <2>2, <2>3 DEF Reached
  <2> QED BY <2>1, <2>2, <2>3
<1>2. (\E u \in Threads : Deleted(u)) <=> Deleted(t)
  BY <1>1 DEF Deleted, Closed
<1>3. (\E u \in Threads : Deleted(u)') <=> Deleted(t)'
  BY <1>1 DEF Deleted, Closed
<1>4. Deleted(t)' <=> (op[t].kind = "dev" /\ q \in Closed \ {"delsession"})
  BY <1>1 DEF Deleted, Closed
<1> QED BY <1>1, <1>2, <1>3, <1>4

\* Every step of a lone switch after its checks keeps OpenInv.
LEMMA StepOpen ==
    ASSUME SafeInv, AgreementInv, OpenInv, NEW t \in Threads, Step(t), ~Check(t)
    PROVE  OpenInv'
<1> USE DEF At, Goto, env, mgr, cfg, store, locals, hist
<1>a. op \in [Threads -> Op] /\ pc \in [Threads -> Labels]
  BY DEF SafeInv, TypeOK
<1>b. pc[t] # "idle" /\ LoneInv /\ power \in {"booting", "waking", "on", "sleep"}
  BY DEF Step, Check, Deinit, DelSession, SetDev, SetSub, SetActive, SetCfg, Save, InitMode,
         AgreementInv, OpenInv
<1>e. ASSUME NEW q \in Labels, pc' = [pc EXCEPT ![t] = q], start' = start, op'[t] = op[t] \/ q = "idle"
      PROVE  /\ start = "none"
             /\ Reached(Closed) <=> pc[t] \in Closed
             /\ Reached(Closed)' <=> q \in Closed
             /\ (\E u \in Threads : Deleted(u)) <=> Deleted(t)
             /\ (\E u \in Threads : Deleted(u)') <=> (op[t].kind = "dev" /\ q \in Closed \ {"delsession"})
             /\ power \in {"on", "sleep"}
  <2>1. start = "none"
    BY <1>b, <1>e, LoneStep
  <2> QED BY <1>b, <1>e, <2>1, LoneStep DEF Closed, SafeInv, Starting
<1>2. CASE Deinit(t)
  <2>1. PICK q \in {"delsession", "setdev"} :
           /\ pc[t] = "deinit" /\ pc' = [pc EXCEPT ![t] = q] /\ op' = op
           /\ op[t].kind = "dev" => q = "delsession"
           /\ UNCHANGED <<power, start, active, device_mode, sessions, astray>>
           /\ inited' = inited \ {active}
    BY <1>2 DEF Deinit
  <2>2. inited' = {} /\ Reached(Closed)'
    BY <1>e, <2>1 DEF OpenInv, Closed, Labels
  <2> QED
    BY <1>e, <2>1, <2>2 DEF OpenInv, Closed, Deleted, Labels
<1>3. CASE DelSession(t)
  <2>1. /\ pc[t] = "delsession" /\ pc' = [pc EXCEPT ![t] = "setdev"] /\ op' = op
        /\ UNCHANGED <<power, start, active, device_mode, inited, astray>>
        /\ sessions' = sessions \ {device_mode}
    BY <1>3 DEF DelSession
  <2>2. sessions' = {}
    BY <1>e, <2>1 DEF OpenInv, Deleted, Labels
  <2> QED
    BY <1>e, <2>1, <2>2 DEF OpenInv, Closed, Labels
<1>4. CASE SetDev(t)
  <2>1. PICK q \in {"setactive", "setsub"} :
           /\ pc[t] = "setdev" /\ pc' = [pc EXCEPT ![t] = q] /\ op' = op
           /\ UNCHANGED <<power, start, active, inited, sessions, astray>>
           /\ device_mode' = IF op[t].kind = "dev" THEN op[t].dev ELSE CHAT
    BY <1>4 DEF SetDev
  <2>2. op[t].kind # "dev" => device_mode' = device_mode
    BY <1>b, <2>1 DEF SafeInv, SwitchChecked, LoneInv, RequestKept, Committed, Labels
  <2> QED
    BY <1>e, <2>1, <2>2 DEF OpenInv, Closed, Deleted, Labels
<1>5. CASE SetSub(t)
  <2>1. /\ pc[t] = "setsub" /\ pc' = [pc EXCEPT ![t] = "setactive"] /\ op' = op
        /\ UNCHANGED <<power, start, active, device_mode, inited, sessions, astray>>
    BY <1>5 DEF SetSub
  <2> QED
    BY <1>e, <2>1, OpenSame DEF Labels, Closed, Deleted
<1>6. CASE SetActive(t)
  <2>1. /\ pc[t] = "setactive" /\ pc' = [pc EXCEPT ![t] = "setcfg"] /\ op' = op
        /\ UNCHANGED <<power, start, device_mode, inited, sessions, astray>>
    BY <1>6 DEF SetActive
  <2> QED
    BY <1>e, <2>1 DEF OpenInv, Closed, Deleted, Labels
<1>7. CASE SetCfg(t)
  <2>1. PICK q \in {"init", "save"} :
           /\ pc[t] = "setcfg" /\ pc' = [pc EXCEPT ![t] = q] /\ op' = op
           /\ UNCHANGED <<power, start, active, device_mode, inited, sessions, astray>>
    BY <1>7, Zenon DEF SetCfg
  <2> QED
    BY <1>e, <2>1, OpenSame DEF Labels, Closed, Deleted
<1>8. CASE Save(t)
  <2>1. /\ pc[t] = "save" /\ pc' = [pc EXCEPT ![t] = "init"] /\ op' = op
        /\ UNCHANGED <<power, start, active, device_mode, inited, sessions, astray>>
    BY <1>8 DEF Save
  <2> QED
    BY <1>e, <2>1, OpenSame DEF Labels, Closed, Deleted
<1>9. CASE InitMode(t)
  <2>1. /\ pc[t] = "init" /\ pc' = [pc EXCEPT ![t] = "idle"]
        /\ UNCHANGED <<power, start, active, device_mode, sessions, astray>>
        /\ inited' = IF active = NoEntry THEN inited ELSE inited \cup {active}
    BY <1>9 DEF InitMode, Return
  <2>2. power \in {"on", "sleep"} /\ start = "none"
    BY <1>e, <2>1 DEF Labels
  <2>3. active # NoEntry
    BY <2>2 DEF SafeInv, ActiveEnabled, Enabled, NoEntry
  <2>4. inited = {}
    BY <2>1, <2>2 DEF OpenInv, Reached, Closed
  <2>5. inited' = {active}
    BY <2>1, <2>3, <2>4
  <2> QED
    BY <1>e, <2>1, <2>2, <2>5 DEF OpenInv, Closed, Deleted, Labels
<1> QED
  BY <1>2, <1>3, <1>4, <1>5, <1>6, <1>7, <1>8, <1>9 DEF Step

\* Every step of a switch keeps LeakInv.
LEMMA StepLeak ==
    ASSUME SafeInv, AgreementInv, LeakInv, NEW t \in Threads, Step(t)
    PROVE  LeakInv'
<1> USE DEF At, Goto, env, mgr, cfg, store, locals, hist
<1>a. op \in [Threads -> Op] /\ pc \in [Threads -> Labels]
  BY DEF SafeInv, TypeOK
<1>1. CASE Check(t)
  <2>0. /\ pc[t] = "check" /\ power' = power /\ start' = start
        /\ power \in {"booting", "waking", "on", "sleep"}
        /\ UNCHANGED <<active, device_mode, inited, sessions>>
    BY <1>1 DEF Check
  <2>1. CASE Return(t) /\ UNCHANGED hist
    <3>1. pc' = [pc EXCEPT ![t] = "idle"] /\ astray' = astray /\ leaky' = leaky
      BY <2>1 DEF Return
    <3>2. ASSUME ~astray PROVE /\ start = "none"
                               /\ \A L : "idle" \notin L => (Reached(L) <=> "check" \in L) /\ ~Reached(L)'
                               /\ ~(\E u \in Threads : Deleted(u)) /\ ~(\E u \in Threads : Deleted(u)')
      <4>1. "idle" \in Labels /\ LoneInv /\ pc[t] # "idle"
        BY <2>0, <3>2 DEF AgreementInv, Labels
      <4>2. /\ start = "none"
            /\ \A L : "idle" \notin L => (Reached(L) <=> pc[t] \in L) /\ (Reached(L)' <=> "idle" \in L)
            /\ (\E u \in Threads : Deleted(u)) <=> Deleted(t)
            /\ (\E u \in Threads : Deleted(u)') <=> (op[t].kind = "dev" /\ "idle" \in Closed \ {"delsession"})
        BY <2>0, <3>1, <4>1, LoneStep
      <4> QED BY <2>0, <4>2 DEF Closed, Deleted
    <3>3. ActiveInited'
      BY <2>0, <3>1, <3>2 DEF LeakInv, ActiveInited, Committed
    <3>4. ~leaky' => OpenInv'
      BY <2>0, <3>1, <3>2, OpenSame DEF LeakInv, OpenInv, Closed
    <3> QED BY <3>3, <3>4 DEF LeakInv
  <2>2. CASE ~(Return(t) /\ UNCHANGED hist)
    <3>1. pc' = [pc EXCEPT ![t] = "deinit"] /\ op' = op /\ Committing(t)
      BY <1>1, <2>2, Zenon DEF Check
    <3>2. ActiveInited'
      <4>1. pc'[t] = "deinit"
        BY <1>a, <3>1
      <4> QED BY <4>1 DEF ActiveInited, Reached, Committed, Labels
    <3>3. ASSUME ~leaky' PROVE OpenInv'
      <4>1. ~leaky /\ ~(op[t].kind = "sub" /\ device_mode # CHAT)
        BY <3>1, <3>3, Zenon DEF Committing
      <4>2. OpenInv /\ ~astray
        BY <4>1 DEF LeakInv, OpenInv
      <4>3. astray' = FALSE \/ astray' = (astray \/ (op[t].kind = "sub" /\ device_mode # CHAT))
        BY <3>1, Zenon DEF Committing
      <4>4. ~astray'
        BY <4>1, <4>2, <4>3, Zenon
      <4>5. /\ start = "none"
            /\ Reached(Closed)' <=> Reached(Closed)
            /\ (\E u \in Threads : Deleted(u)') <=> (\E u \in Threads : Deleted(u))
        <5>1. "deinit" \in Labels /\ LoneInv /\ pc[t] # "idle" /\ op'[t] = op[t]
          BY <2>0, <3>1, <4>2 DEF AgreementInv, Labels
        <5>2. /\ start = "none"
              /\ \A L : "idle" \notin L => (Reached(L) <=> pc[t] \in L) /\ (Reached(L)' <=> "deinit" \in L)
              /\ (\E u \in Threads : Deleted(u)) <=> Deleted(t)
              /\ (\E u \in Threads : Deleted(u)') <=> (op[t].kind = "dev" /\ "deinit" \in Closed \ {"delsession"})
          BY <2>0, <3>1, <5>1, LoneStep
        <5> QED BY <2>0, <5>2 DEF Closed, Deleted
      <4> QED
        BY <2>0, <4>2, <4>4, <4>5 DEF OpenInv
    <3> QED BY <3>2, <3>3 DEF LeakInv
  <2> QED BY <2>1, <2>2
<1>2. CASE ~Check(t)
  <2>1. astray' = astray /\ leaky' = leaky
    BY <1>2, Zenon DEF Step, Deinit, DelSession, SetDev, SetSub, SetActive, SetCfg, Save, InitMode
  <2>2. ~leaky' => OpenInv'
    BY <1>2, <2>1, StepOpen DEF LeakInv
  <2>3. ASSUME ~astray', power' \in {"on", "sleep"}
        PROVE  active' \in inited' \/ Reached(Committed)'
    <3>1. CASE InitMode(t)
      <4>1. power \in {"on", "sleep"} /\ active' = active
            /\ inited' = IF active = NoEntry THEN inited ELSE inited \cup {active}
        BY <2>3, <3>1 DEF InitMode
      <4>2. active # NoEntry
        BY <4>1 DEF SafeInv, ActiveEnabled, Enabled, NoEntry
      <4> QED BY <4>1, <4>2
    <3>2. CASE ~InitMode(t)
      <4>1. PICK q \in Committed : pc' = [pc EXCEPT ![t] = q]
        <5>1. CASE Deinit(t) BY <5>1 DEF Deinit, Committed, Labels
        <5>2. CASE DelSession(t) BY <5>2 DEF DelSession, Committed, Labels
        <5>3. CASE SetDev(t) BY <5>3 DEF SetDev, Committed, Labels
        <5>4. CASE SetSub(t) BY <5>4 DEF SetSub, Committed, Labels
        <5>5. CASE SetActive(t) BY <5>5 DEF SetActive, Committed, Labels
        <5>6. CASE SetCfg(t)
          <6>1. pc' = [pc EXCEPT ![t] = IF byte'[t] = NoKv THEN "init" ELSE "save"]
            BY <5>6, Zenon DEF SetCfg
          <6>2. pc' = [pc EXCEPT ![t] = "init"] \/ pc' = [pc EXCEPT ![t] = "save"]
            BY <6>1, Zenon
          <6> QED BY <6>2 DEF Committed, Labels
        <5>7. CASE Save(t) BY <5>7 DEF Save, Committed, Labels
        <5> QED BY <1>2, <3>2, <5>1, <5>2, <5>3, <5>4, <5>5, <5>6, <5>7 DEF Step
      <4>2. pc'[t] = q
        BY <1>a, <4>1
      <4> QED BY <4>1, <4>2 DEF Reached
    <3> QED BY <3>1, <3>2
  <2> QED BY <2>2, <2>3 DEF LeakInv, ActiveInited
<1> QED BY <1>1, <1>2

\* A caller that starts a switch has opened and closed nothing yet.
LEMMA StartLeak ==
    ASSUME SafeInv, AgreementInv, LeakInv, NEW t \in Threads, NEW o, Start(t, o)
    PROVE  LeakInv'
<1>1. /\ pc \in [Threads -> Labels] /\ pc[t] = "idle" /\ pc' = [pc EXCEPT ![t] = "check"]
      /\ UNCHANGED <<power, start, active, device_mode, inited, sessions>>
      /\ \A u \in Threads \ {t} : op'[u] = op[u]
  BY DEF SafeInv, TypeOK, Start, Idle, env, mgr
<1>2. \A L : "check" \notin L /\ "idle" \notin L => (Reached(L)' <=> Reached(L))
  BY <1>1 DEF Reached
<1>3. (astray' \/ ~astray) /\ (~leaky' => Lone(t) /\ ~leaky) /\ (~astray' => Lone(t) /\ ~astray)
  BY Zenon DEF Start
<1>4. ActiveInited'
  BY <1>1, <1>2, <1>3 DEF LeakInv, ActiveInited, Committed
<1>5. ASSUME ~leaky' PROVE OpenInv'
  <2>1. OpenInv /\ Lone(t) /\ ~astray
    BY <1>3, <1>5 DEF LeakInv, OpenInv
  <2>2. ~astray'
    BY <2>1, Zenon DEF Start
  <2>3. /\ start = "none" /\ ~(\E u \in Threads : Deleted(u)) /\ ~(\E u \in Threads : Deleted(u)')
    BY <1>1, <2>1 DEF Lone, Idle, Deleted, Closed
  <2>4. Reached(Closed)' <=> Reached(Closed)
    BY <1>2 DEF Closed
  <2> QED BY <1>1, <2>1, <2>2, <2>3, <2>4 DEF OpenInv
<1> QED BY <1>4, <1>5 DEF LeakInv

\* Every step of the manager keeps LeakInv.
LEMMA NextLeak ==
    ASSUME SafeInv, AgreementInv, LeakInv, [Next]_vars
    PROVE  LeakInv'
<1> USE DEF env, mgr, cfg, store, locals, hist
<1>1. ASSUME NEW t \in Threads, NEW o, Start(t, o)
      PROVE  LeakInv'
  BY <1>1, StartLeak
<1>2. ASSUME NEW t \in Threads, NEW d, NEW s, DoublePress(t) \/ RequestDevice(t, d) \/ McpSetMode(t, s)
      PROVE  LeakInv'
  BY <1>1, <1>2 DEF DoublePress, RequestDevice, McpSetMode
<1>4. ASSUME NEW t \in Threads, Step(t)
      PROVE  LeakInv'
  BY <1>4, StepLeak
<1>5. CASE OpenSession
  <2>1. /\ active # NoEntry /\ power \in {"booting", "waking", "on"}
        /\ UNCHANGED <<build, power, start, active, device_mode, cfg_dev, cfg_sub, inited, pc, op, astray>>
    BY <1>5 DEF OpenSession
  <2>2. ActiveInited'
    BY <2>1 DEF LeakInv, ActiveInited, Reached
  <2>3. ASSUME ~leaky' PROVE OpenInv'
    <3>1. ~leaky /\ Quiescent
      BY <1>5, <2>3, Zenon DEF OpenSession
    <3>2. OpenInv /\ LoneInv
      BY <3>1 DEF LeakInv, OpenInv, AgreementInv
    <3>3. /\ \A L : "idle" \notin L => ~Reached(L) /\ ~Reached(L)'
          /\ \A u \in Threads : ~Deleted(u) /\ ~Deleted(u)'
      BY <2>1, <3>1 DEF Reached, Closed, Deleted, Quiescent, Idle
    <3>4. start # "pick"
      BY <2>1, <3>2 DEF OpenInv
    <3>5. ActiveResolved
      BY <2>1, <3>2, <3>3, <3>4 DEF LoneInv, AgreeInv, SafeInv, Starting, TypeOK, Unresolved
    <3>6. (IF active.kind = "sub" THEN CHAT ELSE active.id) = device_mode
      BY <2>1, <3>5 DEF ActiveResolved, ResolveActive, SubEntry, DevEntry
    <3>7. sessions' = sessions \cup {device_mode}
      BY <1>5, <3>6 DEF OpenSession
    <3> QED
      BY <2>1, <3>2, <3>3, <3>4, <3>7 DEF OpenInv, Closed
  <2> QED BY <2>2, <2>3 DEF LeakInv
<1>6. CASE Boot
  <2>1. /\ power = "off" /\ power' = "booting" /\ start' = "pick" /\ active' = NoEntry
        /\ UNCHANGED <<inited, sessions, astray, leaky>>
    BY <1>6 DEF Boot, ClearManager
  <2> QED
    BY <2>1 DEF LeakInv, ActiveInited, OpenInv
<1>7. CASE EnterLowPower
  <2>1. /\ power = "on" /\ power' = "sleep" /\ sessions' = {} /\ start = "none"
        /\ UNCHANGED <<start, active, device_mode, inited, pc, op, astray, leaky>>
    BY <1>7 DEF EnterLowPower, SafeInv, Starting, TypeOK
  <2>2. \A L : Reached(L)' <=> Reached(L)
    BY <2>1 DEF Reached
  <2> QED
    BY <2>1, <2>2 DEF LeakInv, ActiveInited, OpenInv
<1>8. CASE ExitLowPower
  <2>1. /\ power = "sleep" /\ power' = "waking" /\ start' = "pick" /\ active' = NoEntry
        /\ UNCHANGED <<build, cfg_dev, cfg_sub, inited, sessions, pc>>
    BY <1>8 DEF ExitLowPower, ClearManager
  <2>2. ActiveInited'
    BY <2>1 DEF ActiveInited
  <2>3. ASSUME ~leaky' PROVE OpenInv'
    <3>1. ~leaky /\ Quiescent /\ PickEntry(build, cfg_dev, cfg_sub) = active
      BY <1>8, <2>3, Zenon DEF ExitLowPower, Leak
    <3>2. ~astray'
      BY <1>8, <3>1, Zenon DEF ExitLowPower
    <3>3. OpenInv /\ ~Reached(Closed)
      BY <3>1 DEF LeakInv, Reached, Closed, Quiescent, Idle
    <3>4. inited = {active} /\ sessions = {}
      BY <2>1, <3>3 DEF OpenInv
    <3>5. PickEntry(build, cfg_dev, cfg_sub)' = PickEntry(build, cfg_dev, cfg_sub)
      BY <2>1 DEF PickEntry
    <3> QED BY <2>1, <3>1, <3>2, <3>4, <3>5 DEF OpenInv
  <2> QED BY <2>2, <2>3 DEF LeakInv
<1>9. CASE PowerLoss
  <2>1. power' = "off" /\ start' = "none" /\ inited' = {} /\ sessions' = {} /\ ~astray'
    BY <1>9, Zenon DEF PowerLoss
  <2> QED BY <2>1 DEF LeakInv, ActiveInited, OpenInv
<1>10. CASE Upgrade
  <2>1. power = "off" /\ power' = "off" /\ start = "none" /\ start' = "none"
        /\ UNCHANGED <<inited, sessions, astray, leaky>>
    BY <1>10 DEF Upgrade, SafeInv, Starting, TypeOK
  <2> QED BY <2>1 DEF LeakInv, ActiveInited, OpenInv
<1>11. CASE FactoryReset \/ UNCHANGED vars
  <2>1. UNCHANGED <<build, power, start, active, device_mode, cfg_dev, cfg_sub, inited, sessions,
                    pc, op, astray, leaky>>
    BY <1>11, Zenon DEF FactoryReset, vars
  <2>2. /\ \A L : Reached(L)' <=> Reached(L)
        /\ \A u \in Threads : Deleted(u)' <=> Deleted(u)
    BY <2>1 DEF Reached, Deleted
  <2> QED
    BY <2>1, <2>2 DEF LeakInv, ActiveInited, OpenInv
<1>12. CASE PickMode
  <2>1. /\ start = "pick" /\ power \in {"booting", "waking"}
        /\ UNCHANGED <<inited, sessions, astray, leaky>>
    BY <1>12 DEF PickMode, SafeInv, Starting
  <2>2. \/ /\ active' = PickEntry(build, cfg_dev, cfg_sub)
           /\ start' = "init" /\ power' = power
        \/ power' = "failed" /\ start' = "none"
    BY <1>12, Zenon DEF PickMode
  <2> QED
    BY <2>1, <2>2 DEF LeakInv, ActiveInited, OpenInv
<1>13. CASE StartMode
  <2>1. /\ start = "init" /\ start' = "none" /\ power' = "on"
        /\ inited' = IF active = NoEntry THEN inited ELSE inited \cup {active}
        /\ UNCHANGED <<active, device_mode, sessions, pc, op, astray, leaky>>
    BY <1>13 DEF StartMode
  <2>2. active # NoEntry
    BY <2>1 DEF SafeInv, ActiveEnabled, Enabled, NoEntry
  <2>3. ActiveInited'
    BY <2>1, <2>2 DEF ActiveInited
  <2>4. ASSUME ~leaky' PROVE OpenInv'
    <3>1. OpenInv /\ Quiescent
      BY <2>1, <2>4 DEF LeakInv, OpenInv, AgreementInv, LoneInv, Alone
    <3>2. ~Reached(Closed)' /\ ~(\E u \in Threads : Deleted(u)')
      BY <2>1, <3>1 DEF Reached, Closed, Deleted, Quiescent, Idle
    <3> QED BY <2>1, <2>2, <3>1, <3>2 DEF OpenInv
  <2> QED BY <2>3, <2>4 DEF LeakInv
<1> QED
  BY <1>2, <1>4, <1>5, <1>6, <1>7, <1>8, <1>9, <1>10, <1>11, <1>12, <1>13 DEF Next

\* For any threads and images, low power included: between switches the active mode is
\* initialised, and as long as nothing leaked (see leaky) it is the only one and no other
\* mode's session is open.
THEOREM OneModeIsOpen == Spec => []OneModeOpen
<1>1. Init => LeakInv
  BY DEF Init, LeakInv, ActiveInited, OpenInv
<1>2. LeakInv => OneModeOpen
  BY DEF LeakInv, ActiveInited, OpenInv, OneModeOpen, Quiescent, Idle, Reached, Closed, Deleted, Committed
<1> QED
  BY <1>1, <1>2, InitAgreement, NextAgreement, NextLeak, SafeAlways, PTL DEF Spec

-----------------------------------------------------------------------------
(* What the stored mode and the manager's sub-mode are, with switches      *)
(* racing.                                                                 *)

\* The images enable the same device modes.
SameDevs == \A b, c \in Builds : b.devs = c.devs

\* Every image has HOLD.
HoldBuilt == \A b \in Builds : HOLD \in b.subs

\* What is stored, about to be stored or remembered is a device mode that the image has
\* and, once checked, a sub-mode that it has.
Present(d) == d = CHAT \/ d \in build.devs
KnownInv ==
    /\ Present(cfg_dev)
    /\ kv # NoKv => Present(UnpackDev(kv))
    /\ \A t \in Threads :
          /\ pc[t] = "save" => Present(UnpackDev(byte[t]))
          /\ pc[t] \in Committed /\ op[t].kind = "dev" => Present(op[t].dev)

\* The configuration is durable until a boot has picked its mode.
BootInv ==
    power = "booting" /\ start = "pick" /\ ~astray =>
        cfg_dev \in Devs \ Transient /\ \A t \in Threads : Idle(t)

\* The sub-mode in the manager, and the one a switch is about to put there, are enabled.
SubsInv ==
    /\ power # "off" => chat_sub_mode \in build.subs
    /\ \A t \in Threads :
          pc[t] \in Committed /\ op[t].kind = "sub" => op[t].sub \in build.subs

\* A switch that passes its checks names a mode of the image.
LEMMA CheckedPresent ==
    ASSUME NEW o \in Op, o.kind \in {"dev", "sub"}, Enabled(build, TargetOf(o))
    PROVE  /\ o.kind = "dev" => Present(o.dev)
           /\ o.kind = "sub" => o.sub \in build.subs
BY DEF Enabled, TargetOf, SubEntry, DevEntry, Present

\* wukong_ai_mode_init stores only CHAT, and a configuration that it was given.
LEMMA PickKnown ==
    ASSUME SafeInv, KnownInv, PickMode
    PROVE  KnownInv'
<1>1. build \in Builds /\ cfg_sub \in Subs /\ chat_sub_mode \in Subs /\ CHAT \in Devs
  BY DEF SafeInv, TypeOK, CHAT, Devs
<1>2. PICK sub \in Subs : sub = ManagerSub(build, cfg_dev, cfg_sub, chat_sub_mode)
  BY <1>1, InitSubOk DEF ManagerSub
<1>3. kv' = kv \/ kv' = Pack(CHAT, sub)
  BY <1>2, Zenon DEF PickMode, Written, store
<1>4. UnpackDev(Pack(CHAT, sub)) = CHAT
  BY <1>1, PackUnpack
<1>5. UNCHANGED <<build, cfg_dev, pc, op, byte>>
  BY DEF PickMode, locals
<1> QED
  BY <1>3, <1>4, <1>5 DEF KnownInv, Present

\* Every step keeps KnownInv, when the images have the same device modes.
LEMMA NextKnown ==
    ASSUME SameDevs, SafeInv, KnownInv, [Next]_vars
    PROVE  KnownInv'
<1> USE DEF env, mgr, cfg, store, locals
<1>a. /\ op \in [Threads -> Op] /\ pc \in [Threads -> Labels]
      /\ byte \in [Threads -> {NoKv} \cup 0..255]
  BY DEF SafeInv, TypeOK
<1>1. ASSUME NEW t \in Threads, NEW o, Start(t, o)
      PROVE  KnownInv'
  BY <1>1, <1>a DEF Start, KnownInv, Present, Committed
<1>2. ASSUME NEW t \in Threads, NEW d, NEW s, DoublePress(t) \/ RequestDevice(t, d) \/ McpSetMode(t, s)
      PROVE  KnownInv'
  BY <1>1, <1>2 DEF DoublePress, RequestDevice, McpSetMode
<1>3. ASSUME NEW t \in Threads, Check(t)
      PROVE  KnownInv'
  <2>1. CASE Enabled(build, TargetOf(op[t])) /\ pc' = [pc EXCEPT ![t] = "deinit"] /\ UNCHANGED <<op, byte>>
    <3>1. pc[t] = "check" /\ op[t] \in Op /\ op[t].kind \in {"dev", "sub"}
      BY <1>3, <1>a DEF Check, At, SafeInv, SwitchChecked
    <3>2. op[t].kind = "dev" => Present(op[t].dev)
      BY <2>1, <3>1, CheckedPresent
    <3>3. pc' = [pc EXCEPT ![t] = "deinit"] /\ UNCHANGED <<build, cfg_dev, kv, op, byte>>
      BY <1>3, <2>1, Zenon DEF Check, Goto
    <3> QED
      BY <1>a, <3>2, <3>3 DEF KnownInv, Present, Committed
  <2>2. CASE Return(t)
    <3>1. pc' = [pc EXCEPT ![t] = "idle"] /\ UNCHANGED <<build, cfg_dev, kv>>
          /\ op' = [op EXCEPT ![t] = NoOp] /\ byte' = [byte EXCEPT ![t] = NoKv]
      BY <1>3, <2>2, Zenon DEF Check, Return, Goto
    <3> QED
      BY <1>a, <3>1 DEF KnownInv, Present, Committed
  <2> QED BY <1>3, <2>1, <2>2, Zenon DEF Check, Goto
<1>4. ASSUME NEW t \in Threads, Deinit(t) \/ DelSession(t) \/ SetDev(t) \/ SetSub(t) \/ SetActive(t)
      PROVE  KnownInv'
  <2>1. PICK q \in {"delsession", "setdev", "setsub", "setactive", "setcfg"} :
           /\ pc[t] \in {"deinit", "delsession", "setdev", "setsub", "setactive"}
           /\ pc' = [pc EXCEPT ![t] = q] /\ UNCHANGED <<build, cfg_dev, kv, op, byte>>
    BY <1>4, Zenon DEF Deinit, DelSession, SetDev, SetSub, SetActive, At, Goto
  <2> QED
    BY <1>a, <2>1 DEF KnownInv, Present, Committed, Labels
<1>5. ASSUME NEW t \in Threads, SetCfg(t)
      PROVE  KnownInv'
  <2>1. /\ pc[t] = "setcfg" /\ op[t] \in Op /\ op[t].kind \in {"dev", "sub"}
        /\ UNCHANGED <<build, kv, op>>
    BY <1>5, <1>a DEF SetCfg, At, SafeInv, SwitchChecked
  <2>2. /\ op[t].kind = "dev" => cfg_dev' = op[t].dev /\ cfg_sub' = cfg_sub
        /\ op[t].kind # "dev" => cfg_sub' = op[t].sub /\ cfg_dev' = cfg_dev
    BY <1>5, Zenon DEF SetCfg
  <2>3. Present(cfg_dev') /\ cfg_dev' \in Devs /\ cfg_sub' \in Subs
    BY <2>1, <2>2 DEF KnownInv, SafeInv, SwitchChecked, Committed, Labels, TypeOK, Op
  <2>4. byte' = [byte EXCEPT ![t] = NoKv] \/ byte' = [byte EXCEPT ![t] = SaveByte(cfg_dev', cfg_sub')]
    BY <1>5, Zenon DEF SetCfg
  <2>5. PICK q \in {"init", "save"} :
           /\ pc' = [pc EXCEPT ![t] = q]
           /\ q = "save" => byte'[t] # NoKv
    BY <1>5, Zenon DEF SetCfg, Goto
  <2>6. q = "save" => Present(UnpackDev(byte'[t]))
    <3>1. UnpackDev(Pack(cfg_dev', cfg_sub')) = cfg_dev'
      BY <2>3, PackUnpack
    <3>2. byte'[t] = NoKv \/ byte'[t] = SaveByte(cfg_dev', cfg_sub')
      BY <1>a, <2>4
    <3> QED BY <2>3, <2>5, <3>1, <3>2 DEF SaveByte
  <2>7. \A u \in Threads \ {t} : pc'[u] = pc[u] /\ byte'[u] = byte[u]
    BY <1>a, <2>4, <2>5
  <2>8. pc'[t] = q
    BY <1>a, <2>5
  <2> QED
    BY <2>1, <2>3, <2>6, <2>7, <2>8 DEF KnownInv, Present, Committed, Labels
<1>6. ASSUME NEW t \in Threads, Save(t)
      PROVE  KnownInv'
  <2>1. pc[t] = "save" /\ pc' = [pc EXCEPT ![t] = "init"] /\ UNCHANGED <<build, cfg_dev, op, byte>>
    BY <1>6 DEF Save, At, Goto
  <2>2. kv' = kv \/ kv' = byte[t]
    BY <1>6, Zenon DEF Save, Written
  <2> QED
    BY <1>a, <2>1, <2>2 DEF KnownInv, Present, Committed, Labels
<1>7. ASSUME NEW t \in Threads, InitMode(t)
      PROVE  KnownInv'
  <2>1. /\ pc' = [pc EXCEPT ![t] = "idle"] /\ op' = [op EXCEPT ![t] = NoOp]
        /\ byte' = [byte EXCEPT ![t] = NoKv] /\ UNCHANGED <<build, cfg_dev, kv>>
    BY <1>7 DEF InitMode, Return, Goto
  <2> QED
    BY <1>a, <2>1 DEF KnownInv, Present, Committed
<1>8. CASE Boot
  <2>1. Present(LoadDev(kv))
    BY DEF KnownInv, LoadDev, Present
  <2>2. cfg_dev' = LoadDev(kv) /\ UNCHANGED <<build, kv, pc, op, byte>>
    BY <1>8 DEF Boot
  <2> QED
    BY <2>1, <2>2 DEF KnownInv, Present
<1>9. CASE ExitLowPower \/ StartMode
  <2>1. UNCHANGED <<build, cfg_dev, kv, pc, op, byte>>
    BY <1>9, Zenon DEF ExitLowPower, StartMode
  <2> QED BY <2>1 DEF KnownInv, Present
<1>13. CASE PickMode
  BY <1>13, PickKnown
<1>10. CASE PowerLoss
  BY <1>10 DEF PowerLoss, KnownInv, Present, Committed
<1>11. CASE Upgrade
  <2>1. build'.devs = build.devs
    BY <1>11 DEF Upgrade, SameDevs, SafeInv, TypeOK
  <2> QED
    BY <1>11, <2>1 DEF Upgrade, KnownInv, Present
<1>12. CASE OpenSession \/ EnterLowPower \/ FactoryReset \/ UNCHANGED vars
  <2>1. (kv' = kv \/ kv' = NoKv) /\ UNCHANGED <<build, cfg_dev, pc, op, byte>>
    BY <1>12, Zenon DEF OpenSession, EnterLowPower, FactoryReset, vars
  <2> QED
    BY <2>1 DEF KnownInv, Present
<1> QED
  BY <1>2, <1>3, <1>4, <1>5, <1>6, <1>7, <1>8, <1>9, <1>10, <1>11, <1>12, <1>13 DEF Next, Step

\* What a boot has loaded stays until a mode is picked, unless a switch is requested.
LEMMA NextBoot ==
    ASSUME SafeInv, BootInv, [Next]_vars
    PROVE  BootInv'
<1> SUFFICES ASSUME power' = "booting", start' = "pick", ~astray'
             PROVE  cfg_dev' \in Devs \ Transient /\ \A t \in Threads : pc'[t] = "idle"
  BY DEF BootInv, Idle
<1> USE DEF env, mgr, cfg, store, locals, hist
<1>1. ASSUME NEW t \in Threads, NEW o, Start(t, o)
      PROVE  FALSE
  <2>1. start' = start
    BY <1>1 DEF Start
  <2>2. Lone(t)
    BY <1>1, Zenon DEF Start
  <2> QED BY <2>1, <2>2 DEF Lone
<1>2. ASSUME NEW t \in Threads, NEW d, NEW s, DoublePress(t) \/ RequestDevice(t, d) \/ McpSetMode(t, s)
      PROVE  FALSE
  BY <1>1, <1>2 DEF DoublePress, RequestDevice, McpSetMode
<1>3. ASSUME NEW t \in Threads, Step(t)
      PROVE  FALSE
  <2>1. pc[t] # "idle" /\ power' = power /\ start' = start
    BY <1>3, Zenon DEF Step, Check, Deinit, DelSession, SetDev, SetSub, SetActive, SetCfg, Save, InitMode, At
  <2>2. astray
    BY <2>1 DEF BootInv, Idle
  <2>3. CASE Check(t)
    <3>1. \/ astray' = astray
          \/ Committing(t)
      BY <2>3, Zenon DEF Check
    <3>2. Committing(t) => astray' = (astray \/ (op[t].kind = "sub" /\ device_mode # CHAT))
      <4>1. ~Lone(t)
        BY <2>1 DEF Lone
      <4> QED BY <4>1, Zenon DEF Committing
    <3> QED BY <2>2, <3>1, <3>2, Zenon
  <2>4. CASE ~Check(t)
    <3>1. astray' = astray
      BY <1>3, <2>4, Zenon DEF Step, Deinit, DelSession, SetDev, SetSub, SetActive, SetCfg, Save, InitMode
    <3> QED BY <2>2, <3>1
  <2> QED BY <2>3, <2>4
<1>4. CASE Boot
  <2>1. LoadDev(kv) \in Devs \ Transient
    BY LoadTypes, BuildsAssumption DEF SafeInv, TypeOK, Build
  <2> QED BY <1>4, <2>1 DEF Boot, SafeInv, OffQuiet, Quiescent, Idle
<1>5. CASE OpenSession \/ UNCHANGED vars
  <2>1. UNCHANGED <<power, start, astray, cfg_dev, pc>>
    BY <1>5, Zenon DEF OpenSession, vars
  <2> QED BY <2>1 DEF BootInv, Idle
<1>6. CASE EnterLowPower \/ ExitLowPower \/ PowerLoss \/ Upgrade \/ FactoryReset
  <2>1. power' # "booting"
    BY <1>6 DEF EnterLowPower, ExitLowPower, PowerLoss, Upgrade, FactoryReset
  <2> QED BY <2>1
<1>7. CASE PickMode \/ StartMode
  <2>1. start' # "pick"
    BY <1>7, Zenon DEF PickMode, StartMode
  <2> QED BY <2>1
<1> QED BY <1>2, <1>3, <1>4, <1>5, <1>6, <1>7 DEF Next

\* Whatever switches race, writes fail and images of the same device modes are flashed, the
\* next boot that no request interrupts succeeds and lands in a durable mode of the image.
THEOREM BootsLandInDurableMode ==
    ASSUME SameDevs
    PROVE  Spec => RebootLandsInDurableMode
<1>1. Init => KnownInv /\ BootInv
  BY DEF Init, KnownInv, Present, Committed, BootInv
<1>2. ASSUME SafeInv, KnownInv, BootInv, [Next]_vars,
             power = "booting", start = "pick", start' # "pick", power' # "off", ~astray
      PROVE  /\ power' # "failed"
             /\ device_mode' \notin Transient
             /\ device_mode' = CHAT => chat_sub_mode' \in build'.subs
  <2> USE DEF env, mgr, cfg, store, locals, hist
  <2>1. PickMode
    <3>1. \A t \in Threads : ~Step(t)
      BY <1>2 DEF BootInv, Idle, Step, Check, Deinit, DelSession, SetDev, SetSub, SetActive, SetCfg, Save,
                  InitMode, At
    <3>2. \A t \in Threads : \A d, s : ~DoublePress(t) /\ ~RequestDevice(t, d) /\ ~McpSetMode(t, s)
      BY <1>2 DEF DoublePress, RequestDevice, McpSetMode, Start
    <3>3. ~OpenSession /\ ~Boot /\ ~EnterLowPower /\ ~ExitLowPower /\ ~StartMode /\ ~PowerLoss
          /\ ~Upgrade /\ ~FactoryReset
      BY <1>2 DEF OpenSession, Boot, EnterLowPower, ExitLowPower, StartMode, PowerLoss, Upgrade, FactoryReset
    <3>4. start' = start => FALSE
      BY <1>2
    <3> QED BY <1>2, <3>1, <3>2, <3>3, <3>4 DEF Next, vars
  <2>2. cfg_dev \in Devs \ Transient /\ cfg_sub \in Subs /\ build \in Builds /\ Present(cfg_dev)
    BY <1>2 DEF SafeInv, TypeOK, BootInv, KnownInv
  <2>3. Enabled(build, PickEntry(build, cfg_dev, cfg_sub))
    BY <2>2, InitSubOk DEF Enabled, PickEntry, SubEntry, DevEntry, Present
  <2>4. /\ power' = power /\ device_mode' = cfg_dev /\ build' = build
        /\ chat_sub_mode' = ManagerSub(build, cfg_dev, cfg_sub, chat_sub_mode)
    BY <2>1, <2>3, Zenon DEF PickMode
  <2> QED
    BY <1>2, <2>2, <2>4, InitSubOk DEF ManagerSub
<1>3. SafeInv /\ KnownInv /\ BootInv /\ [Next]_vars =>
         [power = "booting" /\ start = "pick" /\ start' # "pick" /\ power' # "off" /\ ~astray =>
              /\ power' # "failed"
              /\ device_mode' \notin Transient
              /\ device_mode' = CHAT => chat_sub_mode' \in build'.subs]_vars
  BY <1>2
<1> QED
  BY <1>1, <1>3, NextKnown, NextBoot, SafeAlways, PTL DEF Spec, RebootLandsInDurableMode

\* Every step keeps SubsInv, when every image has HOLD.
LEMMA NextSubs ==
    ASSUME HoldBuilt, SafeInv, SubsInv, [Next]_vars
    PROVE  SubsInv'
<1> USE DEF env, mgr, cfg, store, locals
<1>a. op \in [Threads -> Op] /\ pc \in [Threads -> Labels] /\ build \in Builds
  BY DEF SafeInv, TypeOK
<1>1. ASSUME NEW t \in Threads, NEW o, Start(t, o)
      PROVE  SubsInv'
  BY <1>1, <1>a DEF Start, SubsInv, Committed
<1>2. ASSUME NEW t \in Threads, NEW d, NEW s, DoublePress(t) \/ RequestDevice(t, d) \/ McpSetMode(t, s)
      PROVE  SubsInv'
  BY <1>1, <1>2 DEF DoublePress, RequestDevice, McpSetMode
<1>3. ASSUME NEW t \in Threads, Check(t)
      PROVE  SubsInv'
  <2>1. CASE Enabled(build, TargetOf(op[t])) /\ pc' = [pc EXCEPT ![t] = "deinit"] /\ UNCHANGED <<op, byte>>
    <3>1. pc[t] = "check" /\ op[t] \in Op /\ op[t].kind \in {"dev", "sub"}
      BY <1>3, <1>a DEF Check, At, SafeInv, SwitchChecked
    <3>2. op[t].kind = "sub" => op[t].sub \in build.subs
      BY <2>1, <3>1, CheckedPresent
    <3>3. pc' = [pc EXCEPT ![t] = "deinit"] /\ UNCHANGED <<build, power, chat_sub_mode, op>>
      BY <1>3, <2>1, Zenon DEF Check, Goto
    <3> QED
      BY <1>a, <3>2, <3>3 DEF SubsInv, Committed
  <2>2. CASE Return(t)
    <3>1. pc' = [pc EXCEPT ![t] = "idle"] /\ UNCHANGED <<build, power, chat_sub_mode>>
          /\ op' = [op EXCEPT ![t] = NoOp]
      BY <1>3, <2>2, Zenon DEF Check, Return, Goto
    <3> QED
      BY <1>a, <3>1 DEF SubsInv, Committed
  <2> QED BY <1>3, <2>1, <2>2, Zenon DEF Check, Goto
<1>4. ASSUME NEW t \in Threads,
             Deinit(t) \/ DelSession(t) \/ SetDev(t) \/ SetActive(t) \/ SetCfg(t) \/ Save(t)
      PROVE  SubsInv'
  <2>1. pc[t] \in {"deinit", "delsession", "setdev", "setactive", "setcfg", "save"}
    BY <1>4, Zenon DEF Deinit, DelSession, SetDev, SetActive, SetCfg, Save, At
  <2>2. UNCHANGED <<build, power, chat_sub_mode, op>>
    BY <1>4, Zenon DEF Deinit, DelSession, SetDev, SetActive, SetCfg, Save
  <2>3. PICK q : pc' = [pc EXCEPT ![t] = q]
    <3>1. CASE Deinit(t) BY <3>1, Zenon DEF Deinit, Goto
    <3>2. CASE DelSession(t) BY <3>2, Zenon DEF DelSession, Goto
    <3>3. CASE SetDev(t) BY <3>3, Zenon DEF SetDev, Goto
    <3>4. CASE SetActive(t) BY <3>4, Zenon DEF SetActive, Goto
    <3>5. CASE SetCfg(t) BY <3>5, Zenon DEF SetCfg, Goto
    <3>6. CASE Save(t) BY <3>6, Zenon DEF Save, Goto
    <3> QED BY <1>4, <3>1, <3>2, <3>3, <3>4, <3>5, <3>6
  <2> QED
    BY <1>a, <2>1, <2>2, <2>3 DEF SubsInv, Committed, Labels
<1>5. ASSUME NEW t \in Threads, SetSub(t)
      PROVE  SubsInv'
  <2>1. /\ pc[t] = "setsub" /\ pc' = [pc EXCEPT ![t] = "setactive"]
        /\ chat_sub_mode' = op[t].sub /\ op[t].kind = "sub" /\ UNCHANGED <<build, power, op>>
    BY <1>5 DEF SetSub, At, Goto, SafeInv, SwitchChecked
  <2> QED
    BY <1>a, <2>1 DEF SubsInv, Committed, Labels
<1>6. ASSUME NEW t \in Threads, InitMode(t)
      PROVE  SubsInv'
  <2>1. /\ pc' = [pc EXCEPT ![t] = "idle"] /\ op' = [op EXCEPT ![t] = NoOp]
        /\ UNCHANGED <<build, power, chat_sub_mode>>
    BY <1>6 DEF InitMode, Return, Goto
  <2> QED
    BY <1>a, <2>1 DEF SubsInv, Committed
<1>8. CASE Boot \/ ExitLowPower
  <2>1. chat_sub_mode' = HOLD /\ UNCHANGED <<build, pc, op>>
    BY <1>8, Zenon DEF Boot, ExitLowPower, ClearManager
  <2> QED
    BY <1>a, <2>1 DEF SubsInv, HoldBuilt
<1>9. CASE PickMode
  <2>1. UNCHANGED <<build, pc, op>> /\ power # "off"
    BY <1>9 DEF PickMode, SafeInv, Starting
  <2>2. chat_sub_mode' = chat_sub_mode \/ chat_sub_mode' = ManagerSub(build, cfg_dev, cfg_sub, chat_sub_mode)
    BY <1>9, Zenon DEF PickMode
  <2>3. ManagerSub(build, cfg_dev, cfg_sub, chat_sub_mode) \in build.subs
    BY <1>a, <2>1, InitSubOk DEF ManagerSub, SubsInv, SafeInv, TypeOK
  <2> QED BY <2>1, <2>2, <2>3 DEF SubsInv
<1>13. CASE StartMode
  <2>1. UNCHANGED <<build, pc, op, chat_sub_mode>> /\ power # "off"
    BY <1>13 DEF StartMode, SafeInv, Starting
  <2> QED BY <2>1 DEF SubsInv
<1>10. CASE PowerLoss
  BY <1>10 DEF PowerLoss, SubsInv, Committed
<1>11. CASE Upgrade
  BY <1>11 DEF Upgrade, SubsInv, SafeInv, OffQuiet, Quiescent, Idle, Committed
<1>12. CASE OpenSession \/ EnterLowPower \/ FactoryReset \/ UNCHANGED vars
  <2>1. /\ power' = power \/ (power = "on" /\ power' = "sleep")
        /\ UNCHANGED <<build, chat_sub_mode, pc, op>>
    BY <1>12, Zenon DEF OpenSession, EnterLowPower, FactoryReset, vars
  <2> QED
    BY <2>1 DEF SubsInv
<1> QED
  BY <1>2, <1>3, <1>4, <1>5, <1>6, <1>8, <1>9, <1>10, <1>11, <1>12, <1>13 DEF Next, Step

\* Where every image has HOLD, the switch back to CHAT is never refused, whatever other
\* switches are in flight and whatever was restored at the last boot or wake-up.
THEOREM ChatSwitchesPass ==
    ASSUME HoldBuilt
    PROVE  Spec => ChatSwitchNeverRefused
<1>1. Init => SubsInv
  BY DEF Init, SubsInv, Committed
<1>2. ASSUME SafeInv, SubsInv, [Next]_vars, NEW t \in Threads, op[t].kind = "dev", op[t].dev = CHAT,
             pc[t] = "check", power' = "on"
      PROVE  pc'[t] # "idle"
  <2> USE DEF env, mgr, cfg, store, locals, Goto
  <2>a. pc \in [Threads -> Labels]
    BY <1>2 DEF SafeInv, TypeOK
  <2>1. ASSUME NEW u \in Threads, Step(u)
        PROVE  pc'[t] # "idle"
    <3>1. CASE u = t
      <4>1. Check(t) /\ power # "off"
        BY <1>2, <2>1, <3>1 DEF Step, Check, Deinit, DelSession, SetDev, SetSub, SetActive, SetCfg, Save,
                                InitMode, At
      <4>2. Enabled(build, TargetOf(op[t]))
        BY <1>2, <4>1 DEF SubsInv, TargetOf, Enabled, SubEntry
      <4>3. start # "pick"
        BY <1>2, <4>1 DEF Check, SafeInv, Starting
      <4>4. pc' = [pc EXCEPT ![t] = "deinit"]
        BY <4>1, <4>2, <4>3, Zenon DEF Check
      <4> QED BY <2>a, <4>4
    <3>2. CASE u # t
      <4>1. PICK q : pc' = [pc EXCEPT ![u] = q]
        BY <2>1, Zenon DEF Step, Check, Deinit, DelSession, SetDev, SetSub, SetActive, SetCfg, Save,
                           InitMode, Return
      <4> QED BY <1>2, <2>a, <3>2, <4>1
    <3> QED BY <3>1, <3>2
  <2>2. ASSUME NEW u \in Threads, NEW d, NEW s,
               DoublePress(u) \/ RequestDevice(u, d) \/ McpSetMode(u, s)
        PROVE  pc'[t] # "idle"
    <3>1. pc' = [pc EXCEPT ![u] = "check"]
      BY <2>2 DEF DoublePress, RequestDevice, McpSetMode, Start
    <3> QED BY <1>2, <2>a, <3>1
  <2>3. CASE OpenSession \/ Boot \/ EnterLowPower \/ ExitLowPower \/ PickMode \/ StartMode \/ Upgrade
             \/ FactoryReset \/ UNCHANGED vars
    <3>1. pc' = pc
      BY <2>3, Zenon DEF OpenSession, Boot, EnterLowPower, ExitLowPower, PickMode, StartMode, Upgrade, FactoryReset, vars
    <3> QED BY <1>2, <3>1
  <2>4. ~PowerLoss
    BY <1>2 DEF PowerLoss
  <2> QED BY <1>2, <2>1, <2>2, <2>3, <2>4 DEF Next
<1>3. SafeInv /\ SubsInv /\ [Next]_vars =>
         [\A t \in Threads :
             op[t].kind = "dev" /\ op[t].dev = CHAT /\ pc[t] = "check" /\ power' = "on" =>
                 pc'[t] # "idle"]_vars
  BY <1>2
<1> QED
  BY <1>1, <1>3, NextSubs, SafeAlways, PTL DEF Spec, ChatSwitchNeverRefused
=============================================================================
