--------------------------- MODULE MCModeManager ---------------------------
(***************************************************************************)
(* Instances of ModeManager for TLC.                                       *)
(***************************************************************************)
EXTENDS ModeManager, TLC

\* Two sub-modes out of four (so that the ring has gaps), a durable and a transient
\* device mode.
FullBuild == [subs |-> {1, 3}, devs |-> {TRANSLATE, P2P}, default |-> 3]
\* HOLD is present: booting into TRANSLATE leaves chat_sub_mode at HOLD; the default is a
\* sub-mode that Kconfig did not enable.
HoldBuild == [subs |-> {0, 3}, devs |-> {TRANSLATE, RECORD}, default |-> 2]
\* The same device modes, but HOLD is the only sub-mode left.
LeanBuild == [subs |-> {0}, devs |-> {TRANSLATE, RECORD}, default |-> 2]

SameDevices == {HoldBuild, LeanBuild}
GapBuild == {FullBuild}

ThreadSymmetry == Permutations(Threads)

\* No guard and no property of the race run reads which modes are initialised, which
\* sessions are open or what leaked, so states that differ only there count as one.
RaceView == <<env, mgr, cfg, store, pc, locals, astray>>
=============================================================================
