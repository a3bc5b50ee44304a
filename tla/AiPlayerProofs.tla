--------------------------- MODULE AiPlayerProofs ---------------------------
(***************************************************************************)
(* Proofs about AiPlayer, for any threads, calls, queue and playlists: who *)
(* waits for STOPPED gets it or was overtaken, a stop made under the       *)
(* playlist's mutex is never overtaken, and the loudspeaker follows the    *)
(* players.                                                                *)
(***************************************************************************)
EXTENDS AiPlayer, TLAPS

-----------------------------------------------------------------------------
(* Types. *)

\* The operations of every call are typed.
LEMMA ProgramType == \A c \in DOMAIN Program : Program[c] \in Seq(Ops)
<1>1. /\ Clear("FG") \in Ops /\ Clear("BG") \in Ops /\ ListStop("FG") \in Ops
      /\ Add("FG") \in Ops /\ Add("BG") \in Ops /\ Stop("FG") \in Ops /\ Stop("BG") \in Ops
    <2>1. Clear("FG") \in Ops /\ Clear("BG") \in Ops
        BY DEF Clear, Ops, Players, Sources
    <2>2. ListStop("FG") \in Ops
        BY DEF ListStop, Ops, Players, Sources
    <2>3. Add("FG") \in Ops /\ Add("BG") \in Ops
        BY DEF Add, Ops, Players, Sources
    <2>4. Stop("FG") \in Ops /\ Stop("BG") \in Ops
        BY DEF Stop, Ops, Players, Sources
    <2> QED
        BY <2>1, <2>2, <2>3, <2>4
<1>2. /\ Start("tone") \in Ops /\ Start("tts") \in Ops /\ Eof \in Ops
      /\ Pause \in Ops /\ Resume \in Ops
    BY DEF Start, Eof, Pause, Resume, Ops, Players, Sources
<1>3. /\ \A a \in Ops : <<a>> \in Seq(Ops)
      /\ \A a, b \in Ops : <<a, b>> \in Seq(Ops)
      /\ \A a, b, c \in Ops : <<a, b, c>> \in Seq(Ops)
      /\ \A a, b, c, d \in Ops : <<a, b, c, d>> \in Seq(Ops)
    <2> HIDE DEF Ops
    <2> QED
        OBVIOUS
<1>4. /\ Program.play_music \in Seq(Ops) /\ Program.play_songs \in Seq(Ops)
      /\ Program.play_tts_url \in Seq(Ops) /\ Program.play_data \in Seq(Ops)
      /\ Program.tts_start \in Seq(Ops) /\ Program.tts_stop \in Seq(Ops)
      /\ Program.stop_fg \in Seq(Ops) /\ Program.stop_bg \in Seq(Ops)
      /\ Program.stop_all \in Seq(Ops) /\ Program.pause \in Seq(Ops)
      /\ Program.resume \in Seq(Ops)
    BY <1>1, <1>2, <1>3 DEF Program
<1>5. DOMAIN Program = {"play_music", "play_songs", "play_tts_url", "play_data", "tts_start",
        "tts_stop", "stop_fg", "stop_bg", "stop_all", "pause", "resume"}
    BY DEF Program
<1> QED
    BY <1>4, <1>5

\* The operation a thread is at, and what it leaves to do.
LEMMA OpType ==
    ASSUME TypeOK, NEW t \in Threads, prog[t] # <<>>
    PROVE  Op(t) \in Ops /\ Tail(prog[t]) \in Seq(Ops) /\ Op(t).p \in Players
<1>1. prog[t] \in Seq(Ops)
    BY DEF TypeOK
<1>2. Head(prog[t]) \in Ops /\ Tail(prog[t]) \in Seq(Ops)
    <2> HIDE DEF Ops
    <2> QED
        BY <1>1
<1> QED
    BY <1>2 DEF Op, Ops

\* Where the task is, and what it is then busy with
Busy ==
    /\ at = "callback" => stopped \in Players
    /\ at = "callback" /\ then = "play" => state["FG"] = "PLAYING"
    /\ at = "mix" => active = "FG"
    /\ at = "play" => active # None
    /\ at # "callback" => active = Audible(state)
    /\ speaker = (active # None)

\* Every step keeps the types.
LEMMA TypeStep == TypeOK /\ Busy /\ [Next]_vars => TypeOK'
<1> SUFFICES ASSUME TypeOK, Busy, [Next]_vars PROVE TypeOK'
    OBVIOUS
<1>1. CASE UNCHANGED vars
    BY <1>1 DEF TypeOK, vars, sink, output, task, list, thread
<1>2. ASSUME NEW t \in Threads, Begin(t) PROVE TypeOK'
    <2>1. PICK c \in DOMAIN Program : prog' = [prog EXCEPT ![t] = Program[c]]
        BY <1>2, CallsAssumption DEF Begin
    <2>2. prog' \in [Threads -> Seq(Ops)]
        BY <2>1, ProgramType DEF TypeOK
    <2>3. calls' \in 0..MaxCalls
        BY <1>2, BoundsAssumption DEF Begin, TypeOK
    <2> QED
        BY <1>2, <2>2, <2>3 DEF Begin, TypeOK, sink, output, task, list
<1>3. ASSUME NEW t \in Threads, Step(t) PROVE TypeOK'
    <2>1. prog[t] # <<>>
        BY <1>3 DEF Step, FeedEof, Test, ListLock, Post, StopSeen, StartReturns,
            ListBody, AddCheck, AddAppend, AddAuto, AddMark, At
    <2>2. Op(t) \in Ops /\ Tail(prog[t]) \in Seq(Ops) /\ Op(t).p \in Players
        BY <2>1, OpType
    <2>3. prog' \in [Threads -> Seq(Ops)]
        <3>1. prog' = prog \/ prog' = [prog EXCEPT ![t] = Tail(@)]
            BY <1>3 DEF Step, FeedEof, Test, ListLock, Post, StopSeen, StartReturns,
                ListBody, AddCheck, AddAppend, AddAuto, AddMark, Done, Goto, Proceed
        <3> QED
            BY <2>2, <3>1 DEF TypeOK
    <2>4. pc' \in [Threads -> {"op", "post", "wait", "body", "append", "auto", "mark"}]
        BY <1>3 DEF Step, FeedEof, Test, ListLock, Post, StopSeen, StartReturns,
            ListBody, AddCheck, AddAppend, AddAuto, AddMark, Done, Goto, Proceed, TypeOK
    <2>5. CASE Test(t) \/ StartReturns(t) \/ AddCheck(t) \/ AddAuto(t)
        BY <2>3, <2>4, <2>5 DEF Test, StartReturns, AddCheck, AddAuto, TypeOK,
            sink, output, task, list
    <2>6. CASE FeedEof(t)
        <3>1. eof' \in [Players -> BOOLEAN]
            BY <2>6 DEF FeedEof, TypeOK
        <3> QED
            BY <2>3, <2>4, <2>6, <3>1 DEF FeedEof, TypeOK, output, task, list
    <2>7. CASE ListLock(t)
        BY <2>2, <2>3, <2>4, <2>7 DEF ListLock, TypeOK, sink, output, task, list
    <2>8. CASE Post(t)
        <3>1. Message(Op(t)) \in Messages
            BY <2>2 DEF Message, Command, Messages, Ops
        <3>2. queue' \in Seq(Messages) /\ Len(queue') <= QueueMax
            BY <2>8, <3>1, BoundsAssumption DEF Post, HasRoom, TypeOK
        <3> QED
            BY <2>3, <2>4, <2>8, <3>2 DEF Post, TypeOK, sink, output, task, list
    <2>9. CASE StopSeen(t)
        BY <2>3, <2>4, <2>9 DEF StopSeen, TypeOK, sink, output, task, list
    <2>10. CASE ListBody(t)
        BY <2>2, <2>3, <2>4, <2>10 DEF ListBody, TypeOK, sink, output, task
    <2>11. CASE AddAppend(t)
        BY <2>2, <2>3, <2>4, <2>11 DEF AddAppend, TypeOK, sink, output, task
    <2>12. CASE AddMark(t)
        BY <2>2, <2>3, <2>4, <2>12 DEF AddMark, TypeOK, sink, output, task
    <2> QED
        BY <1>3, <2>5, <2>6, <2>7, <2>8, <2>9, <2>10, <2>11, <2>12 DEF Step
<1>4. CASE Task
    <2>1. queue # <<>> => Head(queue) \in Messages /\ Tail(queue) \in Seq(Messages)
                          /\ Len(Tail(queue)) <= QueueMax
        BY BoundsAssumption DEF TypeOK
    <2>2. \A s : Switch(s) => active' \in Players \cup {None} /\ speaker' \in BOOLEAN
        BY DEF Switch, Audible, Players, TypeOK
    <2>3. CASE FetchStart
        <3>1. Head(queue).p \in Players /\ Head(queue).src \in Sources
            BY <2>1, <2>3 DEF FetchStart, Messages
        <3> QED
            BY <2>1, <2>2, <2>3, <3>1 DEF FetchStart, CmdSet, Waiting, TypeOK, States,
                task, list, thread
    <2>4. CASE FetchStop
        <3>1. Head(queue).p \in Players
            BY <2>1, <2>4 DEF FetchStop, Messages
        <3> QED
            BY <2>1, <2>4, <3>1 DEF FetchStop, CmdStop, TypeOK, States, sink, output, list, thread
    <2>5. CASE FetchPause
        <3>1. Head(queue).p \in Players
            BY <2>1, <2>5 DEF FetchPause, Messages
        <3> QED
            BY <2>1, <2>2, <2>5, <3>1 DEF FetchPause, CmdSet, Waiting, TypeOK, States,
                sink, task, list, thread
    <2>6. CASE Stream
        BY <2>6 DEF Stream, TypeOK, sink, output, list, thread
    <2>7. CASE StreamMix
        BY <2>7 DEF StreamMix, CmdStop, TypeOK, States, Players, sink, output, list, thread
    <2>8. CASE StreamActive
        BY <2>8 DEF StreamActive, CmdStop, TypeOK, States, sink, output, list, thread
    <2>9. CASE Callback
        <3>1. queue' \in Seq(Messages) /\ Len(queue') <= QueueMax
            <4>1. CASE queue' = queue
                BY <4>1 DEF TypeOK
            <4>2. CASE HasRoom /\ queue' = Append(queue, Message(Add(stopped))) /\ stopped \in Players
                <5>1. Message(Add(stopped)) \in Messages
                    BY <4>2 DEF Message, Add, Command, Messages, Sources
                <5> QED
                    BY <4>2, <5>1, BoundsAssumption DEF HasRoom, TypeOK
            <4> QED
                BY <2>9, <4>1, <4>2 DEF Callback, Busy
        <3>2. index' \in [Players -> Nat] /\ playing' \in [Players -> BOOLEAN]
            <4>1. \/ /\ index' = [index EXCEPT ![stopped] = 0]
                     /\ playing' = [playing EXCEPT ![stopped] = FALSE]
                  \/ index' = [index EXCEPT ![stopped] = @ + 1] /\ playing' = playing
                BY <2>9 DEF Callback
            <4>2. index' \in [Players -> Nat]
                <5>1. stopped \in Players /\ index \in [Players -> Nat]
                    BY <2>9 DEF Callback, Busy, TypeOK
                <5>2. index[stopped] + 1 \in Nat
                    BY <5>1
                <5> QED
                    BY <4>1, <5>1, <5>2
            <4>3. playing' \in [Players -> BOOLEAN]
                BY <4>1 DEF TypeOK
            <4> QED
                BY <4>2, <4>3
        <3> QED
            <4>1. active' \in Players \cup {None} /\ speaker' \in BOOLEAN
                BY <2>2, <2>9 DEF Callback
            <4>2. at' \in {"fetch", "mix", "play", "callback"}
                BY <2>9 DEF Callback, TypeOK
            <4> QED
                BY <2>9, <3>1, <3>2, <4>1, <4>2 DEF Callback, TypeOK, sink, thread
    <2> QED
        BY <1>4, <2>3, <2>4, <2>5, <2>6, <2>7, <2>8, <2>9 DEF Task
<1> QED
    BY <1>1, <1>2, <1>3, <1>4 DEF Next

\* Every step keeps the task's business, and the loudspeaker with the players.
LEMMA BusyStep == TypeOK /\ Busy /\ [Next]_vars => Busy'
<1> SUFFICES ASSUME TypeOK, Busy, [Next]_vars PROVE Busy'
    OBVIOUS
<1>1. CASE UNCHANGED <<state, output, task>>
    BY <1>1 DEF Busy, Audible, output, task
<1>2. CASE Task
    <2>1. \A s : Switch(s) => active' = Audible(s) /\ speaker' = (active' # None)
        BY DEF Switch, Busy, TypeOK
    <2>2. queue # <<>> => Head(queue).p \in Players
        <3>1. queue # <<>> => Head(queue) \in Messages
            <4> HIDE DEF Messages
            <4> QED
                BY DEF TypeOK
        <3> QED
            BY <3>1 DEF Messages
    <2>3. CASE FetchStart \/ FetchPause
        <3>1. PICK p \in Players, s \in States : CmdSet(p, s) /\ at = "fetch"
            BY <2>2, <2>3 DEF FetchStart, FetchPause, States
        <3>2. state' = [state EXCEPT ![p] = s] /\ Switch(state') /\ UNCHANGED task
            BY <3>1 DEF CmdSet
        <3> QED
            BY <2>1, <3>1, <3>2 DEF Busy, task, Audible
    <2>4. CASE FetchStop
        <3>1. PICK p \in Players : CmdStop(p, "fetch") /\ UNCHANGED output
            BY <2>2, <2>4 DEF FetchStop
        <3> QED
            BY <3>1 DEF CmdStop, Busy, output
    <2>5. CASE Stream
        BY <2>5 DEF Stream, Busy, output, Audible, TypeOK
    <2>6. CASE StreamMix
        BY <2>6, NoneAssumption DEF StreamMix, CmdStop, Busy, output, Audible, TypeOK, Players
    <2>7. CASE StreamActive
        BY <2>7 DEF StreamActive, CmdStop, Busy, output, Audible, TypeOK
    <2>8. CASE Callback
        <3>1. active' = Audible(state) /\ speaker' = (active' # None) /\ state' = state /\ at' = then
            BY <2>1, <2>8 DEF Callback
        <3>2. then \in {"fetch", "play"}
            BY DEF TypeOK
        <3>3. then = "play" => Audible(state) = "FG"
            BY <2>8 DEF Callback, Busy, Audible
        <3> QED
            BY <3>1, <3>2, <3>3, NoneAssumption DEF Busy, Audible, Players
    <2> QED
        BY <1>2, <2>3, <2>4, <2>5, <2>6, <2>7, <2>8 DEF Task
<1>3. ASSUME NEW t \in Threads, Step(t) \/ Begin(t) PROVE UNCHANGED <<state, output, task>>
    BY <1>3 DEF Step, FeedEof, Test, ListLock, Post, StopSeen, StartReturns,
        ListBody, AddCheck, AddAppend, AddAuto, AddMark, Begin
<1> QED
    BY <1>1, <1>2, <1>3 DEF Next, vars

\* The player's state is typed, and the task's business in order, throughout.
LEMMA TypesHold == Spec => [](TypeOK /\ Busy)
<1>1. Init => TypeOK
    <2>1. Init => queue \in Seq(Messages) /\ Len(queue) <= QueueMax
        BY BoundsAssumption DEF Init
    <2>2. Init => prog \in [Threads -> Seq(Ops)]
        BY DEF Init
    <2>3. Init => calls \in 0..MaxCalls
        BY BoundsAssumption DEF Init
    <2>4. Init => /\ eof \in [Players -> BOOLEAN] /\ playing \in [Players -> BOOLEAN]
                   /\ speaker \in BOOLEAN
        BY DEF Init
    <2>5. Init => count \in [Players -> Nat] /\ index \in [Players -> Nat]
        BY DEF Init
    <2> QED
        BY <2>1, <2>2, <2>3, <2>4, <2>5 DEF Init, TypeOK, States, Sources
<1>2. Init => Busy
    <2>1. Init => speaker = (active # None)
        BY Zenon DEF Init
    <2>2. Init => active = Audible(state)
        BY DEF Init, Audible, Players
    <2> QED
        BY <2>1, <2>2 DEF Init, Busy
<1> QED
    BY <1>1, <1>2, TypeStep, BusyStep, PTL DEF Spec

\* AiPlayer keeps its types for all threads, calls and bounds.
THEOREM TypeCorrect == Spec => []TypeOK
BY TypesHold, PTL

\* Between two commands the loudspeaker runs exactly while a player plays.
THEOREM SpeakerCorrect == Spec => []SpeakerFollows
<1>1. TypeOK /\ Busy => SpeakerFollows
    BY DEF Busy, SpeakerFollows
<1> QED
    BY <1>1, TypesHold, PTL
-----------------------------------------------------------------------------
(* The playlists. *)

\* Every step keeps the index of a playlist in it.
LEMMA IndexStep == TypeOK /\ Busy /\ IndexInList /\ [Next]_vars => IndexInList'
<1> SUFFICES ASSUME TypeOK, Busy, IndexInList, [Next]_vars, NEW q \in Players
             PROVE  index'[q] < count'[q] \/ index'[q] = 0
    BY DEF IndexInList
<1>1. index[q] \in Nat /\ count[q] \in Nat /\ (index[q] < count[q] \/ index[q] = 0)
    BY DEF TypeOK, IndexInList
<1>2. CASE UNCHANGED <<count, index>>
    BY <1>1, <1>2
<1>3. ASSUME NEW t \in Threads, ListBody(t) PROVE index'[q] < count'[q] \/ index'[q] = 0
    <2>1. CASE Op(t).op = "clear"
        BY <1>1, <1>3, <2>1 DEF ListBody, TypeOK
    <2>2. CASE Op(t).op # "clear"
        BY <1>1, <1>3, <2>2 DEF ListBody, TypeOK
    <2> QED
        BY <2>1, <2>2
<1>4. ASSUME NEW t \in Threads, AddAppend(t) PROVE index'[q] < count'[q] \/ index'[q] = 0
    BY <1>1, <1>4 DEF AddAppend, TypeOK
<1>5. CASE Callback
    <2>1. stopped \in Players /\ index[stopped] \in Nat /\ count[stopped] \in Nat
        BY <1>5 DEF Callback, Busy, TypeOK
    <2>2. CASE index[stopped] + 1 >= count[stopped]
        BY <1>1, <1>5, <2>1, <2>2 DEF Callback, TypeOK
    <2>3. CASE ~(index[stopped] + 1 >= count[stopped])
        <3>1. index' = [index EXCEPT ![stopped] = @ + 1] /\ count' = count
            BY <1>5, <2>3 DEF Callback
        <3>2. index[stopped] + 1 < count[stopped]
            BY <2>1, <2>3
        <3> QED
            BY <1>1, <3>1, <3>2 DEF TypeOK
    <2> QED
        BY <2>2, <2>3
<1>6. ASSUME NEW t \in Threads, Step(t) PROVE index'[q] < count'[q] \/ index'[q] = 0
    BY <1>2, <1>3, <1>4, <1>6 DEF Step, FeedEof, Test, ListLock, Post, StopSeen,
        StartReturns, AddCheck, AddAuto, AddMark, list
<1>7. CASE Task
    BY <1>2, <1>5, <1>7 DEF Task, FetchStart, FetchStop, FetchPause, Stream, StreamMix,
        StreamActive, list
<1> QED
    BY <1>2, <1>6, <1>7 DEF Next, Begin, vars, list

\* No sequence of adds, clears and callbacks leaves the index outside the playlist.
THEOREM IndexCorrect == Spec => []IndexInList
<1>1. Init => IndexInList
    BY DEF Init, IndexInList
<1> QED
    BY <1>1, IndexStep, TypesHold, PTL DEF Spec

-----------------------------------------------------------------------------
(* Waiting for STOPPED. *)

StopOps == {"stop", "clear", "list_stop"}

\* Who holds a mutex is inside an operation on that playlist
Holders == \A p \in Players : mutex[p] # None =>
    /\ prog[mutex[p]] # <<>>
    /\ Op(mutex[p]).op \in {"clear", "list_stop"}
    /\ Op(mutex[p]).p = p
    /\ pc[mutex[p]] \in {"post", "wait", "body"}

\* The task cannot leave STOPPED behind while a holder of the mutex looks for it
Blocked == \A p \in Players :
    mutex[p] # None /\ pc[mutex[p]] \in {"post", "wait"} /\ state[p] = "STOPPED" =>
        at = "callback" /\ stopped = p

\* Only those who wait can miss
MissedWait == \A t \in missed : At(t, "wait", StopOps)

WaitInv == Holders /\ Blocked /\ MissedWait /\ ListStopNotMissed

\* A step of the task keeps the waits in order.
LEMMA TaskWaitStep == TypeOK /\ Busy /\ WaitInv /\ Task => WaitInv'
<1> SUFFICES ASSUME TypeOK, Busy, WaitInv, Task PROVE WaitInv'
    OBVIOUS
<1>1. mutex' = mutex /\ prog' = prog /\ pc' = pc
    BY DEF Task, FetchStart, FetchStop, FetchPause, Stream, StreamMix, StreamActive, Callback, thread
<1>2. Holders'
    BY <1>1 DEF WaitInv, Holders, Op
<1>3. queue # <<>> => Head(queue).p \in Players
    <2>1. queue # <<>> => Head(queue) \in Messages
        <3> HIDE DEF Messages
        <3> QED
            BY DEF TypeOK
    <2> QED
        BY <2>1 DEF Messages
<1>4. CASE FetchStart \/ FetchPause
    <2>1. PICK p \in Players, s \in {"PLAYING", "PAUSED"} : CmdSet(p, s) /\ at = "fetch"
        BY <1>3, <1>4 DEF FetchStart, FetchPause
    <2>2. Blocked'
        BY <1>1, <2>1 DEF WaitInv, Blocked, CmdSet, TypeOK
    <2>3. MissedWait'
        BY <1>1, <2>1 DEF WaitInv, MissedWait, CmdSet, Waiting, StopOps, At, Op
    <2>4. ListStopNotMissed'
        <3> SUFFICES ASSUME NEW q \in Players, mutex[q] # None, mutex[q] \in missed' PROVE FALSE
            BY <1>1 DEF ListStopNotMissed
        <3>1. mutex[q] \in Waiting(p) /\ state[p] = "STOPPED"
            BY <2>1 DEF WaitInv, ListStopNotMissed, CmdSet
        <3>2. p = q
            BY <3>1 DEF WaitInv, Holders, Waiting
        <3> QED
            BY <2>1, <3>1, <3>2 DEF WaitInv, Blocked, Waiting, At
    <2> QED
        BY <1>2, <2>2, <2>3, <2>4 DEF WaitInv
<1>5. ASSUME NEW p \in Players, NEW next, CmdStop(p, next), at # "callback" PROVE WaitInv'
    <2>1. Blocked'
        BY <1>1, <1>5 DEF WaitInv, Blocked, CmdStop, TypeOK
    <2>2. MissedWait' /\ ListStopNotMissed'
        BY <1>1, <1>5 DEF WaitInv, MissedWait, ListStopNotMissed, CmdStop, At, Op
    <2> QED
        BY <1>2, <2>1, <2>2 DEF WaitInv
<1>6. CASE UNCHANGED <<state, missed>> /\ (at # "callback" \/ mutex[stopped] = None)
    <2>1. Blocked'
        BY <1>1, <1>6 DEF WaitInv, Blocked
    <2>2. MissedWait' /\ ListStopNotMissed'
        BY <1>1, <1>6 DEF WaitInv, MissedWait, ListStopNotMissed, At, Op
    <2> QED
        BY <1>2, <2>1, <2>2 DEF WaitInv
<1>7. CASE FetchStop
    BY <1>3, <1>5, <1>7 DEF FetchStop
<1>8. CASE StreamMix
    BY <1>5, <1>6, <1>8 DEF StreamMix, Players
<1>9. CASE StreamActive
    BY <1>5, <1>6, <1>9 DEF StreamActive, Busy, TypeOK
<1>10. CASE Stream
    BY <1>6, <1>10 DEF Stream
<1>11. CASE Callback
    BY <1>6, <1>11 DEF Callback
<1> QED
    BY <1>4, <1>7, <1>8, <1>9, <1>10, <1>11 DEF Task

\* A step of a thread keeps the waits in order.
LEMMA ThreadWaitStep ==
    ASSUME TypeOK, WaitInv, NEW t \in Threads, Step(t) \/ Begin(t)
    PROVE  WaitInv'
<1>0. UNCHANGED <<state, task>>
    BY DEF Step, FeedEof, Test, ListLock, Post, StopSeen, StartReturns, ListBody,
        AddCheck, AddAppend, AddAuto, AddMark, Begin
<1>1. \A u \in Threads : u # t => prog'[u] = prog[u] /\ pc'[u] = pc[u]
    <2>1. /\ \/ prog' = prog
             \/ \E x : prog' = [prog EXCEPT ![t] = x]
          /\ \/ pc' = pc
             \/ \E x : pc' = [pc EXCEPT ![t] = x]
        BY DEF Step, FeedEof, Test, ListLock, Post, StopSeen, StartReturns, ListBody,
            AddCheck, AddAppend, AddAuto, AddMark, Begin, Done, Goto, Proceed
    <2> QED
        BY <2>1 DEF TypeOK
<1>2. mutex \in [Players -> Threads \cup {None}] /\ missed \subseteq Threads
      /\ prog[t] \in Seq(Ops) /\ prog \in [Threads -> Seq(Ops)]
      /\ pc \in [Threads -> {"op", "post", "wait", "body", "append", "auto", "mark"}]
    BY DEF TypeOK
<1>3. CASE ListLock(t)
    <2>1. Op(t).p \in Players /\ mutex[Op(t).p] = None /\ pc[t] = "op" /\ prog[t] # <<>>
          /\ Op(t).op \in {"clear", "list_stop"}
        BY <1>3, OpType DEF ListLock, At
    <2>2. mutex' = [mutex EXCEPT ![Op(t).p] = t] /\ prog' = prog /\ missed' = missed
          /\ pc'[t] \in {"post", "body"}
          /\ (pc'[t] = "post" => state[Op(t).p] # "STOPPED")
        BY <1>2, <1>3 DEF ListLock, Goto, Accepts
    <2>3. \A p \in Players : mutex[p] # t
        BY <1>2, <2>1, NoneAssumption DEF WaitInv, Holders
    <2>4. t \notin missed
        BY <2>1 DEF WaitInv, MissedWait, At
    <2>5. Holders'
        BY <1>1, <1>2, <2>1, <2>2, <2>3 DEF WaitInv, Holders, Op
    <2>6. Blocked'
        BY <1>0, <1>1, <1>2, <2>1, <2>2, <2>3 DEF WaitInv, Blocked, task
    <2>7. MissedWait'
        BY <1>1, <1>2, <2>2, <2>4 DEF WaitInv, MissedWait, At, Op
    <2>8. ListStopNotMissed'
        BY <1>2, <2>1, <2>2, <2>4 DEF WaitInv, ListStopNotMissed
    <2> QED
        BY <2>5, <2>6, <2>7, <2>8 DEF WaitInv
<1>4. CASE ListBody(t)
    <2>1. Op(t).p \in Players /\ mutex' = [mutex EXCEPT ![Op(t).p] = None] /\ missed' = missed
        BY <1>4, OpType DEF ListBody, At
    <2>2. \A p \in Players : mutex'[p] # None => mutex'[p] = mutex[p] /\ mutex[p] # t
        BY <1>2, <2>1, NoneAssumption DEF WaitInv, Holders
    <2>3. t \notin missed
        BY <1>4 DEF WaitInv, MissedWait, At, ListBody
    <2>4. Holders' /\ Blocked'
        BY <1>0, <1>1, <1>2, <2>2 DEF WaitInv, Holders, Blocked, Op, task
    <2>5. MissedWait' /\ ListStopNotMissed'
        BY <1>1, <1>2, <2>1, <2>2, <2>3 DEF WaitInv, MissedWait, ListStopNotMissed, At, Op
    <2> QED
        BY <2>4, <2>5 DEF WaitInv
<1>5. CASE StopSeen(t)
    <2>1. mutex' = mutex /\ missed' = missed \ {t} /\ Proceed(t) /\ At(t, "wait", StopOps)
        BY <1>5 DEF StopSeen, StopOps
    <2>2. Op(t).op \in {"clear", "list_stop"} => prog' = prog /\ pc'[t] = "body"
        BY <1>2, <2>1 DEF Proceed, Goto
    <2>3. Holders' /\ Blocked'
        BY <1>0, <1>1, <1>2, <2>1, <2>2 DEF WaitInv, Holders, Blocked, Op, task
    <2>4. MissedWait' /\ ListStopNotMissed'
        BY <1>1, <1>2, <2>1 DEF WaitInv, MissedWait, ListStopNotMissed, At, Op
    <2> QED
        BY <2>3, <2>4 DEF WaitInv
<1>6. CASE Post(t)
    <2>1. mutex' = mutex /\ missed' = missed /\ pc[t] = "post" /\ prog[t] # <<>>
        BY <1>6 DEF Post
    <2>2. Op(t).op \in {"clear", "list_stop"} => prog' = prog /\ pc'[t] \in {"wait", "body"}
        BY <1>2, <1>6 DEF Post, Proceed, Goto
    <2>3. t \notin missed
        BY <2>1 DEF WaitInv, MissedWait, At
    <2>4. Holders' /\ Blocked'
        BY <1>0, <1>1, <1>2, <2>1, <2>2 DEF WaitInv, Holders, Blocked, Op, task
    <2>5. MissedWait' /\ ListStopNotMissed'
        BY <1>1, <1>2, <2>1, <2>3 DEF WaitInv, MissedWait, ListStopNotMissed, At, Op
    <2> QED
        BY <2>4, <2>5 DEF WaitInv
<1>7. CASE FeedEof(t) \/ Test(t) \/ StartReturns(t) \/ AddCheck(t) \/ AddAppend(t)
           \/ AddAuto(t) \/ AddMark(t) \/ Begin(t)
    <2>1. mutex' = mutex /\ missed' = missed
        BY <1>7 DEF FeedEof, Test, StartReturns, AddCheck, AddAppend, AddAuto, AddMark, Begin
    <2>2. prog[t] = <<>> \/ Op(t).op \notin {"clear", "list_stop"}
        BY <1>7 DEF FeedEof, Test, StartReturns, AddCheck, AddAppend, AddAuto, AddMark,
            Begin, At
    <2>3. ~At(t, "wait", StopOps)
        BY <1>7 DEF FeedEof, Test, StartReturns, AddCheck, AddAppend, AddAuto, AddMark,
            Begin, At, StopOps
    <2>4. \A p \in Players : mutex[p] # t
        BY <1>2, <2>2, NoneAssumption DEF WaitInv, Holders
    <2>5. Holders' /\ Blocked'
        BY <1>0, <1>1, <1>2, <2>1, <2>4 DEF WaitInv, Holders, Blocked, Op, task
    <2>6. MissedWait' /\ ListStopNotMissed'
        BY <1>1, <1>2, <2>1, <2>3 DEF WaitInv, MissedWait, ListStopNotMissed, At, Op
    <2> QED
        BY <2>5, <2>6 DEF WaitInv
<1> QED
    BY <1>3, <1>4, <1>5, <1>6, <1>7 DEF Step

\* The waits stay in order.
LEMMA WaitInvHolds == Spec => []WaitInv
<1>1. Init => WaitInv
    BY DEF Init, WaitInv, Holders, Blocked, MissedWait, ListStopNotMissed
<1>2. TypeOK /\ Busy /\ WaitInv /\ [Next]_vars => WaitInv'
    <2> SUFFICES ASSUME TypeOK, Busy, WaitInv, [Next]_vars PROVE WaitInv'
        OBVIOUS
    <2>1. CASE UNCHANGED vars
        BY <2>1 DEF vars, task, thread, WaitInv, Holders, Blocked, MissedWait, ListStopNotMissed,
            At, Op
    <2> QED
        BY <2>1, TaskWaitStep, ThreadWaitStep DEF Next
<1> QED
    BY <1>1, <1>2, TypesHold, PTL DEF Spec

\* A clear or stop of a playlist that waits for the player with the mutex held cannot be
\* overtaken by a START, whatever other threads post meanwhile.
THEOREM ListStopsAreSeen == Spec => []ListStopNotMissed
<1>1. WaitInv => ListStopNotMissed
    BY DEF WaitInv
<1> QED
    BY <1>1, WaitInvHolds, PTL

-----------------------------------------------------------------------------
(* A wait for STOPPED is never for nothing. *)

StopQueued(q, p) == \E i \in 1..Len(q) : q[i].p = p /\ q[i].cmd = "STOP"

\* A thread between two calls is inside no operation
Idle == \A t \in Threads : prog[t] = <<>> => pc[t] = "op"

CoverInv == Idle /\ WaitCovered

\* A STOP stays in the queue when another command is posted, and is there when it is the
\* one that is posted.
LEMMA StopKeptByPost ==
    ASSUME NEW S, NEW q \in Seq(S), NEW m \in S, NEW p
    PROVE  /\ StopQueued(q, p) => StopQueued(Append(q, m), p)
           /\ m.p = p /\ m.cmd = "STOP" => StopQueued(Append(q, m), p)
<1>1. /\ Len(Append(q, m)) = Len(q) + 1
      /\ \A i \in 1..Len(q) : Append(q, m)[i] = q[i]
      /\ Append(q, m)[Len(q) + 1] = m
      /\ Len(q) \in Nat
    OBVIOUS
<1>2. ASSUME NEW i \in 1..Len(q), q[i].p = p, q[i].cmd = "STOP"
      PROVE  StopQueued(Append(q, m), p)
    <2>1. i \in 1..Len(Append(q, m)) /\ Append(q, m)[i] = q[i]
        BY <1>1
    <2> QED
        BY <1>2, <2>1 DEF StopQueued
<1>3. ASSUME m.p = p, m.cmd = "STOP" PROVE StopQueued(Append(q, m), p)
    <2>1. Len(q) + 1 \in 1..Len(Append(q, m))
        BY <1>1
    <2> QED
        BY <1>1, <1>3, <2>1 DEF StopQueued
<1> QED
    BY <1>2, <1>3 DEF StopQueued

\* Fetching a command loses no other player's STOP.
LEMMA StopKeptByFetch ==
    ASSUME NEW S, NEW q \in Seq(S), q # <<>>, NEW p, StopQueued(q, p),
           ~(Head(q).p = p /\ Head(q).cmd = "STOP")
    PROVE  StopQueued(Tail(q), p)
<1>1. PICK i \in 1..Len(q) : q[i].p = p /\ q[i].cmd = "STOP"
    BY DEF StopQueued
<1>2. Head(q) = q[1] /\ Len(q) \in Nat /\ Len(Tail(q)) = Len(q) - 1
      /\ \A j \in 1..Len(Tail(q)) : Tail(q)[j] = q[j + 1]
    OBVIOUS
<1>3. i # 1
    BY <1>1, <1>2
<1>4. i - 1 \in 1..Len(Tail(q)) /\ Tail(q)[i - 1] = q[i]
    BY <1>2, <1>3
<1> QED
    BY <1>1, <1>4 DEF StopQueued

\* A step of the task keeps every wait covered: what it does to STOPPED it does to the
\* player whose STOP it fetched, or counts as missed.
LEMMA TaskCoverStep == TypeOK /\ Busy /\ WaitCovered /\ Task => WaitCovered'
<1> SUFFICES ASSUME TypeOK, Busy, WaitCovered, Task,
                    NEW q \in Players, NEW t \in Waiting(q)', t \notin missed'
             PROVE  state'[q] = "STOPPED" \/ StopQueued(queue', q)
    BY DEF WaitCovered, StopQueued
<1>1. mutex' = mutex /\ prog' = prog /\ pc' = pc
    BY DEF Task, FetchStart, FetchStop, FetchPause, Stream, StreamMix, StreamActive, Callback, thread
<1>2. t \in Waiting(q)
    BY <1>1 DEF Waiting, At, Op
<1>3. missed \subseteq missed'
    BY DEF Task, FetchStart, FetchStop, FetchPause, Stream, StreamMix, StreamActive, Callback,
        CmdSet, CmdStop
<1>4. state[q] = "STOPPED" \/ StopQueued(queue, q)
    BY <1>2, <1>3 DEF WaitCovered, StopQueued
<1>5. queue \in Seq(Messages) /\ state \in [Players -> States]
    BY DEF TypeOK
<1>6. queue # <<>> => Head(queue).p \in Players
    <2>1. queue # <<>> => Head(queue) \in Messages
        <3> HIDE DEF Messages
        <3> QED
            BY <1>5
    <2> QED
        BY <2>1 DEF Messages
<1>7. CASE FetchStart \/ FetchPause
    <2>1. PICK p \in Players, s \in States : CmdSet(p, s)
        BY <1>6, <1>7 DEF FetchStart, FetchPause, States
    <2>2. queue # <<>> /\ Head(queue).cmd # "STOP" /\ queue' = Tail(queue)
        BY <1>7 DEF FetchStart, FetchPause
    <2>3. CASE StopQueued(queue, q)
        BY <1>5, <2>2, <2>3, StopKeptByFetch
    <2>4. CASE state[q] = "STOPPED"
        <3>1. p # q
            BY <1>2, <2>1, <2>4 DEF CmdSet
        <3> QED
            BY <1>5, <2>1, <2>4, <3>1 DEF CmdSet
    <2> QED
        BY <1>4, <2>3, <2>4
<1>8. CASE FetchStop
    <2>1. /\ queue # <<>> /\ queue' = Tail(queue)
          /\ state' = [state EXCEPT ![Head(queue).p] = "STOPPED"]
        BY <1>8 DEF FetchStop, CmdStop
    <2>2. CASE Head(queue).p = q
        BY <1>5, <2>1, <2>2
    <2>3. CASE Head(queue).p # q
        <3>1. StopQueued(queue, q) => StopQueued(queue', q)
            BY <1>5, <2>1, <2>3, StopKeptByFetch
        <3> QED
            BY <1>4, <1>5, <2>1, <2>3, <3>1
    <2> QED
        BY <2>2, <2>3
<1>9. CASE Stream \/ StreamMix \/ StreamActive
    <2>1. queue' = queue
        BY <1>9 DEF Stream, StreamMix, StreamActive
    <2>2. state[q] = "STOPPED" => state'[q] = "STOPPED"
        BY <1>5, <1>9 DEF Stream, StreamMix, StreamActive, CmdStop
    <2> QED
        BY <1>4, <2>1, <2>2
<1>10. CASE Callback
    <2>1. state' = state /\ stopped \in Players
        BY <1>10 DEF Callback, Busy
    <2>2. Message(Add(stopped)) \in Messages
        BY <2>1 DEF Message, Add, Command, Messages, Sources
    <2>3. queue' = queue \/ queue' = Append(queue, Message(Add(stopped)))
        BY <1>10 DEF Callback
    <2>4. StopQueued(queue, q) => StopQueued(queue', q)
        BY <1>5, <2>2, <2>3, StopKeptByPost
    <2> QED
        BY <1>4, <2>1, <2>4
<1> QED
    BY <1>7, <1>8, <1>9, <1>10 DEF Task

\* A step of a thread keeps every wait covered: it waits for STOPPED only after its own STOP
\* has found room in the queue.
LEMMA ThreadCoverStep ==
    ASSUME TypeOK, CoverInv, NEW t \in Threads, Step(t) \/ Begin(t)
    PROVE  CoverInv'
<1>1. state' = state
    BY DEF Step, FeedEof, Test, ListLock, Post, StopSeen, StartReturns, ListBody,
        AddCheck, AddAppend, AddAuto, AddMark, Begin
<1>2. \A u \in Threads : u # t => prog'[u] = prog[u] /\ pc'[u] = pc[u]
    <2>1. /\ \/ prog' = prog
             \/ \E x : prog' = [prog EXCEPT ![t] = x]
          /\ \/ pc' = pc
             \/ \E x : pc' = [pc EXCEPT ![t] = x]
        BY DEF Step, FeedEof, Test, ListLock, Post, StopSeen, StartReturns, ListBody,
            AddCheck, AddAppend, AddAuto, AddMark, Begin, Done, Goto, Proceed
    <2> QED
        BY <2>1 DEF TypeOK
<1>3. /\ queue \in Seq(Messages) /\ prog \in [Threads -> Seq(Ops)]
      /\ pc \in [Threads -> {"op", "post", "wait", "body", "append", "auto", "mark"}]
    BY DEF TypeOK
<1>4. Idle'
    <2>1. CASE Begin(t)
        BY <1>2, <1>3, <2>1 DEF CoverInv, Idle, Begin
    <2>2. CASE Step(t)
        <3>1. prog[t] # <<>> /\ (prog' = prog \/ pc'[t] = "op")
            BY <1>3, <2>2 DEF Step, FeedEof, Test, ListLock, Post, StopSeen, StartReturns,
                ListBody, AddCheck, AddAppend, AddAuto, AddMark, Done, Goto, Proceed, At
        <3> QED
            BY <1>2, <3>1 DEF CoverInv, Idle
    <2> QED
        BY <2>1, <2>2
<1>5. \A u \in Threads : u # t /\ u \in missed => u \in missed'
    BY DEF Step, FeedEof, Test, ListLock, Post, StopSeen, StartReturns, ListBody,
        AddCheck, AddAppend, AddAuto, AddMark, Begin
<1>6. CASE Post(t)
    <2>1. prog[t] # <<>> /\ Op(t) \in Ops
        BY <1>6, OpType DEF Post
    <2>2. Message(Op(t)) \in Messages
        BY <2>1 DEF Message, Command, Messages, Ops
    <2>3. queue' = queue \/ queue' = Append(queue, Message(Op(t)))
        BY <1>6 DEF Post
    <2>4. \A p : StopQueued(queue, p) => StopQueued(queue', p)
        BY <1>3, <2>2, <2>3, StopKeptByPost
    <2>5. ASSUME NEW p \in Players, t \in Waiting(p)' PROVE StopQueued(queue', p)
        <3>1. pc'[t] = "wait" /\ prog'[t] # <<>> /\ Op(t)'.op \in StopOps /\ Op(t)'.p = p
            BY <2>5 DEF Waiting, At, StopOps
        <3>2. HasRoom /\ prog' = prog
            BY <1>3, <1>6, <3>1 DEF Post, Proceed, Goto, Done
        <3>3. queue' = Append(queue, Message(Op(t))) /\ Op(t).op \in StopOps /\ Op(t).p = p
            BY <1>6, <3>1, <3>2 DEF Post, Op
        <3>4. Message(Op(t)).p = p /\ Message(Op(t)).cmd = "STOP"
            BY <3>3 DEF Message, Command, StopOps
        <3> QED
            BY <1>3, <2>2, <3>3, <3>4, StopKeptByPost
    <2>6. ASSUME NEW p \in Players, NEW u \in Waiting(p)', u \notin missed', u # t
          PROVE  state'[p] = "STOPPED" \/ StopQueued(queue', p)
        <3>1. u \in Waiting(p) /\ u \notin missed
            BY <1>2, <1>5, <2>6 DEF Waiting, At, Op
        <3> QED
            BY <1>1, <2>4, <3>1 DEF CoverInv, WaitCovered, StopQueued
    <2>7. WaitCovered'
        BY <2>5, <2>6 DEF WaitCovered, StopQueued
    <2> QED
        BY <1>4, <2>7 DEF CoverInv
<1>7. CASE ~Post(t)
    <2>1. queue' = queue
        BY <1>7 DEF Step, FeedEof, Test, ListLock, StopSeen, StartReturns, ListBody,
            AddCheck, AddAppend, AddAuto, AddMark, Begin
    <2>2. \A p \in Players : t \notin Waiting(p)'
        <3>1. pc'[t] # "wait"
            <4>1. CASE Begin(t)
                BY <4>1 DEF CoverInv, Idle, Begin
            <4>2. CASE Step(t)
                BY <1>3, <1>7, <4>2 DEF Step, FeedEof, Test, ListLock, StopSeen,
                    StartReturns, ListBody, AddCheck, AddAppend, AddAuto, AddMark, Done, Goto, Proceed
            <4> QED
                BY <4>1, <4>2
        <3> QED
            BY <3>1 DEF Waiting, At
    <2>3. ASSUME NEW p \in Players, NEW u \in Waiting(p)', u \notin missed'
          PROVE  state'[p] = "STOPPED" \/ StopQueued(queue', p)
        <3>1. u \in Waiting(p) /\ u \notin missed
            BY <1>2, <1>5, <2>2, <2>3 DEF Waiting, At, Op
        <3> QED
            BY <1>1, <2>1, <3>1 DEF CoverInv, WaitCovered, StopQueued
    <2>4. WaitCovered'
        BY <2>3 DEF WaitCovered, StopQueued
    <2> QED
        BY <1>4, <2>4 DEF CoverInv
<1> QED
    BY <1>6, <1>7

\* Whoever looks for STOPPED, with or without the mutex, has a STOP in the queue or sees it,
\* unless a later START has already replaced it: no full queue leaves a thread waiting for a
\* command that was never posted.
THEOREM WaitersAreCovered == Spec => []WaitCovered
<1>1. Init => CoverInv
    BY DEF Init, CoverInv, Idle, WaitCovered, Waiting, At
<1>2. TypeOK /\ Busy /\ CoverInv /\ [Next]_vars => CoverInv'
    <2> SUFFICES ASSUME TypeOK, Busy, CoverInv, [Next]_vars PROVE CoverInv'
        OBVIOUS
    <2>1. CASE UNCHANGED vars
        BY <2>1 DEF vars, thread, CoverInv, Idle, WaitCovered, Waiting, At, Op
    <2>2. CASE Task
        <3>1. prog' = prog /\ pc' = pc
            BY <2>2 DEF Task, FetchStart, FetchStop, FetchPause, Stream, StreamMix, StreamActive,
                Callback, thread
        <3> QED
            BY <2>2, <3>1, TaskCoverStep DEF CoverInv, Idle
    <2> QED
        BY <2>1, <2>2, ThreadCoverStep DEF Next
<1>3. CoverInv => WaitCovered
    BY DEF CoverInv
<1> QED
    BY <1>1, <1>2, <1>3, TypesHold, PTL DEF Spec
=============================================================================
