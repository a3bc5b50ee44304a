--------------------------- MODULE PlaybackProofs ---------------------------
(***************************************************************************)
(* What the playback control guarantees for every number of threads, songs *)
(* and calls and every length of the list: no request to the worker is     *)
(* lost, types and ids stay correct, the file follows the list and the     *)
(* current id names what plays.                                            *)
(***************************************************************************)
EXTENDS Playback, FiniteSetTheorems, SequenceTheorems, TLAPS

\* pc gives every thread a place
PcOK == pc = [t \in All |-> pc[t]]

Covered == PcOK /\ NoLostRequest

\* A step of a thread that neither posts nor takes leaves what covers a request in place:
\* the token, the thread that is about to post, the worker that is about to look.
LEMMA MoveKeeps ==
    ASSUME Covered, NEW t \in All, NEW l, pc[t] \notin {"take", "post"},
           pc' = [pc EXCEPT ![t] = l], UNCHANGED requests
    PROVE  Covered'
<1>1. PcOK'
    BY DEF Covered, PcOK
<1>2. \A u \in All : u # t => pc'[u] = pc[u]
    BY DEF Covered, PcOK
<1>3. pc[Worker] = "take" => pc'[Worker] = "take"
    BY <1>2 DEF All
<1>4. \A u \in All : pc[u] = "post" => pc'[u] = "post"
    BY <1>2
<1>5. NoLostRequest'
    BY <1>3, <1>4 DEF Covered, NoLostRequest, requests
<1>6. QED BY <1>1, <1>5 DEF Covered

\* A step that moves no thread keeps it too, if it only adds tokens.
LEMMA TaskKeeps ==
    ASSUME Covered, UNCHANGED <<pc, user_next, user_play>>, sem' = sem \/ sem' = 1
    PROVE  Covered'
BY DEF Covered, PcOK, NoLostRequest

\* Every step inside a call keeps what covers a request.
LEMMA StepKeeps ==
    ASSUME Covered, NEW t \in All, Step(t)
    PROVE  Covered'
<1>1. CASE Add(t)
  <2>1. PICK l : pc' = [pc EXCEPT ![t] = l]
      BY <1>1 DEF Add, AddKnown, AddNew, Enter
  <2>2. QED BY <1>1, <2>1, MoveKeeps DEF Add
<1>2. CASE Snap(t) \/ Write(t) \/ SaveFails(t)
  <2>1. PICK l : pc' = [pc EXCEPT ![t] = l]
      BY <1>2 DEF Snap, Write, SaveFails, Enter
  <2>2. QED BY <1>2, <2>1, MoveKeeps DEF Snap, Write, SaveFails, shared
<1>3. CASE Find(t)
  <2>1. PICK l : pc' = [pc EXCEPT ![t] = l]
      BY <1>3 DEF Find, Enter, Goto
  <2>2. QED BY <1>3, <2>1, MoveKeeps DEF Find, shared
<1>4. CASE Fetched(t) \/ FetchFails(t)
  <2>1. PICK l : pc' = [pc EXCEPT ![t] = l]
      BY <1>4 DEF Fetched, FetchFails, Enter
  <2>2. QED BY <1>4, <2>1, MoveKeeps DEF Fetched, FetchFails, shared
<1>5. CASE SetSwitching(t) \/ ClearSwitching(t)
  <2>1. PICK l : pc' = [pc EXCEPT ![t] = l]
      BY <1>5 DEF SetSwitching, ClearSwitching, Enter, Goto
  <2>2. QED BY <1>5, <2>1, MoveKeeps DEF SetSwitching, ClearSwitching
<1>6. CASE Music(t) \/ Several(t) \/ Unplayed(t) \/ Refused(t) \/ MusicFails(t)
  <2>1. PICK l : pc' = [pc EXCEPT ![t] = l]
      BY <1>6 DEF Music, Several, Unplayed, Refused, MusicFails, Enter, Goto
  <2>2. pc[t] \in {"music", "push"} /\ UNCHANGED requests
      BY <1>6 DEF Music, Several, Unplayed, Refused, MusicFails, shared
  <2>3. QED BY <2>1, <2>2, MoveKeeps
<1>7. CASE Name(t) \/ Mark(t)
  <2>1. PICK l : pc' = [pc EXCEPT ![t] = l]
      BY <1>7 DEF Name, Mark, Enter, Goto
  <2>2. QED BY <1>7, <2>1, MoveKeeps DEF Name, Mark
<1>8. CASE Navigate(t) \/ More(t)
  <2>1. PICK l : pc' = [pc EXCEPT ![t] = l]
      BY <1>8 DEF Navigate, More, Enter, Goto
  <2>2. QED BY <1>8, <2>1, MoveKeeps DEF Navigate, More, shared
<1>9. CASE Page(t) \/ NoPage(t) \/ PageDone(t)
  <2>1. PICK l : pc' = [pc EXCEPT ![t] = l]
      BY <1>9 DEF Page, NoPage, PageDone, Enter, Goto
  <2>2. QED BY <1>9, <2>1, MoveKeeps DEF Page, NoPage, PageDone, shared
<1>10. CASE Pend(t)
  <2>1. pc' = [pc EXCEPT ![t] = "post"]
      BY <1>10 DEF Pend, Enter
  <2>2. pc'[t] = "post" /\ PcOK'
      BY <2>1 DEF Covered, PcOK
  <2>3. QED BY <1>10, <2>2 DEF Pend, Covered, NoLostRequest
<1>11. CASE Post(t)
  <2>1. PICK l : pc' = [pc EXCEPT ![t] = l]
      BY <1>11 DEF Post, Enter, Goto
  <2>2. sem' = 1
      BY <1>11 DEF Post
  <2>3. QED BY <2>1, <2>2 DEF Covered, PcOK, NoLostRequest
<1>12. CASE AddFails(t) \/ Nameless(t)
  <2>1. PICK l : pc' = [pc EXCEPT ![t] = l]
      BY <1>12 DEF AddFails, Nameless, Enter, Goto
  <2>2. QED BY <1>12, <2>1, MoveKeeps DEF AddFails, Nameless, shared
<1>13. QED BY <1>1, <1>2, <1>3, <1>4, <1>5, <1>6, <1>7, <1>8, <1>9, <1>10, <1>11, <1>12 DEF Step

\* Every call keeps it when it begins.
LEMMA CallKeeps ==
    ASSUME Covered, NEW t \in All, Call(t)
    PROVE  Covered'
<1>1. CASE CallNavigate(t)
  <2>1. PICK l : pc' = [pc EXCEPT ![t] = l]
      BY <1>1 DEF CallNavigate, Enter
  <2>2. QED BY <1>1, <2>1, MoveKeeps DEF CallNavigate, Begin, shared
<1>2. CASE PlayAsync(t)
  <2>1. pc' = [pc EXCEPT ![t] = "post"]
      BY <1>2 DEF PlayAsync, Enter, Goto
  <2>2. pc'[t] = "post" /\ PcOK'
      BY <2>1 DEF Covered, PcOK
  <2>3. QED BY <2>2 DEF Covered, NoLostRequest
<1>3. CASE RemoveItem(t) \/ Clear(t)
  <2>1. pc' = [pc EXCEPT ![t] = "snap"] /\ UNCHANGED requests
      BY <1>3 DEF RemoveItem, Clear, Drop
  <2>2. QED BY <1>3, <2>1, MoveKeeps DEF RemoveItem, Clear, Begin
<1>4. CASE Search(t) \/ Push(t)
  <2>1. PICK l : pc' = [pc EXCEPT ![t] = l]
      BY <1>4 DEF Search, Push, Enter, Goto
  <2>2. QED BY <1>4, <2>1, MoveKeeps DEF Search, Push, Begin, shared
<1>5. CASE SetAuto(t) \/ StopMusic(t)
    BY <1>5, TaskKeeps DEF SetAuto, StopMusic, shared, requests
<1>6. QED BY <1>1, <1>2, <1>3, <1>4, <1>5 DEF Call

\* The worker takes its token before it reads the flags, and so keeps it.
LEMMA WorkerKeeps ==
    ASSUME Covered, WorkerStep
    PROVE  Covered'
<1>1. Worker \in All
    BY DEF All
<1>2. CASE Wake
  <2>1. pc' = [pc EXCEPT ![Worker] = "take"]
      BY <1>2 DEF Wake, Enter, Goto
  <2>2. pc'[Worker] = "take" /\ PcOK'
      BY <1>1, <2>1 DEF Covered, PcOK
  <2>3. QED BY <2>2 DEF Covered, NoLostRequest
<1>3. CASE Take
  <2>1. PICK l : pc' = [pc EXCEPT ![Worker] = l]
      BY <1>3 DEF Take, Enter
  <2>2. PcOK'
      BY <2>1 DEF Covered, PcOK
  <2>3. user_next' = FALSE /\ user_play' = NoId
      BY <1>3 DEF Take
  <2>4. QED BY <2>2, <2>3 DEF Covered, NoLostRequest
<1>4. CASE Decide
  <2>1. PICK l : pc' = [pc EXCEPT ![Worker] = l]
      BY <1>4 DEF Decide, Enter, Goto
  <2>2. QED BY <1>1, <1>4, <2>1, MoveKeeps DEF Decide, shared
<1>5. QED BY <1>1, <1>2, <1>3, <1>4, StepKeeps DEF WorkerStep

\* Every step of the system keeps it.
LEMMA NextKeeps ==
    ASSUME Covered, [Next]_vars
    PROVE  Covered'
<1>1. CASE WorkerStep
    BY <1>1, WorkerKeeps
<1>2. CASE Task
    BY <1>2, TaskKeeps DEF Task, TaskStart, OnPlaying, OnStopped, OnStoppedPost, shared, requests
<1>3. CASE SongEnds
    BY <1>3, TaskKeeps DEF SongEnds, shared, requests
<1>4. CASE Reboot
  <2>1. pc' = [t \in All |-> "idle"] /\ ~user_next' /\ user_play' = NoId
      BY <1>4 DEF Reboot
  <2>2. QED BY <2>1 DEF Covered, PcOK, NoLostRequest
<1>5. CASE \E t \in Threads : Call(t) \/ Step(t)
    BY <1>5, CallKeeps, StepKeeps DEF All
<1>6. CASE UNCHANGED vars
    BY <1>6, TaskKeeps DEF vars, shared, requests
<1>7. QED BY <1>1, <1>2, <1>3, <1>4, <1>5, <1>6 DEF Next

\* However many threads ask, and whatever the worker, the player task and the power do, a
\* next or a song the user has asked the worker for is never left without a token, a
\* thread about to post one, or a worker about to look.
THEOREM RequestsAreCovered == Spec => []NoLostRequest
<1>1. Init => Covered
    BY DEF Init, Covered, PcOK, NoLostRequest
<1>2. Covered /\ [Next]_vars => Covered'
    BY NextKeeps
<1>3. Covered => NoLostRequest
    BY DEF Covered
<1>4. QED BY <1>1, <1>2, <1>3, PTL DEF Spec

-----------------------------------------------------------------------------
(* Lists: what loading, adding and removing do to one. *)

\* A set of natural numbers has a least element.
LEMMA LeastNat ==
    ASSUME NEW T \in SUBSET Nat, T # {}
    PROVE  \E x \in T : \A y \in T : x <= y
<1> DEFINE R == OpToRel(<, Nat)
<1>1. IsWellFoundedOn(R, Nat)
    BY NatLessThanWellFounded
<1>2. PICK x \in T : \A y \in T : <<y, x>> \notin R
    <2> HIDE DEF R
    <2> QED
        BY <1>1, WFMin
<1>3. \A y \in T : y < x => <<y, x>> \in R
    BY DEF OpToRel
<1>4. \A y \in T : x <= y
    <2> SUFFICES ASSUME NEW y \in T PROVE x <= y
        OBVIOUS
    <2>1. ~(y < x)
        BY <1>2, <1>3
    <2> QED
        BY <2>1
<1> QED
    BY <1>4

\* Induction, for a set instead of a predicate.
LEMMA SetInduction ==
    ASSUME NEW T, 0 \in T, \A n \in Nat : n \in T => n + 1 \in T
    PROVE  Nat \subseteq T
<1> SUFFICES ASSUME Nat \ T # {} PROVE FALSE
    OBVIOUS
<1>1. PICK x \in Nat \ T : \A y \in Nat \ T : x <= y
    BY LeastNat
<1>2. x # 0 /\ x - 1 \in Nat
    BY <1>1
<1>3. x - 1 \in T
    BY <1>1, <1>2
<1> QED
    BY <1>1, <1>2, <1>3

\* f[n] is the list after the first n items of the file s
Loads(s, f, k) == f[0] = <<>> /\ \A n \in 1..k : f[n] = LoadItem(f[n - 1], s[n])

\* Loading an item keeps the list one of items.
LEMMA LoadItemType ==
    ASSUME NEW l \in Seq(Items), NEW x \in Items
    PROVE  LoadItem(l, x) \in Seq(Items)
<1> QED
    BY DEF LoadItem

\* Load takes the items of the file one after the other.
LEMMA LoadDef ==
    ASSUME NEW s \in Seq(Items)
    PROVE  \E f \in [0..Len(s) -> Seq(Items)] : Loads(s, f, Len(s)) /\ Load(s) = f[Len(s)]
<1>0. Len(s) \in Nat /\ \A n \in 1..Len(s) : s[n] \in Items
    <2> QED
        OBVIOUS
<1> DEFINE T == {k \in Nat : k <= Len(s) => \E f \in [0..k -> Seq(Items)] : Loads(s, f, k)}
<1>1. 0 \in T
    <2> DEFINE f == [n \in 0..0 |-> <<>>]
    <2>1. f \in [0..0 -> Seq(Items)] /\ Loads(s, f, 0)
        BY DEF Loads
    <2> QED
        BY <2>1
<1>2. ASSUME NEW k \in Nat, k \in T PROVE k + 1 \in T
    <2> SUFFICES ASSUME k + 1 <= Len(s) PROVE \E f \in [0..(k + 1) -> Seq(Items)] : Loads(s, f, k + 1)
        OBVIOUS
    <2>1. PICK f \in [0..k -> Seq(Items)] : Loads(s, f, k)
        BY <1>0, <1>2
    <2> DEFINE g == [n \in 0..(k + 1) |-> IF n = k + 1 THEN LoadItem(f[k], s[k + 1]) ELSE f[n]]
    <2>2. LoadItem(f[k], s[k + 1]) \in Seq(Items)
        <3>1. f[k] \in Seq(Items) /\ s[k + 1] \in Items
            BY <1>0
        <3> QED
            BY <3>1, LoadItemType
    <2>3. g \in [0..(k + 1) -> Seq(Items)]
        BY <2>2
    <2>4. Loads(s, g, k + 1)
        <3>1. g[0] = <<>>
            BY <2>1 DEF Loads
        <3>2. ASSUME NEW n \in 1..(k + 1) PROVE g[n] = LoadItem(g[n - 1], s[n])
            <4>1. CASE n = k + 1
                BY <4>1
            <4>2. CASE n # k + 1
                BY <2>1, <4>2 DEF Loads
            <4> QED
                BY <4>1, <4>2
        <3> QED
            BY <3>1, <3>2 DEF Loads
    <2> QED
        BY <2>3, <2>4
<1>3. Len(s) \in T
    <2> HIDE DEF T
    <2> QED
        BY <1>0, <1>1, <1>2, SetInduction
<1>4. PICK f \in [0..Len(s) -> Seq(Items)] : Loads(s, f, Len(s))
    BY <1>0, <1>3
<1> DEFINE Def(g) == [n \in 0..Len(s) |-> IF n = 0 THEN <<>> ELSE LoadItem(g[n - 1], s[n])]
<1>5. f = Def(f)
    BY <1>0, <1>4 DEF Loads
<1> DEFINE h == CHOOSE g : g = Def(g)
<1>6. h = Def(h)
    <2> HIDE DEF Def
    <2> QED
        BY <1>5
<1>7. Load(s) = h[Len(s)]
    BY Zenon DEF Load
<1>8. \A n \in 0..Len(s) : h[n] = IF n = 0 THEN <<>> ELSE LoadItem(h[n - 1], s[n])
    <2> HIDE DEF h
    <2> QED
        BY <1>6
<1>9. h = [n \in 0..Len(s) |-> h[n]]
    <2> HIDE DEF h
    <2> QED
        BY <1>6
<1> HIDE DEF h, Def
<1>10. Loads(s, h, Len(s))
    BY <1>0, <1>8 DEF Loads
<1>11. h \in [0..Len(s) -> Seq(Items)]
    <2> DEFINE U == {n \in Nat : n <= Len(s) => h[n] \in Seq(Items)}
    <2>1. 0 \in U
        <3>1. h[0] \in Seq(Items)
            BY <1>10, EmptySeq DEF Loads
        <3> QED
            BY <3>1
    <2>2. ASSUME NEW n \in Nat, n \in U PROVE n + 1 \in U
        <3> SUFFICES ASSUME n + 1 <= Len(s) PROVE h[n + 1] \in Seq(Items)
            BY DEF U
        <3>1. h[n] \in Seq(Items) /\ s[n + 1] \in Items
            BY <1>0, <2>2
        <3>2. h[n + 1] = LoadItem(h[n], s[n + 1])
            BY <1>0, <1>10 DEF Loads
        <3> QED
            BY <3>1, <3>2, LoadItemType
    <2>3. Nat \subseteq U
        <3> HIDE DEF U
        <3> QED
            BY <2>1, <2>2, SetInduction
    <2>4. \A n \in 0..Len(s) : h[n] \in Seq(Items)
        BY <1>0, <2>3
    <2> QED
        BY <1>9, <2>4
<1> QED
    BY <1>7, <1>10, <1>11

Apart(l) == \A i, k \in DOMAIN l : l[i].id = l[k].id => i = k
Fits(l) == l \in Seq(Items) /\ Len(l) <= PlaylistMax /\ Apart(l)

\* No item without a URL follows one with its audio id, for whose sake Load would drop it
Visible(l) == \A i, k \in DOMAIN l : i < k /\ l[k].url = None => l[i].aid # l[k].aid

SongsIn(l) == {SongOf(l[i]) : i \in DOMAIN l}

\* What is known of the list l after the first n items of s
Loaded(s, n, l) ==
    /\ l \in Seq(Items) /\ Len(l) <= n
    /\ \A i \in 1..Len(l) : \E j \in 1..n : l[i] = s[j]
    /\ Apart(l)
    /\ Visible(l)
    /\ Visible(s) => \A j \in 1..n : \E i \in 1..Len(l) : SongOf(l[i]) = SongOf(s[j])

\* One item more.
LEMMA LoadedStep ==
    ASSUME NEW s \in Seq(Items), Apart(s), NEW n \in Nat, n + 1 <= Len(s), NEW l, Loaded(s, n, l)
    PROVE  Loaded(s, n + 1, LoadItem(l, s[n + 1]))
<1> DEFINE x == s[n + 1]
<1>1. /\ Len(s) \in Nat /\ DOMAIN s = 1..Len(s) /\ n + 1 \in DOMAIN s /\ x \in Items
      /\ l \in Seq(Items) /\ Len(l) \in Nat /\ DOMAIN l = 1..Len(l)
      /\ \A j \in 1..n : j \in DOMAIN s
    BY LenProperties, ElementOfSeq DEF Loaded
<1>2. CASE Same(l, x.url, x.aid) # {}
    <2>1. LoadItem(l, x) = l
        BY <1>2 DEF LoadItem
    <2>2. Visible(s) => \E i \in 1..Len(l) : SongOf(l[i]) = SongOf(x)
        <3> SUFFICES ASSUME Visible(s) PROVE \E i \in 1..Len(l) : SongOf(l[i]) = SongOf(x)
            OBVIOUS
        <3>1. CASE x.url # None
            BY <1>1, <1>2, <3>1 DEF Same, SongOf
        <3>2. CASE x.url = None
            <4>1. PICK i \in 1..Len(l) : l[i].aid = x.aid
                BY <1>1, <1>2, <3>2 DEF Same
            <4>2. PICK j \in 1..n : l[i] = s[j]
                BY DEF Loaded
            <4>3. j < n + 1 /\ j \in DOMAIN s
                BY <1>1
            <4> QED
                BY <1>1, <3>2, <4>1, <4>2, <4>3 DEF Visible
        <3> QED
            BY <3>1, <3>2
    <2>3. \A j \in 1..(n + 1) : j \in 1..n \/ j = n + 1
        OBVIOUS
    <2>4. \A j \in 1..n : j \in 1..(n + 1)
        OBVIOUS
    <2>5. Len(l) <= n + 1
        BY <1>1 DEF Loaded
    <2> QED
        BY <1>1, <2>1, <2>2, <2>3, <2>4, <2>5 DEF Loaded
<1>3. CASE Same(l, x.url, x.aid) = {}
    <2> DEFINE m == Append(l, x)
    <2>1. LoadItem(l, x) = m
        BY <1>3 DEF LoadItem
    <2>2. /\ m \in Seq(Items) /\ Len(m) = Len(l) + 1 /\ DOMAIN m = 1..(Len(l) + 1)
          /\ \A i \in 1..Len(l) : m[i] = l[i]
          /\ m[Len(l) + 1] = x
        BY <1>1, AppendProperties, LenProperties
    <2> HIDE DEF m
    <2>3. \A i \in DOMAIN m : i \in 1..Len(l) \/ i = Len(l) + 1
        BY <1>1, <2>2
    <2>4. Len(m) <= n + 1
        BY <1>1, <2>2 DEF Loaded
    <2>5. \A i \in 1..Len(m) : \E j \in 1..(n + 1) : m[i] = s[j]
        <3>1. \A i \in 1..Len(l) : \E j \in 1..(n + 1) : m[i] = s[j]
            <4>1. \A j \in 1..n : j \in 1..(n + 1)
                OBVIOUS
            <4> QED
                BY <2>2, <4>1 DEF Loaded
        <3>2. n + 1 \in 1..(n + 1)
            OBVIOUS
        <3> QED
            BY <2>2, <2>3, <3>1, <3>2
    <2>6. Apart(m)
        <3>1. \A i \in 1..Len(l) : l[i].id # x.id
            <4> SUFFICES ASSUME NEW i \in 1..Len(l), l[i].id = x.id PROVE FALSE
                OBVIOUS
            <4>1. PICK j \in 1..n : l[i] = s[j]
                BY DEF Loaded
            <4>2. j = n + 1
                BY <1>1, <4>1 DEF Apart
            <4> QED
                BY <4>2
        <3>2. Apart(l)
            BY DEF Loaded
        <3> QED
            BY <1>1, <2>2, <2>3, <3>1, <3>2 DEF Apart
    <2>7. Visible(m)
        <3> SUFFICES ASSUME NEW i \in DOMAIN m, NEW k \in DOMAIN m, i < k, m[k].url = None
                     PROVE  m[i].aid # m[k].aid
            BY DEF Visible
        <3>1. i \in 1..Len(l) /\ m[i] = l[i]
            BY <1>1, <2>2, <2>3
        <3>2. CASE k = Len(l) + 1
            BY <1>1, <1>3, <2>2, <3>1, <3>2 DEF Same
        <3>3. CASE k \in 1..Len(l)
            BY <1>1, <2>2, <3>1, <3>3 DEF Loaded, Visible
        <3> QED
            BY <2>3, <3>2, <3>3
    <2>8. Visible(s) => \A j \in 1..(n + 1) : \E i \in 1..Len(m) : SongOf(m[i]) = SongOf(s[j])
        <3> SUFFICES ASSUME Visible(s), NEW j \in 1..(n + 1)
                     PROVE  \E i \in 1..Len(m) : SongOf(m[i]) = SongOf(s[j])
            OBVIOUS
        <3>1. CASE j = n + 1
            <4>1. Len(l) + 1 \in 1..Len(m)
                BY <1>1, <2>2
            <4> QED
                BY <2>2, <3>1, <4>1
        <3>2. CASE j # n + 1
            <4>1. PICK i \in 1..Len(l) : SongOf(l[i]) = SongOf(s[j])
                BY <3>2 DEF Loaded
            <4>2. i \in 1..Len(m) /\ m[i] = l[i]
                BY <1>1, <2>2
            <4> QED
                BY <4>1, <4>2
        <3> QED
            BY <3>1, <3>2
    <2> QED
        BY <2>1, <2>2, <2>4, <2>5, <2>6, <2>7, <2>8 DEF Loaded
<1> QED
    BY <1>2, <1>3

\* What Load makes of a file that fits: a list that fits, with the songs of the file if none
\* hides behind another.
LEMMA LoadFits ==
    ASSUME NEW s, Fits(s)
    PROVE  /\ Fits(Load(s)) /\ Visible(Load(s))
           /\ Visible(s) => SongsIn(Load(s)) = SongsIn(s)
<1>1. s \in Seq(Items) /\ Len(s) \in Nat /\ Apart(s) /\ DOMAIN s = 1..Len(s)
    BY LenProperties DEF Fits
<1>2. PICK f \in [0..Len(s) -> Seq(Items)] : Loads(s, f, Len(s)) /\ Load(s) = f[Len(s)]
    BY <1>1, LoadDef
<1> DEFINE T == {n \in Nat : n <= Len(s) => Loaded(s, n, f[n])}
<1>3. 0 \in T
    <2>1. f[0] = <<>>
        BY <1>2 DEF Loads
    <2>2. <<>> \in Seq(Items) /\ Len(<<>>) = 0 /\ DOMAIN <<>> = 1..0
        BY EmptySeq, LenProperties
    <2>3. 1..0 = {}
        OBVIOUS
    <2>4. Loaded(s, 0, <<>>)
        BY <2>2, <2>3 DEF Loaded, Apart, Visible
    <2> QED
        BY <2>1, <2>4
<1>4. ASSUME NEW n \in Nat, n \in T PROVE n + 1 \in T
    <2> SUFFICES ASSUME n + 1 <= Len(s) PROVE Loaded(s, n + 1, f[n + 1])
        OBVIOUS
    <2>1. Loaded(s, n, f[n])
        BY <1>1, <1>4
    <2>2. n + 1 \in 1..Len(s) /\ (n + 1) - 1 = n
        BY <1>1
    <2>3. f[n + 1] = LoadItem(f[n], s[n + 1])
        BY <1>2, <2>2 DEF Loads
    <2> QED
        BY <1>1, <2>1, <2>3, LoadedStep
<1>5. Loaded(s, Len(s), Load(s))
    <2>1. Len(s) \in T
        <3> HIDE DEF T
        <3> QED
            BY <1>1, <1>3, <1>4, SetInduction
    <2> QED
        BY <1>1, <1>2, <2>1
<1>6. Fits(Load(s)) /\ Visible(Load(s))
    <2>1. Len(Load(s)) \in Nat
        BY <1>5, LenProperties DEF Loaded
    <2> QED
        BY <1>1, <1>5, <2>1, PlaylistAssumption DEF Loaded, Fits
<1>7. DOMAIN Load(s) = 1..Len(Load(s))
    BY <1>5, LenProperties DEF Loaded
<1>8. Visible(s) => SongsIn(Load(s)) = SongsIn(s)
    <2>1. ASSUME NEW i \in DOMAIN Load(s) PROVE SongOf(Load(s)[i]) \in SongsIn(s)
        <3>1. PICK j \in 1..Len(s) : Load(s)[i] = s[j]
            BY <1>5, <1>7 DEF Loaded
        <3> QED
            BY <1>1, <3>1 DEF SongsIn
    <2>2. ASSUME Visible(s), NEW j \in DOMAIN s PROVE SongOf(s[j]) \in SongsIn(Load(s))
        <3>1. PICK i \in 1..Len(Load(s)) : SongOf(Load(s)[i]) = SongOf(s[j])
            BY <1>1, <1>5, <2>2 DEF Loaded
        <3> QED
            BY <1>7, <3>1 DEF SongsIn
    <2> QED
        BY <2>1, <2>2 DEF SongsIn
<1> QED
    BY <1>6, <1>8

\* There is an id for a new item while the list is not full: __playback_playlist_alloc_id_locked
\* always finds one.
LEMMA NewIdIsNew ==
    ASSUME NEW l \in Seq(Items), Len(l) < PlaylistMax
    PROVE  NewId(l) \in Ids /\ NewId(l) \notin IdsIn(l)
<1>1. Len(l) \in Nat /\ DOMAIN l = 1..Len(l) /\ Ids \subseteq Nat /\ PlaylistMax \in Nat
    BY LenProperties, PlaylistAssumption DEF Ids
<1>2. Ids \ IdsIn(l) # {}
    <2> SUFFICES ASSUME \A x \in Ids : \E i \in 1..Len(l) : l[i].id = x PROVE FALSE
        BY <1>1 DEF IdsIn
    <2> DEFINE f == [x \in Ids |-> CHOOSE i \in 1..Len(l) : l[i].id = x]
    <2>1. \A x \in Ids : f[x] \in 1..Len(l) /\ l[f[x]].id = x
        OBVIOUS
    <2>2. f \in [Ids -> 1..Len(l)]
        BY <2>1
    <2>3. /\ IsFiniteSet(Ids) /\ Cardinality(Ids) = PlaylistMax
          /\ IsFiniteSet(1..Len(l)) /\ Cardinality(1..Len(l)) = Len(l)
        <3>1. IsFiniteSet(0..(PlaylistMax - 1)) /\ IsFiniteSet(1..Len(l))
            BY <1>1, FS_Interval
        <3>2. Cardinality(0..(PlaylistMax - 1)) = PlaylistMax /\ Cardinality(1..Len(l)) = Len(l)
            <4>1. \A c, d \in Int : Cardinality(c..d) = IF c > d THEN 0 ELSE d - c + 1
                BY FS_Interval
            <4>2. PlaylistMax - 1 \in Int /\ 0 <= PlaylistMax - 1
                BY <1>1, PlaylistAssumption
            <4>3. Cardinality(0..(PlaylistMax - 1)) = PlaylistMax - 1 - 0 + 1
                BY <4>1, <4>2
            <4>4. \A n \in Nat : Cardinality(1..n) = n
                BY <4>1
            <4> QED
                BY <1>1, <4>3, <4>4
        <3> QED
            BY <3>1, <3>2 DEF Ids
    <2> HIDE DEF f, Ids
    <2>4. PICK x, y \in Ids : x # y /\ f[x] = f[y]
        BY <2>2, <2>3, FS_PigeonHole
    <2> QED
        BY <2>1, <2>4
<1>3. \E i \in Ids \ IdsIn(l) : \A j \in Ids \ IdsIn(l) : i <= j
    BY <1>1, <1>2, LeastNat
<1>4. NewId(l) \in Ids \ IdsIn(l)
    BY <1>3 DEF NewId, First
<1> QED
    BY <1>4

\* The first position of those an item is found at.
LEMMA FirstIsIn ==
    ASSUME NEW S \in SUBSET Nat, S # {}
    PROVE  First(S) \in S
BY LeastNat DEF First

\* A list keeps fitting, and visible, when its first item or any other one is removed.
LEMMA RemovedFits ==
    ASSUME NEW l, Fits(l), NEW i \in DOMAIN l
    PROVE  /\ Fits(RemoveAt(l, i)) /\ (Visible(l) => Visible(RemoveAt(l, i)))
           /\ Len(RemoveAt(l, i)) = Len(l) - 1
           /\ \A k \in DOMAIN l : k # i => \E j \in DOMAIN RemoveAt(l, i) : RemoveAt(l, i)[j] = l[k]
           /\ \A j \in DOMAIN RemoveAt(l, i) : \E k \in DOMAIN l : k # i /\ RemoveAt(l, i)[j] = l[k]
<1>1. l \in Seq(Items) /\ Len(l) \in Nat /\ DOMAIN l = 1..Len(l) /\ \A k \in 1..Len(l) : l[k] \in Items
    BY LenProperties, ElementOfSeq DEF Fits
<1> DEFINE a == SubSeq(l, 1, i - 1)
           b == SubSeq(l, i + 1, Len(l))
           m == RemoveAt(l, i)
<1>2. /\ a \in Seq(Items) /\ Len(a) = i - 1
      /\ \A k \in 1..(i - 1) : a[k] = l[k]
    <2>1. \A k \in 1..(i - 1) : l[k] \in Items
        BY <1>1
    <2>2. /\ a \in Seq(Items) /\ Len(a) = IF 1 <= i - 1 THEN (i - 1) - 1 + 1 ELSE 0
          /\ \A k \in 1..((i - 1) - 1 + 1) : a[k] = l[1 + k - 1]
        BY <1>1, <2>1, SubSeqProperties
    <2> HIDE DEF a
    <2> QED
        BY <1>1, <2>2
<1>3. /\ b \in Seq(Items) /\ Len(b) = Len(l) - i
      /\ \A k \in 1..(Len(l) - i) : b[k] = l[i + k]
    <2>1. \A k \in (i + 1)..Len(l) : l[k] \in Items
        BY <1>1
    <2>2. /\ b \in Seq(Items) /\ Len(b) = IF i + 1 <= Len(l) THEN Len(l) - (i + 1) + 1 ELSE 0
          /\ \A k \in 1..(Len(l) - (i + 1) + 1) : b[k] = l[(i + 1) + k - 1]
        BY <1>1, <2>1, SubSeqProperties
    <2> HIDE DEF b
    <2>3. Len(b) = Len(l) - i
        BY <1>1, <2>2
    <2>4. Len(l) - (i + 1) + 1 = Len(l) - i /\ \A k \in 1..(Len(l) - i) : (i + 1) + k - 1 = i + k
        BY <1>1
    <2> QED
        BY <2>2, <2>3, <2>4
<1>4. m = a \o b
    BY DEF RemoveAt
<1> HIDE DEF a, b, m
<1>5. /\ m \in Seq(Items) /\ Len(m) = Len(l) - 1 /\ DOMAIN m = 1..(Len(l) - 1)
      /\ \A k \in 1..(Len(l) - 1) : m[k] = IF k < i THEN l[k] ELSE l[k + 1]
    <2>1. /\ m \in Seq(Items) /\ Len(m) = Len(a) + Len(b)
          /\ \A k \in 1..(Len(a) + Len(b)) : m[k] = IF k <= Len(a) THEN a[k] ELSE b[k - Len(a)]
        BY <1>2, <1>3, <1>4, ConcatProperties
    <2>2. Len(m) = Len(l) - 1 /\ DOMAIN m = 1..(Len(l) - 1)
        BY <1>1, <1>2, <1>3, <2>1, LenProperties
    <2>3. ASSUME NEW k \in 1..(Len(l) - 1) PROVE m[k] = IF k < i THEN l[k] ELSE l[k + 1]
        <3>1. CASE k < i
            BY <1>1, <1>2, <1>3, <2>1, <3>1
        <3>2. CASE ~(k < i)
            <4>1. PICK n \in Nat : n = Len(l) /\ i \in 1..n /\ k \in 1..(n - 1)
                BY <1>1
            <4>2. PICK j \in 1..(n - i) : j = k - (i - 1) /\ i + j = k + 1
                BY <3>2, <4>1
            <4>3. ~(k <= i - 1) /\ k \in 1..((i - 1) + (n - i))
                BY <3>2, <4>1
            <4>4. \A x \in 1..((i - 1) + (n - i)) : m[x] = IF x <= i - 1 THEN a[x] ELSE b[x - (i - 1)]
                BY <1>2, <1>3, <2>1, <4>1
            <4>5. m[k] = b[j]
                BY <4>2, <4>3, <4>4
            <4>6. b[j] = l[k + 1]
                BY <1>3, <4>1, <4>2
            <4> QED
                BY <3>2, <4>5, <4>6
        <3> QED
            BY <3>1, <3>2
    <2> QED
        BY <2>1, <2>2, <2>3
<1> DEFINE old == [k \in 1..(Len(l) - 1) |-> IF k < i THEN k ELSE k + 1]
<1>6. /\ \A k \in DOMAIN m : old[k] \in DOMAIN l /\ old[k] # i /\ m[k] = l[old[k]]
      /\ \A j, k \in DOMAIN m : j < k => old[j] < old[k]
    BY <1>1, <1>5
<1>7. \A k \in DOMAIN l : k # i => \E j \in DOMAIN m : old[j] = k
    <2> SUFFICES ASSUME NEW k \in DOMAIN l, k # i PROVE \E j \in DOMAIN m : old[j] = k
        OBVIOUS
    <2>1. CASE k < i
        BY <1>1, <1>5, <2>1
    <2>2. CASE ~(k < i)
        <3>1. k - 1 \in DOMAIN m /\ old[k - 1] = k
            BY <1>1, <1>5, <2>2
        <3> QED
            BY <3>1
    <2> QED
        BY <2>1, <2>2
<1> HIDE DEF old
<1>8. Apart(m)
    <2> SUFFICES ASSUME NEW j \in DOMAIN m, NEW k \in DOMAIN m, m[j].id = m[k].id, j # k PROVE FALSE
        BY DEF Apart
    <2>1. old[j] = old[k]
        BY <1>6 DEF Fits, Apart
    <2>2. j \in Nat /\ k \in Nat /\ old[j] \in Nat
        BY <1>1, <1>5, <1>6
    <2>3. j < k \/ k < j
        BY <2>2
    <2>4. old[j] < old[k] \/ old[k] < old[j]
        BY <1>6, <2>3
    <2> QED
        BY <2>1, <2>2, <2>4
<1>9. Visible(l) => Visible(m)
    BY <1>6 DEF Visible
<1>10. Fits(m)
    BY <1>1, <1>5, <1>8, PlaylistAssumption DEF Fits
<1>11. \A k \in DOMAIN l : k # i => \E j \in DOMAIN m : m[j] = l[k]
    BY <1>6, <1>7
<1>12. \A j \in DOMAIN m : \E k \in DOMAIN l : k # i /\ m[j] = l[k]
    BY <1>6
<1> QED
    BY <1>5, <1>9, <1>10, <1>11, <1>12, Zenon DEF m

\* What the eviction does to the list.
LEMMA EvictFits ==
    ASSUME NEW l, Fits(l)
    PROVE  /\ Fits(Evict(l)) /\ (Visible(l) => Visible(Evict(l)))
           /\ Len(Evict(l)) < PlaylistMax
           /\ \A j \in DOMAIN Evict(l) : \E k \in DOMAIN l : Evict(l)[j] = l[k]
           /\ \A k \in DOMAIN l : l[k].id \in IdsIn(Evict(l)) =>
                    \E j \in DOMAIN Evict(l) : Evict(l)[j] = l[k]
           /\ IdsIn(l) \subseteq IdsIn(Evict(l)) => Evict(l) = l
<1>1. l \in Seq(Items) /\ Len(l) \in Nat /\ DOMAIN l = 1..Len(l)
    BY LenProperties DEF Fits
<1>2. CASE Len(l) >= PlaylistMax
    <2>1. Len(l) = PlaylistMax /\ 1 \in DOMAIN l /\ Evict(l) = Tail(l) /\ l # <<>>
        <3>1. Len(l) <= PlaylistMax /\ PlaylistMax \in Nat /\ PlaylistMax > 0
            BY PlaylistAssumption DEF Fits
        <3>2. Len(l) = PlaylistMax /\ 1 \in DOMAIN l /\ Len(l) # 0
            <4>1. PICK n \in Nat : n = Len(l)
                BY <1>1
            <4>2. n = PlaylistMax /\ 1 \in 1..n
                BY <1>2, <3>1, <4>1
            <4> QED
                BY <1>1, <3>1, <4>1, <4>2
        <3> QED
            BY <1>2, <3>2, EmptySeq DEF Evict
    <2>2. Tail(l) = RemoveAt(l, 1)
        <3>1. SubSeq(l, 1, 0) = <<>>
            BY SubSeqEmpty
        <3>2. Tail(l) = SubSeq(l, 2, Len(l)) /\ Tail(l) \in Seq(Items)
            BY <1>1, <2>1, TailIsSubSeq, HeadTailProperties
        <3> QED
            BY <3>1, <3>2, ConcatEmptySeq DEF RemoveAt
    <2>3. \A k \in DOMAIN l : l[k].id \in IdsIn(Evict(l)) => k # 1
        <3> SUFFICES ASSUME l[1].id \in IdsIn(RemoveAt(l, 1)) PROVE FALSE
            BY <2>1, <2>2
        <3>1. PICK j \in DOMAIN RemoveAt(l, 1) : RemoveAt(l, 1)[j].id = l[1].id
            BY DEF IdsIn
        <3>2. PICK k \in DOMAIN l : k # 1 /\ RemoveAt(l, 1)[j] = l[k]
            BY <2>1, RemovedFits
        <3> QED
            BY <2>1, <3>1, <3>2 DEF Fits, Apart
    <2>4. ~(IdsIn(l) \subseteq IdsIn(Evict(l)))
        BY <2>1, <2>3 DEF IdsIn
    <2>5. Len(RemoveAt(l, 1)) < PlaylistMax
        BY <1>1, <2>1, RemovedFits, PlaylistAssumption
    <2>6. Evict(l) = RemoveAt(l, 1)
        BY <2>1, <2>2
    <2> QED
        <3> DEFINE r == RemoveAt(l, 1)
        <3>1. /\ Fits(r) /\ (Visible(l) => Visible(r))
              /\ \A k \in DOMAIN l : k # 1 => \E j \in DOMAIN r : r[j] = l[k]
              /\ \A j \in DOMAIN r : \E k \in DOMAIN l : r[j] = l[k]
            BY <2>1, RemovedFits
        <3>2. Len(r) < PlaylistMax /\ Evict(l) = r
            BY <2>5, <2>6
        <3> HIDE DEF r
        <3> QED
            BY <2>3, <2>4, <3>1, <3>2
<1>3. CASE ~(Len(l) >= PlaylistMax)
    BY <1>1, <1>3, PlaylistAssumption DEF Evict
<1> QED
    BY <1>2, <1>3

\* A new item, with the id it is given, keeps the list fitting and visible.
LEMMA AddedFits ==
    ASSUME NEW l, Fits(l), NEW url \in Songs \cup {None}, NEW aid \in Songs \cup {None}
    PROVE  LET m == Append(Evict(l), NewItem(l, url, aid)) IN
           /\ NewItem(l, url, aid).id \in Ids
           /\ Fits(m)
           /\ Visible(l) /\ Same(l, url, aid) = {} => Visible(m)
           /\ \A k \in DOMAIN l : l[k].id \in IdsIn(Evict(l)) => \E j \in DOMAIN m : m[j] = l[k]
<1> DEFINE e == Evict(l)
           x == NewItem(l, url, aid)
           m == Append(e, x)
<1>1. /\ Fits(e) /\ e \in Seq(Items) /\ Len(e) \in Nat /\ DOMAIN e = 1..Len(e) /\ Len(e) < PlaylistMax
      /\ PlaylistMax \in Nat
    BY EvictFits, LenProperties, PlaylistAssumption DEF Fits
<1>2. NewId(e) \in Ids /\ NewId(e) \notin IdsIn(e)
    BY <1>1, NewIdIsNew
<1>3. x.id = NewId(e) /\ x.url = url /\ x.aid = aid /\ x \in Items
    BY <1>2 DEF NewItem, Items
<1>4. /\ m \in Seq(Items) /\ Len(m) = Len(e) + 1 /\ DOMAIN m = 1..(Len(e) + 1)
      /\ \A i \in 1..Len(e) : m[i] = e[i]
      /\ m[Len(e) + 1] = x
    BY <1>1, <1>3, AppendProperties, LenProperties
<1>5. \A j \in DOMAIN e : \E k \in DOMAIN l : e[j] = l[k]
    BY EvictFits
<1>6. \A k \in DOMAIN l : l[k].id \in IdsIn(e) => \E j \in DOMAIN e : e[j] = l[k]
    BY EvictFits
<1>7. Visible(l) => Visible(e)
    BY EvictFits
<1> HIDE DEF e, x, m
<1>8. \A i \in DOMAIN m : i \in 1..Len(e) \/ i = Len(e) + 1
    BY <1>1, <1>4
<1>9. Apart(m)
    <2>1. \A i \in 1..Len(e) : e[i].id # x.id
        BY <1>1, <1>2, <1>3 DEF IdsIn
    <2> QED
        BY <1>1, <1>4, <1>8, <2>1 DEF Fits, Apart
<1>10. Fits(m)
    BY <1>1, <1>4, <1>9 DEF Fits
<1>11. ASSUME Visible(l), Same(l, url, aid) = {} PROVE Visible(m)
    <2> SUFFICES ASSUME NEW i \in DOMAIN m, NEW k \in DOMAIN m, i < k, m[k].url = None
                 PROVE  m[i].aid # m[k].aid
        BY DEF Visible
    <2>1. i \in 1..Len(e) /\ m[i] = e[i]
        BY <1>1, <1>4, <1>8
    <2>2. CASE k \in 1..Len(e)
        BY <1>1, <1>4, <1>7, <1>11, <2>1, <2>2 DEF Visible
    <2>3. CASE k = Len(e) + 1
        <3>1. PICK j \in DOMAIN l : e[i] = l[j]
            BY <1>1, <1>5, <2>1
        <3> QED
            BY <1>3, <1>4, <1>11, <2>1, <2>3, <3>1 DEF Same
    <2> QED
        BY <1>8, <2>2, <2>3
<1>12. \A j \in DOMAIN e : j \in DOMAIN m /\ m[j] = e[j]
    BY <1>1, <1>4
<1>13. \A k \in DOMAIN l : l[k].id \in IdsIn(e) => \E j \in DOMAIN m : m[j] = l[k]
    BY <1>6, <1>12
<1> QED
    BY <1>2, <1>3, <1>10, <1>11, <1>13 DEF e, x, m

-----------------------------------------------------------------------------
(* Types. *)

ControlOK ==
    /\ cur \in Ids \cup {NoId} /\ auto \in BOOLEAN /\ switching \in BOOLEAN /\ sem \in {0, 1}
    /\ user_next \in BOOLEAN /\ user_play \in Ids \cup {NoId} /\ more \in BOOLEAN
    /\ player \in {"STOPPED", "PLAYING"} /\ starts \in 0..PlayerQueue /\ rest \in 0..MaxRest
    /\ event \in {"none", "PLAYING", "STOPPED", "post"} /\ track \in Songs \cup {None}
    /\ inputs \in 0..MaxInputs /\ lost \in BOOLEAN /\ torn \in BOOLEAN

ThreadsOK ==
    /\ pc \in [All -> Labels]
    /\ local \in [All -> Locals]
    /\ \A t \in All : Fits(local[t].snap)

\* The parts of the type invariant.
LEMMA TypeParts == TypeOK <=> Fits(list) /\ Fits(stored) /\ ThreadsOK /\ ControlOK
<1>1. TypeOK => Fits(list) /\ Fits(stored) /\ ThreadsOK /\ ControlOK
    <2> SUFFICES ASSUME TypeOK PROVE Fits(list) /\ Fits(stored) /\ ThreadsOK /\ ControlOK
        OBVIOUS
    <2>1. Apart(list) /\ Apart(stored) /\ \A t \in All : Apart(local[t].snap)
        BY DEF TypeOK, IdsUnique, Apart
    <2>2. \A t \in All : local[t].snap \in Seq(Items)
        BY DEF TypeOK, Locals
    <2> QED
        BY <2>1, <2>2 DEF TypeOK, Fits, ThreadsOK, ControlOK
<1>2. Fits(list) /\ Fits(stored) /\ ThreadsOK /\ ControlOK => TypeOK
    BY DEF TypeOK, IdsUnique, Fits, Apart, ThreadsOK, ControlOK
<1> QED
    BY <1>1, <1>2

\* The local variables of a thread.
LEMMA FieldTypes ==
    ASSUME NEW r \in Locals
    PROVE  /\ r.id \in Ids \cup {NoId} /\ r.song \in Songs \cup {None} /\ r.snap \in Seq(Items)
           /\ r.back \in {"idle", "pend", "more", "finish"}
           /\ r.then \in {"idle", "mark", "push_mark", "page"}
           /\ r.found \in Ids \cup {NoId, Freed}
BY DEF Locals

\* What a change of one local variable leaves alone.
LEMMA SetBack ==
    ASSUME NEW r \in Locals, NEW x \in {"idle", "pend", "more", "finish"}, NEW q, q = [r EXCEPT !.back = x]
    PROVE  /\ q \in Locals /\ q.back = x
           /\ q.then = r.then /\ q.id = r.id /\ q.song = r.song
           /\ q.found = r.found /\ q.snap = r.snap
BY DEF Locals

\* The same for then.
LEMMA SetThen ==
    ASSUME NEW r \in Locals, NEW x \in {"idle", "mark", "push_mark", "page"}, NEW q, q = [r EXCEPT !.then = x]
    PROVE  /\ q \in Locals /\ q.then = x
           /\ q.back = r.back /\ q.id = r.id /\ q.song = r.song
           /\ q.found = r.found /\ q.snap = r.snap
BY DEF Locals

\* The same for id.
LEMMA SetId ==
    ASSUME NEW r \in Locals, NEW x \in Ids \cup {NoId}, NEW q, q = [r EXCEPT !.id = x]
    PROVE  /\ q \in Locals /\ q.id = x
           /\ q.back = r.back /\ q.then = r.then /\ q.song = r.song
           /\ q.found = r.found /\ q.snap = r.snap
BY DEF Locals

\* The same for song.
LEMMA SetSong ==
    ASSUME NEW r \in Locals, NEW x \in Songs \cup {None}, NEW q, q = [r EXCEPT !.song = x]
    PROVE  /\ q \in Locals /\ q.song = x
           /\ q.back = r.back /\ q.then = r.then /\ q.id = r.id
           /\ q.found = r.found /\ q.snap = r.snap
BY DEF Locals

\* The same for found.
LEMMA SetFound ==
    ASSUME NEW r \in Locals, NEW x \in Ids \cup {NoId, Freed}, NEW q, q = [r EXCEPT !.found = x]
    PROVE  /\ q \in Locals /\ q.found = x
           /\ q.back = r.back /\ q.then = r.then /\ q.id = r.id
           /\ q.song = r.song /\ q.snap = r.snap
BY DEF Locals

\* The same for snap.
LEMMA SetSnap ==
    ASSUME NEW r \in Locals, NEW x \in Seq(Items), NEW q, q = [r EXCEPT !.snap = x]
    PROVE  /\ q \in Locals /\ q.snap = x
           /\ q.back = r.back /\ q.then = r.then /\ q.id = r.id
           /\ q.song = r.song /\ q.found = r.found
BY DEF Locals

\* A thread without local variables.
LEMMA NoLocalsFit ==
    /\ NoLocals \in Locals /\ Fits(NoLocals.snap) /\ NoLocals.then = "idle"
    /\ Fits(<<>>)
<1>1. Fits(<<>>)
    <2>1. <<>> \in Seq(Items) /\ Len(<<>>) = 0 /\ DOMAIN <<>> = 1..0
        BY EmptySeq, LenProperties
    <2>2. 1..0 = {}
        OBVIOUS
    <2> QED
        BY <2>1, <2>2, PlaylistAssumption DEF Fits, Apart
<1>2. NoLocals.snap = <<>> /\ NoLocals.then = "idle"
    BY DEF NoLocals
<1>3. NoLocals \in Locals
    <2>1. <<>> \in Seq(Items)
        BY EmptySeq
    <2> QED
        BY <2>1 DEF NoLocals, Locals
<1> QED
    BY <1>1, <1>2, <1>3

\* A thread that goes on with proper local variables leaves all threads so.
LEMMA EnterFits ==
    ASSUME ThreadsOK, NEW t \in All, NEW l \in Labels, NEW r \in Locals, Fits(r.snap), Enter(t, l, r)
    PROVE  ThreadsOK'
<1>1. PICK q \in Locals : Fits(q.snap) /\ local' = [local EXCEPT ![t] = q]
    BY NoLocalsFit DEF Enter
<1>2. pc' = [pc EXCEPT ![t] = l]
    BY DEF Enter
<1>3. local' \in [All -> Locals] /\ pc' \in [All -> Labels]
    BY <1>1, <1>2 DEF ThreadsOK
<1>4. \A u \in All : local'[u] = IF u = t THEN q ELSE local[u]
    BY <1>1 DEF ThreadsOK
<1>5. \A u \in All : Fits(local'[u].snap)
    BY <1>1, <1>4 DEF ThreadsOK
<1> QED
    BY <1>3, <1>5 DEF ThreadsOK, Fits, Apart

\* The same parts make up the type of the next state.
LEMMA PrimedParts == Fits(list') /\ Fits(stored') /\ ThreadsOK' /\ ControlOK' => TypeOK'
BY DEF TypeOK, IdsUnique, Fits, Apart, ThreadsOK, ControlOK

\* Every step a thread takes inside a call keeps the types.
LEMMA StepTypes ==
    ASSUME TypeOK, NEW t \in All, Step(t)
    PROVE  TypeOK'
<1>1. /\ Fits(list) /\ Fits(stored) /\ ThreadsOK /\ ControlOK
      /\ local[t] \in Locals /\ Fits(local[t].snap) /\ pc[t] \in Labels
    BY TypeParts DEF ThreadsOK
<1>2. PICK r \in Locals : r = local[t]
    BY <1>1
<1>3. /\ r.id \in Ids \cup {NoId} /\ r.song \in Songs \cup {None} /\ Fits(r.snap)
      /\ r.back \in Labels /\ r.then \in Labels
    BY <1>1, <1>2, FieldTypes DEF Labels
<1>4. /\ list \in Seq(Items) /\ Len(list) \in Nat /\ DOMAIN list = 1..Len(list)
      /\ \A i \in DOMAIN list : list[i] \in Items
    BY <1>1, LenProperties, ElementOfSeq DEF Fits
<1>5. \A i \in DOMAIN list : /\ list[i].id \in Ids /\ list[i].url \in Songs \cup {None}
                             /\ list[i].aid \in Songs \cup {None}
                             /\ SongOf(list[i]) \in Songs \cup {None}
    BY <1>4 DEF Items, SongOf
<1>6. CASE Fits(list') /\ Fits(stored') /\ ThreadsOK' /\ ControlOK'
    BY <1>6, PrimedParts
<1>7. ASSUME NEW l \in Labels, NEW q \in Locals, Fits(q.snap), Enter(t, l, q)
      PROVE  ThreadsOK'
    BY <1>1, <1>7, EnterFits
<1>8. ASSUME NEW l \in Labels, Goto(t, l) PROVE ThreadsOK'
    BY <1>1, <1>8, EnterFits DEF Goto
<1>9. CASE Add(t)
    <2>1. PICK url \in Songs \cup {None}, aid \in Songs \cup {None} :
            AddKnown(t, url, aid) \/ AddNew(t, url, aid)
        BY <1>2, <1>3, <1>9 DEF Add
    <2>2. CASE AddKnown(t, url, aid)
        <3>1. Same(list, url, aid) \in SUBSET Nat /\ Same(list, url, aid) # {}
              /\ Same(list, url, aid) \subseteq DOMAIN list
            BY <1>4, <2>2 DEF AddKnown, Same
        <3>2. list[First(Same(list, url, aid))].id \in Ids
            BY <1>5, <3>1, FirstIsIn
        <3>3. PICK x, q :
                /\ x \in Ids
                /\ q = [r EXCEPT !.id = x] /\ Enter(t, r.then, q)
            BY <1>2, <2>2, <3>2 DEF AddKnown
        <3>4. ThreadsOK'
            <4>1. q \in Locals /\ Fits(q.snap)
                BY <1>3, <3>3, SetId
            <4> QED
                BY <1>3, <1>7, <3>3, <4>1
        <3>5. list' = list /\ lost' = lost
            BY <2>2 DEF AddKnown
        <3>6. ControlOK'
            BY <1>1, <1>9, <3>5 DEF Add, ControlOK, flags, requests, music
        <3> QED
            BY <1>1, <1>6, <1>9, <3>4, <3>5, <3>6 DEF Add
    <2>3. CASE AddNew(t, url, aid)
        <3>1. PICK x \in Ids : x = NewItem(list, url, aid).id
            BY <1>1, AddedFits
        <3>2. Fits(list')
            BY <1>1, <2>3, AddedFits DEF AddNew
        <3>3. \A u \in All : \E q \in Locals : local'[u] = q /\ q.snap = local[u].snap
            <4> SUFFICES ASSUME NEW u \in All
                         PROVE  \E q \in Locals : local'[u] = q /\ q.snap = local[u].snap
                OBVIOUS
            <4>1. local[u] \in Locals
                BY <1>1 DEF ThreadsOK
            <4>2. \/ local'[u] = [local[u] EXCEPT !.id = x]
                  \/ local'[u] = [local[u] EXCEPT !.found = x]
                  \/ local'[u] = [local[u] EXCEPT !.found = Freed]
                  \/ local'[u] = local[u]
                BY <2>3, <3>1 DEF AddNew
            <4> QED
                BY <4>1, <4>2, SetId, SetFound
        <3>4. local' = [u \in All |-> local'[u]]
            BY <2>3 DEF AddNew
        <3>5. ThreadsOK'
            <4>1. local' \in [All -> Locals]
                BY <3>3, <3>4
            <4>2. \A u \in All : Fits(local'[u].snap)
                BY <1>1, <3>3 DEF ThreadsOK
            <4>3. pc' \in [All -> Labels]
                BY <1>1, <2>3 DEF AddNew, ThreadsOK, Labels
            <4> QED
                BY <4>1, <4>2, <4>3 DEF ThreadsOK, Fits, Apart
        <3>6. lost' \in BOOLEAN
            BY <2>3 DEF AddNew
        <3>7. ControlOK'
            BY <1>1, <1>9, <3>6 DEF Add, ControlOK, flags, requests, music
        <3> QED
            BY <1>1, <1>6, <1>9, <3>2, <3>5, <3>7 DEF Add
    <2> QED
        BY <2>1, <2>2, <2>3
<1>10. CASE AddFails(t)
    <2>1. Fits(list')
        BY <1>1, <1>10, EvictFits DEF AddFails
    <2>2. \A u \in All : \E q \in Locals : local'[u] = q /\ (q.snap = local[u].snap \/ q = NoLocals)
        <3> SUFFICES ASSUME NEW u \in All
                     PROVE  \E q \in Locals : local'[u] = q /\ (q.snap = local[u].snap \/ q = NoLocals)
            OBVIOUS
        <3>1. local[u] \in Locals
            BY <1>1 DEF ThreadsOK
        <3>2. \/ local'[u] = [local[u] EXCEPT !.id = NoId]
              \/ local'[u] = NoLocals
              \/ local'[u] = [local[u] EXCEPT !.found = Freed]
              \/ local'[u] = local[u]
            BY <1>10 DEF AddFails
        <3> QED
            <4>1. CASE local'[u] = [local[u] EXCEPT !.id = NoId]
                BY <3>1, <4>1, SetId
            <4>2. CASE local'[u] = NoLocals
                BY <4>2, NoLocalsFit
            <4>3. CASE local'[u] = [local[u] EXCEPT !.found = Freed]
                BY <3>1, <4>3, SetFound
            <4> QED
                BY <3>1, <3>2, <4>1, <4>2, <4>3
    <2>3. local' = [u \in All |-> local'[u]]
        BY <1>10 DEF AddFails
    <2>4. ThreadsOK'
        <3>1. local' \in [All -> Locals]
            BY <2>2, <2>3
        <3>2. \A u \in All : Fits(local'[u].snap)
            BY <1>1, <2>2, NoLocalsFit DEF ThreadsOK
        <3>3. pc' \in [All -> Labels]
            BY <1>1, <1>10 DEF AddFails, ThreadsOK, Labels
        <3> QED
            BY <3>1, <3>2, <3>3 DEF ThreadsOK, Fits, Apart
    <2>5. lost' \in BOOLEAN /\ torn' \in BOOLEAN
        BY <1>10 DEF AddFails
    <2>6. inputs' \in 0..MaxInputs
        BY <1>1, <1>10, InputsAssumption DEF AddFails, ControlOK
    <2>7. ControlOK'
        BY <1>1, <1>10, <2>5, <2>6 DEF AddFails, ControlOK, flags, requests, music
    <2> QED
        BY <1>1, <1>6, <1>10, <2>1, <2>4, <2>7 DEF AddFails
<1>11. CASE Snap(t)
    <2>1. PICK x, q :
            /\ x \in Seq(Items)
            /\ q = [r EXCEPT !.snap = x] /\ Fits(x)
            /\ Enter(t, "write", q) /\ "write" \in Labels
        BY <1>1, <1>2, <1>4, <1>11 DEF Snap, Labels
    <2>2. ThreadsOK'
        <3>1. q \in Locals /\ Fits(q.snap)
            BY <2>1, SetSnap
        <3> QED
            BY <1>7, <2>1, <3>1
    <2>3. torn' \in BOOLEAN
        BY <1>11 DEF Snap
    <2>4. Fits(stored')
        BY <1>11, NoLocalsFit DEF Snap
    <2>5. ControlOK'
        BY <1>1, <1>11, <2>3 DEF Snap, ControlOK, shared, playlist, flags, requests, music
    <2> QED
        BY <1>1, <1>6, <1>11, <2>2, <2>4, <2>5 DEF Snap, shared, playlist
<1>12. CASE Write(t) \/ SaveFails(t)
    <2>1. PICK q : q = [r EXCEPT !.snap = <<>>] /\ Enter(t, r.then, q)
        BY <1>2, <1>12 DEF Write, SaveFails
    <2>2. <<>> \in Seq(Items)
        BY EmptySeq
    <2>3. ThreadsOK'
        <3>1. q \in Locals /\ q.snap = <<>>
            BY <2>1, <2>2, SetSnap
        <3>2. Fits(q.snap)
            BY <3>1, NoLocalsFit
        <3> QED
            BY <1>3, <1>7, <2>1, <3>1, <3>2
    <2>4. Fits(stored')
        BY <1>1, <1>12 DEF Write, SaveFails
    <2>5. torn' \in BOOLEAN /\ lost' \in BOOLEAN
        BY <1>1, <1>12 DEF Write, SaveFails, history, ControlOK
    <2>6. inputs' \in 0..MaxInputs
        BY <1>1, <1>12, InputsAssumption DEF Write, SaveFails, ControlOK
    <2>7. ControlOK'
        BY <1>1, <1>12, <2>5, <2>6 DEF Write, SaveFails, ControlOK, shared, playlist, flags, requests, music
    <2> QED
        BY <1>1, <1>6, <1>12, <2>3, <2>4, <2>7 DEF Write, SaveFails, shared, playlist
<1>13. CASE Find(t)
    <2>1. ASSUME NEW i \in DOMAIN list,
                 list[i].id = r.id,
                 LET q == [r EXCEPT !.song = SongOf(list[i])] IN
                    IF list[i].url # None THEN Enter(t, "start", q)
                    ELSE Enter(t, "fetch", [q EXCEPT !.found = r.id])
          PROVE  ThreadsOK'
        <3>1. PICK x, y, q, p :
                /\ x \in Songs \cup {None} /\ y \in Ids
                /\ q = [r EXCEPT !.song = x] /\ p = [q EXCEPT !.found = y]
                /\ Enter(t, "start", q) \/ Enter(t, "fetch", p)
            BY <1>5, <2>1
        <3>2. "start" \in Labels /\ "fetch" \in Labels
            BY DEF Labels
        <3>3. q \in Locals /\ Fits(q.snap)
            BY <1>3, <3>1, SetSong
        <3>4. p \in Locals /\ Fits(p.snap)
            <4>1. p = [q EXCEPT !.found = y] /\ y \in Ids
                BY <3>1
            <4>2. p \in Locals /\ p.snap = q.snap
                BY <3>3, <4>1, SetFound
            <4> QED
                BY <3>3, <4>2
        <3> QED
            BY <1>7, <3>1, <3>2, <3>3, <3>4
    <2>2. ThreadsOK'
        <3>1. \/ \E i \in DOMAIN list :
                    /\ list[i].id = r.id
                    /\ LET q == [r EXCEPT !.song = SongOf(list[i])] IN
                        IF list[i].url # None THEN Enter(t, "start", q)
                        ELSE Enter(t, "fetch", [q EXCEPT !.found = r.id])
              \/ Goto(t, r.back)
            BY <1>2, <1>13, Zenon DEF Find
        <3> QED
            BY <1>3, <1>8, <2>1, <3>1, Zenon
    <2>3. UNCHANGED <<shared, stored, music, inputs, history>>
        BY <1>13, Zenon DEF Find
    <2>4. ControlOK'
        BY <1>1, <2>3 DEF ControlOK, shared, playlist, flags, requests, music, history
    <2> QED
        BY <1>1, <1>6, <2>2, <2>3, <2>4 DEF shared, playlist
<1>14. CASE Fetched(t)
    <2>1. ThreadsOK'
        <3>1. PICK q : q = [r EXCEPT !.found = NoId] /\ Enter(t, "start", q) /\ "start" \in Labels
            BY <1>2, <1>14 DEF Fetched, Labels
        <3>2. q \in Locals /\ Fits(q.snap)
            BY <1>3, <3>1, SetFound
        <3> QED
            BY <1>7, <3>1, <3>2
    <2>2. /\ DOMAIN list' = 1..Len(list)
          /\ list' = [i \in 1..Len(list) |-> list'[i]]
          /\ \A i \in 1..Len(list) : list'[i] \in {list[i], [list[i] EXCEPT !.url = r.song]}
        BY <1>2, <1>4, <1>14 DEF Fetched
    <2>3. \A i \in 1..Len(list) : list'[i] \in Items /\ list'[i].id = list[i].id
        <3> SUFFICES ASSUME NEW i \in 1..Len(list) PROVE list'[i] \in Items /\ list'[i].id = list[i].id
            OBVIOUS
        <3>1. list[i] \in Items
            BY <1>4
        <3>2. PICK y \in Items : y = list[i]
            BY <3>1
        <3>3. [y EXCEPT !.url = r.song] \in Items /\ [y EXCEPT !.url = r.song].id = y.id
            BY <1>3 DEF Items
        <3> QED
            BY <2>2, <3>1, <3>2, <3>3
    <2>4. list' \in Seq(Items) /\ Len(list') = Len(list)
        <3>1. list' \in [1..Len(list) -> Items]
            BY <2>2, <2>3
        <3>2. list' \in Seq(Items)
            BY <1>4, <3>1, SeqDef
        <3> QED
            BY <1>4, <2>2, <3>2, LenProperties
    <2>5. Fits(list')
        BY <1>1, <1>4, <2>2, <2>3, <2>4 DEF Fits, Apart
    <2>6. lost' \in BOOLEAN /\ torn' \in BOOLEAN
        BY <1>14 DEF Fetched
    <2>7. ControlOK'
        BY <1>1, <1>14, <2>6 DEF Fetched, ControlOK, flags, requests, music
    <2> QED
        BY <1>1, <1>6, <1>14, <2>1, <2>5, <2>7 DEF Fetched
<1>15. CASE FetchFails(t)
    <2>1. ThreadsOK'
        <3>1. PICK q : q = [r EXCEPT !.found = NoId] /\ Enter(t, r.back, q)
            BY <1>2, <1>15 DEF FetchFails
        <3>2. q \in Locals /\ Fits(q.snap)
            BY <1>3, <3>1, SetFound
        <3> QED
            BY <1>3, <1>7, <3>1, <3>2
    <2>2. ControlOK'
        BY <1>1, <1>15 DEF FetchFails, ControlOK, shared, playlist, flags, requests, music, history
    <2> QED
        BY <1>1, <1>6, <1>15, <2>1, <2>2 DEF FetchFails, shared, playlist
<1>16. CASE SetSwitching(t) \/ ClearSwitching(t)
    <2>1. PICK l \in Labels : Goto(t, l)
        BY <1>2, <1>3, <1>16 DEF SetSwitching, ClearSwitching, Labels
    <2>2. ThreadsOK'
        BY <1>8, <2>1
    <2>3. ControlOK'
        BY <1>1, <1>16 DEF SetSwitching, ClearSwitching, ControlOK, playlist, requests, music, history
    <2> QED
        BY <1>1, <1>6, <1>16, <2>2, <2>3 DEF SetSwitching, ClearSwitching, playlist
<1>17. CASE Music(t) \/ Several(t) \/ Unplayed(t) \/ Refused(t) \/ MusicFails(t)
    <2>1. PICK l \in Labels : Goto(t, l)
        BY <1>17 DEF Music, Several, Unplayed, Refused, MusicFails, Labels
    <2>2. ThreadsOK'
        BY <1>8, <2>1
    <2>3. player' \in {"STOPPED", "PLAYING"} /\ event' \in {"none", "PLAYING", "STOPPED", "post"}
        BY <1>1, <1>17 DEF Music, Several, Unplayed, Refused, MusicFails, Silence, ControlOK, music
    <2>4. track' \in Songs \cup {None}
        BY <1>1, <1>2, <1>3, <1>17 DEF Music, Several, Unplayed, Refused, MusicFails, ControlOK, music
    <2>5. starts' \in 0..PlayerQueue
        BY <1>1, <1>17 DEF Music, Several, Unplayed, Refused, MusicFails, ControlOK, music, PlayerQueue
    <2>6. rest' \in 0..MaxRest
        BY <1>1, <1>17, InputsAssumption
            DEF Music, Several, Unplayed, Refused, MusicFails, ControlOK, music
    <2>7. lost' \in BOOLEAN /\ torn' = torn
        BY <1>17, Zenon DEF Music, Several, Unplayed, Refused, MusicFails
    <2>8. inputs' \in 0..MaxInputs
        <3>1. inputs' = inputs \/ (inputs > 0 /\ inputs' = inputs - 1)
            BY <1>17 DEF Music, Several, Unplayed, Refused, MusicFails
        <3> QED
            BY <1>1, <3>1, InputsAssumption DEF ControlOK
    <2>9. UNCHANGED <<shared, stored>>
        BY <1>17 DEF Music, Several, Unplayed, Refused, MusicFails
    <2>10. ControlOK'
        BY <1>1, <2>3, <2>4, <2>5, <2>6, <2>7, <2>8, <2>9
            DEF ControlOK, shared, playlist, flags, requests
    <2> QED
        BY <1>1, <1>6, <2>2, <2>9, <2>10 DEF shared, playlist
<1>27. CASE Nameless(t)
    <2>1. "push" \in Labels /\ Goto(t, "push")
        BY <1>27 DEF Nameless, Labels
    <2>2. ThreadsOK'
        BY <1>8, <2>1
    <2>3. ControlOK'
        BY <1>1, <1>27 DEF Nameless, ControlOK, shared, playlist, flags, requests, music
    <2> QED
        BY <1>1, <1>6, <1>27, <2>2, <2>3 DEF Nameless, shared, playlist
<1>18. CASE Name(t)
    <2>1. PICK q : q = [r EXCEPT !.then = "mark"] /\ Enter(t, "add", q) /\ "add" \in Labels
        BY <1>2, <1>18 DEF Name, Labels
    <2>2. ThreadsOK'
        <3>1. q \in Locals /\ Fits(q.snap)
            BY <1>3, <2>1, SetThen
        <3> QED
            BY <1>7, <2>1, <3>1
    <2>3. ControlOK'
        BY <1>1, <1>2, <1>3, <1>18 DEF Name, ControlOK, flags, requests, music, history
    <2> QED
        BY <1>1, <1>6, <1>18, <2>2, <2>3 DEF Name
<1>19. CASE Mark(t)
    <2>1. PICK l \in Labels : Goto(t, l)
        BY <1>19 DEF Mark, Labels
    <2>2. ThreadsOK'
        BY <1>8, <2>1
    <2>3. lost' \in BOOLEAN
        BY <1>19 DEF Mark
    <2>4. ControlOK'
        BY <1>1, <1>2, <1>3, <1>19, <2>3 DEF Mark, ControlOK, flags, requests, music
    <2> QED
        BY <1>1, <1>6, <1>19, <2>2, <2>4 DEF Mark
<1>20. CASE Navigate(t)
    <2>1. Neighbour(pc[t] = "next") \subseteq DOMAIN list
        BY DEF Neighbour
    <2>2. ASSUME \E i \in DOMAIN list : Enter(t, "play", [r EXCEPT !.id = list[i].id])
          PROVE  ThreadsOK'
        <3>1. PICK x, q :
                /\ x \in Ids
                /\ q = [r EXCEPT !.id = x] /\ Enter(t, "play", q)
            BY <1>5, <2>2
        <3>2. "play" \in Labels
            BY DEF Labels
        <3>3. q \in Locals /\ Fits(q.snap)
            BY <1>3, <3>1, SetId
        <3> QED
            BY <1>7, <3>1, <3>2, <3>3
    <2>3. ThreadsOK'
        BY <1>2, <1>3, <1>8, <1>20, <2>1, <2>2 DEF Navigate
    <2>4. ControlOK'
        BY <1>1, <1>20 DEF Navigate, ControlOK, shared, playlist, flags, requests, music, history
    <2> QED
        BY <1>1, <1>6, <1>20, <2>3, <2>4 DEF Navigate, shared, playlist
<1>21. CASE More(t)
    <2>1. PICK out, l, q :
            /\ out \in {"idle", "finish"} /\ l \in Labels
            /\ q = [r EXCEPT !.back = out] /\ Enter(t, l, q)
        BY <1>2, <1>21 DEF More, Labels
    <2>2. ThreadsOK'
        <3>1. q \in Locals /\ Fits(q.snap)
            BY <1>3, <2>1, SetBack
        <3> QED
            BY <1>7, <2>1, <3>1
    <2>3. ControlOK'
        BY <1>1, <1>21 DEF More, ControlOK, shared, playlist, flags, requests, music, history
    <2> QED
        BY <1>1, <1>6, <1>21, <2>2, <2>3 DEF More, shared, playlist
<1>22. CASE Page(t)
    <2>1. PICK s \in Songs : Enter(t, "add", [r EXCEPT !.song = s, !.then = "page"])
        BY <1>2, <1>22 DEF Page
    <2>2. PICK q, p : q = [r EXCEPT !.song = s] /\ p = [q EXCEPT !.then = "page"] /\ Enter(t, "add", p)
        BY <2>1
    <2>3. q \in Locals /\ Fits(q.snap)
        BY <1>3, <2>2, SetSong
    <2>4. p \in Locals /\ Fits(p.snap)
        BY <2>2, <2>3, SetThen
    <2>5. "add" \in Labels
        BY DEF Labels
    <2>6. ThreadsOK'
        BY <1>7, <2>2, <2>4, <2>5
    <2>7. ControlOK'
        BY <1>1, <1>22 DEF Page, ControlOK, shared, playlist, flags, requests, music, history
    <2> QED
        BY <1>1, <1>6, <1>22, <2>6, <2>7 DEF Page, shared, playlist
<1>23. CASE NoPage(t)
    <2>1. ThreadsOK'
        BY <1>2, <1>3, <1>8, <1>23 DEF NoPage
    <2>2. more' \in BOOLEAN
        BY <1>1, <1>23 DEF NoPage, ControlOK
    <2>3. ControlOK'
        BY <1>1, <1>23, <2>2 DEF NoPage, ControlOK, playlist, flags, requests, music, history
    <2> QED
        BY <1>1, <1>6, <1>23, <2>1, <2>3 DEF NoPage, playlist
<1>24. CASE PageDone(t)
    <2>1. Enter(t, "play", [r EXCEPT !.then = "idle", !.song = None])
        BY <1>2, <1>24 DEF PageDone
    <2>2. PICK q, p : q = [r EXCEPT !.then = "idle"] /\ p = [q EXCEPT !.song = None] /\ Enter(t, "play", p)
        BY <2>1
    <2>3. q \in Locals /\ Fits(q.snap)
        BY <1>3, <2>2, SetThen
    <2>4. p \in Locals /\ Fits(p.snap)
        <3>1. p = [q EXCEPT !.song = None]
            BY <2>2
        <3>2. p \in Locals /\ p.snap = q.snap
            BY <2>3, <3>1, SetSong
        <3> QED
            BY <2>3, <3>2
    <2>5. "play" \in Labels
        BY DEF Labels
    <2>6. ThreadsOK'
        BY <1>7, <2>2, <2>4, <2>5
    <2>7. more' \in BOOLEAN /\ inputs' \in 0..MaxInputs
        <3>1. more' \in BOOLEAN
            BY <1>24 DEF PageDone
        <3>2. inputs' \in 0..MaxInputs
            <4>1. inputs' = inputs \/ (inputs > 0 /\ inputs' = inputs - 1)
                BY <1>24 DEF PageDone
            <4> QED
                BY <1>1, <4>1, InputsAssumption DEF ControlOK
        <3> QED
            BY <3>1, <3>2
    <2>8. ControlOK'
        BY <1>1, <1>24, <2>7 DEF PageDone, ControlOK, playlist, flags, requests, music, history
    <2> QED
        BY <1>1, <1>6, <1>24, <2>6, <2>8 DEF PageDone, playlist
<1>25. CASE Pend(t)
    <2>1. "post" \in Labels
        BY DEF Labels
    <2>2. ThreadsOK'
        BY <1>7, <1>25, <2>1, NoLocalsFit DEF Pend
    <2>3. ControlOK'
        BY <1>1, <1>25 DEF Pend, ControlOK, playlist, flags, music, history
    <2> QED
        BY <1>1, <1>6, <1>25, <2>2, <2>3 DEF Pend, playlist
<1>26. CASE Post(t)
    <2>1. "idle" \in Labels
        BY DEF Labels
    <2>2. ThreadsOK'
        BY <1>8, <1>26, <2>1 DEF Post
    <2>3. ControlOK'
        BY <1>1, <1>26 DEF Post, ControlOK, playlist, flags, music, history
    <2> QED
        BY <1>1, <1>6, <1>26, <2>2, <2>3 DEF Post, playlist
<1> QED
    BY <1>9, <1>10, <1>11, <1>12, <1>13, <1>14, <1>15, <1>16, <1>17, <1>18, <1>19, <1>20, <1>21,
        <1>22, <1>23, <1>24, <1>25, <1>26, <1>27 DEF Step

\* A call keeps the types when it begins.
LEMMA CallTypes ==
    ASSUME TypeOK, NEW t \in All, Call(t)
    PROVE  TypeOK'
<1>1. /\ Fits(list) /\ Fits(stored) /\ ThreadsOK /\ ControlOK
      /\ local[t] \in Locals /\ Fits(local[t].snap)
    BY TypeParts DEF ThreadsOK
<1>2. /\ list \in Seq(Items) /\ \A i \in DOMAIN list : list[i].id \in Ids
    <2>1. list \in Seq(Items) /\ \A i \in DOMAIN list : list[i] \in Items
        BY <1>1, LenProperties, ElementOfSeq DEF Fits
    <2> QED
        BY <2>1 DEF Items
<1>3. inputs' \in 0..MaxInputs
    <2>1. inputs > 0 /\ inputs' = inputs - 1
        BY DEF Call, CallNavigate, PlayAsync, RemoveItem, Clear, Search, Push, SetAuto, StopMusic, Begin
    <2> QED
        BY <1>1, <2>1, InputsAssumption DEF ControlOK
<1>4. CASE CallNavigate(t)
    <2>1. PICK l, x, q :
            /\ l \in Labels /\ x \in {"idle", "pend", "more"}
            /\ q = [NoLocals EXCEPT !.back = x] /\ Enter(t, l, q)
        <3>1. PICK c \in {"next", "tool_next", "prev"} :
                Enter(t, IF c = "prev" THEN "prev" ELSE "next", [NoLocals EXCEPT !.back =
                    IF c = "next" THEN "pend" ELSE IF c = "tool_next" THEN "more" ELSE "idle"])
            BY <1>4 DEF CallNavigate
        <3> QED
            BY <3>1 DEF Labels
    <2>2. q \in Locals /\ Fits(q.snap)
        BY <2>1, SetBack, NoLocalsFit
    <2>3. ThreadsOK'
        BY <1>1, <2>1, <2>2, EnterFits
    <2>4. ControlOK'
        BY <1>1, <1>3, <1>4 DEF CallNavigate, ControlOK, shared, playlist, flags, requests, music, history
    <2> QED
        BY <1>1, <1>4, <2>3, <2>4, PrimedParts DEF CallNavigate, shared, playlist
<1>5. CASE PlayAsync(t)
    <2>1. "post" \in Labels /\ Enter(t, "post", local[t])
        BY <1>5 DEF PlayAsync, Goto, Labels
    <2>2. ThreadsOK'
        BY <1>1, <2>1, EnterFits
    <2>3. user_play' \in Ids
        BY <1>2, <1>5 DEF PlayAsync, IdsIn
    <2>4. ControlOK'
        BY <1>1, <1>3, <1>5, <2>3 DEF PlayAsync, ControlOK, playlist, flags, music, history
    <2> QED
        BY <1>1, <1>5, <2>2, <2>4, PrimedParts DEF PlayAsync, playlist
<1>6. ASSUME NEW l, NEW S, Fits(l), Drop(t, l, S) PROVE TypeOK'
    <2>1. \A u \in All : \E q \in Locals : local'[u] = q /\ q.snap = local[u].snap
        <3> SUFFICES ASSUME NEW u \in All
                     PROVE  \E q \in Locals : local'[u] = q /\ q.snap = local[u].snap
            OBVIOUS
        <3>1. local[u] \in Locals
            BY <1>1 DEF ThreadsOK
        <3>2. local'[u] = [local[u] EXCEPT !.found = Freed] \/ local'[u] = local[u]
            BY <1>6 DEF Drop
        <3> QED
            BY <3>1, <3>2, SetFound
    <2>2. local' = [u \in All |-> local'[u]]
        BY <1>6 DEF Drop
    <2>3. ThreadsOK'
        <3>1. local' \in [All -> Locals]
            BY <2>1, <2>2
        <3>2. \A u \in All : Fits(local'[u].snap)
            BY <1>1, <2>1 DEF ThreadsOK
        <3>3. pc' \in [All -> Labels]
            BY <1>1, <1>6 DEF Drop, ThreadsOK, Labels
        <3> QED
            BY <3>1, <3>2, <3>3 DEF ThreadsOK, Fits, Apart
    <2>4. ControlOK'
        BY <1>1, <1>3, <1>6 DEF Drop, ControlOK, flags, requests, music, history
    <2> QED
        BY <1>1, <1>6, <2>3, <2>4, PrimedParts DEF Drop
<1>7. CASE RemoveItem(t)
    <2>1. PICK i \in DOMAIN list : Drop(t, RemoveAt(list, i), {list[i].id})
        BY <1>7 DEF RemoveItem
    <2>2. Fits(RemoveAt(list, i))
        BY <1>1, RemovedFits
    <2> QED
        BY <1>6, <2>1, <2>2
<1>8. CASE Clear(t)
    BY <1>6, <1>8, NoLocalsFit DEF Clear
<1>9. CASE Search(t)
    <2>1. "request" \in Labels /\ Enter(t, "request", local[t])
        BY <1>9 DEF Search, Goto, Labels
    <2>2. ThreadsOK'
        BY <1>1, <2>1, EnterFits
    <2>3. ControlOK'
        BY <1>1, <1>3, <1>9 DEF Search, ControlOK, shared, playlist, flags, requests, music, history
    <2> QED
        BY <1>1, <1>9, <2>2, <2>3, PrimedParts DEF Search, shared, playlist
<1>10. CASE Push(t)
    <2>1. PICK s, q, p :
            /\ s \in Songs
            /\ q = [NoLocals EXCEPT !.song = s] /\ p = [q EXCEPT !.then = "push_mark"]
            /\ Enter(t, "add", p)
        BY <1>10 DEF Push
    <2>2. q \in Locals /\ Fits(q.snap)
        BY <2>1, SetSong, NoLocalsFit
    <2>3. p \in Locals /\ Fits(p.snap)
        <3>1. p = [q EXCEPT !.then = "push_mark"]
            BY <2>1
        <3>2. p \in Locals /\ p.snap = q.snap
            BY <2>2, <3>1, SetThen
        <3> QED
            BY <2>2, <3>2
    <2>4. "add" \in Labels
        BY DEF Labels
    <2>5. ThreadsOK'
        BY <1>1, <2>1, <2>3, <2>4, EnterFits
    <2>6. ControlOK'
        BY <1>1, <1>3, <1>10 DEF Push, ControlOK, shared, playlist, flags, requests, music, history
    <2> QED
        BY <1>1, <1>10, <2>5, <2>6, PrimedParts DEF Push, shared, playlist
<1>11. CASE SetAuto(t)
    <2>1. ThreadsOK'
        BY <1>1, <1>11 DEF SetAuto, ThreadsOK
    <2>2. auto' \in BOOLEAN
        BY <1>11 DEF SetAuto
    <2>3. ControlOK'
        BY <1>1, <1>3, <1>11, <2>2 DEF SetAuto, ControlOK, playlist, requests, music, history
    <2> QED
        BY <1>1, <1>11, <2>1, <2>3, PrimedParts DEF SetAuto, playlist
<1>12. CASE StopMusic(t)
    <2>1. ThreadsOK'
        BY <1>1, <1>12 DEF StopMusic, ThreadsOK
    <2>2. ControlOK'
        <3>1. rest' \in 0..MaxRest
            BY <1>12, InputsAssumption DEF StopMusic
        <3> QED
            BY <1>1, <1>3, <1>12, <3>1
                DEF StopMusic, Silence, ControlOK, shared, playlist, flags, requests, history
    <2> QED
        BY <1>1, <1>12, <2>1, <2>2, PrimedParts DEF StopMusic, shared, playlist
<1> QED
    BY <1>4, <1>5, <1>7, <1>8, <1>9, <1>10, <1>11, <1>12 DEF Call

\* The worker's own steps keep the types.
LEMMA WorkerTypes ==
    ASSUME TypeOK, Wake \/ Take \/ Decide
    PROVE  TypeOK'
<1>1. /\ Fits(list) /\ Fits(stored) /\ ThreadsOK /\ ControlOK /\ Worker \in All
      /\ local[Worker] \in Locals /\ Fits(local[Worker].snap)
    BY TypeParts DEF ThreadsOK, All
<1>2. CASE Wake
    <2>1. "take" \in Labels /\ Enter(Worker, "take", local[Worker])
        BY <1>2 DEF Wake, Goto, Labels
    <2>2. ThreadsOK'
        BY <1>1, <2>1, EnterFits
    <2>3. ControlOK'
        BY <1>1, <1>2 DEF Wake, ControlOK, playlist, flags, music, history
    <2> QED
        BY <1>1, <1>2, <2>2, <2>3, PrimedParts DEF Wake, playlist
<1>3. CASE Take
    <2>1. PICK r \in Locals : r = local[Worker] /\ Fits(r.snap)
        BY <1>1
    <2>2. PICK l, q :
            /\ l \in Labels
            /\ \/ user_play \in Ids /\ q = [r EXCEPT !.id = user_play]
               \/ q = [r EXCEPT !.back = "more"]
            /\ Enter(Worker, l, q)
        BY <1>1, <1>3, <2>1 DEF Take, Labels, ControlOK
    <2>3. q \in Locals /\ Fits(q.snap)
        BY <2>1, <2>2, SetId, SetBack
    <2>4. ThreadsOK'
        BY <1>1, <2>2, <2>3, EnterFits
    <2>5. ControlOK'
        BY <1>1, <1>3 DEF Take, ControlOK, playlist, flags, music, history
    <2> QED
        BY <1>1, <1>3, <2>4, <2>5, PrimedParts DEF Take, playlist
<1>4. CASE Decide
    <2>1. PICK l \in Labels : Enter(Worker, l, local[Worker])
        BY <1>4 DEF Decide, Goto, Labels
    <2>2. ThreadsOK'
        BY <1>1, <2>1, EnterFits
    <2>3. ControlOK'
        BY <1>1, <1>4 DEF Decide, ControlOK, shared, playlist, flags, requests, music, history
    <2> QED
        BY <1>1, <1>4, <2>2, <2>3, PrimedParts DEF Decide, shared, playlist
<1> QED
    BY <1>2, <1>3, <1>4

\* Every step keeps the types; a power cut does so because the file fits.
LEMMA TypeStep == TypeOK /\ [Next]_vars => TypeOK'
<1> SUFFICES ASSUME TypeOK, [Next]_vars PROVE TypeOK'
    OBVIOUS
<1>1. Fits(list) /\ Fits(stored) /\ ThreadsOK /\ ControlOK
    BY TypeParts
<1>2. CASE UNCHANGED vars
    <2>1. ThreadsOK'
        BY <1>1, <1>2 DEF vars, ThreadsOK
    <2>2. ControlOK'
        BY <1>1, <1>2 DEF vars, ControlOK, shared, playlist, flags, requests, music, history
    <2> QED
        BY <1>1, <1>2, <2>1, <2>2, PrimedParts DEF vars, shared, playlist
<1>3. CASE Task \/ SongEnds
    <2>1. UNCHANGED <<playlist, stored, pc, local>>
        BY <1>3 DEF Task, TaskStart, OnPlaying, OnStopped, OnStoppedPost, SongEnds, shared
    <2>2. ThreadsOK'
        BY <1>1, <2>1 DEF ThreadsOK
    <2>3. ControlOK'
        <3>1. CASE TaskStart
            BY <1>1, <3>1 DEF TaskStart, ControlOK, shared, playlist, flags, requests, history, PlayerQueue
        <3>2. CASE SongEnds
            BY <1>1, <3>2 DEF SongEnds, ControlOK, shared, playlist, flags, requests, history
        <3>3. CASE OnPlaying
            BY <1>1, <3>3 DEF OnPlaying, ControlOK, playlist, requests, history
        <3>4. CASE OnStopped
            <4>1. starts' \in 0..PlayerQueue /\ rest' \in 0..MaxRest /\ track' \in Songs \cup {None}
                BY <1>1, <3>4, InputsAssumption DEF OnStopped, ControlOK, PlayerQueue
            <4> QED
                BY <1>1, <3>4, <4>1 DEF OnStopped, ControlOK, shared, playlist, flags, requests, history
        <3>5. CASE OnStoppedPost
            BY <1>1, <3>5 DEF OnStoppedPost, ControlOK, playlist, flags, history
        <3> QED
            BY <1>3, <3>1, <3>2, <3>3, <3>4, <3>5 DEF Task
    <2> QED
        BY <1>1, <2>1, <2>2, <2>3, PrimedParts DEF playlist
<1>4. CASE Reboot
    <2>1. ThreadsOK'
        <3>1. pc' \in [All -> Labels]
            BY <1>4 DEF Reboot, Labels
        <3>2. local' \in [All -> Locals] /\ \A u \in All : local'[u] = NoLocals
            BY <1>4, NoLocalsFit DEF Reboot
        <3>3. \A u \in All : Fits(local'[u].snap)
            BY <3>2, NoLocalsFit
        <3> QED
            BY <3>1, <3>2, <3>3 DEF ThreadsOK, Fits, Apart
    <2>2. inputs' \in 0..MaxInputs
        BY <1>1, <1>4, InputsAssumption DEF Reboot, ControlOK
    <2>3. ControlOK'
        <3>1. starts' \in 0..PlayerQueue /\ rest' \in 0..MaxRest
            BY <1>4, InputsAssumption DEF Reboot, PlayerQueue
        <3> QED
            BY <1>4, <2>2, <3>1 DEF Reboot, ControlOK
    <2>4. Fits(list') /\ Fits(stored')
        BY <1>1, <1>4, LoadFits DEF Reboot
    <2> QED
        BY <2>1, <2>3, <2>4, PrimedParts
<1>5. ASSUME NEW t \in Threads, Call(t) \/ Step(t) PROVE TypeOK'
    BY <1>5, CallTypes, StepTypes DEF All
<1>6. CASE WorkerStep
    BY <1>6, WorkerTypes, StepTypes DEF WorkerStep, All
<1> QED
    BY <1>2, <1>3, <1>4, <1>5, <1>6 DEF Next

\* Whatever is added, evicted, removed, saved and loaded, by whom and in which order, every
\* list fits and has no id twice, for every file that fits, every s_playlist_max_num and any
\* number of threads.
THEOREM TypeCorrect == Spec => []TypeOK
<1>1. Init => TypeOK
    <2> SUFFICES ASSUME Init PROVE TypeOK
        OBVIOUS
    <2>1. Fits(stored)
        BY StoredAssumption DEF Init, Fits, Apart
    <2>2. Fits(list)
        BY <2>1, LoadFits DEF Init
    <2>3. ThreadsOK
        <3>1. pc \in [All -> Labels]
            BY DEF Init, Labels
        <3>2. local \in [All -> Locals] /\ \A u \in All : local[u] = NoLocals
            BY NoLocalsFit DEF Init
        <3>3. \A u \in All : Fits(local[u].snap)
            BY <3>2, NoLocalsFit
        <3> QED
            BY <3>1, <3>2, <3>3 DEF ThreadsOK
    <2>4. inputs \in 0..MaxInputs
        BY InputsAssumption DEF Init
    <2>5. ControlOK
        <3>1. starts \in 0..PlayerQueue /\ rest \in 0..MaxRest
            BY InputsAssumption DEF Init, PlayerQueue
        <3> QED
            BY <2>4, <3>1 DEF Init, ControlOK
    <2> QED
        BY <2>1, <2>2, <2>3, <2>5, TypeParts
<1> QED
    BY <1>1, TypeStep, PTL DEF Spec

-----------------------------------------------------------------------------
(* What a step of one thread leaves alone. *)

\* The other threads stay where they are, with their songs and copies; only what they point
\* to may be freed
Others(t) == \A u \in All : u # t =>
    /\ pc'[u] = pc[u]
    /\ local'[u].then = local[u].then
    /\ local'[u].song = local[u].song
    /\ local'[u].snap = local[u].snap

\* Where a thread neither saves nor is between a song and its name
Away == Labels \ {"name", "mark", "push_mark", "push", "add", "snap", "write"}

Moves(t, l, q) ==
    /\ pc' = [pc EXCEPT ![t] = l]
    /\ local' = [local EXCEPT ![t] = IF l = "idle" THEN NoLocals ELSE q]

\* A thread that goes on leaves the others alone.
LEMMA MoveLeavesOthers ==
    ASSUME TypeOK, NEW t \in All, NEW l, NEW q, Moves(t, l, q)
    PROVE  /\ Others(t) /\ pc'[t] = l
           /\ l # "idle" => local'[t] = q
           /\ l = "idle" => local'[t] = NoLocals
BY DEF TypeOK, Moves, Others

\* Steps that happen away from the list, the file and the names of songs.
LEMMA AwaySteps ==
    ASSUME TypeOK, NEW t \in All,
           \/ Find(t) \/ Fetched(t) \/ FetchFails(t) \/ SetSwitching(t) \/ ClearSwitching(t)
           \/ Navigate(t) \/ More(t) \/ NoPage(t) \/ PageDone(t) \/ Pend(t) \/ Post(t)
           \/ CallNavigate(t) \/ PlayAsync(t) \/ Search(t)
           \/ MusicFails(t) /\ pc[t] = "music"
           \/ t = Worker /\ (Wake \/ Take \/ Decide)
    PROVE  /\ pc[t] \in Away /\ UNCHANGED <<cur, stored, track>>
           /\ \E l \in Away, q \in Locals : Moves(t, l, q) /\ q.snap \in {local[t].snap, <<>>}
<1>1. /\ local[t] \in Locals
      /\ \A i \in DOMAIN list : list[i].id \in Ids /\ SongOf(list[i]) \in Songs \cup {None}
    <2>1. local[t] \in Locals /\ \A i \in DOMAIN list : list[i] \in Items
        BY LenProperties, ElementOfSeq DEF TypeOK
    <2> QED
        BY <2>1 DEF Items, SongOf
<1>2. PICK r \in Locals : r = local[t]
    BY <1>1
<1>3. r.id \in Ids \cup {NoId} /\ r.back \in Away
    BY FieldTypes DEF Away, Labels
<1>4. UNCHANGED <<cur, stored, track>>
    BY DEF Find, Fetched, FetchFails, SetSwitching, ClearSwitching, Navigate, More, NoPage, PageDone,
        Pend, Post, CallNavigate, PlayAsync, Search, MusicFails, Wake, Take, Decide,
        shared, playlist, music
<1>5. pc[t] \in Away
    <2>1. pc[t] \in {"play", "fetch", "start", "switch", "unswitch", "finish", "next", "prev", "more",
                     "request", "page", "pend", "post", "idle", "music", "take", "decide"}
        BY DEF Find, Fetched, FetchFails, SetSwitching, ClearSwitching, Navigate, More, NoPage, PageDone,
            Pend, Post, CallNavigate, PlayAsync, Search, Begin, Wake, Take, Decide
    <2> QED
        BY <2>1 DEF Away, Labels
<1>6. ASSUME NEW l, Goto(t, l) PROVE Moves(t, l, r)
    BY <1>2, <1>6 DEF Goto, Enter, Moves
<1>7. ASSUME NEW l, NEW q, Enter(t, l, q) PROVE Moves(t, l, q)
    BY <1>7 DEF Enter, Moves
<1>8. CASE \E l \in Away : Goto(t, l)
    BY <1>2, <1>4, <1>5, <1>6, <1>8
<1>9. ASSUME NEW l \in Away, NEW q \in Locals, Enter(t, l, q), q.snap = r.snap \/ q.snap = <<>>
      PROVE  \E m \in Away, p \in Locals : Moves(t, m, p) /\ p.snap \in {local[t].snap, <<>>}
    BY <1>2, <1>7, <1>9
<1>10. /\ {"idle", "play", "fetch", "start", "switch", "unswitch", "next", "prev", "music"} \subseteq Away
       /\ {"request", "finish", "post", "take", "decide"} \subseteq Away
    BY DEF Away, Labels
<1>11. CASE Find(t)
    <2>1. ASSUME NEW i \in DOMAIN list,
                 list[i].id = r.id,
                 LET q == [r EXCEPT !.song = SongOf(list[i])] IN
                    IF list[i].url # None THEN Enter(t, "start", q)
                    ELSE Enter(t, "fetch", [q EXCEPT !.found = r.id])
          PROVE  \E m \in Away, p \in Locals : Moves(t, m, p) /\ p.snap \in {local[t].snap, <<>>}
        <3>1. PICK x, y, q, p :
                /\ x \in Songs \cup {None} /\ y \in Ids
                /\ q = [r EXCEPT !.song = x] /\ p = [q EXCEPT !.found = y]
                /\ Enter(t, "start", q) \/ Enter(t, "fetch", p)
            BY <1>1, <2>1
        <3>2. q \in Locals /\ q.snap = r.snap
            BY <3>1, SetSong
        <3>3. p = [q EXCEPT !.found = y] /\ y \in Ids
            BY <3>1
        <3>4. p \in Locals /\ p.snap = q.snap
            BY <3>2, <3>3, SetFound
        <3> QED
            BY <1>9, <1>10, <3>1, <3>2, <3>4
    <2>2. \/ \E i \in DOMAIN list :
                /\ list[i].id = r.id
                /\ LET q == [r EXCEPT !.song = SongOf(list[i])] IN
                    IF list[i].url # None THEN Enter(t, "start", q)
                    ELSE Enter(t, "fetch", [q EXCEPT !.found = r.id])
          \/ Goto(t, r.back)
        BY <1>2, <1>11, Zenon DEF Find
    <2>3. CASE Goto(t, r.back)
        BY <1>3, <1>8, <2>3
    <2> QED
        BY <1>4, <1>5, <2>1, <2>2, <2>3, Zenon
<1>12. CASE Fetched(t) \/ FetchFails(t)
    <2>1. PICK l, q :
            /\ l \in Away
            /\ q = [r EXCEPT !.found = NoId] /\ Enter(t, l, q)
        BY <1>2, <1>3, <1>10, <1>12 DEF Fetched, FetchFails
    <2>2. q \in Locals /\ q.snap = r.snap
        BY <2>1, SetFound
    <2> QED
        BY <1>4, <1>5, <1>9, <2>1, <2>2
<1>13. CASE SetSwitching(t) \/ ClearSwitching(t)
    BY <1>2, <1>3, <1>8, <1>10, <1>13 DEF SetSwitching, ClearSwitching
<1>14. CASE Navigate(t)
    <2>1. Neighbour(pc[t] = "next") \subseteq DOMAIN list
        BY DEF Neighbour
    <2>2. ASSUME \E i \in DOMAIN list : Enter(t, "play", [r EXCEPT !.id = list[i].id])
          PROVE  \E m \in Away, p \in Locals : Moves(t, m, p) /\ p.snap \in {local[t].snap, <<>>}
        <3>1. PICK x, q :
                /\ x \in Ids
                /\ q = [r EXCEPT !.id = x] /\ Enter(t, "play", q)
            BY <1>1, <2>2
        <3>2. q \in Locals /\ q.snap = r.snap
            BY <3>1, SetId
        <3> QED
            BY <1>9, <1>10, <3>1, <3>2
    <2>3. CASE Goto(t, r.back)
        BY <1>3, <1>8, <2>3
    <2> QED
        BY <1>2, <1>4, <1>5, <1>14, <2>1, <2>2, <2>3 DEF Navigate
<1>15. CASE More(t)
    <2>1. PICK out, l, q :
            /\ out \in {"idle", "finish"} /\ l \in Away
            /\ q = [r EXCEPT !.back = out] /\ Enter(t, l, q)
        BY <1>2, <1>10, <1>15 DEF More
    <2>2. q \in Locals /\ q.snap = r.snap
        BY <2>1, SetBack
    <2> QED
        BY <1>4, <1>5, <1>9, <2>1, <2>2
<1>16. CASE NoPage(t)
    BY <1>2, <1>3, <1>8, <1>16 DEF NoPage
<1>17. CASE PageDone(t)
    <2>1. PICK q, p : q = [r EXCEPT !.then = "idle"] /\ p = [q EXCEPT !.song = None] /\ Enter(t, "play", p)
        BY <1>2, <1>17 DEF PageDone
    <2>2. q \in Locals /\ q.snap = r.snap
        BY <2>1, SetThen
    <2>3. p = [q EXCEPT !.song = None]
        BY <2>1
    <2>4. p \in Locals /\ p.snap = q.snap
        BY <2>2, <2>3, SetSong
    <2> QED
        BY <1>4, <1>5, <1>9, <1>10, <2>1, <2>2, <2>4
<1>18. CASE Pend(t)
    <2>1. NoLocals \in Locals /\ NoLocals.snap = <<>>
        BY NoLocalsFit DEF NoLocals
    <2> QED
        BY <1>4, <1>5, <1>9, <1>10, <1>18, <2>1 DEF Pend
<1>19. CASE Post(t) \/ PlayAsync(t) \/ Search(t) \/ (MusicFails(t) /\ pc[t] = "music")
    BY <1>8, <1>10, <1>19 DEF Post, PlayAsync, Search, MusicFails
<1>20. CASE CallNavigate(t)
    <2>1. PICK c \in {"next", "tool_next", "prev"} :
            Enter(t, IF c = "prev" THEN "prev" ELSE "next", [NoLocals EXCEPT !.back =
                IF c = "next" THEN "pend" ELSE IF c = "tool_next" THEN "more" ELSE "idle"])
        BY <1>20 DEF CallNavigate
    <2>2. PICK l, x, q :
            /\ l \in Away /\ x \in {"idle", "pend", "more"}
            /\ q = [NoLocals EXCEPT !.back = x] /\ Enter(t, l, q)
        BY <1>10, <2>1
    <2>3. q \in Locals /\ q.snap = NoLocals.snap
        BY <2>2, SetBack, NoLocalsFit
    <2>4. NoLocals.snap = <<>>
        BY DEF NoLocals
    <2> QED
        BY <1>4, <1>5, <1>9, <2>2, <2>3, <2>4
<1>21. CASE t = Worker /\ (Wake \/ Decide)
    BY <1>8, <1>10, <1>21 DEF Wake, Decide
<1>22. CASE t = Worker /\ Take
    <2>1. PICK l, q :
            /\ l \in Away
            /\ \/ user_play \in Ids /\ q = [r EXCEPT !.id = user_play]
               \/ q = [r EXCEPT !.back = "more"]
            /\ Enter(t, l, q)
        BY <1>2, <1>10, <1>22 DEF Take, TypeOK
    <2>2. q \in Locals /\ q.snap = r.snap
        BY <2>1, SetId, SetBack
    <2> QED
        BY <1>4, <1>5, <1>9, <2>1, <2>2
<1> QED
    BY <1>11, <1>12, <1>13, <1>14, <1>15, <1>16, <1>17, <1>18, <1>19, <1>20, <1>21, <1>22

\* Adding a song: it is known, or the list changes and is to be saved.
LEMMA AddMoves ==
    ASSUME TypeOK, NEW t \in All, Add(t)
    PROVE  /\ pc[t] = "add" /\ Others(t) /\ UNCHANGED <<cur, stored, track, torn>>
           /\ \/ /\ pc'[t] = local[t].then /\ UNCHANGED <<list, lost>>
                 /\ local[t].then # "idle" =>
                        local'[t].then = local[t].then /\ local'[t].song = local[t].song
                 /\ local[t].then = "idle" => local'[t].then = "idle"
              \/ /\ pc'[t] = "snap"
                 /\ Visible(list) => Visible(list')
                 /\ local'[t].then = local[t].then /\ local'[t].song = local[t].song
                 /\ lost => lost'
                 /\ \A s : Names(list, cur, s) =>
                        Names(list', cur, s) \/ local[t].then # "page" \/ lost'
<1>1. Fits(list) /\ list \in Seq(Items) /\ local[t] \in Locals /\ pc \in [All -> Labels]
    BY TypeParts DEF TypeOK, Fits
<1>2. PICK r \in Locals : r = local[t]
    BY <1>1
<1>3. r.song \in Songs \cup {None}
    BY FieldTypes
<1>4. pc[t] = "add" /\ UNCHANGED <<cur, stored, track, torn>>
    BY DEF Add, music
<1>5. PICK url \in Songs \cup {None}, aid \in Songs \cup {None} :
        AddKnown(t, url, aid) \/ AddNew(t, url, aid)
    BY <1>2, <1>3 DEF Add
<1>6. CASE AddKnown(t, url, aid)
    <2>1. Same(list, url, aid) \in SUBSET Nat /\ Same(list, url, aid) # {}
          /\ Same(list, url, aid) \subseteq DOMAIN list
        BY <1>1, <1>6, LenProperties DEF AddKnown, Same
    <2>2. \A i \in DOMAIN list : list[i].id \in Ids
        <3>1. \A i \in DOMAIN list : list[i] \in Items
            BY <1>1, LenProperties, ElementOfSeq
        <3> QED
            BY <3>1 DEF Items
    <2>3. list[First(Same(list, url, aid))].id \in Ids
        BY <2>1, <2>2, FirstIsIn
    <2>4. PICK x, q :
            /\ x \in Ids
            /\ q = [r EXCEPT !.id = x] /\ Enter(t, r.then, q)
        BY <1>2, <1>6, <2>3 DEF AddKnown
    <2>5. q.then = r.then /\ q.song = r.song
        BY <2>4, SetId
    <2>6. Moves(t, r.then, q)
        BY <2>4 DEF Enter, Moves
    <2>7. UNCHANGED <<list, lost>>
        BY <1>6 DEF AddKnown
    <2> QED
        BY <1>2, <1>4, <2>5, <2>6, <2>7, MoveLeavesOthers, NoLocalsFit
<1>7. CASE AddNew(t, url, aid)
    <2>1. PICK x \in Ids : x = NewItem(list, url, aid).id
        BY <1>1, AddedFits
    <2>2. \A u \in All : /\ local'[u].then = local[u].then /\ local'[u].song = local[u].song
                         /\ local'[u].snap = local[u].snap
        <3> SUFFICES ASSUME NEW u \in All
                     PROVE  /\ local'[u].then = local[u].then /\ local'[u].song = local[u].song
                            /\ local'[u].snap = local[u].snap
            OBVIOUS
        <3>1. local[u] \in Locals
            BY DEF TypeOK
        <3>2. \/ local'[u] = [local[u] EXCEPT !.id = x]
              \/ local'[u] = [local[u] EXCEPT !.found = x]
              \/ local'[u] = [local[u] EXCEPT !.found = Freed]
              \/ local'[u] = local[u]
            BY <1>7, <2>1 DEF AddNew
        <3> QED
            BY <3>1, <3>2, SetId, SetFound
    <2>3. pc' = [pc EXCEPT ![t] = "snap"]
        BY <1>7 DEF AddNew
    <2>4. Others(t) /\ pc'[t] = "snap"
        BY <1>1, <2>2, <2>3 DEF Others
    <2>5. Visible(list) => Visible(list')
        BY <1>1, <1>7, AddedFits DEF AddNew
    <2>6. /\ lost => lost'
          /\ cur \in IdsIn(list) \ IdsIn(Evict(list)) /\ local[t].then = "page" => lost'
        BY <1>7 DEF AddNew
    <2>7. ASSUME NEW s, Names(list, cur, s), local[t].then = "page", ~lost'
          PROVE  Names(list', cur, s)
        <3>1. PICK k \in DOMAIN list : list[k].id = cur /\ SongOf(list[k]) = s
            BY <2>7 DEF Names
        <3>2. cur \in IdsIn(list)
            BY <3>1 DEF IdsIn
        <3>3. \E j \in DOMAIN list' : list'[j] = list[k]
            BY <1>1, <1>7, <2>6, <2>7, <3>1, <3>2, AddedFits DEF AddNew
        <3> QED
            BY <3>1, <3>3 DEF Names
    <2> QED
        BY <1>4, <2>2, <2>4, <2>5, <2>6, <2>7
<1> QED
    BY <1>5, <1>6, <1>7

\* No memory: what was evicted leaves the list, and `torn` and `lost` say so.
LEMMA AddFailsMoves ==
    ASSUME TypeOK, NEW t \in All, AddFails(t)
    PROVE  /\ pc[t] = "add" /\ Others(t) /\ UNCHANGED <<cur, stored, track>>
           /\ pc'[t] \in {"idle", "push", "page"} /\ (pc'[t] = "page" \/ lost')
           /\ pc'[t] = "idle" => local'[t].then = "idle"
           /\ lost => lost'
           /\ ~lost' => local[t].then = "page" /\ \A s : Names(list, cur, s) => Names(list', cur, s)
           /\ ~torn' => ~torn /\ list' = list
<1>1. Fits(list) /\ local[t] \in Locals /\ pc \in [All -> Labels]
    BY TypeParts DEF TypeOK
<1>2. \A u \in All : u # t => /\ local'[u].then = local[u].then /\ local'[u].song = local[u].song
                              /\ local'[u].snap = local[u].snap
    <2> SUFFICES ASSUME NEW u \in All, u # t
                 PROVE  /\ local'[u].then = local[u].then /\ local'[u].song = local[u].song
                        /\ local'[u].snap = local[u].snap
        OBVIOUS
    <2>1. local[u] \in Locals
        BY DEF TypeOK
    <2>2. local'[u] = [local[u] EXCEPT !.found = Freed] \/ local'[u] = local[u]
        BY DEF AddFails
    <2> QED
        BY <2>1, <2>2, SetFound
<1>3. PICK after \in {"idle", "push", "page"} :
        /\ pc' = [pc EXCEPT ![t] = after]
        /\ after = "page" => local[t].then \notin {"mark", "push_mark"}
        /\ after # "page" => local[t].then # "page"
        /\ after = "idle" => local'[t] = NoLocals
    BY DEF AddFails
<1>4. Others(t) /\ pc'[t] = after
    BY <1>1, <1>2, <1>3 DEF Others
<1>5. pc[t] = "add" /\ UNCHANGED <<cur, stored, track>>
    BY DEF AddFails, music
<1>6. /\ lost' = (lost \/ local[t].then # "page" \/ cur \in IdsIn(list) \ IdsIn(Evict(list)))
      /\ torn' = (torn \/ IdsIn(list) \ IdsIn(Evict(list)) # {})
      /\ list' = Evict(list)
    BY DEF AddFails
<1>7. ~torn' => ~torn /\ list' = list
    BY <1>1, <1>6, EvictFits
<1>8. ASSUME ~lost' PROVE local[t].then = "page" /\ \A s : Names(list, cur, s) => Names(list', cur, s)
    <2> SUFFICES ASSUME NEW s, Names(list, cur, s) PROVE Names(list', cur, s)
        BY <1>6, <1>8
    <2>1. PICK k \in DOMAIN list : list[k].id = cur /\ SongOf(list[k]) = s
        BY DEF Names
    <2>2. cur \in IdsIn(list)
        BY <2>1 DEF IdsIn
    <2>3. \E j \in DOMAIN list' : list'[j] = list[k]
        BY <1>1, <1>6, <1>8, <2>1, <2>2, EvictFits
    <2> QED
        BY <2>1, <2>3 DEF Names
<1> QED
    BY <1>3, <1>4, <1>5, <1>6, <1>7, <1>8, NoLocalsFit

\* Removing an item, or all: cur no longer names what has left the list, which is to be saved.
LEMMA DropMoves ==
    ASSUME TypeOK, NEW t \in All, RemoveItem(t) \/ Clear(t)
    PROVE  /\ pc[t] = "idle" /\ pc'[t] = "snap" /\ Others(t) /\ UNCHANGED <<stored, track, lost, torn>>
           /\ local'[t].then = local[t].then
           /\ Visible(list) => Visible(list')
           /\ cur' # NoId => /\ cur # NoId
                             /\ \A s : Names(list, cur, s) => Names(list', cur', s)
<1>1. Fits(list) /\ list \in Seq(Items) /\ DOMAIN list = 1..Len(list) /\ pc \in [All -> Labels]
    BY TypeParts, LenProperties DEF TypeOK, Fits
<1>2. pc[t] = "idle"
    BY DEF RemoveItem, Clear, Begin
<1>3. PICK l, S : /\ Drop(t, l, S)
                  /\ \/ \E i \in DOMAIN list : l = RemoveAt(list, i) /\ S = {list[i].id}
                     \/ l = <<>> /\ S = Ids
    BY DEF RemoveItem, Clear
<1>4. \A u \in All : /\ local'[u].then = local[u].then /\ local'[u].song = local[u].song
                     /\ local'[u].snap = local[u].snap
    <2> SUFFICES ASSUME NEW u \in All
                 PROVE  /\ local'[u].then = local[u].then /\ local'[u].song = local[u].song
                        /\ local'[u].snap = local[u].snap
        OBVIOUS
    <2>1. local[u] \in Locals
        BY DEF TypeOK
    <2>2. local'[u] = [local[u] EXCEPT !.found = Freed] \/ local'[u] = local[u]
        BY <1>3 DEF Drop
    <2> QED
        BY <2>1, <2>2, SetFound
<1>5. pc' = [pc EXCEPT ![t] = "snap"] /\ UNCHANGED <<stored, track, lost, torn>> /\ list' = l
    BY <1>3 DEF Drop, music, history
<1>6. Others(t) /\ pc'[t] = "snap"
    BY <1>1, <1>4, <1>5 DEF Others
<1>7. cur' = IF cur \in S THEN NoId ELSE cur
    BY <1>3 DEF Drop
<1>8. CASE \E i \in DOMAIN list : l = RemoveAt(list, i) /\ S = {list[i].id}
    <2>1. PICK i \in DOMAIN list : l = RemoveAt(list, i) /\ S = {list[i].id}
        BY <1>8
    <2>2. Visible(list) => Visible(list')
        BY <1>1, <1>5, <2>1, RemovedFits
    <2>3. ASSUME cur' # NoId, NEW s, Names(list, cur, s) PROVE Names(list', cur', s)
        <3>1. PICK k \in DOMAIN list : list[k].id = cur /\ SongOf(list[k]) = s
            BY <2>3 DEF Names
        <3>2. k # i /\ cur' = cur
            BY <1>7, <2>1, <2>3, <3>1
        <3>3. \E j \in DOMAIN list' : list'[j] = list[k]
            BY <1>1, <1>5, <2>1, <3>2, RemovedFits
        <3> QED
            BY <3>1, <3>2, <3>3 DEF Names
    <2> QED
        BY <1>2, <1>4, <1>5, <1>6, <1>7, <2>2, <2>3
<1>9. CASE l = <<>> /\ S = Ids
    <2>1. DOMAIN list' = {}
        BY <1>5, <1>9
    <2>2. Visible(list')
        BY <2>1 DEF Visible
    <2>3. cur' = NoId
        BY <1>7, <1>9 DEF TypeOK
    <2> QED
        BY <1>2, <1>4, <1>5, <1>6, <2>2, <2>3
<1> QED
    BY <1>3, <1>8, <1>9

\* A URL that arrives changes no song, unless it goes into another item.
LEMMA FetchedSongs ==
    ASSUME TypeOK, NEW t \in All, Fetched(t)
    PROVE  /\ lost => lost'
           /\ ~lost' => \A i, s : Names(list, i, s) => Names(list', i, s)
           /\ ~torn' => ~torn /\ (Visible(list) => Visible(list')) /\ SongsIn(list') = SongsIn(list)
<1>1. list \in Seq(Items) /\ Apart(list) /\ local[t] \in Locals
    BY TypeParts DEF TypeOK, Fits
<1>2. \A i \in DOMAIN list : list[i] \in Items
    BY <1>1, LenProperties, ElementOfSeq
<1>3. PICK r \in Locals : r = local[t]
    BY <1>1
<1>4. /\ DOMAIN list' = DOMAIN list
      /\ \A i \in DOMAIN list :
            list'[i] = IF list[i].id = r.found THEN [list[i] EXCEPT !.url = r.song] ELSE list[i]
      /\ lost' = (lost \/ (r.found \in IdsIn(list) /\ ~Names(list, r.found, r.song)))
      /\ torn' = (torn \/ (r.found \in IdsIn(list) /\ ~Names(list, r.found, r.song)))
    BY <1>3 DEF Fetched
<1>5. ASSUME r.found \in IdsIn(list) => Names(list, r.found, r.song), NEW i \in DOMAIN list
      PROVE  /\ list'[i].id = list[i].id /\ list'[i].aid = list[i].aid
             /\ SongOf(list'[i]) = SongOf(list[i])
             /\ list'[i].url = None => list[i].url = None
    <2>1. CASE list[i].id = r.found
        <3>1. PICK k \in DOMAIN list : list[k].id = r.found /\ SongOf(list[k]) = r.song
            BY <1>5, <2>1 DEF Names, IdsIn
        <3>2. SongOf(list[i]) = r.song
            BY <1>1, <2>1, <3>1 DEF Apart
        <3>3. list'[i] = [list[i] EXCEPT !.url = r.song] /\ list[i] \in Items
            BY <1>2, <1>4, <2>1
        <3>4. list'[i].id = list[i].id /\ list'[i].aid = list[i].aid /\ list'[i].url = r.song
            BY <3>3 DEF Items
        <3> QED
            BY <3>2, <3>4 DEF SongOf
    <2>2. CASE list[i].id # r.found
        BY <1>4, <2>2
    <2> QED
        BY <2>1, <2>2
<1>6. ASSUME ~lost' PROVE \A i, s : Names(list, i, s) => Names(list', i, s)
    <2>1. \A k \in DOMAIN list : list'[k].id = list[k].id /\ SongOf(list'[k]) = SongOf(list[k])
        BY <1>4, <1>5, <1>6
    <2> QED
        BY <1>4, <2>1 DEF Names
<1>7. ASSUME ~torn' PROVE (Visible(list) => Visible(list')) /\ SongsIn(list') = SongsIn(list)
    <2>1. \A k \in DOMAIN list : /\ list'[k].aid = list[k].aid /\ SongOf(list'[k]) = SongOf(list[k])
                                 /\ list'[k].url = None => list[k].url = None
        BY <1>4, <1>5, <1>7
    <2>2. Visible(list) => Visible(list')
        BY <1>4, <2>1 DEF Visible
    <2>3. SongsIn(list') = SongsIn(list)
        BY <1>4, <2>1 DEF SongsIn
    <2> QED
        BY <2>2, <2>3
<1> QED
    BY <1>4, <1>6, <1>7

-----------------------------------------------------------------------------
(* The file. *)

\* As long as nothing is torn there is one writer, whose copy has the songs of the list
\* unless another save is about to begin, and without a writer the file has them
FileInv == ~torn =>
    /\ Visible(list)
    /\ \A t, u \in All : pc[t] = "write" /\ pc[u] = "write" => t = u
    /\ (\A t \in All : pc[t] # "snap") =>
        /\ (\A t \in All : pc[t] # "write") => SongsIn(Load(stored)) = SongsIn(list)
        /\ \A t \in All : pc[t] = "write" =>
            Visible(local[t].snap) /\ SongsIn(local[t].snap) = SongsIn(list)

\* A step of a thread that does not save keeps the songs of the list, or tears the file.
LEMMA FileKeeps ==
    ASSUME TypeOK, FileInv, NEW t \in All, Others(t), stored' = stored,
           pc[t] \notin {"snap", "write"}, pc'[t] \notin {"snap", "write"},
           ~torn' => ~torn /\ Visible(list') /\ SongsIn(list') = SongsIn(list)
    PROVE  FileInv'
<1> SUFFICES ASSUME ~torn' PROVE FileInv'
    BY DEF FileInv
<1>1. \A u \in All : pc'[u] \in {"snap", "write"} \/ pc[u] \in {"snap", "write"} =>
            u # t /\ pc'[u] = pc[u] /\ local'[u].snap = local[u].snap
    BY DEF Others
<1>2. \A u \in All : /\ pc'[u] = "snap" <=> pc[u] = "snap"
                     /\ pc'[u] = "write" <=> pc[u] = "write"
    BY <1>1
<1>3. Visible(list') /\ \A u, v \in All : pc'[u] = "write" /\ pc'[v] = "write" => u = v
    BY <1>2 DEF FileInv
<1>4. ASSUME \A u \in All : pc'[u] # "snap"
      PROVE  /\ (\A u \in All : pc'[u] # "write") => SongsIn(Load(stored')) = SongsIn(list')
             /\ \A u \in All : pc'[u] = "write" =>
                    Visible(local'[u].snap) /\ SongsIn(local'[u].snap) = SongsIn(list')
    BY <1>1, <1>2, <1>4 DEF FileInv
<1> QED
    BY <1>3, <1>4 DEF FileInv, Visible, SongsIn, SongOf, Load, LoadItem, Same

\* A step that makes a change keeps the list visible and goes on to save it.
LEMMA FileWillSave ==
    ASSUME TypeOK, FileInv, NEW t \in All, Others(t), pc[t] # "write", pc'[t] = "snap",
           ~torn' => ~torn /\ Visible(list')
    PROVE  FileInv'
<1> SUFFICES ASSUME ~torn' PROVE FileInv'
    BY DEF FileInv
<1>1. \A u \in All : pc'[u] = "write" => pc[u] = "write"
    BY DEF Others
<1> QED
    BY <1>1 DEF FileInv, Visible

\* The save itself.
LEMMA FileSaves ==
    ASSUME TypeOK, FileInv, NEW t \in All, Snap(t) \/ Write(t) \/ SaveFails(t)
    PROVE  FileInv'
<1>1. Fits(list) /\ local[t] \in Locals
    BY TypeParts DEF TypeOK
<1>2. PICK r \in Locals : r = local[t]
    BY <1>1
<1>3. CASE Snap(t)
    <2> SUFFICES ASSUME ~torn' PROVE FileInv'
        BY DEF FileInv
    <2>1. PICK q : q = [r EXCEPT !.snap = list] /\ Enter(t, "write", q)
        BY <1>2, <1>3 DEF Snap
    <2>2. q.snap = list
        BY <1>1, <2>1, SetSnap DEF Fits
    <2>3. Moves(t, "write", q)
        BY <2>1 DEF Enter, Moves
    <2>4. Others(t) /\ pc'[t] = "write" /\ local'[t] = q
        BY <2>3, MoveLeavesOthers
    <2>5. list' = list /\ ~torn /\ \A u \in All : u # t => pc[u] # "write"
        BY <1>3 DEF Snap, shared, playlist
    <2>6. \A u \in All : u # t => pc'[u] # "write"
        BY <2>4, <2>5 DEF Others
    <2>7. Visible(list)
        BY <2>5 DEF FileInv
    <2>8. \A u \in All : pc'[u] = "write" => local'[u].snap = list'
        BY <2>2, <2>4, <2>5, <2>6
    <2> QED
        BY <2>4, <2>5, <2>6, <2>7, <2>8 DEF FileInv, Visible, SongsIn, SongOf
<1>4. CASE Write(t)
    <2> SUFFICES ASSUME ~torn' PROVE FileInv'
        BY DEF FileInv
    <2>1. PICK q : q = [r EXCEPT !.snap = <<>>] /\ Enter(t, r.then, q)
        BY <1>2, <1>4 DEF Write
    <2>2. Moves(t, r.then, q)
        BY <2>1 DEF Enter, Moves
    <2>3. Others(t) /\ pc'[t] = r.then
        BY <2>2, MoveLeavesOthers
    <2>4. pc'[t] \notin {"snap", "write"}
        BY <2>3, FieldTypes
    <2>5. list' = list /\ ~torn /\ stored' = r.snap /\ pc[t] = "write"
        BY <1>2, <1>4 DEF Write, shared, playlist, history
    <2>6. \A u \in All : pc'[u] # "write"
        BY <2>3, <2>4, <2>5 DEF FileInv, Others
    <2>7. ASSUME \A u \in All : pc'[u] # "snap"
          PROVE  SongsIn(Load(stored')) = SongsIn(list')
        <3>1. \A u \in All : pc[u] # "snap"
            BY <2>3, <2>5, <2>7 DEF Others
        <3>2. Visible(r.snap) /\ SongsIn(r.snap) = SongsIn(list)
            BY <1>2, <2>5, <3>1 DEF FileInv
        <3>3. Fits(r.snap)
            BY <1>2, TypeParts DEF ThreadsOK
        <3> QED
            BY <2>5, <3>2, <3>3, LoadFits
    <2>8. Visible(list')
        BY <2>5 DEF FileInv
    <2> QED
        BY <2>6, <2>7, <2>8 DEF FileInv, Visible, SongsIn, SongOf, Load, LoadItem, Same
<1>5. CASE SaveFails(t)
    BY <1>5 DEF SaveFails, FileInv
<1> QED
    BY <1>3, <1>4, <1>5

\* No step leaves the file behind the list unnoticed.
LEMMA FileStep == TypeOK /\ FileInv /\ [Next]_vars => FileInv'
<1> SUFFICES ASSUME TypeOK, FileInv, [Next]_vars PROVE FileInv'
    OBVIOUS
<1>1. Worker \in All /\ Threads \subseteq All
    BY DEF All
<1>2. ASSUME NEW t \in All,
             \/ Find(t) \/ Fetched(t) \/ FetchFails(t) \/ SetSwitching(t) \/ ClearSwitching(t)
             \/ Navigate(t) \/ More(t) \/ NoPage(t) \/ PageDone(t) \/ Pend(t) \/ Post(t)
             \/ CallNavigate(t) \/ PlayAsync(t) \/ Search(t)
             \/ MusicFails(t) /\ pc[t] = "music"
             \/ t = Worker /\ (Wake \/ Take \/ Decide)
      PROVE  FileInv'
    <2>1. pc[t] \in Away /\ stored' = stored /\ \E l \in Away, q \in Locals : Moves(t, l, q)
        BY <1>2, AwaySteps
    <2>2. Others(t) /\ pc'[t] \in Away
        BY <2>1, MoveLeavesOthers
    <2>3. pc[t] \notin {"snap", "write"} /\ pc'[t] \notin {"snap", "write"}
        BY <2>1, <2>2 DEF Away
    <2>4. CASE Fetched(t)
        BY <2>1, <2>2, <2>3, <2>4, FetchedSongs, FileKeeps DEF FileInv
    <2>5. CASE ~Fetched(t)
        <3>1. UNCHANGED <<list, torn>>
            BY <1>2, <2>5 DEF Find, FetchFails, SetSwitching, ClearSwitching, Navigate, More, NoPage,
                PageDone, Pend, Post, CallNavigate, PlayAsync, Search, MusicFails, Wake, Take, Decide,
                shared, playlist, history
        <3> QED
            BY <2>1, <2>2, <2>3, <3>1, FileKeeps DEF FileInv
    <2> QED
        BY <2>4, <2>5
<1>3. ASSUME NEW t \in All,
             \/ Music(t) \/ Several(t) \/ Unplayed(t) \/ Refused(t) \/ MusicFails(t) \/ Nameless(t)
             \/ Name(t) \/ Mark(t) \/ Page(t) \/ Push(t)
      PROVE  FileInv'
    <2>1. UNCHANGED <<list, stored, torn>>
        BY <1>3 DEF Music, Several, Unplayed, Refused, MusicFails, Nameless, Name, Mark, Page, Push,
            shared, playlist, history
    <2>2. PICK l, q :
            /\ l \in Labels \ {"snap", "write"}
            /\ Moves(t, l, q)
        BY <1>3 DEF Music, Several, Unplayed, Refused, MusicFails, Nameless, Name, Mark, Page, Push,
            Goto, Enter, Moves, Labels
    <2>3. pc[t] \notin {"snap", "write"}
        BY <1>3 DEF Music, Several, Unplayed, Refused, MusicFails, Nameless, Name, Mark, Page, Push, Begin
    <2>4. Others(t) /\ pc'[t] = l
        BY <2>2, MoveLeavesOthers
    <2> QED
        BY <2>1, <2>2, <2>3, <2>4, FileKeeps DEF FileInv
<1>4. ASSUME NEW t \in All, Add(t) PROVE FileInv'
    <2>1. pc[t] = "add" /\ Others(t) /\ UNCHANGED <<stored, torn>>
        BY <1>4, AddMoves
    <2>2. CASE pc'[t] = "snap" /\ (Visible(list) => Visible(list'))
        BY <2>1, <2>2, FileWillSave DEF FileInv
    <2>3. CASE pc'[t] = local[t].then /\ list' = list
        <3>1. pc'[t] \notin {"snap", "write"}
            BY <2>3, FieldTypes DEF TypeOK
        <3> QED
            BY <2>1, <2>3, <3>1, FileKeeps DEF FileInv
    <2> QED
        BY <1>4, <2>2, <2>3, AddMoves
<1>5. ASSUME NEW t \in All, AddFails(t) PROVE FileInv'
    <2>1. /\ pc[t] = "add" /\ Others(t) /\ stored' = stored /\ pc'[t] \in {"idle", "push", "page"}
          /\ ~torn' => ~torn /\ list' = list
        BY <1>5, AddFailsMoves
    <2> QED
        BY <2>1, FileKeeps DEF FileInv
<1>6. ASSUME NEW t \in All, RemoveItem(t) \/ Clear(t) PROVE FileInv'
    <2>1. /\ pc[t] = "idle" /\ pc'[t] = "snap" /\ Others(t) /\ torn' = torn
          /\ Visible(list) => Visible(list')
        BY <1>6, DropMoves
    <2> QED
        BY <2>1, FileWillSave DEF FileInv
<1>7. ASSUME UNCHANGED <<list, stored, pc, local, torn>> PROVE FileInv'
    <2>1. list' = list /\ stored' = stored /\ pc' = pc /\ local' = local /\ torn' = torn
        BY <1>7
    <2>2. ASSUME ~torn', \A u \in All : pc'[u] # "snap"
          PROVE  /\ (\A u \in All : pc'[u] # "write") => SongsIn(Load(stored')) = SongsIn(list')
                 /\ \A u \in All : pc'[u] = "write" =>
                        Visible(local'[u].snap) /\ SongsIn(local'[u].snap) = SongsIn(list')
        BY <2>1, <2>2 DEF FileInv
    <2>3. ~torn' => /\ Visible(list')
                    /\ \A u, v \in All : pc'[u] = "write" /\ pc'[v] = "write" => u = v
        BY <2>1 DEF FileInv
    <2> QED
        BY <2>2, <2>3 DEF FileInv, Visible, SongsIn, SongOf, Load, LoadItem, Same
<1>8. ASSUME NEW t \in All, Step(t) PROVE FileInv'
    BY <1>2, <1>3, <1>4, <1>5, <1>8, FileSaves DEF Step
<1>9. ASSUME NEW t \in All, Call(t) PROVE FileInv'
    <2>1. CASE SetAuto(t) \/ StopMusic(t)
        BY <1>7, <2>1 DEF SetAuto, StopMusic, shared, playlist, history
    <2> QED
        BY <1>2, <1>3, <1>6, <1>9, <2>1 DEF Call
<1>10. CASE WorkerStep
    BY <1>1, <1>2, <1>8, <1>10 DEF WorkerStep
<1>11. CASE Task \/ SongEnds \/ UNCHANGED vars
    BY <1>7, <1>11 DEF Task, TaskStart, OnPlaying, OnStopped, OnStoppedPost, SongEnds, vars, shared,
        playlist, history
<1>12. CASE Reboot
    <2>1. list' = Load(stored) /\ stored' = stored /\ pc' = [t \in All |-> "idle"]
        BY <1>12 DEF Reboot
    <2>2. Visible(Load(stored))
        BY TypeParts, LoadFits
    <2>3. \A t \in All : pc'[t] = "idle"
        BY <2>1
    <2>4. Visible(list') /\ SongsIn(Load(stored')) = SongsIn(list')
        BY <2>1, <2>2
    <2> QED
        BY <2>3, <2>4 DEF FileInv, Visible, SongsIn, SongOf, Load, LoadItem, Same
<1> QED
    BY <1>1, <1>8, <1>9, <1>10, <1>11, <1>12 DEF Next

\* When no call is in progress the file holds the songs of the list, unless the model says
\* that it is torn: a power cut loses none (__playback_persist_and_notify,
\* __desktop_playlist_save), whatever the threads, their calls and the songs.
THEOREM FileIsKept == Spec => []FileFollows
<1>1. Init => FileInv
    <2> SUFFICES ASSUME Init PROVE FileInv
        OBVIOUS
    <2>1. Fits(stored)
        BY StoredAssumption DEF Init, Fits, Apart
    <2>2. Visible(list) /\ list = Load(stored) /\ \A t \in All : pc[t] = "idle"
        BY <2>1, LoadFits DEF Init
    <2> QED
        BY <2>2 DEF FileInv
<1>2. FileInv => FileFollows
    BY DEF FileInv, FileFollows, Quiet, SongsIn
<1> QED
    BY <1>1, <1>2, FileStep, TypeCorrect, PTL DEF Spec

-----------------------------------------------------------------------------
(* The song that plays. *)

\* Thread t has handed its song to the player and not yet named it
Handed(t) ==
    \/ pc[t] \in {"name", "mark"}
    \/ pc[t] \in {"add", "snap", "write"} /\ local[t].then = "mark"

\* With no thread in InPlay cur names the song that plays, with one this thread has it,
\* and two cannot leave without `lost`
PlayInv ==
    /\ \A t \in All : /\ pc[t] = "add" => local[t].then # "idle"
                      /\ pc[t] = "idle" => local[t].then = "idle"
    /\ ~lost =>
        /\ InPlay = {} /\ cur # NoId => Names(list, cur, track)
        /\ \A t \in All : InPlay = {t} =>
            /\ Handed(t) => track = local[t].song
            /\ pc[t] = "push" /\ cur # NoId => Names(list, cur, local[t].song)

\* Thread t is between handing a song to the player and naming it, or the reverse
Playing(t) ==
    \/ pc[t] \in {"name", "mark", "push_mark", "push"}
    \/ pc[t] \in {"add", "snap", "write"} /\ local[t].then \in {"mark", "push_mark"}

\* A step of a thread that neither begins nor ends to play keeps what is known.
LEMMA PlayKeeps ==
    ASSUME TypeOK, PlayInv, NEW t \in All, Others(t), track' = track,
           Playing(t)' <=> Playing(t), Handed(t)' <=> Handed(t), pc'[t] = "push" <=> pc[t] = "push",
           Playing(t) => local'[t].song = local[t].song,
           pc'[t] = "idle" => local'[t].then = "idle",
           pc'[t] = "add" => local'[t].then # "idle",
           ~lost' => /\ ~lost
                     /\ \/ Playing(t) /\ pc[t] # "push"
                        \/ cur' # NoId =>
                            cur # NoId /\ \A s : Names(list, cur, s) => Names(list', cur', s)
    PROVE  PlayInv'
<1>1. \A u \in All : u # t =>
        /\ pc'[u] = pc[u] /\ local'[u].then = local[u].then /\ local'[u].song = local[u].song
    BY DEF Others
<1>2. \A u \in All : /\ u \in InPlay <=> Playing(u)
                     /\ u \in InPlay' <=> Playing(u)'
    BY DEF InPlay, Playing
<1>3. \A u \in All : Playing(u)' <=> Playing(u)
    BY <1>1 DEF Playing
<1>4. InPlay' = InPlay
    BY <1>2, <1>3 DEF InPlay
<1>5. \A u \in All : /\ pc'[u] = "add" => local'[u].then # "idle"
                     /\ pc'[u] = "idle" => local'[u].then = "idle"
    BY <1>1 DEF PlayInv
<1>6. ASSUME ~lost', InPlay = {}, cur' # NoId PROVE Names(list', cur', track')
    BY <1>2, <1>6 DEF PlayInv
<1>7. ASSUME ~lost', NEW u \in All, InPlay = {u}
      PROVE  /\ Handed(u)' => track' = local'[u].song
             /\ pc'[u] = "push" /\ cur' # NoId => Names(list', cur', local'[u].song)
    <2>1. Handed(u)' <=> Handed(u)
        BY <1>1 DEF Handed
    <2>2. local'[u].song = local[u].song /\ (pc'[u] = "push" <=> pc[u] = "push")
        BY <1>1, <1>2, <1>7
    <2>3. Handed(u)' => track' = local'[u].song
        BY <1>7, <2>1, <2>2 DEF PlayInv
    <2>4. ASSUME pc'[u] = "push", cur' # NoId PROVE Names(list', cur', local'[u].song)
        <3>1. ~(Playing(t) /\ pc[t] # "push")
            BY <1>2, <1>7, <2>2, <2>4
        <3> QED
            BY <1>7, <2>2, <2>4, <3>1 DEF PlayInv
    <2> QED
        BY <2>3, <2>4
<1> QED
    BY <1>4, <1>5, <1>6, <1>7 DEF PlayInv, Names, SongOf

\* A step that leaves the threads, the list and the songs alone.
LEMMA PlayUnchanged ==
    ASSUME PlayInv, UNCHANGED <<list, cur, track, pc, local, lost>>
    PROVE  PlayInv'
BY DEF PlayInv, InPlay, Handed, Names, SongOf

\* A thread begins to play: alone it has handed nothing, or exactly what plays; with others
\* nothing is claimed.
LEMMA PlayBegins ==
    ASSUME TypeOK, PlayInv, NEW t \in All, Others(t), ~Playing(t), Playing(t)', pc'[t] # "push",
           Handed(t)' => track' = local'[t].song,
           pc'[t] = "add" => local'[t].then # "idle"
    PROVE  PlayInv'
<1>1. \A u \in All : u # t => pc'[u] = pc[u] /\ local'[u].then = local[u].then
    BY DEF Others
<1>2. t \in InPlay'
    BY DEF InPlay, Playing
<1>3. \A u \in All : /\ pc'[u] = "add" => local'[u].then # "idle"
                     /\ pc'[u] = "idle" => local'[u].then = "idle"
    <2>1. pc'[t] # "idle"
        BY DEF Playing
    <2> QED
        BY <1>1, <2>1 DEF PlayInv
<1> QED
    BY <1>2, <1>3 DEF PlayInv

\* A thread that plays alone goes on or ends, and cur names its song.
LEMMA PlayEnds ==
    ASSUME TypeOK, PlayInv, NEW t \in All, Others(t), Playing(t), ~Handed(t)',
           pc'[t] # "add", pc'[t] = "idle" => local'[t].then = "idle",
           Playing(t)' => pc'[t] = "push" /\ local'[t].song = local[t].song,
           ~lost' => /\ InPlay = {t}
                     /\ cur' # NoId => Names(list', cur', local[t].song)
                     /\ ~Playing(t)' => track' = local[t].song
    PROVE  PlayInv'
<1>1. \A u \in All : u # t => pc'[u] = pc[u] /\ local'[u].then = local[u].then
    BY DEF Others
<1>2. \A u \in All : /\ pc'[u] = "add" => local'[u].then # "idle"
                     /\ pc'[u] = "idle" => local'[u].then = "idle"
    BY <1>1 DEF PlayInv
<1>3. \A u \in All : /\ u \in InPlay <=> Playing(u)
                     /\ u \in InPlay' <=> Playing(u)'
    BY DEF InPlay, Playing
<1>4. ASSUME ~lost', NEW u \in All, u # t PROVE u \notin InPlay'
    <2>1. u \notin InPlay
        BY <1>4
    <2>2. ~Playing(u)
        BY <1>3, <2>1
    <2>3. ~Playing(u)'
        BY <1>1, <1>4, <2>2 DEF Playing
    <2> QED
        BY <1>3, <2>3
<1>5. ASSUME ~lost', InPlay' = {}, cur' # NoId PROVE Names(list', cur', track')
    <2>1. ~Playing(t)'
        BY <1>3, <1>5
    <2> QED
        BY <1>5, <2>1
<1>6. ASSUME ~lost', NEW u \in All, InPlay' = {u}
      PROVE  /\ ~Handed(u)'
             /\ pc'[u] = "push" /\ cur' # NoId => Names(list', cur', local'[u].song)
    <2>1. u = t /\ Playing(t)'
        BY <1>3, <1>4, <1>6
    <2> QED
        BY <1>6, <2>1
<1> QED
    BY <1>2, <1>5, <1>6 DEF PlayInv, Names, SongOf

\* The player's own list has more songs only after a push of several, or one refused.
RestLost == rest > 0 => lost

\* A step inside a call keeps that.
LEMMA RestStepOf ==
    ASSUME TypeOK, RestLost, NEW t \in All, Step(t)
    PROVE  RestLost'
<1>1. CASE Music(t) \/ MusicFails(t)
    BY <1>1 DEF Music, MusicFails, RestLost
<1>2. CASE Several(t) \/ Unplayed(t) \/ Refused(t) \/ Nameless(t)
    BY <1>2 DEF Several, Unplayed, Refused, Nameless, RestLost
<1>3. CASE Add(t)
    <2>1. lost => lost'
        BY <1>3 DEF Add, AddKnown, AddNew
    <2> QED
        BY <1>3, <2>1 DEF Add, music, RestLost
<1>4. CASE AddFails(t) \/ Fetched(t) \/ Mark(t)
    <2>1. (lost => lost') /\ rest' = rest
        BY <1>4 DEF AddFails, Fetched, Mark, music
    <2> QED
        BY <2>1 DEF RestLost
<1>5. CASE ~(\/ Music(t) \/ MusicFails(t) \/ Several(t) \/ Unplayed(t) \/ Refused(t) \/ Nameless(t)
             \/ Add(t) \/ AddFails(t) \/ Fetched(t) \/ Mark(t))
    <2>1. UNCHANGED <<rest, lost>>
        BY <1>5 DEF Step, Snap, Write, SaveFails, Find, FetchFails, SetSwitching, ClearSwitching, Name,
            Navigate, More, Page, NoPage, PageDone, Pend, Post, music, history
    <2> QED
        BY <2>1 DEF RestLost
<1> QED
    BY <1>1, <1>2, <1>3, <1>4, <1>5

\* Every step keeps it.
LEMMA RestStep == TypeOK /\ RestLost /\ [Next]_vars => RestLost'
<1> SUFFICES ASSUME TypeOK, RestLost, [Next]_vars PROVE RestLost'
    OBVIOUS
<1>1. CASE WorkerStep
    <2>1. CASE Wake \/ Take \/ Decide
        BY <2>1 DEF Wake, Take, Decide, music, history, RestLost
    <2> QED
        BY <1>1, <2>1, RestStepOf DEF WorkerStep, All
<1>2. CASE Task
    <2>1. lost' = lost /\ (rest' = rest \/ (rest > 0 /\ rest' = rest - 1))
        BY <1>2 DEF Task, TaskStart, OnPlaying, OnStopped, OnStoppedPost, history
    <2> QED
        BY <2>1 DEF RestLost
<1>3. CASE SongEnds \/ UNCHANGED vars
    BY <1>3 DEF SongEnds, vars, music, history, RestLost
<1>4. CASE Reboot
    BY <1>4 DEF Reboot, RestLost
<1>5. ASSUME NEW t \in Threads, Call(t) PROVE RestLost'
    <2>1. CASE StopMusic(t)
        BY <2>1 DEF StopMusic, RestLost
    <2>2. CASE ~StopMusic(t)
        <3>1. UNCHANGED <<rest, lost>>
            BY <1>5, <2>2 DEF Call, CallNavigate, PlayAsync, RemoveItem, Clear, Drop, Search, Push, SetAuto,
                music, history
        <3> QED
            BY <3>1 DEF RestLost
    <2> QED
        BY <2>1, <2>2
<1> QED
    BY <1>1, <1>2, <1>3, <1>4, <1>5, RestStepOf DEF Next, All

\* No step leaves cur with another song than the one that plays unnoticed.
LEMMA PlayStep == TypeOK /\ RestLost /\ PlayInv /\ [Next]_vars => PlayInv'
<1> SUFFICES ASSUME TypeOK, RestLost, PlayInv, [Next]_vars PROVE PlayInv'
    OBVIOUS
<1>1. Worker \in All /\ Threads \subseteq All
    BY DEF All
<1>2. ASSUME NEW t \in All,
             \/ Find(t) \/ Fetched(t) \/ FetchFails(t) \/ SetSwitching(t) \/ ClearSwitching(t)
             \/ Navigate(t) \/ More(t) \/ NoPage(t) \/ PageDone(t) \/ Pend(t) \/ Post(t)
             \/ CallNavigate(t) \/ PlayAsync(t) \/ Search(t)
             \/ MusicFails(t) /\ pc[t] = "music"
             \/ t = Worker /\ (Wake \/ Take \/ Decide)
      PROVE  PlayInv'
    <2>1. /\ pc[t] \in Away /\ UNCHANGED <<cur, track>>
          /\ \E l \in Away, q \in Locals : Moves(t, l, q)
        BY <1>2, AwaySteps
    <2>2. Others(t) /\ pc'[t] \in Away /\ (pc'[t] = "idle" => local'[t] = NoLocals)
        BY <2>1, MoveLeavesOthers
    <2>3. /\ ~Playing(t) /\ ~Playing(t)' /\ ~Handed(t) /\ ~Handed(t)'
          /\ pc[t] # "push" /\ pc'[t] \notin {"push", "add"}
        BY <2>1, <2>2 DEF Away, Playing, Handed
    <2>4. pc'[t] = "idle" => local'[t].then = "idle"
        BY <2>2, NoLocalsFit
    <2>5. ~lost' => ~lost /\ \A s : Names(list, cur, s) => Names(list', cur, s)
        <3>1. CASE Fetched(t)
            BY <3>1, FetchedSongs
        <3>2. CASE ~Fetched(t)
            <4>1. UNCHANGED <<list, lost>>
                BY <1>2, <3>2 DEF Find, FetchFails, SetSwitching, ClearSwitching, Navigate, More, NoPage,
                    PageDone, Pend, Post, CallNavigate, PlayAsync, Search, MusicFails, Wake, Take, Decide,
                    shared, playlist, history, TypeOK
            <4> QED
                BY <4>1
        <3> QED
            BY <3>1, <3>2
    <2> QED
        BY <2>1, <2>2, <2>3, <2>4, <2>5, PlayKeeps
<1>3. ASSUME NEW t \in All, Add(t) PROVE PlayInv'
    <2>1. pc[t] = "add" /\ Others(t) /\ UNCHANGED <<cur, track>> /\ local[t].then # "idle"
        BY <1>3, AddMoves DEF PlayInv
    <2>2. local[t].then \in {"mark", "push_mark", "page"}
        BY <2>1, FieldTypes DEF TypeOK
    <2>3. /\ pc'[t] \in {local[t].then, "snap"}
          /\ local'[t].then = local[t].then /\ local'[t].song = local[t].song
          /\ ~lost' => ~lost /\ \/ local[t].then # "page"
                                \/ \A s : Names(list, cur, s) => Names(list', cur, s)
        BY <1>3, <2>1, AddMoves
    <2>4. Playing(t) <=> local[t].then # "page"
        BY <2>1, <2>2 DEF Playing
    <2>5. Playing(t)' <=> Playing(t)
        BY <2>1, <2>2, <2>3 DEF Playing
    <2>6. Handed(t)' <=> Handed(t)
        BY <2>1, <2>2, <2>3 DEF Handed
    <2>7. pc[t] # "push" /\ pc'[t] \notin {"push", "idle", "add"}
        BY <2>1, <2>2, <2>3
    <2> QED
        BY <2>1, <2>3, <2>4, <2>5, <2>6, <2>7, PlayKeeps
<1>4. ASSUME NEW t \in All, AddFails(t) PROVE PlayInv'
    <2>1. /\ pc[t] = "add" /\ Others(t) /\ UNCHANGED <<cur, track>>
          /\ pc'[t] \in {"idle", "push", "page"} /\ (pc'[t] = "page" \/ lost')
          /\ pc'[t] = "idle" => local'[t].then = "idle"
          /\ lost => lost'
          /\ ~lost' => local[t].then = "page" /\ \A s : Names(list, cur, s) => Names(list', cur, s)
        BY <1>4, AddFailsMoves
    <2>2. CASE lost'
        <3>1. \A u \in All : /\ pc'[u] = "add" => local'[u].then # "idle"
                             /\ pc'[u] = "idle" => local'[u].then = "idle"
            BY <2>1 DEF PlayInv, Others
        <3> QED
            BY <2>2, <3>1 DEF PlayInv
    <2>3. CASE ~lost'
        <3>1. pc'[t] = "page" /\ local[t].then = "page"
            BY <2>1, <2>3
        <3>2. ~Playing(t) /\ ~Playing(t)' /\ ~Handed(t) /\ ~Handed(t)'
            BY <2>1, <3>1 DEF Playing, Handed
        <3> QED
            BY <2>1, <2>3, <3>1, <3>2, PlayKeeps
    <2> QED
        BY <2>2, <2>3
<1>5. ASSUME NEW t \in All, Snap(t) \/ Write(t) \/ SaveFails(t) PROVE PlayInv'
    <2>1. PICK r \in Locals : r = local[t]
        BY DEF TypeOK
    <2>2. PICK x, l, q :
            /\ x \in Seq(Items) /\ l \in {"write", r.then}
            /\ q = [r EXCEPT !.snap = x] /\ Enter(t, l, q)
        <3>1. <<>> \in Seq(Items) /\ list \in Seq(Items)
            BY EmptySeq DEF TypeOK
        <3> QED
            BY <1>5, <2>1, <3>1 DEF Snap, Write, SaveFails
    <2>3. q.then = r.then /\ q.song = r.song
        BY <2>2, SetSnap
    <2>4. Moves(t, l, q)
        BY <2>2 DEF Enter, Moves
    <2>5. /\ Others(t) /\ pc'[t] = l /\ (l # "idle" => local'[t] = q)
          /\ l = "idle" => local'[t] = NoLocals
        BY <2>4, MoveLeavesOthers
    <2>6. UNCHANGED <<list, cur, track, lost>> /\ pc[t] \in {"snap", "write"}
        BY <1>5 DEF Snap, Write, SaveFails, shared, playlist, music, history
    <2>7. r.then \in {"idle", "mark", "push_mark", "page"}
        BY FieldTypes
    <2>8. (local'[t].then = r.then \/ l = "idle") /\ l \in {"write", r.then}
        BY <2>2, <2>3, <2>5
    <2>9. Playing(t) <=> r.then \in {"mark", "push_mark"}
        BY <2>1, <2>6 DEF Playing
    <2>10. Playing(t)' <=> Playing(t)
        BY <2>5, <2>7, <2>8, <2>9 DEF Playing
    <2>11. Handed(t)' <=> Handed(t)
        BY <2>1, <2>5, <2>6, <2>7, <2>8 DEF Handed
    <2>12. pc[t] # "push" /\ pc'[t] \notin {"push", "add"}
        BY <2>5, <2>6, <2>7, <2>8
    <2>13. /\ pc'[t] = "idle" => local'[t].then = "idle"
           /\ Playing(t) => local'[t].song = local[t].song
        BY <2>1, <2>3, <2>5, <2>8, <2>9, NoLocalsFit
    <2> QED
        BY <2>5, <2>6, <2>10, <2>11, <2>12, <2>13, PlayKeeps
<1>6. ASSUME NEW t \in All, RemoveItem(t) \/ Clear(t) PROVE PlayInv'
    <2>1. /\ pc[t] = "idle" /\ pc'[t] = "snap" /\ Others(t) /\ UNCHANGED <<track, lost>>
          /\ local'[t].then = local[t].then
          /\ cur' # NoId => cur # NoId /\ \A s : Names(list, cur, s) => Names(list', cur', s)
        BY <1>6, DropMoves
    <2>2. local[t].then = "idle"
        BY <2>1 DEF PlayInv
    <2>3. ~Playing(t) /\ ~Playing(t)' /\ ~Handed(t) /\ ~Handed(t)'
        BY <2>1, <2>2 DEF Playing, Handed
    <2> QED
        BY <2>1, <2>3, PlayKeeps
<1>7. ASSUME NEW t \in All, Push(t) PROVE PlayInv'
    <2>1. PICK s, p, q :
            /\ s \in Songs
            /\ p = [NoLocals EXCEPT !.song = s] /\ q = [p EXCEPT !.then = "push_mark"]
            /\ Enter(t, "add", q)
        BY <1>7 DEF Push
    <2>2. p \in Locals
        BY <2>1, SetSong, NoLocalsFit
    <2>3. q = [p EXCEPT !.then = "push_mark"]
        BY <2>1
    <2>4. q.then = "push_mark"
        BY <2>2, <2>3, SetThen
    <2>5. Moves(t, "add", q)
        BY <2>1 DEF Enter, Moves
    <2>6. Others(t) /\ pc'[t] = "add" /\ local'[t] = q
        BY <2>5, MoveLeavesOthers
    <2>7. pc[t] = "idle"
        BY <1>7 DEF Push, Begin
    <2>8. ~Playing(t) /\ Playing(t)' /\ ~Handed(t)'
        BY <2>4, <2>6, <2>7 DEF Playing, Handed
    <2> QED
        BY <2>4, <2>6, <2>8, PlayBegins
<1>8. ASSUME NEW t \in All, Page(t) PROVE PlayInv'
    <2>1. PICK r \in Locals : r = local[t]
        BY DEF TypeOK
    <2>2. PICK s, p, q :
            /\ s \in Songs
            /\ p = [r EXCEPT !.song = s] /\ q = [p EXCEPT !.then = "page"]
            /\ Enter(t, "add", q)
        BY <1>8, <2>1 DEF Page
    <2>3. p \in Locals
        BY <2>2, SetSong
    <2>4. q = [p EXCEPT !.then = "page"]
        BY <2>2
    <2>5. q.then = "page"
        BY <2>3, <2>4, SetThen
    <2>6. Moves(t, "add", q)
        BY <2>2 DEF Enter, Moves
    <2>7. Others(t) /\ pc'[t] = "add" /\ local'[t] = q
        BY <2>6, MoveLeavesOthers
    <2>8. pc[t] = "request" /\ UNCHANGED <<list, cur, track, lost>>
        BY <1>8 DEF Page, shared, playlist, music, history
    <2>9. ~Playing(t) /\ ~Playing(t)' /\ ~Handed(t) /\ ~Handed(t)'
        BY <2>5, <2>7, <2>8 DEF Playing, Handed
    <2> QED
        BY <2>5, <2>7, <2>8, <2>9, PlayKeeps
<1>9. ASSUME NEW t \in All, Music(t) PROVE PlayInv'
    <2>1. PICK r, l :
            /\ r \in Locals
            /\ r = local[t] /\ l = (IF pc[t] = "music" THEN "name" ELSE "idle")
            /\ Moves(t, l, r)
        BY <1>9 DEF Music, Goto, Enter, Moves, TypeOK
    <2>2. /\ Others(t) /\ pc'[t] = l /\ (l # "idle" => local'[t] = r)
          /\ l = "idle" => local'[t] = NoLocals
        BY <2>1, MoveLeavesOthers
    <2>3. /\ UNCHANGED <<list, cur>> /\ track' = r.song /\ pc[t] \in {"music", "push"}
          /\ lost' = (lost \/ InPlay \ {t} # {})
        BY <1>9, <2>1 DEF Music, shared, playlist
    <2>4. CASE pc[t] = "music"
        <3>1. ~Playing(t) /\ Playing(t)' /\ pc'[t] = "name" /\ local'[t] = r
            BY <2>1, <2>2, <2>4 DEF Playing
        <3> QED
            BY <2>2, <2>3, <3>1, PlayBegins
    <2>5. CASE pc[t] = "push"
        <3>1. Playing(t) /\ pc'[t] = "idle" /\ local'[t].then = "idle"
            BY <2>1, <2>2, <2>5, NoLocalsFit DEF Playing
        <3>2. ~Playing(t)' /\ ~Handed(t)'
            BY <3>1 DEF Playing, Handed
        <3>3. ASSUME ~lost' PROVE InPlay = {t} /\ (cur' # NoId => Names(list', cur', r.song))
            <4>1. InPlay = {t} /\ ~lost
                BY <2>3, <2>5, <3>3 DEF InPlay
            <4> QED
                BY <2>1, <2>3, <2>5, <4>1 DEF PlayInv
        <3> QED
            BY <2>1, <2>2, <2>3, <3>1, <3>2, <3>3, PlayEnds
    <2> QED
        BY <2>3, <2>4, <2>5
<1>10. ASSUME NEW t \in All,
              \/ Several(t) \/ Unplayed(t) \/ Refused(t) \/ Nameless(t)
              \/ MusicFails(t) /\ pc[t] # "music"
       PROVE  PlayInv'
    <2>1. PICK l \in {"idle", "name", "push"} : Moves(t, l, local[t]) /\ lost'
        BY <1>10 DEF Several, Unplayed, Refused, Nameless, MusicFails, Goto, Enter, Moves
    <2>2. Others(t) /\ pc'[t] = l /\ (l = "idle" => local'[t] = NoLocals)
        BY <2>1, MoveLeavesOthers
    <2>3. \A u \in All : /\ pc'[u] = "add" => local'[u].then # "idle"
                         /\ pc'[u] = "idle" => local'[u].then = "idle"
        BY <2>1, <2>2, NoLocalsFit DEF PlayInv, Others
    <2> QED
        BY <2>1, <2>3 DEF PlayInv
<1>11. ASSUME NEW t \in All, Name(t) PROVE PlayInv'
    <2>1. PICK r \in Locals : r = local[t]
        BY DEF TypeOK
    <2>2. PICK q : q = [r EXCEPT !.then = "mark"] /\ Enter(t, "add", q)
        BY <1>11, <2>1 DEF Name
    <2>3. q.then = "mark" /\ q.song = r.song
        BY <2>2, SetThen
    <2>4. Moves(t, "add", q)
        BY <2>2 DEF Enter, Moves
    <2>5. Others(t) /\ pc'[t] = "add" /\ local'[t] = q
        BY <2>4, MoveLeavesOthers
    <2>6. pc[t] = "name" /\ UNCHANGED <<track, lost>>
        BY <1>11 DEF Name, music, history
    <2>7. Playing(t) /\ Playing(t)' /\ Handed(t) /\ Handed(t)'
        BY <2>3, <2>5, <2>6 DEF Playing, Handed
    <2> QED
        BY <2>1, <2>3, <2>5, <2>6, <2>7, PlayKeeps
<1>12. ASSUME NEW t \in All, Mark(t) PROVE PlayInv'
    <2>1. PICK r, l :
            /\ r \in Locals
            /\ r = local[t] /\ l = (IF pc[t] = "mark" THEN "idle" ELSE "push")
            /\ Moves(t, l, r)
        BY <1>12 DEF Mark, Goto, Enter, Moves, TypeOK
    <2>2. /\ Others(t) /\ pc'[t] = l /\ (l # "idle" => local'[t] = r)
          /\ l = "idle" => local'[t] = NoLocals
        BY <2>1, MoveLeavesOthers
    <2>3. /\ UNCHANGED <<list, track>> /\ cur' = r.id /\ pc[t] \in {"mark", "push_mark"}
          /\ lost' = (lost \/ InPlay \ {t} # {} \/ ~Names(list, r.id, r.song))
        BY <1>12, <2>1 DEF Mark, music
    <2>4. Playing(t) /\ ~Handed(t)' /\ pc'[t] # "add"
        BY <2>1, <2>2, <2>3 DEF Playing, Handed
    <2>5. ASSUME ~lost'
          PROVE  InPlay = {t} /\ Names(list', cur', r.song) /\ (~Playing(t)' => track' = r.song)
        <3>1. t \in InPlay /\ ~lost
            BY <2>3, <2>5 DEF InPlay
        <3>2. InPlay = {t} /\ Names(list', cur', r.song)
            BY <2>3, <2>5, <3>1
        <3>3. ASSUME ~Playing(t)' PROVE track' = r.song
            <4>1. pc[t] = "mark"
                BY <2>1, <2>2, <2>3, <3>3 DEF Playing
            <4>2. Handed(t)
                BY <4>1 DEF Handed
            <4> QED
                BY <2>1, <2>3, <3>1, <3>2, <4>2 DEF PlayInv
        <3> QED
            BY <3>2, <3>3
    <2>6. /\ pc'[t] = "idle" => local'[t].then = "idle"
          /\ Playing(t)' => pc'[t] = "push" /\ local'[t].song = local[t].song
        BY <2>1, <2>2, NoLocalsFit DEF Playing
    <2> QED
        BY <2>1, <2>2, <2>4, <2>5, <2>6, PlayEnds
<1>13. ASSUME NEW t \in All, Step(t) PROVE PlayInv'
    BY <1>2, <1>3, <1>4, <1>5, <1>8, <1>9, <1>10, <1>11, <1>12, <1>13 DEF Step
<1>14. ASSUME NEW t \in All, Call(t) PROVE PlayInv'
    <2>1. CASE SetAuto(t) \/ StopMusic(t)
        BY <2>1, PlayUnchanged DEF SetAuto, StopMusic, shared, playlist, music, history
    <2> QED
        BY <1>2, <1>6, <1>7, <1>14, <2>1 DEF Call
<1>15. CASE WorkerStep
    BY <1>1, <1>2, <1>13, <1>15 DEF WorkerStep
<1>16. CASE Task \/ SongEnds \/ UNCHANGED vars
    <2>1. UNCHANGED <<list, cur, pc, local, lost>> /\ (track' = track \/ rest > 0)
        BY <1>16 DEF Task, TaskStart, OnPlaying, OnStopped, OnStoppedPost, SongEnds, vars,
            shared, playlist, music, history
    <2>2. CASE track' = track
        BY <2>1, <2>2, PlayUnchanged
    <2>3. CASE rest > 0
        BY <2>1, <2>3 DEF RestLost, PlayInv
    <2> QED
        BY <2>1, <2>2, <2>3
<1>17. CASE Reboot
    <2>1. cur' = NoId /\ pc' = [t \in All |-> "idle"] /\ local' = [t \in All |-> NoLocals]
        BY <1>17 DEF Reboot
    <2>2. \A t \in All : pc'[t] = "idle" /\ local'[t].then = "idle"
        BY <2>1, NoLocalsFit
    <2>3. InPlay' = {}
        BY <2>2 DEF InPlay
    <2> QED
        BY <2>1, <2>2, <2>3 DEF PlayInv
<1> QED
    BY <1>1, <1>13, <1>14, <1>15, <1>16, <1>17 DEF Next

\* When no call is in progress s_current_play_id names the song last handed to the player,
\* unless the model says that it is lost, whatever the threads, their calls and the songs:
\* MUSIC_PLAYER_DATA puts back a song that was removed while its URL was fetched
\* (wukong_playback_playlist_play, __music_player_event_cb).
THEOREM CurrentSongIsNamed == Spec => []CurrentIsPlayed
<1>1. Init => PlayInv
    <2> SUFFICES ASSUME Init PROVE PlayInv
        OBVIOUS
    <2>1. cur = NoId /\ \A t \in All : pc[t] = "idle" /\ local[t].then = "idle"
        BY NoLocalsFit DEF Init
    <2>2. InPlay = {}
        BY <2>1 DEF InPlay
    <2> QED
        BY <2>1, <2>2 DEF PlayInv
<1>2. PlayInv => CurrentIsPlayed
    BY DEF PlayInv, CurrentIsPlayed, Quiet, InPlay
<1>3. Init => RestLost
    BY DEF Init, RestLost
<1> QED
    BY <1>1, <1>2, <1>3, PlayStep, RestStep, TypeCorrect, PTL DEF Spec
=============================================================================
