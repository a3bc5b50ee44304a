------------------------------ MODULE Playback ------------------------------
(***************************************************************************)
(* The playback control (wukong_playback_ctrl.c): the local playlist, the  *)
(* song that plays, the worker that plays the next one, and the file the   *)
(* playlist is kept in.  The user interface, the MCP tools and the skills  *)
(* call it from their threads; the player task calls it with events.  The  *)
(* list has a mutex, so each part between a lock and an unlock is one step *)
(* here; a song is found, its URL fetched, and the song started in three   *)
(* steps between which everything may change.                              *)
(*                                                                         *)
(* Two neighbours are used as their own modules show them to behave: a     *)
(* request to the cloud is answered or fails (Pending, CallsReturn), and   *)
(* wukong_audio_play_music stops what plays and queues a START (AiPlayer;  *)
(* here one step).  The player keeps a list of its own, in which only a    *)
(* push of several songs leaves more than one.  A song's URL and audio id  *)
(* are named by the song.                                                  *)
(***************************************************************************)
EXTENDS Integers, Sequences, SequencesExt

CONSTANTS
    Worker,        \* the thread pb_auto_next
    Threads,       \* the threads that call the playback control
    CallsOf,       \* what each thread may call
    Songs,         \* what the cloud can send
    None,          \* an empty string
    PlaylistMax,   \* s_playlist_max_num
    MaxRest,       \* bound: songs of a push after the first
    Stored,        \* the contents the file may have at the first start
    MaxInputs      \* bound: calls, pages that have a next one, power cuts, failures of
                   \* the file and of memory

ASSUME PlaylistAssumption == PlaylistMax \in Nat \ {0}
ASSUME WorkerAssumption == Worker \notin Threads
ASSUME NoneNotSong == None \notin Songs
ASSUME InputsAssumption == MaxInputs \in Nat /\ MaxRest \in Nat

NoId == -1      \* no item
Freed == -2     \* an item that is no longer in the list
Ids == 0..(PlaylistMax - 1)
Items == [id : Ids, url : Songs \cup {None}, aid : Songs \cup {None}]
All == Threads \cup {Worker}
PlayerQueue == 2   \* commands the player takes

\* The file is empty, or one this program has written: it fits, and has no id twice
ASSUME StoredAssumption == \A s \in Stored :
    /\ s \in Seq(Items) /\ Len(s) <= PlaylistMax
    /\ \A i, k \in DOMAIN s : s[i].id = s[k].id => i = k

VARIABLES
    list,       \* s_playlist
    cur,        \* s_current_play_id
    auto,       \* s_auto_play_next
    switching,  \* s_switching_track
    sem,        \* the token of s_auto_next_sem, of which there is at most one
    user_next,  \* s_user_next_pending
    user_play,  \* s_user_play_id
    more,       \* s_search_ctx: valid and has_more
    stored,     \* the playlist file; an empty or torn file loads as <<>>
    player,     \* the state of the music player
    starts,     \* how many STARTs wait for the player task
    rest,       \* how many songs the player's own list has after the one it plays
    event,      \* the event the player task is delivering, or "none"
    track,      \* the song last handed to the player, or None
    pc,         \* where each thread is
    local,      \* its local variables
    inputs,     \* inputs left
    lost,       \* history: cur may name another song than the one that plays
    torn        \* history: the file may hold other songs than the list

playlist == <<list, cur>>
flags == <<auto, switching>>
requests == <<sem, user_next, user_play>>
shared == <<playlist, flags, requests, more>>
music == <<player, starts, rest, event, track>>
history == <<lost, torn>>
vars == <<shared, stored, music, pc, local, inputs, history>>

Locals == [
    back : {"idle", "pend", "more", "finish"},      \* where to go on if a call fails
    then : {"idle", "mark", "push_mark", "page"},   \* where to go on after playlist_add
    id : Ids \cup {NoId},                           \* a playlist id
    song : Songs \cup {None},                       \* a song
    found : Ids \cup {NoId, Freed},                 \* the item pointed to
    snap : Seq(Items)]                              \* a copy of the list for the file

\* A thread that is in no call has none
NoLocals == [back |-> "idle", then |-> "idle", id |-> NoId, song |-> None, found |-> NoId,
             snap |-> <<>>]

-----------------------------------------------------------------------------
(* The list. *)

IdsIn(l) == {l[i].id : i \in DOMAIN l}

\* __playback_playlist_has_url_locked, __playback_playlist_has_audio_id_locked
Same(l, url, aid) ==
    IF url # None THEN {i \in DOMAIN l : l[i].url = url} ELSE {i \in DOMAIN l : l[i].aid = aid}

First(S) == CHOOSE i \in S : \A j \in S : i <= j

\* Mutant: the number of items is the new id
NewIdCounts(l) == Len(l)

\* __playback_playlist_alloc_id_locked
NewId(l) == First(Ids \ IdsIn(l))

\* __playback_playlist_fifo_evict_locked, if the list is full
Evict(l) == IF Len(l) >= PlaylistMax THEN Tail(l) ELSE l

\* The item wukong_playback_playlist_add makes
NewItem(l, url, aid) == [id |-> NewId(Evict(l)), url |-> url, aid |-> aid]

SongOf(x) == IF x.url # None THEN x.url ELSE x.aid
Names(l, i, s) == \E k \in DOMAIN l : l[k].id = i /\ SongOf(l[k]) = s

\* __playback_apply_loaded_json_array_locked: the stored ids are kept
LoadItem(l, x) == IF Same(l, x.url, x.aid) # {} THEN l ELSE Append(l, x)
Load(s) ==
    LET loaded[n \in 0..Len(s)] == IF n = 0 THEN <<>> ELSE LoadItem(loaded[n - 1], s[n])
    IN  loaded[Len(s)]

\* wukong_playback_ctrl_init
Init ==
    /\ stored \in Stored
    /\ list = Load(stored)
    /\ inputs = MaxInputs
    /\ cur = NoId /\ auto = TRUE /\ switching = FALSE
    /\ sem = 0 /\ user_next = FALSE /\ user_play = NoId /\ more = FALSE
    /\ player = "STOPPED" /\ starts = 0 /\ rest = 0 /\ event = "none" /\ track = None
    /\ pc = [t \in All |-> "idle"]
    /\ local = [t \in All |-> NoLocals]
    /\ lost = FALSE /\ torn = FALSE

-----------------------------------------------------------------------------
(* Parts that the threads share. *)

\* Thread t goes on at l with local variables r, which end with its call
Enter(t, l, r) ==
    /\ pc' = [pc EXCEPT ![t] = l]
    /\ local' = [local EXCEPT ![t] = IF l = "idle" THEN NoLocals ELSE r]

Goto(t, l) == Enter(t, l, local[t])

\* Threads between handing a song to the player and naming it in cur, or the reverse
InPlay == {t \in All : \/ pc[t] \in {"name", "mark", "push_mark", "push"}
                       \/ /\ pc[t] \in {"add", "snap", "write"}
                          /\ local[t].then \in {"mark", "push_mark"}}

\* wukong_playback_playlist_add of something the list has
AddKnown(t, url, aid) ==
    /\ Same(list, url, aid) # {}
    /\ Enter(t, local[t].then, [local[t] EXCEPT !.id = list[First(Same(list, url, aid))].id])
    /\ UNCHANGED <<list, lost>>

\* wukong_playback_playlist_add; the new item may get the memory of a freed one, to which
\* a thread still points
AddNew(t, url, aid) ==
    LET x == NewItem(list, url, aid)
        gone == IdsIn(list) \ IdsIn(Evict(list))
        freed == {u \in All : local[u].found \in gone \cup {Freed}}
    IN  /\ Same(list, url, aid) = {}
        /\ list' = Append(Evict(list), x)
        /\ \E reused \in SUBSET freed :
            local' = [u \in All |->
                IF u = t THEN [local[t] EXCEPT !.id = x.id]
                ELSE IF u \in reused THEN [local[u] EXCEPT !.found = x.id]
                ELSE IF u \in freed THEN [local[u] EXCEPT !.found = Freed] ELSE local[u]]
        /\ pc' = [pc EXCEPT ![t] = "snap"]
        /\ lost' = (lost \/ (cur \in gone /\ local[t].then = "page"))

\* A song of MUSIC_PLAYER_DATA has a URL and no audio id; one of a search result has
\* an audio id and perhaps a URL
Add(t) == LET s == local[t].song IN
    /\ pc[t] = "add"
    /\ \/ /\ local[t].then # "page"
          /\ AddKnown(t, s, None) \/ AddNew(t, s, None)
       \/ /\ local[t].then = "page"
          /\ \E url \in {s, None} : AddKnown(t, url, s) \/ AddNew(t, url, s)
    /\ UNCHANGED <<cur, flags, requests, more, stored, music, inputs, torn>>

\* wukong_playback_playlist_add has no memory for the item: what was evicted for it is gone,
\* and not saved.  A page of one song then has nothing to play (NoId).
AddFails(t) ==
    LET s == local[t].song
        gone == IdsIn(list) \ IdsIn(Evict(list))
        after == IF local[t].then = "mark" THEN "idle"
                 ELSE IF local[t].then = "push_mark" THEN "push" ELSE "page"
    IN  /\ pc[t] = "add" /\ inputs > 0
        /\ \E url \in {s, IF local[t].then = "page" THEN None ELSE s} : Same(list, url, s) = {}
        /\ inputs' = inputs - 1
        /\ list' = Evict(list)
        /\ pc' = [pc EXCEPT ![t] = after]
        /\ local' = [u \in All |->
               IF u = t THEN (IF after = "idle" THEN NoLocals ELSE [local[t] EXCEPT !.id = NoId])
               ELSE IF local[u].found \in gone THEN [local[u] EXCEPT !.found = Freed]
               ELSE local[u]]
        /\ lost' = (lost \/ local[t].then # "page" \/ cur \in gone)
        /\ torn' = (torn \/ gone # {})
        /\ UNCHANGED <<cur, flags, requests, more, stored, music>>

\* wukong_playback_playlist_add refuses a pushed song that has no name; it is played
\* all the same
Nameless(t) ==
    /\ pc[t] = "add" /\ local[t].then = "push_mark"
    /\ lost' = TRUE
    /\ Goto(t, "push")
    /\ UNCHANGED <<shared, stored, music, inputs, torn>>

\* __playback_persist_and_notify copies the list; __desktop_playlist_save opens the file,
\* which empties it
Snap(t) ==
    /\ pc[t] = "snap"
    /\ stored' = <<>>
    /\ torn' = (torn \/ \E u \in All \ {t} : pc[u] = "write")
    /\ Enter(t, "write", [local[t] EXCEPT !.snap = list])
    /\ UNCHANGED <<shared, music, inputs, lost>>

Write(t) ==
    /\ pc[t] = "write"
    /\ stored' = local[t].snap
    /\ Enter(t, local[t].then, [local[t] EXCEPT !.snap = <<>>])
    /\ UNCHANGED <<shared, music, inputs, history>>

\* The file cannot be opened, or not written: logged, and forgotten
SaveFails(t) ==
    /\ pc[t] \in {"snap", "write"} /\ inputs > 0
    /\ inputs' = inputs - 1
    /\ torn' = TRUE
    /\ Enter(t, local[t].then, [local[t] EXCEPT !.snap = <<>>])
    /\ UNCHANGED <<shared, stored, music, lost>>

-----------------------------------------------------------------------------
(* wukong_playback_playlist_play. *)

\* The item is looked up and copied
Find(t) ==
    /\ pc[t] = "play"
    /\ \/ \E i \in DOMAIN list :
            /\ list[i].id = local[t].id
            /\ LET r == [local[t] EXCEPT !.song = SongOf(list[i])] IN
                IF list[i].url # None THEN Enter(t, "start", r)
                ELSE Enter(t, "fetch", [r EXCEPT !.found = local[t].id])
       \/ local[t].id \notin IdsIn(list) /\ Goto(t, local[t].back)
    /\ UNCHANGED <<shared, stored, music, inputs, history>>

\* __playback_fetch_play_url_mqtt returns the URL, which goes where `found` points: to the
\* item, to free memory, or into another item
Fetched(t) ==
    LET r == local[t]
        other == r.found \in IdsIn(list) /\ ~Names(list, r.found, r.song)
    IN
    /\ pc[t] = "fetch"
    /\ list' = [i \in DOMAIN list |->
                  IF list[i].id = r.found THEN [list[i] EXCEPT !.url = r.song] ELSE list[i]]
    /\ lost' = (lost \/ other)
    /\ torn' = (torn \/ other)
    /\ Enter(t, "start", [r EXCEPT !.found = NoId])
    /\ UNCHANGED <<cur, flags, requests, more, stored, music, inputs>>

FetchFails(t) ==
    /\ pc[t] = "fetch"
    /\ Enter(t, local[t].back, [local[t] EXCEPT !.found = NoId])
    /\ UNCHANGED <<shared, stored, music, inputs, history>>

SetSwitching(t) ==
    /\ pc[t] \in {"start", "switch"}
    /\ switching' = TRUE
    /\ Goto(t, IF pc[t] = "start" THEN "music" ELSE "next")
    /\ UNCHANGED <<playlist, auto, requests, more, stored, music, inputs, history>>

\* Mutant: the stop waits for its event also if nothing plays
SilenceWaits ==
    /\ event = "none" /\ starts = 0 /\ player = "PLAYING"
    /\ player' = "STOPPED"
    /\ event' = "STOPPED"

\* tuya_ai_player_stop: in STOPPED it returns at once, also if a START is in the queue;
\* otherwise it waits until the player task has come to its STOP
Silence ==
    \/ player = "STOPPED" /\ UNCHANGED <<player, event>>
    \/ /\ event = "none" /\ starts = 0 /\ player = "PLAYING"
       /\ player' = "STOPPED"
       /\ event' = "STOPPED"

\* wukong_audio_play_music of one song, also one that the cloud has pushed
Music(t) ==
    /\ pc[t] \in {"music", "push"}
    /\ Silence
    /\ starts < PlayerQueue
    /\ starts' = starts + 1
    /\ rest' = 0
    /\ track' = local[t].song
    /\ lost' = (lost \/ InPlay \ {t} # {})
    /\ Goto(t, IF pc[t] = "music" THEN "name" ELSE "idle")
    /\ UNCHANGED <<shared, stored, inputs, torn>>

\* A push of several songs starts the first; the last is the one that was named
Several(t) ==
    /\ pc[t] = "push"
    /\ Silence
    /\ starts < PlayerQueue
    /\ starts' = starts + 1
    /\ rest' \in 1..MaxRest
    /\ track' \in Songs
    /\ lost' = TRUE
    /\ Goto(t, "idle")
    /\ UNCHANGED <<shared, stored, inputs, torn>>

\* A push with songs whose action plays none of them
Unplayed(t) ==
    /\ pc[t] = "push"
    /\ lost' = TRUE
    /\ Goto(t, "idle")
    /\ UNCHANGED <<shared, stored, music, inputs, torn>>

\* The queue, which the tone player shares, is full for the STOP or for the START:
\* tuya_ai_playlist_clear and tuya_ai_playlist_add go on as if nothing were
Refused(t) ==
    /\ pc[t] \in {"music", "push"}
    /\ \/ starts = PlayerQueue /\ UNCHANGED inputs
       \/ inputs > 0 /\ inputs' = inputs - 1
    /\ Silence \/ UNCHANGED <<player, event>>
    /\ rest' \in 0..(IF pc[t] = "push" THEN MaxRest ELSE 0)
    /\ lost' = TRUE
    /\ Goto(t, IF pc[t] = "music" THEN "name" ELSE "idle")
    /\ UNCHANGED <<shared, stored, starts, track, torn>>

\* wukong_audio_play_music: no memory for the item of the player's list
MusicFails(t) ==
    /\ pc[t] \in {"music", "push"} /\ inputs > 0
    /\ inputs' = inputs - 1
    /\ Silence
    /\ rest' = 0
    /\ lost' = (lost \/ pc[t] = "push")
    /\ Goto(t, IF pc[t] = "music" THEN "unswitch" ELSE "idle")
    /\ UNCHANGED <<shared, stored, starts, track, torn>>

ClearSwitching(t) ==
    /\ pc[t] \in {"unswitch", "finish"}
    /\ switching' = FALSE
    /\ Goto(t, IF pc[t] = "unswitch" THEN local[t].back ELSE "idle")
    /\ UNCHANGED <<playlist, auto, requests, more, stored, music, inputs, history>>

\* cur = id; then MUSIC_PLAYER_DATA, which comes back to __music_player_event_cb
Name(t) ==
    /\ pc[t] = "name"
    /\ cur' = local[t].id
    /\ Enter(t, "add", [local[t] EXCEPT !.then = "mark"])
    /\ UNCHANGED <<list, flags, requests, more, stored, music, inputs, history>>

\* Mutant: the song of MUSIC_PLAYER_DATA is current only if the cloud pushed it
MarkPushed(t) ==
    /\ pc[t] \in {"mark", "push_mark"}
    /\ cur' = IF pc[t] = "mark" THEN cur ELSE local[t].id
    /\ lost' = (lost \/ InPlay \ {t} # {} \/ ~Names(list, local[t].id, local[t].song))
    /\ Goto(t, IF pc[t] = "mark" THEN "idle" ELSE "push")
    /\ UNCHANGED <<list, flags, requests, more, stored, music, inputs, torn>>

\* __music_player_event_cb, MUSIC_PLAYER_DATA: cur is the id the song has in the list
Mark(t) ==
    /\ pc[t] \in {"mark", "push_mark"}
    /\ cur' = local[t].id
    /\ lost' = (lost \/ InPlay \ {t} # {} \/ ~Names(list, local[t].id, local[t].song))
    /\ Goto(t, IF pc[t] = "mark" THEN "idle" ELSE "push")
    /\ UNCHANGED <<list, flags, requests, more, stored, music, inputs, torn>>

-----------------------------------------------------------------------------
(* Next, previous, and more songs from the cloud. *)

\* __playback_playlist_navigate: the position to play
Neighbour(forward) ==
    LET step == IF forward THEN 1 ELSE -1
    IN  IF cur = NoId THEN {IF forward THEN 1 ELSE Len(list)} \cap DOMAIN list
        ELSE {i \in DOMAIN list : \E k \in DOMAIN list : list[k].id = cur /\ i = k + step}

Navigate(t) ==
    /\ pc[t] \in {"next", "prev"}
    /\ LET N == Neighbour(pc[t] = "next") IN
        \/ \E i \in N : Enter(t, "play", [local[t] EXCEPT !.id = list[i].id])
        \/ N = {} /\ Goto(t, local[t].back)
    /\ UNCHANGED <<shared, stored, music, inputs, history>>

\* wukong_playback_ctrl_fetch_more: is there a search to continue
More(t) == LET out == IF t = Worker THEN "finish" ELSE "idle" IN
    /\ pc[t] = "more"
    /\ Enter(t, IF more THEN "request" ELSE out, [local[t] EXCEPT !.back = out])
    /\ UNCHANGED <<shared, stored, music, inputs, history>>

\* wukong_playback_ctrl_send_music_list brings a page of one song
Page(t) ==
    /\ pc[t] = "request"
    /\ \E s \in Songs : Enter(t, "add", [local[t] EXCEPT !.song = s, !.then = "page"])
    /\ UNCHANGED <<shared, stored, music, inputs, history>>

\* It fails, or brings an empty page
NoPage(t) ==
    /\ pc[t] = "request"
    /\ more' \in {more, FALSE}
    /\ Goto(t, local[t].back)
    /\ UNCHANGED <<playlist, flags, requests, stored, music, inputs, history>>

\* has_more of the answer; the first song of the page is played
PageDone(t) ==
    /\ pc[t] = "page"
    /\ \/ more' = FALSE /\ UNCHANGED inputs
       \/ more' = TRUE /\ inputs > 0 /\ inputs' = inputs - 1
    /\ Enter(t, "play", [local[t] EXCEPT !.then = "idle", !.song = None])
    /\ UNCHANGED <<playlist, flags, requests, stored, music, history>>

-----------------------------------------------------------------------------
(* The worker. *)

Wake ==
    /\ pc[Worker] = "idle"
    /\ sem = 1
    /\ sem' = 0
    /\ Goto(Worker, "take")
    /\ UNCHANGED <<playlist, flags, user_next, user_play, more, stored, music, inputs, history>>

Take ==
    /\ pc[Worker] = "take"
    /\ user_next' = FALSE
    /\ user_play' = NoId
    /\ \/ /\ user_play # NoId
          /\ Enter(Worker, "play", [local[Worker] EXCEPT !.id = user_play])
       \/ /\ user_play = NoId
          /\ Enter(Worker, IF user_next THEN "switch" ELSE "decide",
                   [local[Worker] EXCEPT !.back = "more"])
    /\ UNCHANGED <<playlist, flags, sem, more, stored, music, inputs, history>>

\* After the settling time
Decide ==
    /\ pc[Worker] = "decide"
    /\ Goto(Worker, IF auto /\ cur # NoId THEN "switch" ELSE "idle")
    /\ UNCHANGED <<shared, stored, music, inputs, history>>

-----------------------------------------------------------------------------
(* The inputs of the other threads. *)

Begin(t, c) ==
    /\ pc[t] = "idle" /\ inputs > 0 /\ c \in CallsOf[t]
    /\ inputs' = inputs - 1

\* wukong_playback_ctrl_next of the UI, the MCP tool's next, wukong_playback_playlist_prev
CallNavigate(t) ==
    /\ \E c \in {"next", "tool_next", "prev"} :
        /\ Begin(t, c)
        /\ Enter(t, IF c = "prev" THEN "prev" ELSE "next", [NoLocals EXCEPT !.back =
               IF c = "next" THEN "pend" ELSE IF c = "tool_next" THEN "more" ELSE "idle"])
    /\ UNCHANGED <<shared, stored, music, history>>

\* wukong_playback_ctrl_next: nothing left in the list
Pend(t) ==
    /\ pc[t] = "pend"
    /\ user_next' = TRUE
    /\ Enter(t, "post", NoLocals)
    /\ UNCHANGED <<playlist, flags, sem, user_play, more, stored, music, inputs, history>>

\* wukong_playback_playlist_play_async
PlayAsync(t) ==
    /\ Begin(t, "play_async")
    /\ \E i \in IdsIn(list) : user_play' = i
    /\ Goto(t, "post")
    /\ UNCHANGED <<playlist, flags, sem, user_next, more, stored, music, history>>

\* Mutant: a worker that is busy is not woken
PostIfIdle(t) ==
    /\ pc[t] = "post"
    /\ sem' = IF pc[Worker] = "idle" THEN 1 ELSE sem
    /\ Goto(t, "idle")
    /\ UNCHANGED <<playlist, flags, user_next, user_play, more, stored, music, inputs, history>>

Post(t) ==
    /\ pc[t] = "post"
    /\ sem' = 1
    /\ Goto(t, "idle")
    /\ UNCHANGED <<playlist, flags, user_next, user_play, more, stored, music, inputs, history>>

\* Mutant: the list is not saved after a removal
DropUnsaved(t, l, S) ==
    /\ list' = l
    /\ cur' = IF cur \in S THEN NoId ELSE cur
    /\ local' = [u \in All |->
                   IF local[u].found \in S THEN [local[u] EXCEPT !.found = Freed] ELSE local[u]]
    /\ UNCHANGED <<flags, requests, more, stored, music, pc, history>>

\* The items with the ids S leave the list, which is then l, for good: a thread may still
\* point to one
Drop(t, l, S) ==
    /\ list' = l
    /\ cur' = IF cur \in S THEN NoId ELSE cur
    /\ local' = [u \in All |->
                   IF local[u].found \in S THEN [local[u] EXCEPT !.found = Freed] ELSE local[u]]
    /\ pc' = [pc EXCEPT ![t] = "snap"]
    /\ UNCHANGED <<flags, requests, more, stored, music, history>>

\* wukong_playback_playlist_remove
RemoveItem(t) ==
    /\ Begin(t, "remove")
    /\ \E i \in DOMAIN list : Drop(t, RemoveAt(list, i), {list[i].id})

\* wukong_playback_playlist_clear
Clear(t) ==
    /\ Begin(t, "clear")
    /\ Drop(t, <<>>, Ids)

\* The MCP tool music_search
Search(t) ==
    /\ Begin(t, "search")
    /\ Goto(t, "request")
    /\ UNCHANGED <<shared, stored, music, history>>

\* Songs from the cloud: MUSIC_PLAYER_DATA with the last of them, then
\* wukong_ai_play_music
Push(t) ==
    /\ Begin(t, "push")
    /\ \E s \in Songs : Enter(t, "add", [NoLocals EXCEPT !.song = s, !.then = "push_mark"])
    /\ UNCHANGED <<shared, stored, music, history>>

\* wukong_playback_ctrl_set_auto_next
SetAuto(t) ==
    /\ Begin(t, "set_auto")
    /\ auto' = ~auto
    /\ UNCHANGED <<playlist, switching, requests, more, stored, music, pc, local, history>>

\* wukong_audio_player_stop; the STOP may be refused
StopMusic(t) ==
    /\ Begin(t, "stop")
    /\ Silence \/ UNCHANGED <<player, event>>
    /\ rest' = 0
    /\ UNCHANGED <<shared, stored, starts, track, pc, local, history>>

Call(t) ==
    \/ CallNavigate(t) \/ PlayAsync(t) \/ RemoveItem(t) \/ Clear(t) \/ Search(t) \/ Push(t)
    \/ SetAuto(t) \/ StopMusic(t)

-----------------------------------------------------------------------------
(* The player task: __player_event and __music_player_event_cb. *)

\* A START opens the song, or fails to and reports STOPPED
TaskStart ==
    /\ event = "none" /\ starts > 0
    /\ starts' = starts - 1
    /\ player' \in {"PLAYING", "STOPPED"}
    /\ event' = player'
    /\ UNCHANGED <<shared, stored, rest, track, pc, local, inputs, history>>

SongEnds ==
    /\ event = "none" /\ starts = 0 /\ player = "PLAYING"
    /\ player' = "STOPPED"
    /\ event' = "STOPPED"
    /\ UNCHANGED <<shared, stored, starts, rest, track, pc, local, inputs, history>>

OnPlaying ==
    /\ event = "PLAYING"
    /\ event' = "none"
    /\ switching' = FALSE
    /\ UNCHANGED <<playlist, auto, requests, more, stored, player, starts, rest, track, pc,
                   local, inputs, history>>

\* __player_status_cb starts the next song of the player's list if there is one and the
\* queue has room
OnStopped ==
    /\ event = "STOPPED"
    /\ event' = IF auto /\ ~switching /\ cur # NoId THEN "post" ELSE "none"
    /\ \/ /\ rest > 0 /\ starts < PlayerQueue
          /\ starts' = starts + 1
          /\ rest' = rest - 1
          /\ track' \in Songs
       \/ UNCHANGED <<starts, rest, track>>
    /\ UNCHANGED <<shared, stored, player, pc, local, inputs, history>>

\* The semaphore is posted after the unlock
OnStoppedPost ==
    /\ event = "post"
    /\ event' = "none"
    /\ sem' = 1
    /\ UNCHANGED <<playlist, flags, user_next, user_play, more, stored, player, starts, rest,
                   track, pc, local, inputs, history>>

\* The power is cut, and the device starts again
Reboot ==
    /\ inputs > 0
    /\ inputs' = inputs - 1
    /\ list' = Load(stored)
    /\ cur' = NoId /\ auto' = TRUE /\ switching' = FALSE
    /\ sem' = 0 /\ user_next' = FALSE /\ user_play' = NoId /\ more' = FALSE
    /\ player' = "STOPPED" /\ starts' = 0 /\ rest' = 0 /\ event' = "none" /\ track' = None
    /\ pc' = [t \in All |-> "idle"]
    /\ local' = [t \in All |-> NoLocals]
    /\ lost' = FALSE /\ torn' = FALSE
    /\ UNCHANGED stored

Step(t) ==
    \/ Add(t) \/ AddFails(t) \/ Nameless(t) \/ Snap(t) \/ Write(t) \/ SaveFails(t)
    \/ Find(t) \/ Fetched(t) \/ FetchFails(t) \/ SetSwitching(t)
    \/ Music(t) \/ Several(t) \/ Unplayed(t) \/ Refused(t) \/ MusicFails(t) \/ ClearSwitching(t)
    \/ Name(t) \/ Mark(t)
    \/ Navigate(t) \/ More(t) \/ Page(t) \/ NoPage(t) \/ PageDone(t) \/ Pend(t) \/ Post(t)

WorkerStep == Wake \/ Take \/ Decide \/ Step(Worker)
Task == TaskStart \/ OnPlaying \/ OnStopped \/ OnStoppedPost

Next ==
    \/ WorkerStep \/ Task \/ SongEnds \/ Reboot
    \/ \E t \in Threads : Call(t) \/ Step(t)

\* Every thread and the player task are scheduled; a request is answered or times out.
\* No call has to be made, no song has to end, and the power need not be cut.
Fairness == WF_vars(WorkerStep) /\ WF_vars(Task) /\ \A t \in Threads : WF_vars(Step(t))

Spec == Init /\ [][Next]_vars /\ Fairness

-----------------------------------------------------------------------------
(* Properties. *)

Labels == {"idle", "add", "snap", "write", "play", "fetch", "start", "switch", "music",
           "push", "unswitch", "finish", "name", "mark", "push_mark", "next", "prev", "more",
           "request", "page", "take", "decide", "pend", "post"}

\* No two items have the same id, whatever is added, evicted, removed or loaded and by
\* whom (__playback_playlist_alloc_id_locked after the eviction, under one lock): an id a
\* row of the screen or cur holds names at most one song.
IdsUnique ==
    \A l \in {list, stored} \cup {local[t].snap : t \in All} :
        \A i, k \in DOMAIN l : l[i].id = l[k].id => i = k

\* Every variable of the playback control has its type; no list, in memory, in a
\* thread's copy or in the file, is longer than s_playlist_max_num or has an id twice.
TypeOK ==
    /\ list \in Seq(Items) /\ Len(list) <= PlaylistMax
    /\ cur \in Ids \cup {NoId} /\ auto \in BOOLEAN /\ switching \in BOOLEAN /\ sem \in {0, 1}
    /\ user_next \in BOOLEAN /\ user_play \in Ids \cup {NoId} /\ more \in BOOLEAN
    /\ stored \in Seq(Items) /\ Len(stored) <= PlaylistMax
    /\ player \in {"STOPPED", "PLAYING"} /\ starts \in 0..PlayerQueue /\ rest \in 0..MaxRest
    /\ event \in {"none", "PLAYING", "STOPPED", "post"} /\ track \in Songs \cup {None}
    /\ pc \in [All -> Labels]
    /\ local \in [All -> Locals] /\ \A t \in All : Len(local[t].snap) <= PlaylistMax
    /\ inputs \in 0..MaxInputs /\ lost \in BOOLEAN /\ torn \in BOOLEAN
    /\ IdsUnique

\* A next or a song the user asks the worker for is never left behind: as long as the
\* worker has not taken it there is a token, or the thread that asked is about to post
\* one, or the worker is about to look (wukong_playback_ctrl_next,
\* wukong_playback_playlist_play_async, __auto_next_thread_func).
NoLostRequest ==
    user_next \/ user_play # NoId =>
        \/ sem = 1
        \/ pc[Worker] = "take"
        \/ \E t \in All : pc[t] = "post"

Quiet == \A t \in All : pc[t] = "idle"

\* When no call is in progress, s_current_play_id names the song that was last handed to
\* the player, also if its item was removed, or its id given to another song, while its
\* URL was fetched: MUSIC_PLAYER_DATA puts the song back.  Not so (`lost`) once two threads
\* have played at the same time, the playing song was evicted or overwritten, the player
\* refused or failed, or the cloud pushed several songs, one without a name, or one that
\* its action does not play.
CurrentIsPlayed ==
    Quiet /\ ~lost /\ cur # NoId => Names(list, cur, track)

\* When no call is in progress the file holds the songs of the list, so that a power cut
\* loses none, unless a save failed, two threads saved at the same time, or an
\* item was overwritten through a pointer to a freed one (__playback_persist_and_notify,
\* __desktop_playlist_save).
FileFollows ==
    Quiet /\ ~torn =>
        {SongOf(Load(stored)[i]) : i \in DOMAIN Load(stored)} = {SongOf(list[i]) : i \in DOMAIN list}

\* What the user asks the worker for is taken, whatever the worker is doing: every
\* request to the cloud ends, and no wait for the player is for ever.
RequestTaken == user_next \/ user_play # NoId ~> ~user_next /\ user_play = NoId
=============================================================================
