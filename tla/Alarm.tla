------------------------------- MODULE Alarm -------------------------------
(***************************************************************************)
(* The alarms of wukong/tm/wukong_tm_alarm.c on top of the cron service:    *)
(* the table and its copy in the key-value store, the cron jobs that ring   *)
(* an alarm, end an unanswered ring and repeat it after a snooze, and the   *)
(* work queue between the cron timer and the handlers.                      *)
(*                                                                         *)
(* The handlers, and the MCP tools that make the calls, run on WORKQ_SYSTEM *)
(* one after the other; each is one step.  What interleaves is the          *)
(* hand-over: a request that cron has put into the work queue is handled    *)
(* after whatever calls came in between, and removing its job does not take *)
(* it back.  Cron gives an id to every job; here a new job gets one that    *)
(* nobody holds, which is as good as one that was never used, since ids are *)
(* only compared.                                                           *)
(***************************************************************************)
EXTENDS Integers, Sequences, FiniteSets

CONSTANTS
    Alarms,       \* alarm ids
    AlarmMax,     \* WUKONG_TM_ALARM_MAX_COUNT
    JobIds,       \* JobIds[a, kind]: ids that cron may give to an alarm's job of this kind
    MaxSnooze,    \* s_alarm_max_snooze_count, 0 for no limit
    QueueMax,     \* room in the work queue
    MaxTime,      \* bound on the clock
    MaxInputs,    \* bound on calls, sleeps and power losses
    MaxFires      \* bound on dates that come

Kinds == {"fire", "timeout", "snooze"}

ASSUME AlarmAssumption ==
    /\ JobIds \in [Alarms \X Kinds -> SUBSET (Nat \ {0})]
    /\ AlarmMax \in Nat /\ MaxSnooze \in Nat /\ QueueMax \in Nat
    /\ MaxTime \in Nat /\ MaxInputs \in Nat /\ MaxFires \in Nat

VARIABLES
    alarm,           \* s_alarm_ctx.alarms
    snooze_enabled,  \* s_alarm_snooze_enabled
    jobs,            \* the alarms' jobs in the cron table
    armed,           \* the last call that armed the cron timer did not fail
    queue,           \* their requests in WORKQ_SYSTEM
    kv,              \* what is stored under WUKONG_TM_ALARM_KV_KEY
    up,              \* the service is initialized
    loading,         \* stored alarms that __alarm_store_load has still to read
    now,             \* the clock
    synced,          \* the clock has been set since the last power-up
    inputs, fires,   \* what is left of MaxInputs and MaxFires
    unscheduled,     \* history: alarms whose job cron refused
    untimed,         \* history: alarms whose timeout or snooze was refused, lost or passed over
    unsaved,         \* history: the last write failed
    over             \* history: alarms whose round was ended since their date last came

clock == <<now, synced>>
history == <<unscheduled, untimed, unsaved, over>>
vars == <<alarm, snooze_enabled, jobs, armed, queue, kv, up, loading, now, synced,
          inputs, fires, unscheduled, untimed, unsaved, over>>

-----------------------------------------------------------------------------
(* The table and the jobs. *)

Off == [used |-> FALSE, enabled |-> FALSE, once |-> FALSE, start |-> 0, cron_job |-> 0,
        ack_timeout_job |-> 0, snooze_job |-> 0, is_ringing |-> FALSE, ring_seq |-> 0]

Used == {a \in Alarms : alarm[a].used}

\* A new job gets an id that no job has and no alarm remembers, the smallest
Held(js) ==
    {j.id : j \in js} \cup
    UNION {{alarm[a].cron_job, alarm[a].ack_timeout_job, alarm[a].snooze_job} : a \in Alarms}
NewIds(js, a, kind) == LET free == JobIds[a, kind] \ Held(js) IN
    {id \in free : \A i \in free : id <= i}

\* wukong_cron_job_remove of some ids, where NOT_FOUND is ignored.  When the timer cannot be
\* armed afterwards the alarm may keep the id, which names no job any more.
Without(js, ids) == {j \in js : j.id \notin ids}

\* __cron_reschedule_locked after jobs were removed: only a timer that is needed can fail
Reschedule == armed' \in IF synced THEN BOOLEAN ELSE {TRUE}

\* wukong_cron_job_add, once the alarm's old jobs are gone and the table is js.  It takes the
\* job; or refuses it and leaves the table; or fails only in arming the timer, and then the
\* job stays in the table although its caller sees an error and forgets its id.
Taken(js, j) == jobs' = js \cup {j} /\ armed' = TRUE
Leaves(js) == jobs' = js /\ Reschedule
Orphan(j) == [j EXCEPT !.known = FALSE]
LeftBehind(js, j) == synced /\ jobs' = js \cup {Orphan(j)} /\ armed' = FALSE

\* A date that comes again and again may come at any time; a date that has passed when cron
\* computes it never comes (for a year)
AnyTime == 0
Never == MaxTime + 2
Due(c) == IF ~c.once THEN AnyTime ELSE IF synced /\ c.start <= now THEN Never ELSE c.start

\* The jobs that __alarm_sync_cron_job and __alarm_schedule_runtime_job add
FireJob(id, a, c) ==
    [id |-> id, kind |-> "fire", alarm |-> a, seq |-> 0, due |-> Due(c), on |-> c.enabled,
     known |-> TRUE]
RuntimeJob(id, kind, a, seq) ==
    [id |-> id, kind |-> kind, alarm |-> a, seq |-> seq, due |-> AnyTime, on |-> TRUE,
     known |-> TRUE]

\* __alarm_clear_runtime_state(alarm, TRUE)
RuntimeIds(r) == {r.ack_timeout_job, r.snooze_job}
AllIds(r) == RuntimeIds(r) \cup {r.cron_job}
Cleared(r) == [r EXCEPT !.ack_timeout_job = 0, !.snooze_job = 0, !.is_ringing = FALSE]

\* Cleared, its round forgotten and its job removed: what disabling does to an alarm
Disabled(r) == [Cleared(r) EXCEPT !.enabled = FALSE, !.ring_seq = 0, !.cron_job = 0]

\* The table as __alarm_store_save writes it; the write may fail
Image(al) == [a \in Alarms |-> [used |-> al[a].used, enabled |-> al[a].enabled,
                                once |-> al[a].once, start |-> al[a].start]]
StoreSave(al) ==
    \/ kv' = Image(al) /\ unsaved' = FALSE
    \/ kv' = kv /\ unsaved' = TRUE

\* __alarm_once_rollover_to_next_fire fails without a clock; a date that has passed becomes
\* the next one with that time of day
CanRoll(c) == c.enabled /\ c.once => synced
Rolled(c) == IF c.enabled /\ c.once /\ c.start <= now THEN [c EXCEPT !.start = now + 1] ELSE c

\* start_time means something for an alarm with one date only
Configs == {c \in [enabled : BOOLEAN, once : BOOLEAN, start : 0..MaxTime] : c.once <=> c.start > 0}

Configured(r, c, id) ==
    [r EXCEPT !.used = TRUE, !.enabled = c.enabled, !.once = c.once, !.start = c.start,
              !.cron_job = id]

-----------------------------------------------------------------------------
(* Calls. *)

Input ==
    /\ up /\ loading = {} /\ inputs > 0
    /\ inputs' = inputs - 1
    /\ UNCHANGED <<queue, up, loading, now, synced, fires>>

\* wukong_tm_alarm_add
Add(a, config) == LET c == Rolled(config) IN
    /\ Input
    /\ a \notin Used /\ Cardinality(Used) < AlarmMax /\ CanRoll(config)
    /\ \E id \in NewIds(jobs, a, "fire") :
          /\ alarm' = [alarm EXCEPT ![a] = Configured(Off, c, id)]
          /\ Taken(jobs, FireJob(id, a, c))
    /\ StoreSave(alarm')
    /\ unscheduled' = unscheduled \ {a}
    /\ UNCHANGED <<snooze_enabled, untimed, over>>

\* When it fails it leaves the slot free, as it was
AddFails(a, config) ==
    /\ Input
    /\ a \notin Used /\ Cardinality(Used) < AlarmMax /\ CanRoll(config)
    /\ \E id \in NewIds(jobs, a, "fire") : LeftBehind(jobs, FireJob(id, a, Rolled(config)))
    /\ UNCHANGED <<alarm, snooze_enabled, kv, history>>

\* Mutant: the old job stays in the cron table
UpdateKeepsJob(a, config) == LET c == Rolled(config) IN
    /\ Input
    /\ a \in Used /\ CanRoll(config)
    /\ \E id \in NewIds(jobs, a, "fire") :
          /\ alarm' = [alarm EXCEPT ![a] = Configured(Cleared(alarm[a]), c, id)]
          /\ Taken(Without(jobs, RuntimeIds(alarm[a])), FireJob(id, a, c))
    /\ StoreSave(alarm')
    /\ unscheduled' = unscheduled \ {a}
    /\ UNCHANGED <<snooze_enabled, untimed, over>>

\* wukong_tm_alarm_update: the round is over, ring_seq stays
Update(a, config) == LET c == Rolled(config) IN
    /\ Input
    /\ a \in Used /\ CanRoll(config)
    /\ \E id \in NewIds(jobs, a, "fire") :
          /\ alarm' = [alarm EXCEPT ![a] = Configured(Cleared(alarm[a]), c, id)]
          /\ Taken(Without(jobs, AllIds(alarm[a])), FireJob(id, a, c))
    /\ StoreSave(alarm')
    /\ unscheduled' = unscheduled \ {a}
    /\ UNCHANGED <<snooze_enabled, untimed, over>>

\* wukong_tm_alarm_update when the date cannot be computed or cron fails, which may leave
\* the new job behind: the old configuration is put back and its job added again, which may
\* fail too
PutBack(a, js) ==
    \/ \E id \in NewIds(js, a, "fire") :
          /\ alarm' = [alarm EXCEPT ![a] = [Cleared(@) EXCEPT !.cron_job = id]]
          /\ Taken(js, FireJob(id, a, alarm[a]))
          /\ unscheduled' = unscheduled \ {a}
    \/ /\ alarm' = [alarm EXCEPT ![a] = [Cleared(@) EXCEPT !.cron_job = 0]]
       /\ \/ Leaves(js)
          \/ \E id \in NewIds(js, a, "fire") : LeftBehind(js, FireJob(id, a, alarm[a]))
       /\ unscheduled' = unscheduled \cup {a}

UpdateFails(a, config) == LET js == Without(jobs, AllIds(alarm[a])) IN
    /\ Input
    /\ a \in Used
    /\ \/ PutBack(a, js)
       \/ /\ synced
          /\ \E id \in NewIds(jobs, a, "fire") :
                PutBack(a, js \cup {Orphan(FireJob(id, a, Rolled(config)))})
    /\ UNCHANGED <<snooze_enabled, kv, untimed, unsaved, over>>

\* wukong_tm_alarm_remove; wukong_tm_alarm_remove_by_time calls it for every match
Remove(a) ==
    /\ Input
    /\ a \in Used
    /\ alarm' = [alarm EXCEPT ![a] = Off]
    /\ Leaves(Without(jobs, AllIds(alarm[a])))
    /\ StoreSave(alarm')
    /\ over' = over \cup {a}
    /\ UNCHANGED <<snooze_enabled, unscheduled, untimed>>

\* wukong_tm_alarm_enable_set(id, TRUE); when cron refuses the job the alarm stays off
Enable(a) == LET c == Rolled([alarm[a] EXCEPT !.enabled = TRUE])
                 js == Without(jobs, {alarm[a].cron_job}) IN
    /\ Input
    /\ a \in Used /\ ~alarm[a].enabled /\ CanRoll(c)
    /\ \/ /\ \E id \in NewIds(jobs, a, "fire") :
                /\ alarm' = [alarm EXCEPT ![a] = [c EXCEPT !.cron_job = id]]
                /\ Taken(js, FireJob(id, a, c))
          /\ StoreSave(alarm')
          /\ unscheduled' = unscheduled \ {a}
       \/ /\ alarm' = [alarm EXCEPT ![a] = [c EXCEPT !.enabled = FALSE, !.cron_job = 0]]
          /\ \/ Leaves(js)
             \/ \E id \in NewIds(jobs, a, "fire") : LeftBehind(js, FireJob(id, a, c))
          /\ UNCHANGED <<kv, unsaved, unscheduled>>
    /\ UNCHANGED <<snooze_enabled, untimed, over>>

\* wukong_tm_alarm_enable_set(id, FALSE)
Disable(a) ==
    /\ Input
    /\ a \in Used /\ alarm[a].enabled
    /\ alarm' = [alarm EXCEPT ![a] = Disabled(@)]
    /\ Leaves(Without(jobs, AllIds(alarm[a])))
    /\ StoreSave(alarm')
    /\ over' = over \cup {a}
    /\ UNCHANGED <<snooze_enabled, unscheduled, untimed>>

\* Mutant: the number of the round is kept
AckKeepsSeq(a) ==
    /\ Input
    /\ a \in Used
    /\ alarm' = [alarm EXCEPT ![a] = IF @.once THEN [Disabled(@) EXCEPT !.ring_seq = alarm[a].ring_seq]
                                     ELSE Cleared(@)]
    /\ Leaves(Without(jobs, IF alarm[a].once THEN AllIds(alarm[a]) ELSE RuntimeIds(alarm[a])))
    /\ IF alarm[a].once THEN StoreSave(alarm') ELSE UNCHANGED <<kv, unsaved>>
    /\ over' = over \cup {a}
    /\ UNCHANGED <<snooze_enabled, unscheduled, untimed>>

\* wukong_tm_alarm_ack, and wukong_tm_alarm_ack_active if this is the only alarm with a round
Ack(a) ==
    /\ Input
    /\ a \in Used
    /\ alarm' = [alarm EXCEPT ![a] = IF @.once THEN Disabled(@) ELSE [Cleared(@) EXCEPT !.ring_seq = 0]]
    /\ Leaves(Without(jobs, IF alarm[a].once THEN AllIds(alarm[a]) ELSE RuntimeIds(alarm[a])))
    /\ IF alarm[a].once THEN StoreSave(alarm') ELSE UNCHANGED <<kv, unsaved>>
    /\ over' = over \cup {a}
    /\ UNCHANGED <<snooze_enabled, unscheduled, untimed>>

\* wukong_tm_alarm_list disables every alarm for one date that has passed
Expired == {a \in Used : alarm[a].once /\ alarm[a].enabled /\ 0 < alarm[a].start /\ alarm[a].start <= now}
List ==
    /\ Input
    /\ synced /\ Expired # {}
    /\ alarm' = [a \in Alarms |-> IF a \in Expired THEN Disabled(alarm[a]) ELSE alarm[a]]
    /\ Leaves(Without(jobs, UNION {AllIds(alarm[a]) : a \in Expired}))
    /\ StoreSave(alarm')
    /\ over' = over \cup Expired
    /\ UNCHANGED <<snooze_enabled, unscheduled, untimed>>

\* wukong_tm_alarm_snooze_enable_set
SnoozeOn ==
    /\ Input
    /\ ~snooze_enabled /\ snooze_enabled' = TRUE
    /\ UNCHANGED <<alarm, jobs, armed, kv, history>>

SnoozeOff ==
    /\ Input
    /\ snooze_enabled /\ snooze_enabled' = FALSE
    /\ alarm' = [a \in Alarms |-> [alarm[a] EXCEPT !.snooze_job = 0]]
    /\ Leaves(Without(jobs, {alarm[a].snooze_job : a \in Alarms}))
    /\ UNCHANGED <<kv, unscheduled, untimed, unsaved, over>>

-----------------------------------------------------------------------------
(* Start and stop. *)

\* Low power: wukong_tm_alarm_deinit and wukong_cron_deinit.  The requests in the work queue
\* stay there.
Deinit ==
    /\ up /\ loading = {} /\ inputs > 0
    /\ inputs' = inputs - 1
    /\ up' = FALSE
    /\ alarm' = [a \in Alarms |-> Off]
    /\ jobs' = {} /\ armed' = TRUE
    /\ over' = Alarms
    /\ UNCHANGED <<snooze_enabled, queue, kv, loading, clock, fires, unscheduled, untimed, unsaved>>

\* The next power-up starts with an empty memory and a clock that has to be set again
PowerLoss ==
    /\ inputs > 0
    /\ inputs' = inputs - 1
    /\ up' = FALSE /\ loading' = {}
    /\ alarm' = [a \in Alarms |-> Off]
    /\ jobs' = {} /\ armed' = TRUE /\ queue' = <<>>
    /\ snooze_enabled' = TRUE
    /\ synced' = FALSE
    /\ over' = Alarms
    /\ UNCHANGED <<kv, now, fires, unscheduled, untimed, unsaved>>

\* wukong_tm_alarm_init up to the loop of __alarm_store_load
InitService ==
    /\ ~up
    /\ up' = TRUE
    /\ loading' = {a \in Alarms : kv[a].used}
    /\ unsaved' = FALSE
    /\ unscheduled' = {} /\ untimed' = {}
    /\ UNCHANGED <<alarm, snooze_enabled, jobs, armed, queue, kv, clock, inputs, fires, over>>

\* Mutant: an alarm that waits for its date is loaded without its job
StoreLoadNoJob(a) ==
    /\ a \in loading
    /\ loading' = loading \ {a}
    /\ alarm' = [alarm EXCEPT ![a] = Configured(Off, kv[a], 0)]
    /\ UNCHANGED <<snooze_enabled, jobs, armed, queue, kv, up, clock, inputs, fires, history>>

\* One turn of that loop.  An alarm for one date that has passed is switched off and gets no
\* job; after the last turn such a change is saved.
StoreLoad(a) == LET expired == /\ kv[a].enabled /\ kv[a].once /\ synced
                               /\ 0 < kv[a].start /\ kv[a].start < now IN
    /\ a \in loading
    /\ loading' = loading \ {a}
    /\ \/ /\ ~kv[a].enabled \/ expired
          /\ alarm' = [alarm EXCEPT ![a] = Configured(Off, [kv[a] EXCEPT !.enabled = FALSE], 0)]
          /\ UNCHANGED <<jobs, armed, unscheduled>>
       \/ /\ kv[a].enabled /\ ~expired
          /\ \E id \in NewIds(jobs, a, "fire") :
                /\ alarm' = [alarm EXCEPT ![a] = Configured(Off, kv[a], id)]
                /\ Taken(jobs, FireJob(id, a, kv[a]))
          /\ UNCHANGED unscheduled
       \/ /\ kv[a].enabled /\ ~expired
          /\ alarm' = [alarm EXCEPT ![a] = Configured(Off, kv[a], 0)]
          /\ \/ UNCHANGED <<jobs, armed>>
             \/ \E id \in NewIds(jobs, a, "fire") : LeftBehind(jobs, FireJob(id, a, kv[a]))
          /\ unscheduled' = unscheduled \cup {a}
    /\ IF loading = {a} /\ Image(alarm') # kv
       THEN StoreSave(alarm')
       ELSE UNCHANGED <<kv, unsaved>>
    /\ UNCHANGED <<snooze_enabled, queue, up, clock, inputs, fires, untimed, over>>

-----------------------------------------------------------------------------
(* The clock, cron and the work queue. *)

Tick ==
    /\ now < MaxTime /\ now' = now + 1
    /\ UNCHANGED <<alarm, snooze_enabled, jobs, armed, queue, kv, up, loading, synced, inputs, fires,
                   history>>

\* The clock is set, for the first time or again: wukong_cron_time_ready_notify computes the
\* dates of all jobs from the new time.  A job for one date that has come or was passed over
\* waits for a year; for a timeout or snooze this may happen at any time.
TimeSync == \E passed \in SUBSET {j \in jobs : j.kind # "fire" /\ j.due # Never} :
    /\ synced' = TRUE
    /\ jobs' = {[j EXCEPT !.due = IF j \in passed \/ (0 < @ /\ @ <= now) THEN Never ELSE @] :
                    j \in jobs}
    /\ untimed' = untimed \cup {j.alarm : j \in passed}
    /\ armed' \in BOOLEAN
    /\ UNCHANGED <<alarm, snooze_enabled, queue, kv, up, loading, now, inputs, fires,
                   unscheduled, unsaved, over>>

Requests == {queue[i] : i \in 1..Len(queue)}

\* A round with its snoozes takes minutes and the work queue is never that far behind, while
\* an alarm's dates are a day apart, or set by a call that ends the round: no date comes
\* before the requests of an earlier one have been handled.  A timeout or snooze that a time
\* sync has moved to the next year is not waited for.
RoundsAreShort(j) == j.kind = "fire" =>
    /\ \A k \in jobs : k.alarm = j.alarm => k.kind = "fire" \/ k.due = Never
    /\ \A r \in Requests : r.alarm # j.alarm

\* __cron_timer_cb for one job: its request goes to the work queue, or is lost when there is
\* no memory or no room, and the job is gone unless its date comes again
JobFires(j) ==
    /\ j \in jobs /\ j.on /\ synced /\ armed /\ j.due <= now /\ loading = {}
    /\ RoundsAreShort(j)
    /\ IF j.kind = "fire" THEN fires > 0 /\ fires' = fires - 1 ELSE UNCHANGED fires
    /\ Leaves(IF j.kind = "fire" /\ j.due = AnyTime THEN jobs ELSE jobs \ {j})
    /\ \/ /\ Len(queue) < QueueMax
          /\ queue' = Append(queue, [kind |-> j.kind, alarm |-> j.alarm, seq |-> j.seq])
          /\ UNCHANGED untimed
       \/ /\ untimed' = IF j.kind = "fire" THEN untimed ELSE untimed \cup {j.alarm}
          /\ UNCHANGED queue
    /\ UNCHANGED <<alarm, snooze_enabled, kv, up, loading, clock, inputs, unscheduled, unsaved, over>>

\* __cron_job_worker takes the first request
Take(kind) ==
    /\ queue # <<>> /\ Head(queue).kind = kind
    /\ queue' = Tail(queue)
    /\ UNCHANGED <<snooze_enabled, up, loading, clock, inputs, fires, unscheduled>>

\* Mutant: a new round has the number of the last
SameSeq(a) == alarm[a].ring_seq

\* Mutant: the number of a round does not pass the limit
ClampedSeq(a) == IF alarm[a].ring_seq < MaxSnooze THEN alarm[a].ring_seq + 1 ELSE MaxSnooze

\* The number of the next round
NextSeq(a) == alarm[a].ring_seq + 1

\* __alarm_start_ringing; when it cannot have its timeout the alarm does not ring
StartRinging(a) == LET js == Without(jobs, RuntimeIds(alarm[a])) IN
    \/ /\ \E id \in NewIds(jobs, a, "timeout") :
             /\ alarm' = [alarm EXCEPT ![a] = [Cleared(@) EXCEPT !.ring_seq = NextSeq(a), !.is_ringing = TRUE,
                                                                 !.ack_timeout_job = id]]
             /\ Taken(js, RuntimeJob(id, "timeout", a, NextSeq(a)))
       /\ untimed' = untimed \ {a}
    \/ /\ alarm' = [alarm EXCEPT ![a] = [Cleared(@) EXCEPT !.ring_seq = NextSeq(a)]]
       /\ \/ Leaves(js)
          \/ \E id \in NewIds(jobs, a, "timeout") :
                LeftBehind(js, RuntimeJob(id, "timeout", a, NextSeq(a)))
       /\ untimed' = untimed \cup {a}

\* __alarm_fire_rpc_handler, wukong_tm_alarm_fire
Fire == LET a == Head(queue).alarm IN
    /\ Take("fire")
    /\ up /\ a \in Used
    /\ StartRinging(a)
    /\ over' = over \ {a}
    /\ UNCHANGED <<kv, unsaved>>

\* A timeout is for the round that rings, a repetition for the last round
OfRound(r) == r.alarm \in Used /\ alarm[r.alarm].ring_seq = r.seq

\* s_alarm_max_snooze_count limits the repetitions
MaySnooze(seq) == snooze_enabled /\ (MaxSnooze = 0 \/ seq <= MaxSnooze)

\* __alarm_snooze_timeout_rpc_handler when the alarm is to be repeated.  If cron fails,
\* is_ringing is set again; a job it has left behind is remembered in snooze_job.
TimeoutSnoozes == LET a == Head(queue).alarm IN
    /\ Take("timeout")
    /\ up /\ OfRound(Head(queue)) /\ alarm[a].is_ringing
    /\ MaySnooze(Head(queue).seq)
    /\ \/ \E id \in NewIds(jobs, a, "snooze") :
             /\ alarm' = [alarm EXCEPT ![a] = [@ EXCEPT !.ack_timeout_job = 0, !.is_ringing = FALSE,
                                                        !.snooze_job = id]]
             /\ Taken(jobs, RuntimeJob(id, "snooze", a, Head(queue).seq))
             /\ UNCHANGED untimed
       \/ \E id \in NewIds(jobs, a, "snooze") :
             /\ alarm' = [alarm EXCEPT ![a] = [@ EXCEPT !.ack_timeout_job = 0, !.snooze_job = id]]
             /\ jobs' = jobs \cup {RuntimeJob(id, "snooze", a, Head(queue).seq)}
             /\ armed' = FALSE
             /\ untimed' = untimed \cup {a}
       \/ /\ alarm' = [alarm EXCEPT ![a].ack_timeout_job = 0]
          /\ untimed' = untimed \cup {a}
          /\ UNCHANGED <<jobs, armed>>
    /\ UNCHANGED <<kv, unsaved, over>>

\* The same handler when the round ends; an alarm for one date is switched off
TimeoutFinishes == LET a == Head(queue).alarm IN
    /\ Take("timeout")
    /\ up /\ OfRound(Head(queue)) /\ alarm[a].is_ringing
    /\ ~MaySnooze(Head(queue).seq)
    /\ alarm' = [alarm EXCEPT ![a] = [@ EXCEPT !.ack_timeout_job = 0, !.is_ringing = FALSE,
                                               !.ring_seq = 0,
                                               !.enabled = alarm[a].enabled /\ ~alarm[a].once]]
    /\ IF alarm[a].once THEN StoreSave(alarm') ELSE UNCHANGED <<kv, unsaved>>
    /\ over' = over \cup {a}
    /\ UNCHANGED <<jobs, armed, untimed>>

\* __alarm_snooze_fire_rpc_handler
SnoozeFires == LET a == Head(queue).alarm IN
    /\ Take("snooze")
    /\ up /\ OfRound(Head(queue))
    /\ IF snooze_enabled
       THEN StartRinging(a)
       ELSE /\ alarm' = [alarm EXCEPT ![a].snooze_job = 0]
            /\ UNCHANGED <<jobs, armed, untimed>>
    /\ UNCHANGED <<kv, unsaved, over>>

\* A request that comes too late: its method is not registered, its alarm or its round gone
TooLate == LET r == Head(queue) IN
    /\ Take(r.kind)
    /\ \/ ~up
       \/ r.kind = "fire" /\ r.alarm \notin Used
       \/ r.kind # "fire" /\ ~OfRound(r)
       \/ r.kind = "timeout" /\ ~alarm[r.alarm].is_ringing
    /\ UNCHANGED <<alarm, jobs, armed, kv, untimed, unsaved, over>>

Work == Fire \/ TimeoutSnoozes \/ TimeoutFinishes \/ SnoozeFires \/ TooLate

-----------------------------------------------------------------------------
Init ==
    /\ alarm = [a \in Alarms |-> Off] /\ snooze_enabled = TRUE
    /\ jobs = {} /\ armed = TRUE /\ queue = <<>>
    /\ kv = Image(alarm)
    /\ up = FALSE /\ loading = {}
    /\ now = 1 /\ synced = FALSE
    /\ inputs = MaxInputs /\ fires = MaxFires
    /\ unscheduled = {} /\ untimed = {} /\ unsaved = FALSE /\ over = Alarms

Call ==
    \/ \E a \in Alarms, c \in Configs : Add(a, c) \/ AddFails(a, c) \/ Update(a, c) \/ UpdateFails(a, c)
    \/ \E a \in Alarms : Remove(a) \/ Enable(a) \/ Disable(a) \/ Ack(a)
    \/ List \/ SnoozeOn \/ SnoozeOff

Next ==
    \/ Call \/ Deinit \/ PowerLoss \/ InitService \/ Tick \/ TimeSync \/ Work
    \/ \E a \in Alarms : StoreLoad(a)
    \/ \E j \in jobs : JobFires(j)

\* The jobs of a round fire when their time comes and the timer is armed, and the work queue
\* and a start go on
RoundFires(a) == \E j \in jobs : j.kind # "fire" /\ j.alarm = a /\ JobFires(j)
Fairness ==
    /\ WF_vars(Work)
    /\ \A a \in Alarms : WF_vars(RoundFires(a)) /\ WF_vars(StoreLoad(a))

Spec == Init /\ [][Next]_vars /\ Fairness

-----------------------------------------------------------------------------
(* Properties. *)

Alarm_Item == [used : BOOLEAN, enabled : BOOLEAN, once : BOOLEAN, start : Nat, cron_job : Nat,
               ack_timeout_job : Nat, snooze_job : Nat, is_ringing : BOOLEAN, ring_seq : Nat]
Stored == [used : BOOLEAN, enabled : BOOLEAN, once : BOOLEAN, start : Nat]
IsRequest(r) == r.kind \in Kinds /\ r.alarm \in Alarms /\ r.seq \in Nat /\ (r.kind # "fire" => r.seq > 0)

\* Every variable keeps its type, and a request other than the first of a round carries the
\* number of a round.
TypeOK ==
    /\ alarm \in [Alarms -> Alarm_Item]
    /\ snooze_enabled \in BOOLEAN
    /\ jobs \subseteq [id : Nat \ {0}, kind : Kinds, alarm : Alarms, seq : Nat, due : Nat, on : BOOLEAN,
                       known : BOOLEAN]
    /\ armed \in BOOLEAN
    /\ \A j \in jobs : IsRequest(j)
    /\ queue \in Seq([kind : Kinds, alarm : Alarms, seq : Nat])
    /\ \A r \in Requests : IsRequest(r)
    /\ kv \in [Alarms -> Stored]
    /\ up \in BOOLEAN /\ loading \subseteq Alarms
    /\ now \in Nat /\ synced \in BOOLEAN /\ inputs \in Nat /\ fires \in Nat
    /\ unscheduled \subseteq Alarms /\ untimed \subseteq Alarms /\ unsaved \in BOOLEAN
    /\ over \subseteq Alarms

\* The field that remembers a job of this kind
Field(r, kind) == IF kind = "fire" THEN r.cron_job
                  ELSE IF kind = "timeout" THEN r.ack_timeout_job ELSE r.snooze_job

\* Every job whose add succeeded is remembered by its alarm for as long as it is in the cron
\* table, so whoever removes the alarm or ends its round also removes the job.  Only a job
\* whose add returned the error of the timer is forgotten, and no two jobs share an id.
JobsOwned == \A j \in jobs :
    /\ j.known => alarm[j.alarm].used /\ Field(alarm[j.alarm], j.kind) = j.id
    /\ \A k \in jobs : k.id = j.id => k = j

\* An alarm that is switched on and whose date is to come has a job that waits for this
\* date, whatever calls, sleeps and power losses there were.
OnIsScheduled == \A a \in Used \ unscheduled :
    alarm[a].enabled /\ (alarm[a].once => alarm[a].start > now) =>
        \E j \in jobs : /\ j.kind = "fire" /\ j.alarm = a /\ j.on
                        /\ j.due = IF alarm[a].once THEN alarm[a].start ELSE AnyTime

\* An alarm that rings has its timeout in the cron table, not a year ahead, or in the work
\* queue.
Coming == {j \in jobs : j.due # Never} \cup Requests
RingIsTimed == \A a \in Alarms \ untimed :
    alarm[a].is_ringing =>
        \E r \in Coming :
            r.kind = "timeout" /\ r.alarm = a /\ r.seq = alarm[a].ring_seq

\* What the next start reads back is the table.
KvFollows == up /\ loading = {} /\ ~unsaved => \A a \in Alarms :
    /\ kv[a].used = alarm[a].used
    /\ kv[a].enabled = alarm[a].enabled
    /\ kv[a].once = alarm[a].once
    /\ alarm[a].enabled => kv[a].start = alarm[a].start

\* What is to happen is not forgotten: dates, timeouts and the stored table, unless cron, the
\* work queue or the store refused them or a time sync passed over the timeout.
NothingForgotten == OnIsScheduled /\ RingIsTimed /\ KvFollows

\* A round that was acknowledged, has finished, or was ended by disabling, a query, removal,
\* sleep or power loss is not continued by a timeout or snooze that was already in the work
\* queue: the alarm rings again only when cron hands over a date (ring_seq).
OverIsOver == \A a \in over : ~alarm[a].is_ringing

\* An alarm nobody answers falls silent: after MaxSnooze repetitions, or when cron or the
\* work queue refuse one.  It may go on only when a time sync passed over its timeout or
\* snooze or the cron timer could not be armed.
Silent(a) == ~alarm[a].is_ringing /\ \A r \in Coming : r.alarm = a => r.kind = "fire"
FallsSilent == \A a \in Alarms : alarm[a].is_ringing ~> (Silent(a) \/ a \in untimed \/ ~armed)
=============================================================================
