-------------------------------- MODULE Cron --------------------------------
(***************************************************************************)
(* The cron service (wukong_cron.c): a fixed table of jobs, one software   *)
(* timer armed for the nearest of them, and no lock.  API calls come from  *)
(* the MCP, work queue and time-sync threads, the timer callback runs on   *)
(* the timer thread.  A call chooses a slot, overwrites it, tests whether  *)
(* the job is to be scheduled, searches for its time and stores it, then   *)
(* reschedules: stop the timer, scan the table, start the timer.  Each is  *)
(* a step, and the time-ready notification and the timer callback do the   *)
(* test and the store slot by slot.                                        *)
(*                                                                         *)
(* Time is counted in ticks of one second, of which a call takes none.  A  *)
(* cron expression is its period, 0 one that matches no date.              *)
(***************************************************************************)
EXTENDS Integers

CONSTANTS
    Callers,    \* threads that call the API
    TimerTask,  \* the software timer thread
    MaxJobs,    \* WUKONG_CRON_MAX_JOBS
    Names,      \* ids that callers choose; the id "cron-<n>" is the number n
    Exprs,      \* cron expressions
    Wrap,       \* 2^32 ms: the range of the timer's delay
    MaxTime,    \* bound on the clock
    MaxCalls    \* bound on the number of API calls

ASSUME TimerTaskAssumption == TimerTask \notin Callers
ASSUME JobsAssumption == MaxJobs \in Nat \ {0} /\ Names \subseteq Nat /\ Exprs \subseteq Nat
ASSUME TimeAssumption == Wrap \in Nat \ {0} /\ MaxTime \in Nat /\ MaxCalls \in Nat

Threads == Callers \cup {TimerTask}
Slots == 1..MaxJobs

Job == [used : BOOLEAN, enabled : BOOLEAN, once : BOOLEAN, id : Nat, expr : Nat]

\* A slot after memset
NoJob == [used |-> FALSE, enabled |-> FALSE, once |-> FALSE, id |-> 0, expr |-> 0]

VARIABLES
    up,            \* s_cron_ctx.initialized; the timer exists
    time_ready,    \* s_cron_ctx.time_ready
    in_timer_cb,   \* s_cron_ctx.in_timer_cb
    next_job_seq,  \* s_cron_ctx.next_job_seq
    jobs,          \* s_cron_ctx.jobs
    next_fire_ts,  \* next_fire_ts of each slot
    armed,         \* the timer runs ...
    deadline,      \* ... until then
    now,           \* tal_time_get_posix
    pc,            \* where each thread is
    index,         \* its local `index`: the slot it is at
    job,           \* its local `job`: what it writes there
    seen,          \* the job whose time it searches, as it was when tested
    nearest,       \* its local `next_fire_ts` in __cron_reschedule_locked
    raced,         \* history: two API calls have overlapped
    overlap,       \* history: the last reschedule was not alone
    torn,          \* history, of each slot: its time was stored after the slot had changed
    stalled,       \* history: time_ready_notify failed and nothing has rescheduled since
    calls          \* API calls left

ctx == <<up, time_ready, next_job_seq>>
table == <<jobs, next_fire_ts, torn>>
timer == <<armed, deadline>>
locals == <<index, job, seen, nearest>>
history == <<raced, overlap, stalled>>
vars == <<ctx, in_timer_cb, table, timer, now, pc, locals, history, calls>>

-----------------------------------------------------------------------------
(* Helpers. *)

\* wukong_cron_expr_next_fire: strictly later than `from`, 0 for its error return
NextFire(expr, from) == IF expr = 0 THEN 0 ELSE ((from \div expr) + 1) * expr

Live(j) == j.used /\ j.enabled

\* Mutant: the check of `enabled` forgotten
SchedulableDisabled(j) == time_ready /\ j.used

\* The test of __job_compute_next_fire
Schedulable(j) == time_ready /\ Live(j)

\* __job_find_index, __job_alloc_index: the first slot
Found(i, id) ==
    /\ jobs[i].used /\ jobs[i].id = id
    /\ \A k \in Slots : k < i => ~(jobs[k].used /\ jobs[k].id = id)

\* No job has this id
Absent(id) == \A i \in Slots : ~(jobs[i].used /\ jobs[i].id = id)

\* Mutant: the loop stops at the last slot, free or not
AllocatedLast(i) == (~jobs[i].used \/ i = MaxJobs) /\ \A k \in Slots : k < i => jobs[k].used
Allocated(i) == ~jobs[i].used /\ \A k \in Slots : k < i => jobs[k].used

AllIdle == \A t \in Threads : pc[t] = "idle"
CallersIdle == \A c \in Callers : pc[c] = "idle"

\* A call of thread c starts; another thread may be in the middle of its own
Begin(c) ==
    /\ pc[c] = "idle" /\ calls > 0
    /\ calls' = calls - 1
    /\ raced' = (raced \/ ~CallersIdle)
    /\ overlap' = (overlap \/ ~AllIdle)
    /\ UNCHANGED <<in_timer_cb, table, timer, now, seen, nearest, stalled>>

\* ... and has chosen the slot and what to write there
Choose(c, i, j) ==
    /\ index' = [index EXCEPT ![c] = i]
    /\ job' = [job EXCEPT ![c] = j]
    /\ pc' = [pc EXCEPT ![c] = "apply"]

Parsed(enabled, once, id, expr) ==
    [used |-> TRUE, enabled |-> enabled, once |-> once, id |-> id, expr |-> expr]

-----------------------------------------------------------------------------
(* The API. *)

\* wukong_cron_job_add of a job without an id: the next number is not checked
AddAuto(c, enabled, once, expr) ==
    /\ Begin(c)
    /\ next_job_seq' = next_job_seq + 1
    /\ UNCHANGED <<up, time_ready>>
    /\ \/ \E i \in Slots : Allocated(i) /\ Choose(c, i, Parsed(enabled, once, next_job_seq, expr))
       \/ (\A i \in Slots : jobs[i].used) /\ UNCHANGED <<pc, index, job>>

\* ... and with one, which must be new
AddNamed(c, id, enabled, once, expr) ==
    /\ Begin(c)
    /\ Absent(id)
    /\ \E i \in Slots : Allocated(i) /\ Choose(c, i, Parsed(enabled, once, id, expr))
    /\ UNCHANGED ctx

\* wukong_cron_job_update
Update(c, id, enabled, once, expr) ==
    /\ Begin(c)
    /\ \E i \in Slots : Found(i, id) /\ Choose(c, i, Parsed(enabled, once, id, expr))
    /\ UNCHANGED ctx

\* wukong_cron_job_remove
Remove(c, id) ==
    /\ Begin(c)
    /\ \E i \in Slots : Found(i, id) /\ Choose(c, i, [NoJob EXCEPT !.id = id])
    /\ UNCHANGED ctx

\* wukong_cron_time_ready_notify: every slot in turn
TimeReadyNotify(c) ==
    /\ Begin(c)
    /\ time_ready' = TRUE
    /\ pc' = [pc EXCEPT ![c] = "test"]
    /\ UNCHANGED <<up, next_job_seq, index, job>>

\* Slot i holds job j and no time
Write(i, j) ==
    /\ jobs' = [jobs EXCEPT ![i] = j]
    /\ next_fire_ts' = [next_fire_ts EXCEPT ![i] = 0]
    /\ torn' = [torn EXCEPT ![i] = FALSE]

\* The slot is overwritten
Apply(c) ==
    /\ pc[c] = "apply"
    /\ \/ job[c].used /\ Write(index[c], job[c])
          /\ pc' = [pc EXCEPT ![c] = "test"] /\ UNCHANGED <<index, job>>
       \/ ~job[c].used /\ Write(index[c], NoJob)
          /\ pc' = [pc EXCEPT ![c] = "stop"]
          /\ index' = [index EXCEPT ![c] = 1] /\ job' = [job EXCEPT ![c] = NoJob]
    /\ UNCHANGED <<ctx, in_timer_cb, timer, now, seen, nearest, history, calls>>

-----------------------------------------------------------------------------
(* __job_compute_next_fire, in an add or update for the slot it has        *)
(* written, in the notification and in the callback for every slot.        *)

OneSlot(t) == job[t].used
Notifies(t) == t # TimerTask /\ ~OneSlot(t)

\* On to the next slot or, behind the last one, to the reschedule
Advance(t) ==
    \/ /\ ~OneSlot(t) /\ index[t] < MaxJobs
       /\ index' = [index EXCEPT ![t] = @ + 1]
       /\ pc' = [pc EXCEPT ![t] = "test"]
       /\ UNCHANGED job
    \/ /\ OneSlot(t) \/ index[t] = MaxJobs
       /\ index' = [index EXCEPT ![t] = 1]
       /\ pc' = [pc EXCEPT ![t] = "stop"]
       /\ job' = [job EXCEPT ![t] = NoJob]

\* The thread gives up without a reschedule
GiveUp(t) ==
    /\ index' = [index EXCEPT ![t] = 1]
    /\ pc' = [pc EXCEPT ![t] = "idle"]
    /\ job' = [job EXCEPT ![t] = NoJob]

Due(i) == Live(jobs[i]) /\ next_fire_ts[i] > 0 /\ next_fire_ts[i] <= now

\* The notification passes over free slots, the callback over jobs that are not due
Passes(t, i) == \/ Notifies(t) /\ ~jobs[i].used
                \/ t = TimerTask /\ ~Due(i)

\* A one-shot job that is due leaves the table for the work queue
Spent(t, i) == t = TimerTask /\ Due(i) /\ jobs[i].once

\* The time is cleared; for a job to be scheduled the search begins
Test(t) ==
    LET i == index[t] IN
    /\ pc[t] = "test"
    /\ \/ Passes(t, i) /\ Advance(t) /\ UNCHANGED <<table, seen>>
       \/ Spent(t, i) /\ Write(i, NoJob) /\ Advance(t) /\ UNCHANGED seen
       \/ /\ ~Passes(t, i) /\ ~Spent(t, i)
          /\ Write(i, jobs[i])
          /\ \/ Schedulable(jobs[i]) /\ seen' = [seen EXCEPT ![t] = jobs[i]]
                /\ pc' = [pc EXCEPT ![t] = "store"] /\ UNCHANGED <<index, job>>
             \/ ~Schedulable(jobs[i]) /\ Advance(t) /\ UNCHANGED seen
    /\ UNCHANGED <<ctx, in_timer_cb, timer, now, nearest, history, calls>>

\* The search ends with a date.  It has read the expression of the slot, whose job may have
\* been removed or replaced since the test.
Store(t, expr) ==
    LET i == index[t] IN
    /\ pc[t] = "store" /\ expr # 0
    /\ next_fire_ts' = [next_fire_ts EXCEPT ![i] = NextFire(expr, now)]
    /\ torn' = [torn EXCEPT ![i] = jobs[i] # seen[t] \/ ~time_ready]
    /\ seen' = [seen EXCEPT ![t] = NoJob]
    /\ Advance(t)
    /\ UNCHANGED <<ctx, in_timer_cb, jobs, timer, now, nearest, history, calls>>

\* Mutant: an error code kept as the time of the job
FailSentinel(t, expr) ==
    /\ pc[t] = "store" /\ expr = 0
    /\ next_fire_ts' = [next_fire_ts EXCEPT ![index[t]] = -1]
    /\ seen' = [seen EXCEPT ![t] = NoJob]
    /\ Advance(t)
    /\ UNCHANGED <<ctx, in_timer_cb, jobs, torn, timer, now, nearest, history, calls>>

\* It finds none: the callback goes on, the notification ends, an add or update drops the job
\* in the slot, and with it the one that the update has replaced
Fail(t, expr) ==
    /\ pc[t] = "store" /\ expr = 0
    /\ seen' = [seen EXCEPT ![t] = NoJob]
    /\ \/ t = TimerTask /\ Advance(t) /\ UNCHANGED <<table, stalled>>
       \/ Notifies(t) /\ GiveUp(t) /\ stalled' = TRUE /\ UNCHANGED table
       \/ OneSlot(t) /\ GiveUp(t) /\ Write(index[t], NoJob) /\ UNCHANGED stalled
    /\ UNCHANGED <<ctx, in_timer_cb, timer, now, nearest, raced, overlap, calls>>

-----------------------------------------------------------------------------
(* __cron_reschedule_locked. *)

\* The callback's last assignment goes with its last step
Leaves(t) ==
    /\ pc' = [pc EXCEPT ![t] = "idle"]
    /\ in_timer_cb' = (in_timer_cb /\ t # TimerTask)

\* The timer is stopped, except inside the callback
Stop(t) ==
    /\ pc[t] = "stop"
    /\ armed' = (armed /\ (in_timer_cb \/ ~up))
    /\ overlap' = (\E u \in Threads \ {t} : pc[u] # "idle")
    /\ \/ up /\ time_ready /\ pc' = [pc EXCEPT ![t] = "scan"] /\ UNCHANGED in_timer_cb
       \/ ~(up /\ time_ready) /\ Leaves(t)
    /\ UNCHANGED <<ctx, table, deadline, now, locals, raced, stalled, calls>>

\* The times of the jobs that wait
Candidates == {next_fire_ts[i] : i \in {k \in Slots : Live(jobs[k]) /\ next_fire_ts[k] > 0}}

\* Mutant: the comparison the wrong way round
ScanLatest(t) ==
    /\ pc[t] = "scan"
    /\ \/ Candidates = {} /\ Leaves(t) /\ stalled' = FALSE /\ UNCHANGED nearest
       \/ \E ts \in Candidates :
          /\ \A other \in Candidates : ts >= other
          /\ nearest' = [nearest EXCEPT ![t] = ts]
          /\ pc' = [pc EXCEPT ![t] = "arm"]
          /\ UNCHANGED <<in_timer_cb, stalled>>
    /\ UNCHANGED <<ctx, table, timer, now, index, job, seen, raced, overlap, calls>>

\* The earliest of them
Scan(t) ==
    /\ pc[t] = "scan"
    /\ \/ Candidates = {} /\ Leaves(t) /\ stalled' = FALSE /\ UNCHANGED nearest
       \/ \E ts \in Candidates :
          /\ \A other \in Candidates : ts <= other
          /\ nearest' = [nearest EXCEPT ![t] = ts]
          /\ pc' = [pc EXCEPT ![t] = "arm"]
          /\ UNCHANGED <<in_timer_cb, stalled>>
    /\ UNCHANGED <<ctx, table, timer, now, index, job, seen, raced, overlap, calls>>

\* The delay in milliseconds is an unsigned 32-bit number, and at least 1; the wake-ups within
\* the second in which nothing is left of it are one
Delay(ts) == IF ts <= now THEN 0 ELSE ((ts - now - 1) % Wrap) + 1

\* Mutant: a callback that takes its own timer to be running still
ArmUnlessFiring(t) ==
    /\ pc[t] = "arm"
    /\ \/ up /\ ~in_timer_cb /\ armed' = TRUE /\ deadline' = now + Delay(nearest[t])
       \/ ~(up /\ ~in_timer_cb) /\ UNCHANGED timer
    /\ nearest' = [nearest EXCEPT ![t] = 0]
    /\ stalled' = FALSE
    /\ Leaves(t)
    /\ UNCHANGED <<ctx, table, now, index, job, seen, raced, overlap, calls>>

Arm(t) ==
    /\ pc[t] = "arm"
    /\ \/ up /\ armed' = TRUE /\ deadline' = now + Delay(nearest[t])
       \/ ~up /\ UNCHANGED timer
    /\ nearest' = [nearest EXCEPT ![t] = 0]
    /\ stalled' = FALSE
    /\ Leaves(t)
    /\ UNCHANGED <<ctx, table, now, index, job, seen, raced, overlap, calls>>

-----------------------------------------------------------------------------
(* The timer callback, low power and time. *)

\* __cron_timer_cb: due jobs go to the work queue; a one-shot job leaves the table, the
\* others get their next time
TimerFires ==
    /\ pc[TimerTask] = "idle"
    /\ armed /\ deadline <= now
    /\ armed' = FALSE
    /\ in_timer_cb' = TRUE
    /\ pc' = [pc EXCEPT ![TimerTask] = "test"]
    /\ overlap' = (overlap \/ ~AllIdle)
    /\ UNCHANGED <<ctx, table, deadline, now, locals, raced, stalled, calls>>

\* The table is wiped, whoever is in the middle of a call
Wipe ==
    /\ time_ready' = FALSE
    /\ in_timer_cb' = FALSE
    /\ jobs' = [i \in Slots |-> NoJob]
    /\ next_fire_ts' = [i \in Slots |-> 0]
    /\ torn' = [i \in Slots |-> FALSE]
    /\ raced' = (raced \/ ~AllIdle)
    /\ overlap' = (overlap \/ ~AllIdle)
    /\ UNCHANGED <<deadline, now, pc, locals, stalled>>

\* wukong_cron_deinit, on the timer thread when the toy goes to sleep
Deinit ==
    /\ up /\ pc[TimerTask] = "idle" /\ calls > 0
    /\ calls' = calls - 1
    /\ up' = FALSE /\ next_job_seq' = 0 /\ armed' = FALSE
    /\ Wipe

\* wukong_cron_init, by the key press that wakes it
InitAgain ==
    /\ ~up
    /\ up' = TRUE /\ next_job_seq' = 1
    /\ Wipe
    /\ UNCHANGED <<armed, calls>>

\* A second passes; an expired timer fires first and calls take no time
Tick ==
    /\ AllIdle /\ now < MaxTime
    /\ ~(armed /\ deadline <= now)
    /\ now' = now + 1
    /\ UNCHANGED <<ctx, in_timer_cb, table, timer, pc, locals, history, calls>>

Init ==
    /\ up = TRUE /\ time_ready = FALSE /\ in_timer_cb = FALSE /\ next_job_seq = 1
    /\ jobs = [i \in Slots |-> NoJob]
    /\ next_fire_ts = [i \in Slots |-> 0]
    /\ torn = [i \in Slots |-> FALSE]
    /\ armed = FALSE /\ deadline = 0 /\ now = 1
    /\ pc = [t \in Threads |-> "idle"]
    /\ index = [t \in Threads |-> 1]
    /\ job = [t \in Threads |-> NoJob]
    /\ seen = [t \in Threads |-> NoJob]
    /\ nearest = [t \in Threads |-> 0]
    /\ raced = FALSE /\ overlap = FALSE /\ stalled = FALSE
    /\ calls = MaxCalls

Next ==
    \/ \E c \in Callers, enabled \in BOOLEAN, once \in BOOLEAN, expr \in Exprs :
          \/ AddAuto(c, enabled, once, expr)
          \/ \E id \in Names : AddNamed(c, id, enabled, once, expr) \/ Update(c, id, enabled, once, expr)
    \/ \E c \in Callers :
          \/ \E i \in Slots : Remove(c, jobs[i].id)
          \/ TimeReadyNotify(c)
          \/ Apply(c)
    \/ \E t \in Threads :
          \/ Test(t)
          \/ \E expr \in {seen[t].expr, jobs[index[t]].expr} : Store(t, expr) \/ Fail(t, expr)
          \/ Stop(t) \/ Scan(t) \/ Arm(t)
    \/ TimerFires \/ Deinit \/ InitAgain \/ Tick

Spec == Init /\ [][Next]_vars

-----------------------------------------------------------------------------
(* Properties. *)

\* Every variable keeps its type.
TypeOK ==
    /\ up \in BOOLEAN /\ time_ready \in BOOLEAN /\ in_timer_cb \in BOOLEAN /\ next_job_seq \in Nat
    /\ jobs \in [Slots -> Job]
    /\ next_fire_ts \in [Slots -> Nat] /\ torn \in [Slots -> BOOLEAN]
    /\ armed \in BOOLEAN /\ deadline \in Nat /\ now \in Nat
    /\ pc \in [Threads -> {"idle", "apply", "test", "store", "stop", "scan", "arm"}]
    /\ index \in [Threads -> Slots] /\ job \in [Threads -> Job] /\ seen \in [Threads -> Job]
    /\ nearest \in [Threads -> Nat]
    /\ raced \in BOOLEAN /\ overlap \in BOOLEAN /\ stalled \in BOOLEAN /\ calls \in Nat

\* The time in a slot is a time of the enabled job in it, and the clock can be trusted: no
\* order of adds, updates, removals, sleeps and callbacks leaves a time behind or gives a job
\* the time of another (__job_compute_next_fire, __job_reset).  The exception is a slot that
\* changed between the test of used, enabled and time_ready and the store of the time.
TimesBelong ==
    \A i \in Slots : next_fire_ts[i] > 0 /\ ~torn[i] =>
        /\ time_ready /\ Live(jobs[i])
        /\ \E from \in 0..now : next_fire_ts[i] = NextFire(jobs[i].expr, from)

\* No two jobs have the same id, so wukong_cron_job_remove and _update mean one job.
UniqueIds == \A i, k \in Slots : jobs[i].used /\ jobs[k].used /\ jobs[i].id = jobs[k].id => i = k

\* The slot that a call has chosen and will overwrite, or reset because its job cannot be
\* scheduled, holds no job but the one the call is about (wukong_cron_job_add, _update, _remove).
NoJobOverwritten ==
    \A c \in Callers :
        (pc[c] = "apply" \/ OneSlot(c)) /\ jobs[index[c]].used => jobs[index[c]].id = job[c].id

\* The table stays intact as long as calls do not overlap one another (they may overlap the
\* timer callback, which frees slots in between) and callers do not choose ids of the form
\* the module generates: no id is given twice and no call makes another job disappear.
TableIntact == ~raced => UniqueIds /\ NoJobOverwritten

\* When no call is running and some job waits for its time, the timer runs, even if calls and
\* callbacks overlapped: a stop never has the last word (__cron_reschedule_locked).  The
\* exception is a wukong_cron_time_ready_notify that gave up.
WaitingJobArmsTimer == (AllIdle /\ up /\ time_ready /\ Candidates # {} /\ ~stalled) => armed

\* If the last reschedule was alone the timer also fires no later than the first of these
\* jobs, or at once if its time has passed, even where the 32-bit delay wraps around.
TimerCoversJobs ==
    (AllIdle /\ up /\ time_ready /\ ~stalled /\ ~overlap) =>
        \A ts \in Candidates : armed /\ (deadline <= ts \/ deadline <= now)
=============================================================================
