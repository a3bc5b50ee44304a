----------------------------- MODULE CronProofs -----------------------------
(* Proofs about Cron, for any number of threads, slots, jobs and calls. *)
EXTENDS Cron, TLAPS

-----------------------------------------------------------------------------
(* Types. *)

PCs == {"idle", "apply", "test", "store", "stop", "scan", "arm"}

\* wukong_cron_expr_next_fire returns a time.
LEMMA NextFireNat == ASSUME NEW expr \in Nat, NEW from \in Nat PROVE NextFire(expr, from) \in Nat
<1>1. CASE expr = 0
  BY <1>1 DEF NextFire
<1>2. CASE expr # 0
  <2>1. (from \div expr) + 1 \in Nat
    BY <1>2
  <2>2. \A q \in Nat : q * expr \in Nat
    OBVIOUS
  <2> QED BY <1>2, <2>1, <2>2 DEF NextFire
<1> QED BY <1>1, <1>2

\* The timer's delay is a number of seconds.
LEMMA DelayNat == ASSUME NEW ts \in Nat, now \in Nat PROVE Delay(ts) \in Nat
<1>1. CASE ts <= now
  BY <1>1 DEF Delay
<1>2. CASE ~(ts <= now)
  <2>1. ts - now - 1 \in Int
    BY <1>2
  <2>2. \A d \in Int : d % Wrap \in Nat
    BY TimeAssumption
  <2> QED BY <1>2, <2>1, <2>2 DEF Delay
<1> QED BY <1>1, <1>2

\* The memset slot is a job.
LEMMA NoJobIsJob == NoJob \in Job /\ ~Live(NoJob)
BY DEF NoJob, Job, Live

\* __job_parse_json yields a job.
LEMMA ParsedIsJob ==
    ASSUME NEW enabled \in BOOLEAN, NEW once \in BOOLEAN, NEW id \in Nat, NEW expr \in Nat
    PROVE  Parsed(enabled, once, id, expr) \in Job
BY DEF Parsed, Job

\* __job_reset and the copy of a job leave a slot without a time.
LEMMA WriteType ==
    ASSUME TypeOK, NEW i \in Slots, NEW j \in Job, Write(i, j)
    PROVE  /\ jobs' \in [Slots -> Job] /\ next_fire_ts' \in [Slots -> Nat] /\ torn' \in [Slots -> BOOLEAN]
           /\ jobs'[i] = j /\ next_fire_ts'[i] = 0
           /\ \A k \in Slots \ {i} : /\ jobs'[k] = jobs[k] /\ next_fire_ts'[k] = next_fire_ts[k]
                                     /\ torn'[k] = torn[k]
BY DEF TypeOK, Write

\* A loop over the table goes on to the next slot or to the reschedule.
LEMMA AdvanceFacts ==
    ASSUME TypeOK, NEW t \in Threads, Advance(t)
    PROVE  /\ pc' \in [Threads -> PCs] /\ index' \in [Threads -> Slots] /\ job' \in [Threads -> Job]
           /\ pc'[t] \in {"test", "stop"}
           /\ pc'[t] = "test" => ~job[t].used /\ job'[t] = job[t]
           /\ pc'[t] = "stop" => ~job'[t].used
           /\ \A u \in Threads \ {t} : pc'[u] = pc[u] /\ job'[u] = job[u] /\ index'[u] = index[u]
<1>t. /\ pc \in [Threads -> PCs] /\ index \in [Threads -> Slots] /\ job \in [Threads -> Job]
      /\ MaxJobs \in Nat /\ 1 \in Slots /\ index[t] \in Nat
  BY JobsAssumption DEF TypeOK, PCs, Slots
<1>1. CASE /\ ~OneSlot(t) /\ index[t] < MaxJobs
           /\ index' = [index EXCEPT ![t] = @ + 1]
           /\ pc' = [pc EXCEPT ![t] = "test"]
           /\ UNCHANGED job
  <2>1. index[t] + 1 \in Slots
    BY <1>t, <1>1 DEF Slots
  <2> QED BY <1>t, <1>1, <2>1 DEF OneSlot, PCs
<1>2. CASE /\ index' = [index EXCEPT ![t] = 1]
           /\ pc' = [pc EXCEPT ![t] = "stop"]
           /\ job' = [job EXCEPT ![t] = NoJob]
  <2>1. NoJob \in Job /\ ~NoJob.used
    BY DEF NoJob, Job
  <2> QED BY <1>t, <1>2, <2>1 DEF PCs
<1> QED BY <1>1, <1>2 DEF Advance

\* A thread that gives up is idle again.
LEMMA GiveUpFacts ==
    ASSUME TypeOK, NEW t \in Threads, GiveUp(t)
    PROVE  /\ pc' \in [Threads -> PCs] /\ index' \in [Threads -> Slots] /\ job' \in [Threads -> Job]
           /\ pc'[t] = "idle" /\ ~job'[t].used
           /\ \A u \in Threads \ {t} : pc'[u] = pc[u] /\ job'[u] = job[u] /\ index'[u] = index[u]
<1>1. NoJob \in Job /\ ~NoJob.used /\ 1 \in Slots
  BY JobsAssumption DEF NoJob, Job, Slots
<1> QED BY <1>1 DEF GiveUp, TypeOK, PCs

\* What a step of __job_compute_next_fire does to the table, the thread and the timer.
LEMMA ComputeFacts ==
    ASSUME TypeOK, NEW t \in Threads, NEW expr \in Nat,
           Test(t) \/ Store(t, expr) \/ Fail(t, expr)
    PROVE  /\ jobs' \in [Slots -> Job] /\ next_fire_ts' \in [Slots -> Nat] /\ torn' \in [Slots -> BOOLEAN]
           /\ pc' \in [Threads -> PCs] /\ index' \in [Threads -> Slots] /\ job' \in [Threads -> Job]
           /\ pc[t] \in {"test", "store"} /\ pc'[t] \in {"test", "store", "stop", "idle"}
           /\ pc'[t] = "test" => ~job[t].used
           /\ pc'[t] \in {"test", "store"} => job'[t] = job[t]
           /\ pc'[t] = "store" => index' = index
           /\ pc'[t] \in {"stop", "idle"} => ~job'[t].used
           /\ pc'[t] = "idle" => job[t].used \/ stalled'
           /\ pc'[t] # "idle" => stalled' = stalled
           /\ \A u \in Threads \ {t} : pc'[u] = pc[u] /\ job'[u] = job[u] /\ index'[u] = index[u]
           /\ \A i \in Slots : jobs'[i] # jobs[i] => ~jobs'[i].used /\ next_fire_ts'[i] = 0
           /\ pc'[t] \in {"store", "idle"} =>
                 \A i \in Slots : next_fire_ts'[i] = next_fire_ts[i] \/ next_fire_ts'[i] = 0
           /\ UNCHANGED <<ctx, in_timer_cb, timer, now, nearest, raced, overlap, calls>>
<1>t. /\ index[t] \in Slots /\ jobs \in [Slots -> Job] /\ next_fire_ts \in [Slots -> Nat]
      /\ torn \in [Slots -> BOOLEAN] /\ now \in Nat /\ job \in [Threads -> Job]
      /\ NoJob \in Job /\ ~NoJob.used
      /\ pc \in [Threads -> PCs] /\ index \in [Threads -> Slots]
  BY DEF TypeOK, NoJob, Job, PCs
<1>1. CASE Test(t)
  <2>0. pc[t] = "test" /\ UNCHANGED <<ctx, in_timer_cb, timer, now, nearest, raced, overlap, stalled, calls>>
    BY <1>1 DEF Test, history
  <2>1. CASE Advance(t) /\ UNCHANGED <<table, seen>>
    BY <1>t, <2>0, <2>1, AdvanceFacts DEF table
  <2>2. CASE Advance(t) /\ Write(index[t], NoJob)
    BY <1>t, <2>0, <2>2, AdvanceFacts, WriteType
  <2>3. CASE Write(index[t], jobs[index[t]]) /\ Advance(t)
    <3>1. jobs[index[t]] \in Job
      BY <1>t
    <3>2. \A i \in Slots : jobs'[i] = jobs[i]
      BY <1>t, <2>3, <3>1, WriteType
    <3> QED BY <1>t, <2>0, <2>3, <3>1, <3>2, AdvanceFacts, WriteType
  <2>4. CASE Write(index[t], jobs[index[t]]) /\ pc' = [pc EXCEPT ![t] = "store"] /\ UNCHANGED <<index, job>>
    <3>1. jobs[index[t]] \in Job
      BY <1>t
    <3>2. \A i \in Slots : jobs'[i] = jobs[i]
      BY <1>t, <2>4, <3>1, WriteType
    <3>3. \A i \in Slots : next_fire_ts'[i] = next_fire_ts[i] \/ next_fire_ts'[i] = 0
      BY <1>t, <2>4, <3>1, WriteType
    <3>4. pc'[t] = "store" /\ pc' \in [Threads -> PCs] /\ \A u \in Threads \ {t} : pc'[u] = pc[u]
      BY <1>t, <2>4 DEF PCs
    <3> QED BY <1>t, <2>0, <2>4, <3>1, <3>2, <3>3, <3>4, WriteType
  <2> QED BY <1>1, <2>1, <2>2, <2>3, <2>4 DEF Test
<1>2. CASE Store(t, expr)
  <2>0. /\ pc[t] = "store" /\ Advance(t) /\ jobs' = jobs
        /\ UNCHANGED <<ctx, in_timer_cb, timer, now, nearest, raced, overlap, stalled, calls>>
    BY <1>2 DEF Store, history
  <2>1. next_fire_ts' \in [Slots -> Nat]
    <3>1. NextFire(expr, now) \in Nat
      BY <1>t, NextFireNat
    <3> QED BY <1>t, <1>2, <3>1 DEF Store
  <2>2. torn' \in [Slots -> BOOLEAN]
    BY <1>t, <1>2, Zenon DEF Store
  <2> QED BY <1>t, <2>0, <2>1, <2>2, AdvanceFacts
<1>3. CASE Fail(t, expr)
  <2>0. pc[t] = "store" /\ UNCHANGED <<ctx, in_timer_cb, timer, now, nearest, raced, overlap, calls>>
    BY <1>3 DEF Fail
  <2>1. CASE Advance(t) /\ UNCHANGED <<table, stalled>>
    BY <1>t, <2>0, <2>1, AdvanceFacts DEF table
  <2>2. CASE GiveUp(t) /\ stalled' = TRUE /\ UNCHANGED table
    BY <1>t, <2>0, <2>2, GiveUpFacts DEF table
  <2>3. CASE OneSlot(t) /\ GiveUp(t) /\ Write(index[t], NoJob) /\ UNCHANGED stalled
    BY <1>t, <2>0, <2>3, GiveUpFacts, WriteType DEF OneSlot
  <2> QED BY <1>3, <2>1, <2>2, <2>3 DEF Fail
<1> QED BY <1>1, <1>2, <1>3

\* The search keeps the type of what it has seen.
LEMMA SeenType ==
    ASSUME TypeOK, NEW t \in Threads, NEW expr, Test(t) \/ Store(t, expr) \/ Fail(t, expr)
    PROVE  seen' \in [Threads -> Job]
<1>1. NoJob \in Job /\ index[t] \in Slots /\ jobs[index[t]] \in Job
  BY DEF NoJob, Job, TypeOK
<1> QED BY <1>1 DEF Test, Store, Fail, TypeOK

\* Every operation of the service keeps the types.
LEMMA TypeStep == TypeOK /\ [Next]_vars => TypeOK'
<1> SUFFICES ASSUME TypeOK, [Next]_vars PROVE TypeOK'
  OBVIOUS
<1> USE DEF TypeOK, ctx, table, timer, locals, history
<1>c. 1 \in Slots /\ Callers \subseteq Threads /\ TimerTask \in Threads
  BY JobsAssumption DEF Slots, Threads
<1>1. ASSUME NEW c \in Callers, NEW enabled \in BOOLEAN, NEW once \in BOOLEAN, NEW expr \in Exprs,
             AddAuto(c, enabled, once, expr)
      PROVE  TypeOK'
  <2>1. Parsed(enabled, once, next_job_seq, expr) \in Job
    BY ParsedIsJob, JobsAssumption
  <2> QED BY <1>1, <1>c, <2>1 DEF AddAuto, Begin, Choose
<1>2. ASSUME NEW c \in Callers, NEW enabled \in BOOLEAN, NEW once \in BOOLEAN, NEW expr \in Exprs,
             NEW id \in Names, AddNamed(c, id, enabled, once, expr) \/ Update(c, id, enabled, once, expr)
      PROVE  TypeOK'
  <2>1. Parsed(enabled, once, id, expr) \in Job
    BY ParsedIsJob, JobsAssumption
  <2>2. \E i \in Slots : Begin(c) /\ Choose(c, i, Parsed(enabled, once, id, expr)) /\ UNCHANGED ctx
    BY <1>2 DEF AddNamed, Update
  <2> QED BY <1>c, <2>1, <2>2 DEF Begin, Choose
<1>3. ASSUME NEW c \in Callers, NEW i \in Slots, Remove(c, jobs[i].id) PROVE TypeOK'
  <2>1. [NoJob EXCEPT !.id = jobs[i].id] \in Job
    BY DEF NoJob, Job
  <2> QED BY <1>3, <1>c, <2>1 DEF Remove, Begin, Choose
<1>4. ASSUME NEW c \in Callers, TimeReadyNotify(c) PROVE TypeOK'
  BY <1>4, <1>c DEF TimeReadyNotify, Begin
<1>5. ASSUME NEW c \in Callers, Apply(c) PROVE TypeOK'
  <2>1. job[c] \in Job /\ index[c] \in Slots
    BY <1>c
  <2>2. jobs' \in [Slots -> Job] /\ next_fire_ts' \in [Slots -> Nat] /\ torn' \in [Slots -> BOOLEAN]
    BY <1>5, <2>1, NoJobIsJob, WriteType DEF Apply
  <2>3. pc' \in [Threads -> PCs] /\ index' \in [Threads -> Slots] /\ job' \in [Threads -> Job]
    BY <1>5, <1>c, NoJobIsJob DEF Apply, PCs
  <2> QED BY <1>5, <2>2, <2>3 DEF Apply, PCs
<1>6. ASSUME NEW t \in Threads, Stop(t) PROVE TypeOK'
  BY <1>6 DEF Stop, Leaves
<1>7. ASSUME NEW t \in Threads, Scan(t) PROVE TypeOK'
  <2>1. Candidates \subseteq Nat
    BY DEF Candidates
  <2> QED BY <1>7, <2>1 DEF Scan, Leaves
<1>8. ASSUME NEW t \in Threads, Arm(t) PROVE TypeOK'
  <2>1. Delay(nearest[t]) \in Nat
    BY DelayNat
  <2>2. (armed' = TRUE /\ deadline' = now + Delay(nearest[t])) \/ (armed' = armed /\ deadline' = deadline)
    BY <1>8 DEF Arm
  <2>3. deadline' \in Nat
    BY <2>1, <2>2
  <2>4. armed' \in BOOLEAN
    BY <2>2
  <2> QED BY <1>8, <2>3, <2>4 DEF Arm, Leaves
<1>9. CASE TimerFires
  BY <1>9, <1>c DEF TimerFires
<1>10. CASE Deinit
  <2>1. next_fire_ts' \in [Slots -> Nat] /\ jobs' \in [Slots -> Job] /\ calls' \in Nat
        /\ torn' \in [Slots -> BOOLEAN]
    BY <1>10, NoJobIsJob DEF Deinit, Wipe
  <2> QED BY <1>10, <2>1 DEF Deinit, Wipe
<1>11. CASE InitAgain
  BY <1>11, NoJobIsJob DEF InitAgain, Wipe
<1>12. CASE Tick
  BY <1>12 DEF Tick
<1>13. CASE UNCHANGED vars
  BY <1>13 DEF vars
<1>14. ASSUME NEW t \in Threads, NEW expr \in {seen[t].expr, jobs[index[t]].expr},
              Test(t) \/ Store(t, expr) \/ Fail(t, expr)
       PROVE  TypeOK'
  <2>1. expr \in Nat
    BY DEF Job
  <2>2. stalled' \in BOOLEAN
    BY <1>14 DEF Test, Store, Fail
  <2> QED BY <1>14, <2>1, <2>2, ComputeFacts, SeenType DEF PCs
<1>15. \A t \in Threads : {seen[t].expr, jobs[index[t]].expr} # {}
  OBVIOUS
<1> QED
  BY <1>1, <1>2, <1>3, <1>4, <1>5, <1>6, <1>7, <1>8, <1>9, <1>10, <1>11, <1>12, <1>13, <1>14, <1>15
     DEF Next

\* The service keeps its types: no order of calls, callbacks, sleeps and ticks gives a slot, a
\* deadline or a thread's local variable a value outside its range.
THEOREM TypeCorrect == Spec => []TypeOK
<1>1. Init => TypeOK
  <2>1. 1 \in Slots
    BY JobsAssumption DEF Slots
  <2>2. Init => /\ jobs \in [Slots -> Job] /\ next_fire_ts \in [Slots -> Nat]
                /\ torn \in [Slots -> BOOLEAN] /\ seen \in [Threads -> Job]
                /\ index \in [Threads -> Slots] /\ job \in [Threads -> Job]
                /\ nearest \in [Threads -> Nat] /\ pc \in [Threads -> PCs]
    BY <2>1, NoJobIsJob DEF Init, PCs
  <2>3. Init => next_job_seq \in Nat /\ deadline \in Nat /\ now \in Nat /\ calls \in Nat
    BY TimeAssumption DEF Init
  <2> QED BY <2>2, <2>3 DEF Init, TypeOK, PCs
<1> QED BY <1>1, TypeStep, PTL DEF Spec

-----------------------------------------------------------------------------
(* The table. *)

\* A thread that searches has seen an enabled job
SeenInv == \A t \in Threads : pc[t] = "store" => Live(seen[t])

\* Every step keeps SeenInv.
LEMMA SeenStep == TypeOK /\ SeenInv /\ [Next]_vars => SeenInv'
<1> SUFFICES ASSUME TypeOK, SeenInv, [Next]_vars, NEW u \in Threads, pc'[u] = "store"
             PROVE  Live(seen'[u])
  BY DEF SeenInv, Live
<1>c. Callers \subseteq Threads /\ TimerTask \in Threads /\ pc \in [Threads -> PCs] /\ seen \in [Threads -> Job]
  BY DEF Threads, TypeOK, PCs
<1>u. ASSUME seen' = seen, NEW t \in Threads, NEW q \in PCs \ {"store"}, pc' = pc \/ pc' = [pc EXCEPT ![t] = q]
      PROVE  Live(seen'[u])
  BY <1>u, <1>c DEF SeenInv
<1>1. ASSUME NEW c \in Callers, NEW enabled, NEW once, NEW expr, AddAuto(c, enabled, once, expr)
      PROVE  Live(seen'[u])
  BY <1>1, <1>c, <1>u DEF AddAuto, Begin, Choose, PCs
<1>2. ASSUME NEW c \in Callers, NEW enabled, NEW once, NEW expr, NEW id,
             AddNamed(c, id, enabled, once, expr) \/ Update(c, id, enabled, once, expr) \/ Remove(c, id)
      PROVE  Live(seen'[u])
  BY <1>2, <1>c, <1>u DEF AddNamed, Update, Remove, Begin, Choose, PCs
<1>4. ASSUME NEW c \in Callers, TimeReadyNotify(c) PROVE Live(seen'[u])
  BY <1>4, <1>c, <1>u DEF TimeReadyNotify, Begin, PCs
<1>5. ASSUME NEW c \in Callers, Apply(c) PROVE Live(seen'[u])
  BY <1>5, <1>c, <1>u DEF Apply, PCs
<1>6. ASSUME NEW t \in Threads, Stop(t) \/ Scan(t) \/ Arm(t) PROVE Live(seen'[u])
  BY <1>6, <1>c, <1>u DEF Stop, Scan, Arm, Leaves, locals, PCs
<1>7. ASSUME NEW t \in Threads, NEW expr \in {seen[t].expr, jobs[index[t]].expr},
             Test(t) \/ Store(t, expr) \/ Fail(t, expr)
      PROVE  Live(seen'[u])
  <2>1. expr \in Nat
    BY DEF TypeOK, Job
  <2>2. CASE u # t
    <3>1. pc[u] = "store"
      BY <1>7, <2>1, <2>2, ComputeFacts
    <3>2. seen'[u] = seen[u]
      BY <1>7, <1>c, <2>2 DEF Test, Store, Fail
    <3> QED BY <3>1, <3>2 DEF SeenInv
  <2>3. CASE u = t
    <3>1. ~Advance(t) /\ ~GiveUp(t)
      BY <2>3, AdvanceFacts, GiveUpFacts
    <3>2. Schedulable(jobs[index[t]]) /\ seen' = [seen EXCEPT ![t] = jobs[index[t]]]
      BY <1>7, <3>1 DEF Test, Store, Fail
    <3> QED BY <1>c, <2>3, <3>2 DEF Schedulable
  <2> QED BY <2>2, <2>3
<1>9. CASE TimerFires
  BY <1>9, <1>c, <1>u DEF TimerFires, locals, PCs
<1>10. CASE Deinit \/ InitAgain \/ Tick \/ UNCHANGED vars
  BY <1>10 DEF Deinit, InitAgain, Wipe, Tick, vars, locals, SeenInv
<1> QED
  BY <1>1, <1>2, <1>4, <1>5, <1>6, <1>7, <1>9, <1>10 DEF Next

\* A time is stored for the job that was seen, and every operation that takes the job or the
\* clock away takes the time away too.
LEMMA BelongStep == TypeOK /\ SeenInv /\ TimesBelong /\ [Next]_vars => TimesBelong'
<1> DEFINE Own(i) == /\ time_ready /\ Live(jobs[i])
                     /\ \E from \in 0..now : next_fire_ts[i] = NextFire(jobs[i].expr, from)
<1> SUFFICES ASSUME TypeOK, SeenInv, TimesBelong, [Next]_vars,
                    NEW i \in Slots, next_fire_ts'[i] > 0, ~torn'[i]
             PROVE  Own(i)'
  BY DEF TimesBelong
<1>t. now \in Nat /\ Callers \subseteq Threads
  BY DEF TypeOK, Threads
<1>u. ASSUME jobs'[i] = jobs[i], next_fire_ts'[i] = next_fire_ts[i], torn'[i] = torn[i],
             time_ready' = time_ready \/ time_ready', now' = now
      PROVE  Own(i)'
  BY <1>u DEF TimesBelong, Live
<1>1. ASSUME NEW c \in Callers, NEW enabled, NEW once, NEW expr, AddAuto(c, enabled, once, expr)
      PROVE  Own(i)'
  BY <1>1, <1>u DEF AddAuto, Begin, table
<1>2. ASSUME NEW c \in Callers, NEW enabled, NEW once, NEW expr, NEW id,
             AddNamed(c, id, enabled, once, expr) \/ Update(c, id, enabled, once, expr) \/ Remove(c, id)
      PROVE  Own(i)'
  BY <1>2, <1>u DEF AddNamed, Update, Remove, Begin, table, ctx
<1>4. ASSUME NEW c \in Callers, TimeReadyNotify(c) PROVE Own(i)'
  BY <1>4, <1>u DEF TimeReadyNotify, Begin, table
<1>w. ASSUME NEW k \in Slots, NEW j \in Job, Write(k, j), UNCHANGED <<time_ready, now>>
      PROVE  Own(i)'
  <2>1. i # k
    BY <1>w, WriteType
  <2> QED BY <1>u, <1>w, <2>1, WriteType
<1>5. ASSUME NEW c \in Callers, Apply(c) PROVE Own(i)'
  <2>1. job[c] \in Job /\ index[c] \in Slots
    BY <1>t DEF TypeOK
  <2> QED BY <1>5, <1>w, <2>1, NoJobIsJob DEF Apply, ctx
<1>6. ASSUME NEW t \in Threads, Stop(t) \/ Scan(t) \/ Arm(t) PROVE Own(i)'
  BY <1>6, <1>u DEF Stop, Scan, Arm, table, ctx
<1>7. ASSUME NEW t \in Threads, NEW expr \in {seen[t].expr, jobs[index[t]].expr}, Store(t, expr)
      PROVE  Own(i)'
  <2>1. jobs' = jobs /\ UNCHANGED <<time_ready, now>> /\ index[t] \in Slots
    BY <1>7 DEF Store, ctx, TypeOK
  <2>2. CASE i # index[t]
    BY <1>7, <1>u, <2>1, <2>2 DEF Store, TypeOK
  <2>3. CASE i = index[t]
    <3>1. jobs[i] = seen[t] /\ time_ready
      BY <1>7, <2>1, <2>3 DEF Store, TypeOK
    <3>2. Live(jobs[i])
      BY <1>7, <3>1 DEF SeenInv, Store
    <3>3. next_fire_ts'[i] = NextFire(jobs[i].expr, now)
      BY <1>7, <2>1, <2>3, <3>1 DEF Store, TypeOK
    <3> QED BY <1>t, <2>1, <3>1, <3>2, <3>3
  <2> QED BY <2>2, <2>3
<1>8. ASSUME NEW t \in Threads, NEW expr, Test(t) \/ Fail(t, expr) PROVE Own(i)'
  <2>1. jobs[index[t]] \in Job /\ index[t] \in Slots
    BY DEF TypeOK
  <2>2. UNCHANGED <<time_ready, now>>
    BY <1>8 DEF Test, Fail, ctx
  <2>3. UNCHANGED table \/ Write(index[t], NoJob) \/ Write(index[t], jobs[index[t]])
    BY <1>8 DEF Test, Fail
  <2> QED BY <1>u, <1>w, <2>1, <2>2, <2>3, NoJobIsJob DEF table
<1>9. CASE TimerFires \/ UNCHANGED vars
  BY <1>9, <1>u DEF TimerFires, vars, table, ctx
<1>10. CASE Deinit \/ InitAgain
  BY <1>10 DEF Deinit, InitAgain, Wipe
<1>12. CASE Tick
  <2>1. UNCHANGED <<jobs, next_fire_ts, torn, time_ready>> /\ now' = now + 1
    BY <1>12 DEF Tick, table, ctx
  <2>2. 0..now \subseteq 0..now'
    BY <1>t, <2>1
  <2> QED BY <2>1, <2>2 DEF TimesBelong, Live
<1> QED
  BY <1>1, <1>2, <1>4, <1>5, <1>6, <1>7, <1>8, <1>9, <1>10, <1>12 DEF Next

\* The time in a slot is one of the enabled job in it, whatever calls, callbacks and sleeps
\* overlap, unless the slot changed between the test and the store of __job_compute_next_fire.
THEOREM TimesBelongToJobs == Spec => []TimesBelong
<1>1. Init => SeenInv /\ TimesBelong
  BY DEF Init, SeenInv, TimesBelong
<1> QED BY <1>1, TypeCorrect, SeenStep, BelongStep, PTL DEF Spec

-----------------------------------------------------------------------------
(* The timer. *)

\* A thread that has no job to write runs the API's reschedule or a loop over the table, and the
\* timer thread never has one
LocalsInv ==
    /\ \A t \in Threads : pc[t] \notin {"apply", "test", "store"} => ~job[t].used
    /\ ~job[TimerTask].used

\* A thread that will start the timer or give up as a notification: in __cron_reschedule_locked,
\* in the notification or in the callback
Reschedules(t) == \/ pc[t] \in {"stop", "scan", "arm"}
                  \/ pc[t] \in {"test", "store"} /\ ~job[t].used

Rescheduling == \E t \in Threads : Reschedules(t)

\* While a job waits the timer runs or some thread is about to start it
ArmedOrRescheduling ==
    (up /\ time_ready /\ ~stalled /\ Candidates # {}) => armed \/ Rescheduling

\* Only a change of the table makes a job wait.
LEMMA SameCandidates ==
    UNCHANGED table => Candidates' = Candidates
BY DEF Candidates, table, Live

\* A slot that is freed or loses its time waits no more.
LEMMA FewerCandidates ==
    ASSUME TypeOK,
           \A i \in Slots : jobs'[i] # jobs[i] => ~jobs'[i].used \/ next_fire_ts'[i] = 0,
           \A i \in Slots : next_fire_ts'[i] = next_fire_ts[i] \/ next_fire_ts'[i] = 0
    PROVE  Candidates' \subseteq Candidates
<1>1. \A i \in Slots : Live(jobs'[i]) /\ next_fire_ts'[i] > 0 =>
          jobs'[i] = jobs[i] /\ next_fire_ts'[i] = next_fire_ts[i]
  BY DEF Live
<1> QED BY <1>1 DEF Candidates, Live

\* Every step keeps LocalsInv.
LEMMA LocalsStep == TypeOK /\ LocalsInv /\ [Next]_vars => LocalsInv'
<1> SUFFICES ASSUME TypeOK, LocalsInv, [Next]_vars PROVE LocalsInv'
  OBVIOUS
<1>c. /\ Callers \subseteq Threads /\ TimerTask \in Threads /\ TimerTask \notin Callers
      /\ pc \in [Threads -> PCs] /\ job \in [Threads -> Job] /\ ~NoJob.used
  BY TimerTaskAssumption DEF Threads, TypeOK, PCs, NoJob
<1>b. ASSUME NEW c \in Callers, NEW i, NEW j, Choose(c, i, j) PROVE LocalsInv'
  BY <1>b, <1>c DEF Choose, LocalsInv
<1>1. ASSUME NEW c \in Callers, NEW enabled, NEW once, NEW expr, AddAuto(c, enabled, once, expr)
      PROVE  LocalsInv'
  BY <1>1, <1>b DEF AddAuto, LocalsInv
<1>2. ASSUME NEW c \in Callers, NEW enabled, NEW once, NEW expr, NEW id,
             AddNamed(c, id, enabled, once, expr) \/ Update(c, id, enabled, once, expr) \/ Remove(c, id)
      PROVE  LocalsInv'
  BY <1>2, <1>b DEF AddNamed, Update, Remove
<1>4. ASSUME NEW c \in Callers, TimeReadyNotify(c) PROVE LocalsInv'
  BY <1>4, <1>c DEF TimeReadyNotify, LocalsInv
<1>5. ASSUME NEW c \in Callers, Apply(c) PROVE LocalsInv'
  BY <1>5, <1>c DEF Apply, LocalsInv
<1>6. ASSUME NEW t \in Threads, Stop(t) \/ Scan(t) \/ Arm(t) PROVE LocalsInv'
  BY <1>6, <1>c DEF Stop, Scan, Arm, Leaves, locals, LocalsInv
<1>7. ASSUME NEW t \in Threads, NEW expr \in {seen[t].expr, jobs[index[t]].expr},
             Test(t) \/ Store(t, expr) \/ Fail(t, expr)
      PROVE  LocalsInv'
  <2>1. expr \in Nat
    BY DEF TypeOK, Job
  <2>2. \A u \in Threads : pc'[u] \notin {"apply", "test", "store"} => ~job'[u].used
    BY <1>7, <2>1, ComputeFacts DEF LocalsInv
  <2>3. ~job'[TimerTask].used
    BY <1>7, <1>c, <2>1, ComputeFacts DEF LocalsInv
  <2> QED BY <2>2, <2>3 DEF LocalsInv
<1>9. CASE TimerFires
  BY <1>9, <1>c DEF TimerFires, locals, LocalsInv
<1>10. CASE Deinit \/ InitAgain \/ Tick \/ UNCHANGED vars
  BY <1>10 DEF Deinit, InitAgain, Wipe, Tick, vars, locals, LocalsInv
<1> QED
  BY <1>1, <1>2, <1>4, <1>5, <1>6, <1>7, <1>9, <1>10 DEF Next

\* In every reachable state only an add, update or removal has a job to write.
LEMMA LocalsAlways == Spec => []LocalsInv
<1>1. Init => LocalsInv
  BY DEF Init, LocalsInv, NoJob, Threads
<1> QED BY <1>1, LocalsStep, TypeCorrect, PTL DEF Spec

\* A computation ends in a reschedule, in a notification that has stalled or with fewer jobs
\* that wait; it keeps a thread that reschedules until then.
LEMMA ComputeReschedules ==
    ASSUME TypeOK, NEW t \in Threads, NEW expr \in {seen[t].expr, jobs[index[t]].expr},
           Test(t) \/ Store(t, expr) \/ Fail(t, expr)
    PROVE  /\ \/ Reschedules(t)'
              \/ stalled'
              \/ /\ ~Reschedules(t) /\ stalled' = stalled
                 /\ Candidates' \subseteq Candidates
           /\ \A u \in Threads \ {t} : Reschedules(u)' <=> Reschedules(u)
           /\ UNCHANGED <<ctx, in_timer_cb, timer, now, nearest, raced, overlap, calls>>
<1>1. expr \in Nat
  BY DEF TypeOK, Job
<1>2. \A u \in Threads \ {t} : Reschedules(u)' <=> Reschedules(u)
  BY <1>1, ComputeFacts DEF Reschedules
<1>3. CASE pc'[t] \in {"test", "stop"}
  BY <1>1, <1>3, ComputeFacts DEF Reschedules
<1>4. CASE pc'[t] = "store"
  <2>1. Candidates' \subseteq Candidates
    BY <1>1, <1>4, ComputeFacts, FewerCandidates
  <2> QED BY <1>1, <1>2, <1>4, <2>1, ComputeFacts DEF Reschedules
<1>5. CASE pc'[t] = "idle"
  <2>1. Candidates' \subseteq Candidates
    BY <1>1, <1>5, ComputeFacts, FewerCandidates
  <2>2. stalled' \/ (~Reschedules(t) /\ stalled' = stalled)
    <3>1. CASE Fail(t, expr)
      BY <1>1, <1>5, <3>1, ComputeFacts DEF Reschedules, Fail, OneSlot
    <3>2. CASE Test(t) \/ Store(t, expr)
      <4>1. ~Advance(t)
        BY <1>5, AdvanceFacts
      <4>2. pc' = [pc EXCEPT ![t] = "store"]
        BY <3>2, <4>1 DEF Test, Store
      <4> QED BY <1>5, <4>2 DEF TypeOK
    <3> QED BY <3>1, <3>2
  <2> QED BY <1>1, <1>2, <2>1, <2>2, ComputeFacts
<1> QED BY <1>1, <1>3, <1>4, <1>5, ComputeFacts

\* Every operation keeps ArmedOrRescheduling.
LEMMA ArmedStep ==
    TypeOK /\ LocalsInv /\ ArmedOrRescheduling /\ [Next]_vars => ArmedOrRescheduling'
<1> SUFFICES ASSUME TypeOK, LocalsInv, ArmedOrRescheduling, [Next]_vars,
                    up', time_ready', ~stalled', Candidates' # {}
             PROVE  armed' \/ Rescheduling'
  BY DEF ArmedOrRescheduling
<1>c. Callers \subseteq Threads /\ TimerTask \in Threads
  BY DEF Threads
<1>p. pc \in [Threads -> PCs] /\ job \in [Threads -> Job]
  BY DEF TypeOK, PCs
<1>b. ASSUME NEW c \in Callers, Begin(c), UNCHANGED <<up, time_ready>>,
             \/ UNCHANGED <<pc, job>>
             \/ pc' = [pc EXCEPT ![c] = "apply"] /\ \A u \in Threads \ {c} : job'[u] = job[u]
      PROVE  armed' \/ Rescheduling'
  <2>0. UNCHANGED table /\ stalled' = stalled /\ pc[c] = "idle" /\ armed' = armed
    BY <1>b DEF Begin, timer
  <2>1. armed \/ Rescheduling
    BY <1>b, <2>0, SameCandidates DEF ArmedOrRescheduling
  <2>2. ASSUME NEW u \in Threads, Reschedules(u) PROVE Reschedules(u)'
    <3>1. u # c
      BY <2>0, <2>2 DEF Reschedules
    <3> QED BY <1>b, <1>c, <1>p, <2>2, <3>1 DEF Reschedules
  <2> QED BY <2>0, <2>1, <2>2 DEF Rescheduling
<1>1. ASSUME NEW c \in Callers, NEW enabled, NEW once, NEW expr, AddAuto(c, enabled, once, expr)
      PROVE  armed' \/ Rescheduling'
  <2>1. \/ UNCHANGED <<pc, job>>
        \/ pc' = [pc EXCEPT ![c] = "apply"] /\ \A u \in Threads \ {c} : job'[u] = job[u]
    BY <1>1, <1>p DEF AddAuto, Choose
  <2> QED BY <1>1, <1>b, <2>1 DEF AddAuto
<1>2. ASSUME NEW c \in Callers, NEW enabled, NEW once, NEW expr, NEW id,
             AddNamed(c, id, enabled, once, expr) \/ Update(c, id, enabled, once, expr) \/ Remove(c, id)
      PROVE  armed' \/ Rescheduling'
  <2>1. Begin(c) /\ UNCHANGED ctx /\ \E i \in Slots : \E j : Choose(c, i, j)
    BY <1>2 DEF AddNamed, Update, Remove
  <2>2. pc' = [pc EXCEPT ![c] = "apply"] /\ \A u \in Threads \ {c} : job'[u] = job[u]
    BY <1>p, <2>1 DEF Choose
  <2> QED BY <1>b, <2>1, <2>2 DEF ctx
<1>4. ASSUME NEW c \in Callers, TimeReadyNotify(c) PROVE armed' \/ Rescheduling'
  <2>1. pc'[c] = "test" /\ ~job'[c].used
    BY <1>4, <1>c, <1>p DEF TimeReadyNotify, Begin, LocalsInv
  <2> QED BY <1>c, <2>1 DEF Rescheduling, Reschedules
<1>5. ASSUME NEW c \in Callers, Apply(c) PROVE armed' \/ Rescheduling'
  <2>0. /\ pc[c] = "apply" /\ UNCHANGED <<up, time_ready, stalled, armed>>
        /\ job[c] \in Job /\ index[c] \in Slots
    BY <1>5, <1>c DEF Apply, ctx, timer, history, TypeOK
  <2>1. CASE ~job[c].used
    BY <1>5, <1>c, <1>p, <2>1 DEF Apply, Rescheduling, Reschedules
  <2>2. CASE job[c].used
    <3>1. Candidates' \subseteq Candidates
      BY <1>5, <2>0, <2>2, WriteType, FewerCandidates DEF Apply
    <3>2. armed \/ Rescheduling
      BY <2>0, <3>1 DEF ArmedOrRescheduling
    <3>3. ASSUME NEW u \in Threads, Reschedules(u) PROVE Reschedules(u)'
      <4>1. u # c
        BY <2>0, <3>3 DEF Reschedules
      <4> QED BY <1>5, <1>c, <1>p, <2>2, <3>3, <4>1 DEF Reschedules, Apply
    <3> QED BY <2>0, <3>2, <3>3 DEF Rescheduling
  <2> QED BY <2>1, <2>2
<1>6. ASSUME NEW t \in Threads, Stop(t) PROVE armed' \/ Rescheduling'
  <2>1. pc' = [pc EXCEPT ![t] = "scan"]
    BY <1>6 DEF Stop, ctx
  <2> QED BY <1>p, <2>1 DEF Rescheduling, Reschedules
<1>7. ASSUME NEW t \in Threads, Scan(t) PROVE armed' \/ Rescheduling'
  <2>1. Candidates # {}
    BY <1>7, SameCandidates DEF Scan
  <2>2. pc' = [pc EXCEPT ![t] = "arm"]
    BY <1>7, <2>1 DEF Scan
  <2> QED BY <1>p, <2>2 DEF Rescheduling, Reschedules
<1>8. ASSUME NEW t \in Threads, Arm(t) PROVE armed' \/ Rescheduling'
  BY <1>8 DEF Arm, ctx
<1>9. CASE TimerFires
  <2>1. pc'[TimerTask] = "test" /\ ~job'[TimerTask].used
    BY <1>9, <1>c, <1>p DEF TimerFires, locals, LocalsInv
  <2> QED BY <1>c, <2>1 DEF Rescheduling, Reschedules
<1>10. CASE Deinit \/ InitAgain
  <2>1. \A i \in Slots : next_fire_ts'[i] = 0
    BY <1>10 DEF Deinit, InitAgain, Wipe
  <2>2. Candidates' = {}
    BY <2>1 DEF Candidates
  <2> QED BY <2>2
<1>11. ASSUME NEW t \in Threads, NEW expr \in {seen[t].expr, jobs[index[t]].expr},
              Test(t) \/ Store(t, expr) \/ Fail(t, expr)
       PROVE  armed' \/ Rescheduling'
  <2>1. CASE Reschedules(t)'
    BY <2>1 DEF Rescheduling
  <2>2. CASE ~Reschedules(t) /\ stalled' = stalled /\ Candidates' \subseteq Candidates
    <3>1. armed \/ \E u \in Threads \ {t} : Reschedules(u)
      BY <1>11, <2>2, ComputeReschedules DEF ArmedOrRescheduling, Rescheduling, ctx
    <3> QED BY <1>11, <3>1, ComputeReschedules DEF Rescheduling, timer
  <2> QED BY <1>11, <2>1, <2>2, ComputeReschedules
<1>12. CASE Tick \/ UNCHANGED vars
  BY <1>12, SameCandidates
     DEF Tick, vars, ctx, timer, history, locals, ArmedOrRescheduling, Rescheduling, Reschedules
<1> QED
  BY <1>1, <1>2, <1>4, <1>5, <1>6, <1>7, <1>8, <1>9, <1>10, <1>11, <1>12 DEF Next

\* Without a lock, and with any number of threads in __cron_reschedule_locked, the timer
\* callback and the API at once: when all have returned and some job waits, the timer runs.
THEOREM WaitingJobsArmTheTimer == Spec => []WaitingJobArmsTimer
<1>1. Init => ArmedOrRescheduling
  BY DEF Init, ArmedOrRescheduling, Candidates
<1>2. ArmedOrRescheduling => WaitingJobArmsTimer
  BY DEF ArmedOrRescheduling, WaitingJobArmsTimer, Rescheduling, Reschedules, AllIdle
<1> QED BY <1>1, <1>2, TypeCorrect, LocalsAlways, ArmedStep, PTL DEF Spec

-----------------------------------------------------------------------------
(* Calls that do not overlap. *)

\* No id that a caller chooses is one that the module generates in the calls of a run
NamesApart == \A id \in Names : id > MaxCalls

\* Every call takes at most one number
NumbersBounded == calls <= MaxCalls /\ next_job_seq + calls <= MaxCalls + 1

\* An id that was given out
Given(id) == id \in Names \/ id < next_job_seq

\* One call at a time; ids are unique and were given out; the job that a call is about to write
\* has the id of the job in its slot and of no other.
IntactInv ==
    /\ \A c, d \in Callers : pc[c] # "idle" /\ pc[d] # "idle" => c = d
    /\ UniqueIds
    /\ \A i \in Slots : jobs[i].used => Given(jobs[i].id)
    /\ \A c \in Callers : pc[c] = "apply" \/ job[c].used =>
          /\ Given(job[c].id)
          /\ \A i \in Slots : jobs[i].used => (jobs[i].id = job[c].id <=> i = index[c])

TableInv == NumbersBounded /\ (~raced => IntactInv)

\* No job waits beyond the timer
Covered == \A ts \in Candidates : armed /\ (deadline <= ts \/ deadline <= now)

\* While the last reschedule is alone, one thread runs at most, the time it is about to arm the
\* timer for is the first, and jobs are covered outside __cron_reschedule_locked.
CoverInv ==
    ~overlap =>
        /\ \A t, u \in Threads : pc[t] # "idle" /\ pc[u] # "idle" => t = u
        /\ \A t \in Threads : pc[t] = "arm" => \A ts \in Candidates : nearest[t] <= ts
        /\ (up /\ time_ready /\ ~stalled /\ ~Rescheduling) => Covered

\* Calls are counted, and a number is given out only by a call.
LEMMA NumbersStep == TypeOK /\ NumbersBounded /\ [Next]_vars => NumbersBounded'
<1> SUFFICES ASSUME TypeOK, NumbersBounded, [Next]_vars PROVE NumbersBounded'
  OBVIOUS
<1>t. next_job_seq \in Nat /\ calls \in Nat /\ MaxCalls \in Nat
  BY TimeAssumption DEF TypeOK
<1>1. ASSUME NEW c, NEW enabled, NEW once, NEW expr, AddAuto(c, enabled, once, expr)
      PROVE  NumbersBounded'
  BY <1>1, <1>t DEF AddAuto, Begin, NumbersBounded
<1>2. ASSUME NEW c, NEW enabled, NEW once, NEW expr, NEW id,
             AddNamed(c, id, enabled, once, expr) \/ Update(c, id, enabled, once, expr)
             \/ Remove(c, id) \/ TimeReadyNotify(c)
      PROVE  NumbersBounded'
  <2>1. next_job_seq' = next_job_seq /\ calls' = calls - 1 /\ calls > 0
    BY <1>2 DEF AddNamed, Update, Remove, TimeReadyNotify, Begin, ctx
  <2> QED BY <1>t, <2>1 DEF NumbersBounded
<1>3. ASSUME NEW t, NEW expr, \/ Apply(t) \/ Stop(t) \/ Scan(t) \/ Arm(t)
                               \/ Test(t) \/ Store(t, expr) \/ Fail(t, expr)
      PROVE  NumbersBounded'
  BY <1>3 DEF Apply, Test, Store, Fail, Stop, Scan, Arm, ctx, NumbersBounded
<1>4. CASE TimerFires \/ Tick \/ UNCHANGED vars
  BY <1>4 DEF TimerFires, Tick, vars, ctx, NumbersBounded
<1>5. CASE Deinit
  BY <1>5, <1>t DEF Deinit, NumbersBounded
<1>6. CASE InitAgain
  BY <1>6, <1>t DEF InitAgain, NumbersBounded
<1> QED BY <1>1, <1>2, <1>3, <1>4, <1>5, <1>6 DEF Next

\* A call that starts alone and chooses a slot for an id that no other slot has.
LEMMA ChooseIntact ==
    ASSUME TypeOK, LocalsInv, IntactInv, NEW c \in Callers, CallersIdle,
           NEW i \in Slots, NEW j \in Job, Choose(c, i, j), UNCHANGED table, next_job_seq' >= next_job_seq, next_job_seq' \in Nat,
           j.id \in Names \/ j.id < next_job_seq',
           \A k \in Slots : jobs[k].used => (jobs[k].id = j.id <=> k = i)
    PROVE  IntactInv'
<1>1. jobs' = jobs /\ pc' = [pc EXCEPT ![c] = "apply"]
      /\ index' = [index EXCEPT ![c] = i] /\ job' = [job EXCEPT ![c] = j]
  BY DEF Choose, table
<1>2. /\ pc'[c] = "apply" /\ index'[c] = i /\ job'[c] = j
      /\ \A d \in Callers \ {c} : pc'[d] = "idle" /\ ~job'[d].used
  BY <1>1 DEF TypeOK, Threads, CallersIdle, LocalsInv
<1>3. ASSUME NEW k \in Slots, jobs[k].used PROVE jobs[k].id \in Names \/ jobs[k].id < next_job_seq'
  <2>1. jobs[k].id \in Nat /\ next_job_seq \in Nat
    BY DEF TypeOK, Job
  <2>2. jobs[k].id \in Names \/ jobs[k].id < next_job_seq
    BY <1>3 DEF IntactInv, Given
  <2> QED BY <2>1, <2>2
<1>4. UniqueIds'
  BY <1>1 DEF IntactInv, UniqueIds
<1> QED BY <1>1, <1>2, <1>3, <1>4 DEF IntactInv, Given

\* As long as calls do not overlap, every step keeps the table intact.
LEMMA IntactStep ==
    ASSUME NamesApart, TypeOK, LocalsInv, NumbersBounded, ~raced => IntactInv, [Next]_vars, ~raced'
    PROVE  IntactInv'
<1>c. Callers \subseteq Threads /\ TimerTask \notin Callers
  BY TimerTaskAssumption DEF Threads
<1>t. /\ jobs \in [Slots -> Job] /\ index \in [Threads -> Slots] /\ job \in [Threads -> Job]
      /\ pc \in [Threads -> PCs] /\ next_job_seq \in Nat
  BY DEF TypeOK, PCs
<1>b. ASSUME NEW c, Begin(c) PROVE ~raced /\ IntactInv /\ CallersIdle /\ UNCHANGED table
  BY <1>b DEF Begin, TypeOK
<1>1. ASSUME NEW c \in Callers, NEW enabled \in BOOLEAN, NEW once \in BOOLEAN, NEW expr \in Exprs,
             AddAuto(c, enabled, once, expr)
      PROVE  IntactInv'
  <2>0. Begin(c) /\ next_job_seq' = next_job_seq + 1
    BY <1>1 DEF AddAuto
  <2>1. ~raced /\ IntactInv /\ CallersIdle /\ UNCHANGED table
    BY <2>0, <1>b
  <2>2. next_job_seq \notin Names
    <3>1. next_job_seq <= MaxCalls
      BY <2>0, TimeAssumption DEF Begin, NumbersBounded, TypeOK
    <3> QED BY <3>1, <1>t, TimeAssumption, JobsAssumption DEF NamesApart
  <2>3. \A k \in Slots : jobs[k].used => jobs[k].id # next_job_seq
    BY <2>1, <2>2, <1>t DEF IntactInv, Given, Job
  <2>4. Parsed(enabled, once, next_job_seq, expr) \in Job
        /\ Parsed(enabled, once, next_job_seq, expr).id = next_job_seq
    BY ParsedIsJob, JobsAssumption, <1>t DEF Parsed
  <2>5. ASSUME NEW i \in Slots, Allocated(i), Choose(c, i, Parsed(enabled, once, next_job_seq, expr))
        PROVE  IntactInv'
    <3>1. \A k \in Slots : jobs[k].used => (jobs[k].id = next_job_seq <=> k = i)
      BY <2>3, <2>5 DEF Allocated
    <3> QED BY <2>0, <2>1, <2>4, <2>5, <3>1, <1>t, ChooseIntact
  <2>6. ASSUME UNCHANGED <<pc, index, job>> PROVE IntactInv'
    <3>1. \A k \in Slots : jobs[k].used => Given(jobs[k].id)'
      BY <2>0, <2>1, <2>6, <1>t DEF IntactInv, Given, Job, table
    <3>2. \A d \in Callers : pc'[d] = "idle" /\ ~job'[d].used
      BY <1>c, <2>1, <2>6 DEF CallersIdle, LocalsInv
    <3> QED BY <2>1, <3>1, <3>2 DEF IntactInv, UniqueIds, table
  <2> QED BY <1>1, <2>5, <2>6 DEF AddAuto
<1>2. ASSUME NEW c \in Callers, NEW enabled \in BOOLEAN, NEW once \in BOOLEAN, NEW expr \in Exprs,
             NEW id \in Names, AddNamed(c, id, enabled, once, expr) \/ Update(c, id, enabled, once, expr)
      PROVE  IntactInv'
  <2>0. Begin(c) /\ next_job_seq' = next_job_seq
    BY <1>2 DEF AddNamed, Update, ctx
  <2>1. ~raced /\ IntactInv /\ CallersIdle /\ UNCHANGED table
    BY <2>0, <1>b
  <2>2. PICK i \in Slots : /\ Choose(c, i, Parsed(enabled, once, id, expr))
                           /\ Found(i, id) \/ (Absent(id) /\ Allocated(i))
    BY <1>2 DEF AddNamed, Update
  <2>3. \A k \in Slots : jobs[k].used => (jobs[k].id = id <=> k = i)
    BY <2>1, <2>2 DEF Found, Absent, Allocated, IntactInv, UniqueIds
  <2>4. Parsed(enabled, once, id, expr) \in Job /\ Parsed(enabled, once, id, expr).id = id
    BY ParsedIsJob, JobsAssumption DEF Parsed
  <2> QED BY <2>0, <2>1, <2>2, <2>3, <2>4, <1>t, ChooseIntact
<1>3. ASSUME NEW c \in Callers, NEW s \in Slots, Remove(c, jobs[s].id) PROVE IntactInv'
  <2> DEFINE id == jobs[s].id
             j == [NoJob EXCEPT !.id = id]
  <2>0. Begin(c) /\ next_job_seq' = next_job_seq
    BY <1>3 DEF Remove, ctx
  <2>1. ~raced /\ IntactInv /\ CallersIdle /\ UNCHANGED table
    BY <2>0, <1>b
  <2>2. PICK i \in Slots : Choose(c, i, j) /\ Found(i, id)
    BY <1>3 DEF Remove
  <2>3. \A k \in Slots : jobs[k].used => (jobs[k].id = id <=> k = i)
    BY <2>1, <2>2 DEF Found, IntactInv, UniqueIds
  <2>4. j \in Job /\ j.id = id /\ Given(id)
    BY <1>t, <2>1, <2>2 DEF NoJob, Job, IntactInv, Found
  <2> HIDE DEF j, id
  <2> QED BY <2>0, <2>1, <2>2, <2>3, <2>4, <1>t, ChooseIntact DEF Given
<1>4. ASSUME NEW c \in Callers, TimeReadyNotify(c) PROVE IntactInv'
  <2>1. ~raced /\ IntactInv /\ CallersIdle /\ jobs' = jobs
    BY <1>4, <1>b DEF TimeReadyNotify, table
  <2>2. UNCHANGED <<next_job_seq, index, job>> /\ pc' = [pc EXCEPT ![c] = "test"]
    BY <1>4 DEF TimeReadyNotify
  <2>3. \A d \in Callers : (pc'[d] # "idle" => d = c) /\ pc'[d] # "apply" /\ ~job'[d].used
    BY <1>c, <1>t, <2>1, <2>2 DEF CallersIdle, LocalsInv
  <2> QED BY <2>1, <2>2, <2>3 DEF IntactInv, UniqueIds, Given
<1>5. ASSUME NEW c \in Callers, Apply(c) PROVE IntactInv'
  <2>1. IntactInv /\ pc[c] = "apply" /\ c \in Threads /\ next_job_seq' = next_job_seq
    BY <1>5, <1>c DEF Apply, history, ctx
  <2>2. ~NoJob.used /\ NoJob \in Job /\ job[c] \in Job /\ index[c] \in Slots
    BY <1>t, <2>1 DEF NoJob, Job
  <2>3. \A d \in Callers \ {c} : pc[d] = "idle" /\ ~job[d].used
    BY <1>c, <2>1 DEF IntactInv, LocalsInv
  <2>4. /\ Given(job[c].id)
        /\ \A i \in Slots : jobs[i].used => (jobs[i].id = job[c].id <=> i = index[c])
    BY <2>1 DEF IntactInv
  <2>5. CASE /\ job[c].used /\ Write(index[c], job[c])
             /\ pc' = [pc EXCEPT ![c] = "test"] /\ UNCHANGED <<index, job>>
    <3>1. \A i \in Slots : jobs'[i] = IF i = index[c] THEN job[c] ELSE jobs[i]
      BY <2>2, <2>5, WriteType
    <3>2. \A d \in Callers \ {c} : pc'[d] = "idle" /\ ~job'[d].used
      BY <1>c, <1>t, <2>3, <2>5
    <3>3. \A i \in Slots : jobs'[i].used => (jobs'[i].id = job[c].id <=> i = index[c])
      BY <2>4, <3>1
    <3>4. UniqueIds'
      BY <2>1, <2>4, <3>1 DEF IntactInv, UniqueIds
    <3>5. \A i \in Slots : jobs'[i].used => Given(jobs'[i].id)
      BY <2>1, <2>4, <3>1 DEF IntactInv
    <3> QED BY <2>1, <2>4, <2>5, <3>2, <3>3, <3>4, <3>5 DEF IntactInv, Given
  <2>6. CASE /\ Write(index[c], NoJob)
             /\ pc' = [pc EXCEPT ![c] = "stop"] /\ job' = [job EXCEPT ![c] = NoJob]
    <3>1. \A i \in Slots : jobs'[i].used => jobs'[i] = jobs[i]
      BY <2>2, <2>6, WriteType
    <3>2. \A d \in Callers : (pc'[d] # "idle" => d = c) /\ pc'[d] # "apply" /\ ~job'[d].used
      BY <1>c, <1>t, <2>2, <2>3, <2>6
    <3>3. UniqueIds'
      BY <2>1, <3>1 DEF IntactInv, UniqueIds
    <3> QED BY <2>1, <3>1, <3>2, <3>3 DEF IntactInv, Given
  <2> QED BY <1>5, <2>5, <2>6 DEF Apply
<1>7. ASSUME NEW t \in Threads, NEW expr \in {seen[t].expr, jobs[index[t]].expr},
             Test(t) \/ Store(t, expr) \/ Fail(t, expr)
      PROVE  IntactInv'
  <2>0. expr \in Nat
    BY DEF TypeOK, Job
  <2>1. IntactInv /\ next_job_seq' = next_job_seq
    BY <1>7, <2>0, ComputeFacts DEF ctx
  <2>2. \A i \in Slots : jobs'[i].used => jobs'[i] = jobs[i]
    BY <1>7, <2>0, ComputeFacts
  <2>3. \A d \in Callers : pc'[d] # "idle" => pc[d] # "idle"
    BY <1>7, <1>c, <2>0, ComputeFacts
  <2>4. ASSUME NEW d \in Callers, pc'[d] = "apply" \/ job'[d].used
        PROVE  (pc[d] = "apply" \/ job[d].used) /\ job'[d] = job[d] /\ index'[d] = index[d]
    <3>1. CASE d = t
      <4>1. pc'[t] = "store" /\ job'[t] = job[t] /\ job[t].used /\ index' = index
        BY <1>7, <2>0, <2>4, <3>1, ComputeFacts
      <4> QED BY <3>1, <4>1
    <3>2. CASE d # t
      BY <1>7, <1>c, <2>0, <2>4, <3>2, ComputeFacts
    <3> QED BY <3>1, <3>2
  <2>5. UniqueIds'
    BY <2>1, <2>2 DEF IntactInv, UniqueIds
  <2> QED BY <2>1, <2>2, <2>3, <2>4, <2>5 DEF IntactInv, Given
<1>6. ASSUME NEW t \in Threads, Stop(t) \/ Scan(t) \/ Arm(t) PROVE IntactInv'
  <2>1. pc[t] \in {"stop", "scan", "arm"} /\ UNCHANGED <<jobs, next_job_seq, index, job, raced>>
    BY <1>6 DEF Stop, Scan, Arm, ctx, table, locals
  <2>2. PICK q \in {"idle", "scan", "arm"} : pc' = [pc EXCEPT ![t] = q]
    BY <1>6, Zenon DEF Stop, Scan, Arm, Leaves
  <2>3. \A d \in Callers : (pc'[d] # "idle" => pc[d] # "idle") /\ (pc'[d] = "apply" => pc[d] = "apply")
    BY <1>c, <1>t, <2>1, <2>2
  <2>4. IntactInv
    BY <2>1
  <2> QED BY <2>1, <2>3, <2>4 DEF IntactInv, UniqueIds, Given
<1>9. CASE TimerFires
  <2>1. IntactInv /\ UNCHANGED <<next_job_seq, index, job>>
        /\ pc' = [pc EXCEPT ![TimerTask] = "test"]
    BY <1>9 DEF TimerFires, ctx, locals
  <2>2. \A d \in Callers : pc'[d] = pc[d]
    BY <1>c, <1>t, <2>1
  <2>3. jobs' = jobs
    BY <1>9 DEF TimerFires, table
  <2> QED BY <2>1, <2>2, <2>3 DEF IntactInv, UniqueIds, Given
<1>10. CASE Deinit \/ InitAgain
  <2>1. AllIdle /\ pc' = pc /\ job' = job
    BY <1>10, Zenon DEF Deinit, InitAgain, Wipe, locals
  <2>2. \A i \in Slots : ~jobs'[i].used
    BY <1>10 DEF Deinit, InitAgain, Wipe, NoJob
  <2>3. \A c \in Callers : pc'[c] = "idle" /\ ~job'[c].used
    BY <1>c, <2>1 DEF AllIdle, LocalsInv
  <2> QED BY <2>2, <2>3 DEF IntactInv, UniqueIds
<1>12. CASE Tick \/ UNCHANGED vars
  <2>1. UNCHANGED <<jobs, next_job_seq, index, job, pc, raced>>
    BY <1>12 DEF Tick, vars, ctx, table, locals, history
  <2> QED BY <2>1 DEF IntactInv, UniqueIds, Given
<1> QED
  BY <1>1, <1>2, <1>3, <1>4, <1>5, <1>6, <1>7, <1>9, <1>10, <1>12 DEF Next

\* Calls that do not overlap one another give no id twice and make no other job disappear,
\* although the timer callback frees slots in the middle of them and the service may be stopped
\* and started between them.
THEOREM TableStaysIntact ==
    ASSUME NamesApart
    PROVE  Spec => []TableIntact
<1>1. Init => TableInv
  <2> SUFFICES ASSUME Init PROVE TableInv
    OBVIOUS
  <2>1. NumbersBounded
    BY TimeAssumption DEF Init, NumbersBounded
  <2>2. IntactInv
    BY DEF Init, IntactInv, UniqueIds, NoJob, Threads
  <2> QED BY <2>1, <2>2 DEF TableInv
<1>2. TypeOK /\ LocalsInv /\ TableInv /\ [Next]_vars => TableInv'
  BY NumbersStep, IntactStep DEF TableInv
<1>3. TypeOK /\ TableInv => TableIntact
  BY DEF TypeOK, Threads, TableInv, IntactInv, TableIntact, NoJobOverwritten, OneSlot
<1> QED BY <1>1, <1>2, <1>3, TypeCorrect, LocalsAlways, PTL DEF Spec

\* The delay, shortened by the wrap of the unsigned subtraction or not, never passes the time
\* it is meant for.
LEMMA DelayIsShort ==
    ASSUME NEW ts \in Nat, now \in Nat
    PROVE  now + Delay(ts) <= ts \/ now + Delay(ts) <= now
<1>1. CASE ts <= now
  BY <1>1 DEF Delay
<1>2. CASE ~(ts <= now)
  <2>1. ts - now - 1 \in Nat
    BY <1>2
  <2>2. \A d \in Nat : d % Wrap \in Nat /\ d % Wrap <= d
    BY TimeAssumption
  <2> QED BY <1>2, <2>1, <2>2 DEF Delay
<1> QED BY <1>1, <1>2

\* Every step keeps CoverInv.
LEMMA CoverStep ==
    ASSUME TypeOK, LocalsInv, CoverInv, [Next]_vars
    PROVE  CoverInv'
<1> DEFINE Lone == \A t, u \in Threads : pc[t] # "idle" /\ pc[u] # "idle" => t = u
           First == \A t \in Threads : pc[t] = "arm" => \A ts \in Candidates : nearest[t] <= ts
           Waits == (up /\ time_ready /\ ~stalled /\ ~Rescheduling) => Covered
<1> SUFFICES ASSUME ~overlap' PROVE Lone' /\ First' /\ Waits'
  BY DEF CoverInv
<1>c. Callers \subseteq Threads /\ TimerTask \in Threads
  BY DEF Threads
<1>p. /\ pc \in [Threads -> PCs] /\ job \in [Threads -> Job]
      /\ overlap \in BOOLEAN /\ now \in Nat /\ deadline \in Nat
      /\ nearest \in [Threads -> Nat] /\ next_fire_ts \in [Slots -> Nat]
  BY DEF TypeOK, PCs
<1>n. Candidates \subseteq Nat
  BY <1>p DEF Candidates
<1>b. ASSUME NEW c \in Callers, Begin(c)
      PROVE  /\ AllIdle /\ Lone /\ First /\ Waits /\ ~Rescheduling
             /\ UNCHANGED <<timer, now, nearest, table, stalled>>
  <2>1. ~overlap /\ AllIdle /\ UNCHANGED <<timer, now, nearest, table, stalled>>
    BY <1>b, <1>p DEF Begin
  <2> QED BY <2>1 DEF CoverInv, Rescheduling, Reschedules, AllIdle
<1>s. ASSUME NEW c \in Callers, Begin(c), UNCHANGED <<up, time_ready>>,
             pc' = pc \/ pc' = [pc EXCEPT ![c] = "apply"]
      PROVE  Lone' /\ First' /\ Waits'
  <2>1. \A t \in Threads : (pc'[t] # "idle" => t = c) /\ pc'[t] # "arm"
    BY <1>b, <1>c, <1>p, <1>s DEF AllIdle
  <2>2. Candidates' = Candidates
    BY <1>b, <1>s, SameCandidates
  <2>3. Waits'
    BY <1>b, <1>s, <2>2 DEF Covered, timer
  <2> QED BY <2>1, <2>3
<1>1. ASSUME NEW c \in Callers, NEW enabled, NEW once, NEW expr, AddAuto(c, enabled, once, expr)
      PROVE  Lone' /\ First' /\ Waits'
  BY <1>1, <1>s DEF AddAuto, Choose
<1>2. ASSUME NEW c \in Callers, NEW enabled, NEW once, NEW expr, NEW id,
             AddNamed(c, id, enabled, once, expr) \/ Update(c, id, enabled, once, expr) \/ Remove(c, id)
      PROVE  Lone' /\ First' /\ Waits'
  BY <1>2, <1>s DEF AddNamed, Update, Remove, Choose, ctx
<1>4. ASSUME NEW c \in Callers, TimeReadyNotify(c) PROVE Lone' /\ First' /\ Waits'
  <2>1. AllIdle
    BY <1>4, <1>b DEF TimeReadyNotify
  <2>2. pc' = [pc EXCEPT ![c] = "test"] /\ ~job'[c].used
    BY <1>4, <1>c DEF TimeReadyNotify, Begin, LocalsInv
  <2>3. \A t \in Threads : (pc'[t] # "idle" => t = c) /\ pc'[t] # "arm"
    BY <1>c, <1>p, <2>1, <2>2 DEF AllIdle
  <2>4. Rescheduling'
    BY <1>c, <1>p, <2>2 DEF Rescheduling, Reschedules
  <2> QED BY <2>3, <2>4
<1>5. ASSUME NEW c \in Callers, Apply(c) PROVE Lone' /\ First' /\ Waits'
  <2>1. /\ ~overlap /\ pc[c] = "apply" /\ c \in Threads /\ job[c] \in Job /\ index[c] \in Slots
        /\ UNCHANGED <<up, time_ready, stalled, armed, deadline, now>>
    BY <1>5, <1>c DEF Apply, history, ctx, timer, TypeOK
  <2>2. Lone /\ First /\ Waits
    BY <2>1 DEF CoverInv
  <2>3. PICK q \in {"stop", "test"} : pc' = [pc EXCEPT ![c] = q]
    BY <1>5, Zenon DEF Apply
  <2>4. \A t \in Threads : (pc'[t] # "idle" => t = c) /\ pc'[t] # "arm"
    BY <1>p, <2>1, <2>2, <2>3
  <2>5. Candidates' \subseteq Candidates
    BY <1>5, <2>1, NoJobIsJob, WriteType, FewerCandidates DEF Apply
  <2>6. ~Rescheduling
    BY <2>1, <2>2 DEF Rescheduling, Reschedules
  <2> QED BY <2>1, <2>2, <2>4, <2>5, <2>6 DEF Covered
<1>13. ASSUME NEW t \in Threads, NEW expr \in {seen[t].expr, jobs[index[t]].expr},
              Test(t) \/ Store(t, expr) \/ Fail(t, expr)
       PROVE  Lone' /\ First' /\ Waits'
  <2>0. expr \in Nat
    BY DEF TypeOK, Job
  <2>1. ~overlap /\ pc[t] \in {"test", "store"} /\ UNCHANGED <<up, time_ready, armed, deadline, now>>
    BY <1>13, <2>0, ComputeFacts DEF ctx, timer
  <2>2. Lone /\ First /\ Waits
    BY <2>1 DEF CoverInv
  <2>3. \A u \in Threads : (pc'[u] # "idle" => u = t) /\ pc'[u] # "arm"
    BY <1>13, <2>0, <2>1, <2>2, ComputeFacts
  <2>4. CASE Reschedules(t)' \/ stalled'
    BY <2>3, <2>4 DEF Rescheduling
  <2>5. CASE ~Reschedules(t) /\ stalled' = stalled /\ Candidates' \subseteq Candidates
    <3>1. ~Rescheduling
      BY <2>1, <2>2, <2>5 DEF Rescheduling, Reschedules
    <3> QED BY <2>1, <2>2, <2>3, <2>5, <3>1 DEF Covered
  <2> QED BY <1>13, <2>4, <2>5, ComputeReschedules
<1>6. ASSUME NEW t \in Threads, Stop(t) PROVE Lone' /\ First' /\ Waits'
  <2>1. \A u \in Threads \ {t} : pc[u] = "idle"
    BY <1>6 DEF Stop
  <2>2. PICK q \in {"scan", "idle"} : /\ pc' = [pc EXCEPT ![t] = q]
                                      /\ q = "idle" => ~(up /\ time_ready)
    BY <1>6, Zenon DEF Stop, Leaves
  <2>3. \A u \in Threads : (pc'[u] # "idle" => u = t) /\ pc'[u] # "arm"
    BY <1>p, <2>1, <2>2
  <2>4. UNCHANGED <<up, time_ready>> /\ Candidates' = Candidates
    BY <1>6, SameCandidates DEF Stop, ctx
  <2>5. CASE q = "scan"
    BY <1>p, <2>2, <2>3, <2>5 DEF Rescheduling, Reschedules
  <2>6. CASE up /\ ~time_ready
    BY <2>3, <2>4, <2>6
  <2> QED BY <2>2, <2>3, <2>4, <2>5, <2>6
<1>7. ASSUME NEW t \in Threads, Scan(t) PROVE Lone' /\ First' /\ Waits'
  <2>1. ~overlap /\ pc[t] = "scan" /\ Candidates' = Candidates
    BY <1>7, SameCandidates DEF Scan
  <2>2. Lone
    BY <2>1 DEF CoverInv
  <2>3. CASE Candidates = {} /\ pc' = [pc EXCEPT ![t] = "idle"]
    BY <1>p, <2>1, <2>2, <2>3 DEF Covered
  <2>4. ASSUME NEW ts \in Candidates, \A other \in Candidates : ts <= other,
               nearest' = [nearest EXCEPT ![t] = ts], pc' = [pc EXCEPT ![t] = "arm"]
        PROVE  Lone' /\ First' /\ Waits'
    <3>1. \A u \in Threads : (pc'[u] # "idle" => u = t) /\ pc'[t] = "arm" /\ nearest'[t] = ts
      BY <1>p, <2>1, <2>2, <2>4
    <3> QED BY <2>1, <2>4, <3>1 DEF Rescheduling, Reschedules
  <2> QED BY <1>7, <2>3, <2>4 DEF Scan, Leaves
<1>8. ASSUME NEW t \in Threads, Arm(t) PROVE Lone' /\ First' /\ Waits'
  <2>1. ~overlap /\ pc[t] = "arm" /\ Candidates' = Candidates /\ UNCHANGED <<up, now>>
    BY <1>8, SameCandidates DEF Arm, ctx
  <2>2. Lone /\ First
    BY <2>1 DEF CoverInv
  <2>3. pc' = [pc EXCEPT ![t] = "idle"]
    BY <1>8 DEF Arm, Leaves
  <2>4. \A u \in Threads : pc'[u] = "idle"
    BY <1>p, <2>1, <2>2, <2>3
  <2>5. ASSUME up PROVE Covered'
    <3>1. armed' /\ deadline' = now + Delay(nearest[t])
      BY <1>8, <2>5 DEF Arm
    <3>2. nearest[t] \in Nat /\ Delay(nearest[t]) \in Nat
      BY <1>p, DelayNat
    <3>3. deadline' <= nearest[t] \/ deadline' <= now
      BY <1>p, <3>1, <3>2, DelayIsShort
    <3>4. \A ts \in Candidates : nearest[t] <= ts
      BY <2>1, <2>2
    <3>5. \A ts \in Candidates : deadline' <= ts \/ deadline' <= now
      BY <1>p, <1>n, <3>1, <3>2, <3>3, <3>4
    <3> QED BY <2>1, <3>1, <3>5 DEF Covered
  <2> QED BY <2>1, <2>4, <2>5
<1>9. CASE TimerFires
  <2>1. AllIdle /\ pc' = [pc EXCEPT ![TimerTask] = "test"] /\ ~job'[TimerTask].used
    BY <1>9, <1>p DEF TimerFires, locals, LocalsInv
  <2>2. \A t \in Threads : (pc'[t] # "idle" => t = TimerTask) /\ pc'[t] # "arm"
    BY <1>p, <2>1 DEF AllIdle
  <2>3. Rescheduling'
    BY <1>c, <1>p, <2>1 DEF Rescheduling, Reschedules
  <2> QED BY <2>2, <2>3
<1>10. CASE Deinit \/ InitAgain
  <2>1. AllIdle /\ pc' = pc /\ \A i \in Slots : next_fire_ts'[i] = 0
    BY <1>10, <1>p DEF Deinit, InitAgain, Wipe
  <2>2. Candidates' = {}
    BY <2>1 DEF Candidates
  <2> QED BY <2>1, <2>2 DEF AllIdle, Covered
<1>11. CASE Tick
  <2>1. /\ AllIdle /\ now' = now + 1
        /\ UNCHANGED <<table, overlap, up, time_ready, stalled, armed, deadline, pc, job>>
    BY <1>11 DEF Tick, ctx, timer, history, locals
  <2>2. Waits /\ Candidates' = Candidates
    BY <2>1, SameCandidates DEF CoverInv
  <2>3. Covered => Covered'
    BY <1>n, <1>p, <2>1, <2>2 DEF Covered
  <2>4. Rescheduling' <=> Rescheduling
    BY <2>1 DEF Rescheduling, Reschedules
  <2> QED BY <2>1, <2>2, <2>3, <2>4 DEF AllIdle
<1>12. CASE UNCHANGED vars
  <2>1. UNCHANGED <<table, overlap, up, time_ready, stalled, armed, deadline, now, pc, job, nearest>>
    BY <1>12 DEF vars, ctx, timer, history, locals
  <2>2. Candidates' = Candidates
    BY <2>1, SameCandidates
  <2> QED BY <2>1, <2>2 DEF CoverInv, Covered, Rescheduling, Reschedules
<1> QED
  BY <1>1, <1>2, <1>4, <1>5, <1>6, <1>7, <1>8, <1>9, <1>10, <1>11, <1>12, <1>13 DEF Next

\* When all calls have returned and the last reschedule was alone, the timer fires no later than
\* the first job, whatever overlapped before and although the 32-bit delay wraps around.
THEOREM TimerCoversTheJobs == Spec => []TimerCoversJobs
<1>1. Init => CoverInv
  BY DEF Init, CoverInv, Candidates, Covered
<1>2. CoverInv => TimerCoversJobs
  BY DEF CoverInv, TimerCoversJobs, Rescheduling, Reschedules, AllIdle, Covered
<1> QED BY <1>1, <1>2, TypeCorrect, LocalsAlways, CoverStep, PTL DEF Spec
=============================================================================
