---------------------------- MODULE AlarmProofs ----------------------------
(* Theorems about Alarm, for any number of alarms, jobs, requests and calls. *)
EXTENDS Alarm, TLAPS

JobSet == [id : Nat \ {0}, kind : Kinds, alarm : Alarms, seq : Nat, due : Nat, on : BOOLEAN,
           known : BOOLEAN]
RequestSet == [kind : Kinds, alarm : Alarms, seq : Nat]
ConfigSet == [enabled : BOOLEAN, once : BOOLEAN, start : Nat]

-----------------------------------------------------------------------------
(* Records. *)

\* What removing, clearing and disabling an alarm does to its record
LEMMA OffType == Off \in Alarm_Item
BY DEF Off, Alarm_Item

\* An alarm stays one when its round is cleared or it is disabled.
LEMMA ClearedType ==
    ASSUME NEW r \in Alarm_Item
    PROVE  /\ Cleared(r) \in Alarm_Item
           /\ Disabled(r) \in Alarm_Item
BY DEF Alarm_Item, Cleared, Disabled

\* A configuration makes a record, whose runtime fields are those of the old one
LEMMA ConfiguredType ==
    ASSUME NEW r \in Alarm_Item, NEW id \in Nat, NEW c,
           c.enabled \in BOOLEAN, c.once \in BOOLEAN, c.start \in Nat
    PROVE  Configured(r, c, id) \in Alarm_Item
BY DEF Configured, Alarm_Item

\* An alarm with another id is a record too
LEMMA IdType ==
    ASSUME NEW r \in Alarm_Item, NEW id \in Nat
    PROVE  /\ [r EXCEPT !.cron_job = id] \in Alarm_Item
           /\ [r EXCEPT !.snooze_job = id] \in Alarm_Item
           /\ [r EXCEPT !.ack_timeout_job = id] \in Alarm_Item
BY DEF Alarm_Item

\* Ids are positive numbers, and new ones are held by nobody
LEMMA NewIdsType ==
    ASSUME NEW js, NEW a \in Alarms, NEW kind \in Kinds, NEW id \in NewIds(js, a, kind)
    PROVE  id \in Nat \ {0} /\ id \notin Held(js)
BY AlarmAssumption DEF NewIds

\* The configurations that calls bring
LEMMA ConfigsType ==
    ASSUME NEW c \in Configs
    PROVE  c \in ConfigSet /\ c.enabled \in BOOLEAN /\ c.once \in BOOLEAN /\ c.start \in Nat
BY AlarmAssumption DEF Configs, ConfigSet

\* Rolling a configuration to its next date keeps its other fields
LEMMA RolledConfig ==
    ASSUME TypeOK, NEW c \in ConfigSet
    PROVE  /\ Rolled(c) \in ConfigSet
           /\ Rolled(c).enabled = c.enabled /\ Rolled(c).once = c.once
           /\ Rolled(c).enabled \in BOOLEAN /\ Rolled(c).once \in BOOLEAN /\ Rolled(c).start \in Nat
<1>1. now \in Nat
    BY DEF TypeOK
<1>2. CASE Rolled(c) = c
    BY <1>2 DEF ConfigSet
<1>3. CASE Rolled(c) = [c EXCEPT !.start = now + 1]
    BY <1>1, <1>3 DEF ConfigSet
<1> QED
    BY <1>2, <1>3 DEF Rolled

\* Rolling an alarm to its next date changes nothing but the date.
LEMMA RolledAlarm ==
    ASSUME TypeOK, NEW r \in Alarm_Item
    PROVE  /\ Rolled(r) \in Alarm_Item
           /\ Rolled(r) = [r EXCEPT !.start = Rolled(r).start]
<1>1. now \in Nat
    BY DEF TypeOK
<1>2. CASE Rolled(r) = r
    BY <1>2 DEF Alarm_Item
<1>3. CASE Rolled(r) = [r EXCEPT !.start = now + 1]
    BY <1>1, <1>3 DEF Alarm_Item
<1> QED
    BY <1>2, <1>3 DEF Rolled

\* The jobs that the module adds are jobs
LEMMA FireJobType ==
    ASSUME TypeOK, NEW a \in Alarms, NEW id \in Nat \ {0}, NEW c,
           c.enabled \in BOOLEAN, c.once \in BOOLEAN, c.start \in Nat
    PROVE  FireJob(id, a, c) \in JobSet /\ IsRequest(FireJob(id, a, c))
BY AlarmAssumption DEF FireJob, JobSet, IsRequest, Due, Never, AnyTime, TypeOK, Kinds

\* The job of a timeout or snooze carries the number of its round.
LEMMA RuntimeJobType ==
    ASSUME NEW a \in Alarms, NEW id \in Nat \ {0}, NEW kind \in {"timeout", "snooze"},
           NEW seq \in Nat \ {0}
    PROVE  RuntimeJob(id, kind, a, seq) \in JobSet /\ IsRequest(RuntimeJob(id, kind, a, seq))
BY DEF RuntimeJob, JobSet, IsRequest, AnyTime, Kinds

\* A job whose id is forgotten stays one
LEMMA OrphanType ==
    ASSUME NEW j \in JobSet, IsRequest(j)
    PROVE  /\ Orphan(j) \in JobSet /\ IsRequest(Orphan(j)) /\ ~Orphan(j).known
           /\ Orphan(j).id = j.id /\ Orphan(j).kind = j.kind /\ Orphan(j).alarm = j.alarm
           /\ Orphan(j).seq = j.seq /\ Orphan(j).due = j.due /\ Orphan(j).on = j.on
BY DEF Orphan, JobSet, IsRequest

\* The stored table is made of stored records, whether or not the write succeeds
LEMMA StoreType ==
    ASSUME TypeOK, NEW al \in [Alarms -> Alarm_Item], StoreSave(al)
    PROVE  kv' \in [Alarms -> Stored] /\ unsaved' \in BOOLEAN
<1>1. Image(al) \in [Alarms -> Stored]
    BY DEF Image, Stored, Alarm_Item
<1> QED
    BY <1>1 DEF StoreSave, TypeOK

-----------------------------------------------------------------------------
(* Types. *)

GoodJobs(js) == js \subseteq JobSet /\ \A j \in js : IsRequest(j)
GoodQueue(q) == q \in Seq(RequestSet) /\ \A i \in 1..Len(q) : IsRequest(q[i])
Rest == /\ snooze_enabled \in BOOLEAN /\ armed \in BOOLEAN
        /\ up \in BOOLEAN /\ loading \subseteq Alarms
        /\ now \in Nat /\ synced \in BOOLEAN /\ inputs \in Nat /\ fires \in Nat
        /\ unscheduled \subseteq Alarms /\ untimed \subseteq Alarms /\ over \subseteq Alarms

\* The type invariant in its parts
LEMMA TypeParts ==
    ASSUME TypeOK
    PROVE  /\ alarm \in [Alarms -> Alarm_Item]
           /\ GoodJobs(jobs) /\ GoodQueue(queue)
           /\ kv \in [Alarms -> Stored] /\ unsaved \in BOOLEAN
           /\ Rest
BY DEF TypeOK, GoodJobs, GoodQueue, Rest, Requests, JobSet, RequestSet, IsRequest

\* The parts of the type invariant after a step give it back.
LEMMA TypeJoined ==
    ASSUME alarm' \in [Alarms -> Alarm_Item],
           GoodJobs(jobs'), GoodQueue(queue'),
           kv' \in [Alarms -> Stored], unsaved' \in BOOLEAN, Rest'
    PROVE  TypeOK'
BY DEF TypeOK, GoodJobs, GoodQueue, Rest, Requests, JobSet, RequestSet, IsRequest

\* Removing jobs, or adding one, leaves jobs
LEMMA GoodJobsLess ==
    ASSUME NEW js, GoodJobs(js), NEW ids
    PROVE  GoodJobs(Without(js, ids))
BY DEF GoodJobs, Without

\* A request more leaves requests.
LEMMA GoodJobsMore ==
    ASSUME NEW js, GoodJobs(js), NEW j \in JobSet, IsRequest(j)
    PROVE  GoodJobs(js \cup {j})
BY DEF GoodJobs

\* What cron does when a job is added or removed leaves jobs
LEMMA CronType ==
    ASSUME TypeOK, NEW js, GoodJobs(js)
    PROVE  /\ Leaves(js) => GoodJobs(jobs') /\ armed' \in BOOLEAN
           /\ \A j \in JobSet : IsRequest(j) /\ Taken(js, j) => GoodJobs(jobs') /\ armed' \in BOOLEAN
           /\ \A j \in JobSet : IsRequest(j) /\ LeftBehind(js, j) => GoodJobs(jobs') /\ armed' \in BOOLEAN
<1>1. Leaves(js) => GoodJobs(jobs') /\ armed' \in BOOLEAN
    BY DEF Leaves, Reschedule, TypeOK
<1>2. ASSUME NEW j \in JobSet, IsRequest(j), Taken(js, j) PROVE GoodJobs(jobs') /\ armed' \in BOOLEAN
    BY <1>2, GoodJobsMore DEF Taken
<1>3. ASSUME NEW j \in JobSet, IsRequest(j), LeftBehind(js, j) PROVE GoodJobs(jobs') /\ armed' \in BOOLEAN
    BY <1>3, OrphanType, GoodJobsMore DEF LeftBehind
<1> QED
    BY <1>1, <1>2, <1>3

\* Taking a request leaves requests
LEMMA GoodQueueTail ==
    ASSUME NEW q, GoodQueue(q), q # <<>>
    PROVE  /\ GoodQueue(Tail(q))
           /\ Head(q) \in RequestSet /\ IsRequest(Head(q))
<1>1. q \in Seq(RequestSet) /\ \A i \in 1..Len(q) : IsRequest(q[i])
    BY DEF GoodQueue
<1>2. Tail(q) \in Seq(RequestSet) /\ Len(Tail(q)) = Len(q) - 1 /\ Head(q) = q[1] /\ Len(q) \in Nat /\ Len(q) > 0
    BY <1>1
<1>3. \A i \in 1..Len(Tail(q)) : Tail(q)[i] = q[i + 1] /\ i + 1 \in 1..Len(q)
    BY <1>1, <1>2
<1>4. \A i \in 1..Len(Tail(q)) : IsRequest(Tail(q)[i])
    BY <1>1, <1>3
<1>5. Head(q) \in RequestSet /\ IsRequest(Head(q))
    BY <1>1, <1>2
<1> QED
    BY <1>2, <1>4, <1>5 DEF GoodQueue

\* A request that is handed to the work queue is one
LEMMA GoodQueueAppend ==
    ASSUME NEW q, GoodQueue(q), NEW r \in RequestSet, IsRequest(r)
    PROVE  GoodQueue(Append(q, r))
<1>1. q \in Seq(RequestSet) /\ \A i \in 1..Len(q) : IsRequest(q[i])
    BY DEF GoodQueue
<1>2. Append(q, r) \in Seq(RequestSet) /\ Len(Append(q, r)) = Len(q) + 1 /\ Len(q) \in Nat
    BY <1>1
<1>3. \A i \in 1..Len(Append(q, r)) : Append(q, r)[i] = IF i = Len(q) + 1 THEN r ELSE q[i]
    BY <1>1, <1>2
<1>4. \A i \in 1..Len(Append(q, r)) : IsRequest(Append(q, r)[i])
    BY <1>1, <1>2, <1>3
<1> QED
    BY <1>2, <1>4 DEF GoodQueue

\* What a call and what a handler leaves alone
LEMMA CallType ==
    ASSUME TypeOK, Input,
           alarm' \in [Alarms -> Alarm_Item], GoodJobs(jobs'), armed' \in BOOLEAN,
           kv' \in [Alarms -> Stored], unsaved' \in BOOLEAN, snooze_enabled' \in BOOLEAN,
           unscheduled' \subseteq Alarms, untimed' \subseteq Alarms, over' \subseteq Alarms
    PROVE  TypeOK'
<1>1. GoodQueue(queue') /\ Rest'
    BY TypeParts DEF Input, Rest
<1> QED
    BY <1>1, TypeJoined

\* A handler that takes the first request of the queue keeps the types.
LEMMA TakeType ==
    ASSUME TypeOK, NEW kind, Take(kind),
           alarm' \in [Alarms -> Alarm_Item], GoodJobs(jobs'), armed' \in BOOLEAN,
           kv' \in [Alarms -> Stored], unsaved' \in BOOLEAN,
           untimed' \subseteq Alarms, over' \subseteq Alarms
    PROVE  TypeOK'
<1>1. GoodQueue(queue')
    BY TypeParts, GoodQueueTail DEF Take
<1>2. Rest'
    BY TypeParts DEF Take, clock, Rest
<1> QED
    BY <1>1, <1>2, TypeJoined

\* Starting to ring keeps alarms and jobs
LEMMA RingType ==
    ASSUME TypeOK, NEW a \in Alarms, StartRinging(a)
    PROVE  /\ alarm' \in [Alarms -> Alarm_Item] /\ GoodJobs(jobs') /\ armed' \in BOOLEAN
           /\ untimed' \subseteq Alarms
<1> DEFINE js == Without(jobs, RuntimeIds(alarm[a]))
<1>1. alarm \in [Alarms -> Alarm_Item] /\ GoodJobs(jobs) /\ untimed \subseteq Alarms
    BY TypeParts DEF Rest
<1>2. NextSeq(a) \in Nat \ {0}
    BY <1>1 DEF NextSeq, Alarm_Item
<1>3. Cleared(alarm[a]) \in Alarm_Item /\ GoodJobs(js)
    BY <1>1, ClearedType, GoodJobsLess
<1>j. ASSUME NEW id \in NewIds(jobs, a, "timeout")
      PROVE  LET j == RuntimeJob(id, "timeout", a, NextSeq(a)) IN j \in JobSet /\ IsRequest(j)
    <2>1. id \in Nat \ {0}
        BY NewIdsType DEF Kinds
    <2> QED
        BY <1>2, <2>1, RuntimeJobType
<1> HIDE DEF js
<1>4. ASSUME NEW id \in NewIds(jobs, a, "timeout"),
             alarm' = [alarm EXCEPT ![a] = [Cleared(@) EXCEPT !.ring_seq = NextSeq(a), !.is_ringing = TRUE,
                                                              !.ack_timeout_job = id]],
             Taken(js, RuntimeJob(id, "timeout", a, NextSeq(a)))
      PROVE  alarm' \in [Alarms -> Alarm_Item] /\ GoodJobs(jobs') /\ armed' \in BOOLEAN
    <2>1. id \in Nat \ {0}
        BY NewIdsType DEF Kinds
    <2>2. [Cleared(alarm[a]) EXCEPT !.ring_seq = NextSeq(a), !.is_ringing = TRUE,
                                    !.ack_timeout_job = id] \in Alarm_Item
        BY <1>2, <1>3, <2>1 DEF Alarm_Item
    <2>3. GoodJobs(jobs') /\ armed' \in BOOLEAN
        BY <1>3, <1>4, <1>j, CronType
    <2> QED
        BY <1>1, <1>4, <2>2, <2>3
<1>5. ASSUME alarm' = [alarm EXCEPT ![a] = [Cleared(@) EXCEPT !.ring_seq = NextSeq(a)]],
             \/ Leaves(js)
             \/ \E id \in NewIds(jobs, a, "timeout") : LeftBehind(js, RuntimeJob(id, "timeout", a, NextSeq(a)))
      PROVE  alarm' \in [Alarms -> Alarm_Item] /\ GoodJobs(jobs') /\ armed' \in BOOLEAN
    <2>1. [Cleared(alarm[a]) EXCEPT !.ring_seq = NextSeq(a)] \in Alarm_Item
        BY <1>2, <1>3 DEF Alarm_Item
    <2>2. GoodJobs(jobs') /\ armed' \in BOOLEAN
        BY <1>3, <1>5, <1>j, CronType
    <2> QED
        BY <1>1, <1>5, <2>1, <2>2
<1> QED
    BY <1>1, <1>4, <1>5, Zenon DEF StartRinging, js

\* The calls keep the types
LEMMA TypeCall == TypeOK /\ Call => TypeOK'
<1> SUFFICES ASSUME TypeOK, Call PROVE TypeOK'
    OBVIOUS
<1>0. /\ alarm \in [Alarms -> Alarm_Item] /\ GoodJobs(jobs)
      /\ kv \in [Alarms -> Stored] /\ unsaved \in BOOLEAN /\ snooze_enabled \in BOOLEAN /\ armed \in BOOLEAN
      /\ unscheduled \subseteq Alarms /\ untimed \subseteq Alarms /\ over \subseteq Alarms
    BY TypeParts DEF Rest
<1>c. ASSUME NEW config \in Configs
      PROVE  Rolled(config).enabled \in BOOLEAN /\ Rolled(config).once \in BOOLEAN /\ Rolled(config).start \in Nat
    BY ConfigsType, RolledConfig
<1>i. ASSUME NEW js, NEW a \in Alarms, NEW id \in NewIds(js, a, "fire") PROVE id \in Nat \ {0}
    BY NewIdsType DEF Kinds
<1>j. ASSUME NEW js, NEW a \in Alarms, NEW id \in NewIds(js, a, "fire"), NEW c,
             c.enabled \in BOOLEAN, c.once \in BOOLEAN, c.start \in Nat
      PROVE  FireJob(id, a, c) \in JobSet /\ IsRequest(FireJob(id, a, c))
    BY <1>i, <1>j, FireJobType
<1>1. ASSUME NEW a \in Alarms, NEW config \in Configs, Add(a, config) PROVE TypeOK'
    <2>1. PICK id \in NewIds(jobs, a, "fire") :
             /\ alarm' = [alarm EXCEPT ![a] = Configured(Off, Rolled(config), id)]
             /\ Taken(jobs, FireJob(id, a, Rolled(config)))
        BY <1>1 DEF Add
    <2>2. Configured(Off, Rolled(config), id) \in Alarm_Item
        BY <1>c, <1>i, OffType, ConfiguredType
    <2>3. alarm' \in [Alarms -> Alarm_Item]
        BY <1>0, <2>1, <2>2
    <2>4. FireJob(id, a, Rolled(config)) \in JobSet /\ IsRequest(FireJob(id, a, Rolled(config)))
        BY <1>c, <1>j
    <2>5. GoodJobs(jobs') /\ armed' \in BOOLEAN
        BY <1>0, <2>1, <2>4, CronType
    <2>6. kv' \in [Alarms -> Stored] /\ unsaved' \in BOOLEAN
        BY <1>1, <2>3, StoreType DEF Add
    <2> QED
        BY <1>0, <1>1, <2>3, <2>5, <2>6, CallType DEF Add
<1>1f. ASSUME NEW a \in Alarms, NEW config \in Configs, AddFails(a, config) PROVE TypeOK'
    <2>1. PICK id \in NewIds(jobs, a, "fire") : LeftBehind(jobs, FireJob(id, a, Rolled(config)))
        BY <1>1f DEF AddFails
    <2>2. FireJob(id, a, Rolled(config)) \in JobSet /\ IsRequest(FireJob(id, a, Rolled(config)))
        BY <1>c, <1>j
    <2>3. GoodJobs(jobs') /\ armed' \in BOOLEAN
        BY <1>0, <2>1, <2>2, CronType
    <2> QED
        BY <1>0, <1>1f, <2>3, CallType DEF AddFails, history
<1>2. ASSUME NEW a \in Alarms, NEW config \in Configs, Update(a, config) PROVE TypeOK'
    <2> DEFINE js == Without(jobs, AllIds(alarm[a]))
    <2>1. PICK id \in NewIds(jobs, a, "fire") :
             /\ alarm' = [alarm EXCEPT ![a] = Configured(Cleared(alarm[a]), Rolled(config), id)]
             /\ Taken(js, FireJob(id, a, Rolled(config)))
        BY <1>2 DEF Update
    <2>2. Configured(Cleared(alarm[a]), Rolled(config), id) \in Alarm_Item
        BY <1>0, <1>c, <1>i, ClearedType, ConfiguredType
    <2>3. alarm' \in [Alarms -> Alarm_Item]
        BY <1>0, <2>1, <2>2
    <2>4. FireJob(id, a, Rolled(config)) \in JobSet /\ IsRequest(FireJob(id, a, Rolled(config)))
        BY <1>c, <1>j
    <2>5. GoodJobs(js)
        BY <1>0, GoodJobsLess
    <2> HIDE DEF js
    <2>6. GoodJobs(jobs') /\ armed' \in BOOLEAN
        BY <2>1, <2>4, <2>5, CronType
    <2>7. kv' \in [Alarms -> Stored] /\ unsaved' \in BOOLEAN
        BY <1>2, <2>3, StoreType DEF Update
    <2> QED
        BY <1>0, <1>2, <2>3, <2>6, <2>7, CallType DEF Update
<1>3. ASSUME NEW a \in Alarms, NEW config \in Configs, UpdateFails(a, config) PROVE TypeOK'
    <2> DEFINE js == Without(jobs, AllIds(alarm[a]))
    <2>1. alarm[a] \in Alarm_Item /\ Cleared(alarm[a]) \in Alarm_Item
        BY <1>0, ClearedType
    <2>2. ASSUME NEW ks, GoodJobs(ks), PutBack(a, ks)
          PROVE  /\ alarm' \in [Alarms -> Alarm_Item] /\ GoodJobs(jobs') /\ armed' \in BOOLEAN
                 /\ unscheduled' \subseteq Alarms
        <3>1. ASSUME NEW id \in NewIds(ks, a, "fire")
              PROVE  FireJob(id, a, alarm[a]) \in JobSet /\ IsRequest(FireJob(id, a, alarm[a]))
            BY <1>j, <2>1 DEF Alarm_Item
        <3>2. PICK id \in Nat : alarm' = [alarm EXCEPT ![a] = [Cleared(@) EXCEPT !.cron_job = id]]
            BY <1>i, <2>2 DEF PutBack
        <3>3. [Cleared(alarm[a]) EXCEPT !.cron_job = id] \in Alarm_Item
            BY <2>1, IdType
        <3>4. GoodJobs(jobs') /\ armed' \in BOOLEAN
            BY <2>2, <3>1, CronType DEF PutBack
        <3>5. unscheduled' \subseteq Alarms
            BY <1>0, <2>2 DEF PutBack
        <3> QED
            BY <1>0, <3>2, <3>3, <3>4, <3>5
    <2>3. GoodJobs(js)
        BY <1>0, GoodJobsLess
    <2>4. ASSUME NEW id \in NewIds(jobs, a, "fire")
          PROVE  GoodJobs(js \cup {Orphan(FireJob(id, a, Rolled(config)))})
        <3>1. FireJob(id, a, Rolled(config)) \in JobSet /\ IsRequest(FireJob(id, a, Rolled(config)))
            BY <1>c, <1>j
        <3> HIDE DEF js
        <3> QED
            BY <2>3, <3>1, OrphanType, GoodJobsMore
    <2>5. \/ PutBack(a, js)
          \/ \E id \in NewIds(jobs, a, "fire") : PutBack(a, js \cup {Orphan(FireJob(id, a, Rolled(config)))})
        BY <1>3 DEF UpdateFails
    <2> HIDE DEF js
    <2>6. /\ alarm' \in [Alarms -> Alarm_Item] /\ GoodJobs(jobs') /\ armed' \in BOOLEAN
          /\ unscheduled' \subseteq Alarms
        BY <2>2, <2>3, <2>4, <2>5
    <2> QED
        BY <1>0, <1>3, <2>6, CallType DEF UpdateFails
<1>4. ASSUME NEW a \in Alarms, Remove(a) PROVE TypeOK'
    <2>1. alarm' \in [Alarms -> Alarm_Item] /\ GoodJobs(jobs') /\ armed' \in BOOLEAN
        BY <1>0, <1>4, OffType, GoodJobsLess, CronType DEF Remove
    <2>2. kv' \in [Alarms -> Stored] /\ unsaved' \in BOOLEAN
        BY <1>4, <2>1, StoreType DEF Remove
    <2> QED
        BY <1>0, <1>4, <2>1, <2>2, CallType DEF Remove
<1>5. ASSUME NEW a \in Alarms, Enable(a) PROVE TypeOK'
    <2> DEFINE c == Rolled([alarm[a] EXCEPT !.enabled = TRUE])
               js == Without(jobs, {alarm[a].cron_job})
    <2>1. [alarm[a] EXCEPT !.enabled = TRUE] \in Alarm_Item
        BY <1>0 DEF Alarm_Item
    <2>2. c \in Alarm_Item
        BY <2>1, RolledAlarm
    <2>3. c.enabled \in BOOLEAN /\ c.once \in BOOLEAN /\ c.start \in Nat
        BY <2>2 DEF Alarm_Item
    <2>j. ASSUME NEW id \in NewIds(jobs, a, "fire")
          PROVE  FireJob(id, a, c) \in JobSet /\ IsRequest(FireJob(id, a, c)) /\ id \in Nat
        <3> HIDE DEF c
        <3> QED
            BY <1>i, <1>j, <2>3
    <2>l. GoodJobs(js)
        BY <1>0, GoodJobsLess
    <2>4. \/ \E id \in NewIds(jobs, a, "fire") :
                /\ alarm' = [alarm EXCEPT ![a] = [c EXCEPT !.cron_job = id]]
                /\ Taken(js, FireJob(id, a, c))
          \/ /\ alarm' = [alarm EXCEPT ![a] = [c EXCEPT !.enabled = FALSE, !.cron_job = 0]]
             /\ \/ Leaves(js)
                \/ \E id \in NewIds(jobs, a, "fire") : LeftBehind(js, FireJob(id, a, c))
        BY <1>5, Zenon DEF Enable
    <2>5. unscheduled' \subseteq Alarms
        BY <1>0, <1>5 DEF Enable
    <2>6. alarm' \in [Alarms -> Alarm_Item] /\ GoodJobs(jobs') /\ armed' \in BOOLEAN
        <3> HIDE DEF c, js
        <3>1. GoodJobs(jobs') /\ armed' \in BOOLEAN
            BY <2>j, <2>l, <2>4, CronType
        <3>2. [c EXCEPT !.enabled = FALSE, !.cron_job = 0] \in Alarm_Item
            BY <2>2 DEF Alarm_Item
        <3>3. \A id \in Nat : [c EXCEPT !.cron_job = id] \in Alarm_Item
            BY <2>2, IdType
        <3> QED
            BY <1>0, <2>j, <2>4, <3>1, <3>2, <3>3
    <2>7. kv' \in [Alarms -> Stored] /\ unsaved' \in BOOLEAN
        BY <1>0, <1>5, <2>6, StoreType DEF Enable
    <2> QED
        BY <1>0, <1>5, <2>5, <2>6, <2>7, CallType DEF Enable
<1>6. ASSUME NEW a \in Alarms, Disable(a) PROVE TypeOK'
    <2>1. alarm' \in [Alarms -> Alarm_Item] /\ GoodJobs(jobs') /\ armed' \in BOOLEAN
        BY <1>0, <1>6, ClearedType, GoodJobsLess, CronType DEF Disable
    <2>2. kv' \in [Alarms -> Stored] /\ unsaved' \in BOOLEAN
        BY <1>6, <2>1, StoreType DEF Disable
    <2> QED
        BY <1>0, <1>6, <2>1, <2>2, CallType DEF Disable
<1>7. ASSUME NEW a \in Alarms, Ack(a) PROVE TypeOK'
    <2>1. Disabled(alarm[a]) \in Alarm_Item /\ [Cleared(alarm[a]) EXCEPT !.ring_seq = 0] \in Alarm_Item
        BY <1>0, ClearedType DEF Alarm_Item
    <2>2. alarm' \in [Alarms -> Alarm_Item]
        BY <1>0, <1>7, <2>1 DEF Ack
    <2>3. GoodJobs(jobs') /\ armed' \in BOOLEAN
        <3>1. PICK ids : Leaves(Without(jobs, ids))
            BY <1>7 DEF Ack
        <3> QED
            BY <1>0, <3>1, GoodJobsLess, CronType
    <2>4. kv' \in [Alarms -> Stored] /\ unsaved' \in BOOLEAN
        BY <1>0, <1>7, <2>2, StoreType DEF Ack
    <2> QED
        BY <1>0, <1>7, <2>2, <2>3, <2>4, CallType DEF Ack
<1>8. CASE List
    <2>1. alarm' \in [Alarms -> Alarm_Item] /\ GoodJobs(jobs') /\ armed' \in BOOLEAN
        BY <1>0, <1>8, ClearedType, GoodJobsLess, CronType DEF List
    <2>2. kv' \in [Alarms -> Stored] /\ unsaved' \in BOOLEAN
        BY <1>8, <2>1, StoreType DEF List
    <2>3. over' \subseteq Alarms
        BY <1>0, <1>8 DEF List, Expired, Used
    <2> QED
        BY <1>0, <1>8, <2>1, <2>2, <2>3, CallType DEF List
<1>9. CASE SnoozeOn
    BY <1>0, <1>9, CallType DEF SnoozeOn, history
<1>10. CASE SnoozeOff
    <2>1. alarm' \in [Alarms -> Alarm_Item]
        BY <1>0, <1>10, IdType DEF SnoozeOff
    <2>2. GoodJobs(jobs') /\ armed' \in BOOLEAN
        BY <1>0, <1>10, GoodJobsLess, CronType DEF SnoozeOff
    <2> QED
        BY <1>0, <1>10, <2>1, <2>2, CallType DEF SnoozeOff
<1> QED
    BY <1>1, <1>1f, <1>2, <1>3, <1>4, <1>5, <1>6, <1>7, <1>8, <1>9, <1>10 DEF Call

\* The handlers keep the types
LEMMA TypeWork == TypeOK /\ Work => TypeOK'
<1> SUFFICES ASSUME TypeOK, Work PROVE TypeOK'
    OBVIOUS
<1> DEFINE a == Head(queue).alarm
<1>0. /\ alarm \in [Alarms -> Alarm_Item] /\ GoodJobs(jobs) /\ GoodQueue(queue)
      /\ kv \in [Alarms -> Stored] /\ unsaved \in BOOLEAN
      /\ untimed \subseteq Alarms /\ over \subseteq Alarms /\ armed \in BOOLEAN
    BY TypeParts DEF Rest
<1>1. queue # <<>>
    BY DEF Work, Fire, TimeoutSnoozes, TimeoutFinishes, SnoozeFires, TooLate, Take
<1>2. Head(queue) \in RequestSet /\ IsRequest(Head(queue)) /\ a \in Alarms /\ Head(queue).seq \in Nat
    BY <1>0, <1>1, GoodQueueTail DEF RequestSet
<1>3. CASE Fire
    <2>1. Take("fire") /\ StartRinging(a) /\ over' \subseteq Alarms /\ UNCHANGED <<kv, unsaved>>
        BY <1>0, <1>3 DEF Fire
    <2> QED
        BY <1>0, <1>2, <2>1, RingType, TakeType
<1>4. CASE TimeoutSnoozes
    <2> HIDE DEF a
    <2>0. Head(queue).kind = "timeout"
        BY <1>4 DEF TimeoutSnoozes, Take
    <2>1. Head(queue).seq \in Nat \ {0}
        BY <1>2, <2>0 DEF IsRequest
    <2>2. ASSUME NEW id \in NewIds(jobs, a, "snooze")
          PROVE  LET j == RuntimeJob(id, "snooze", a, Head(queue).seq) IN
                 id \in Nat /\ j \in JobSet /\ IsRequest(j) /\ GoodJobs(jobs \cup {j})
        <3>1. id \in Nat \ {0}
            BY <1>2, NewIdsType DEF Kinds
        <3> QED
            BY <1>0, <1>2, <2>1, <3>1, RuntimeJobType, GoodJobsMore
    <2>3. /\ \E id \in Nat : \/ alarm' = [alarm EXCEPT ![a] = [@ EXCEPT !.ack_timeout_job = 0, !.is_ringing = FALSE,
                                                                       !.snooze_job = id]]
                             \/ alarm' = [alarm EXCEPT ![a] = [@ EXCEPT !.ack_timeout_job = 0, !.snooze_job = id]]
                             \/ alarm' = [alarm EXCEPT ![a].ack_timeout_job = 0]
        BY <1>4, <2>2 DEF TimeoutSnoozes, a
    <2>4. alarm' \in [Alarms -> Alarm_Item]
        <3>1. alarm[a] \in Alarm_Item
            BY <1>0, <1>2
        <3>2. \A id \in Nat :
                 /\ [alarm[a] EXCEPT !.ack_timeout_job = 0, !.is_ringing = FALSE, !.snooze_job = id] \in Alarm_Item
                 /\ [alarm[a] EXCEPT !.ack_timeout_job = 0, !.snooze_job = id] \in Alarm_Item
                 /\ [alarm[a] EXCEPT !.ack_timeout_job = 0] \in Alarm_Item
            BY <3>1 DEF Alarm_Item
        <3> QED
            BY <1>0, <2>3, <3>2
    <2>5. GoodJobs(jobs') /\ armed' \in BOOLEAN
        BY <1>0, <1>4, <2>2 DEF TimeoutSnoozes, Taken, a
    <2>6. untimed' \subseteq Alarms
        BY <1>0, <1>2, <1>4 DEF TimeoutSnoozes, a
    <2> QED
        BY <1>0, <1>4, <2>4, <2>5, <2>6, TakeType DEF TimeoutSnoozes
<1>5. CASE TimeoutFinishes
    <2>1. alarm[a] \in Alarm_Item
        BY <1>0, <1>2
    <2>2. [alarm[a] EXCEPT !.ack_timeout_job = 0, !.is_ringing = FALSE,
                           !.ring_seq = 0, !.enabled = alarm[a].enabled /\ ~alarm[a].once] \in Alarm_Item
        BY <2>1 DEF Alarm_Item
    <2>3. alarm' \in [Alarms -> Alarm_Item]
        BY <1>0, <1>2, <1>5, <2>2 DEF TimeoutFinishes
    <2>4. kv' \in [Alarms -> Stored] /\ unsaved' \in BOOLEAN
        BY <1>0, <1>5, <2>3, StoreType DEF TimeoutFinishes
    <2>5. over' \subseteq Alarms
        BY <1>0, <1>2, <1>5 DEF TimeoutFinishes
    <2> QED
        BY <1>0, <1>5, <2>3, <2>4, <2>5, TakeType DEF TimeoutFinishes
<1>6. CASE SnoozeFires
    <2>1. Take("snooze") /\ UNCHANGED <<kv, unsaved, over>>
        BY <1>6 DEF SnoozeFires
    <2>2. CASE snooze_enabled
        <3>1. StartRinging(a)
            BY <1>6, <2>2 DEF SnoozeFires
        <3> QED
            BY <1>0, <1>2, <2>1, <3>1, RingType, TakeType
    <2>3. CASE ~snooze_enabled
        <3>1. alarm' = [alarm EXCEPT ![a].snooze_job = 0] /\ UNCHANGED <<jobs, armed, untimed>>
            BY <1>6, <2>3 DEF SnoozeFires
        <3>2. alarm' \in [Alarms -> Alarm_Item]
            BY <1>0, <1>2, <3>1 DEF Alarm_Item
        <3> QED
            BY <1>0, <2>1, <3>1, <3>2, TakeType
    <2> QED
        BY <1>0, <2>2, <2>3
<1>7. CASE TooLate
    BY <1>0, <1>7, TakeType DEF TooLate
<1> QED
    BY <1>3, <1>4, <1>5, <1>6, <1>7 DEF Work

\* One turn of the start keeps the types
LEMMA TypeLoad ==
    ASSUME TypeOK, NEW a \in Alarms, StoreLoad(a)
    PROVE  TypeOK'
<1>0. /\ alarm \in [Alarms -> Alarm_Item] /\ GoodJobs(jobs) /\ GoodQueue(queue)
      /\ kv \in [Alarms -> Stored] /\ unsaved \in BOOLEAN /\ unscheduled \subseteq Alarms /\ Rest
    BY TypeParts DEF Rest
<1>1. /\ kv[a].enabled \in BOOLEAN /\ kv[a].once \in BOOLEAN /\ kv[a].start \in Nat
      /\ Configured(Off, kv[a], 0) \in Alarm_Item
    BY <1>0, OffType, ConfiguredType DEF Stored
<1>2. Configured(Off, [kv[a] EXCEPT !.enabled = FALSE], 0) \in Alarm_Item
    <2>1. [kv[a] EXCEPT !.enabled = FALSE] \in Stored
        BY <1>0 DEF Stored
    <2> QED
        BY <2>1, OffType, ConfiguredType DEF Stored
<1>3. ASSUME NEW id \in NewIds(jobs, a, "fire")
      PROVE  id \in Nat /\ FireJob(id, a, kv[a]) \in JobSet /\ IsRequest(FireJob(id, a, kv[a]))
    <2>1. id \in Nat \ {0}
        BY NewIdsType DEF Kinds
    <2> QED
        BY <1>1, <2>1, FireJobType
<1>a. alarm' \in [Alarms -> Alarm_Item]
    <2>1. \A id \in Nat : Configured(Off, kv[a], id) \in Alarm_Item
        BY <1>1, OffType, ConfiguredType
    <2> QED
        BY <1>0, <1>1, <1>2, <1>3, <2>1 DEF StoreLoad
<1>b. GoodJobs(jobs') /\ armed' \in BOOLEAN
    BY <1>0, <1>3, CronType DEF StoreLoad, Rest
<1>4. alarm' \in [Alarms -> Alarm_Item] /\ GoodJobs(jobs') /\ unscheduled' \subseteq Alarms
    BY <1>0, <1>a, <1>b DEF StoreLoad
<1>5. kv' \in [Alarms -> Stored] /\ unsaved' \in BOOLEAN
    BY <1>0, <1>4, StoreType DEF StoreLoad
<1>6. GoodQueue(queue') /\ Rest'
    BY <1>0, <1>4, <1>b DEF StoreLoad, clock, Rest
<1> QED
    BY <1>4, <1>5, <1>6, TypeJoined

\* Cron handing a job to the work queue keeps the types
LEMMA TypeFires ==
    ASSUME TypeOK, NEW j \in jobs, JobFires(j)
    PROVE  TypeOK'
<1>0. /\ alarm \in [Alarms -> Alarm_Item] /\ GoodJobs(jobs) /\ GoodQueue(queue)
      /\ kv \in [Alarms -> Stored] /\ unsaved \in BOOLEAN /\ Rest
    BY TypeParts
<1>1. j \in JobSet /\ IsRequest(j) /\ j.alarm \in Alarms
    BY <1>0 DEF GoodJobs, JobSet
<1>2. GoodJobs(jobs') /\ armed' \in BOOLEAN
    BY <1>0 DEF JobFires, GoodJobs, Leaves, Reschedule, Rest
<1>3. [kind |-> j.kind, alarm |-> j.alarm, seq |-> j.seq] \in RequestSet
      /\ IsRequest([kind |-> j.kind, alarm |-> j.alarm, seq |-> j.seq])
    BY <1>1 DEF JobSet, RequestSet, IsRequest
<1>4. GoodQueue(queue')
    BY <1>0, <1>3, GoodQueueAppend DEF JobFires
<1>5. Rest'
    BY <1>0, <1>1, <1>2 DEF JobFires, clock, Rest
<1> QED
    BY <1>0, <1>2, <1>4, <1>5, TypeJoined DEF JobFires

\* The other steps keep the types
LEMMA TypeRest ==
    ASSUME TypeOK, Deinit \/ PowerLoss \/ InitService \/ Tick \/ TimeSync \/ UNCHANGED vars
    PROVE  TypeOK'
<1>0. /\ alarm \in [Alarms -> Alarm_Item] /\ GoodJobs(jobs) /\ GoodQueue(queue)
      /\ kv \in [Alarms -> Stored] /\ unsaved \in BOOLEAN /\ Rest
    BY TypeParts
<1>1. GoodJobs({}) /\ GoodQueue(<<>>) /\ [x \in Alarms |-> Off] \in [Alarms -> Alarm_Item]
    BY OffType DEF GoodJobs, GoodQueue
<1>2. CASE Deinit
    <2>0. inputs' \in Nat
        BY <1>0, <1>2 DEF Deinit, Rest
    <2>1. Rest'
        BY <1>0, <1>2, <2>0 DEF Deinit, clock, Rest
    <2> QED
        BY <1>0, <1>1, <1>2, <2>1, TypeJoined DEF Deinit
<1>3. CASE PowerLoss
    <2>0. inputs' \in Nat
        BY <1>0, <1>3 DEF PowerLoss, Rest
    <2>1. Rest'
        BY <1>0, <1>3, <2>0 DEF PowerLoss, Rest
    <2> QED
        BY <1>0, <1>1, <1>3, <2>1, TypeJoined DEF PowerLoss
<1>4. CASE InitService
    <2>1. Rest'
        BY <1>0, <1>4 DEF InitService, clock, Rest
    <2> QED
        BY <1>0, <1>1, <1>4, <2>1, TypeJoined DEF InitService
<1>5. CASE Tick
    <2>1. Rest' /\ unsaved' = unsaved
        BY <1>0, <1>5 DEF Tick, history, Rest
    <2> QED
        BY <1>0, <1>5, <2>1, TypeJoined DEF Tick
<1>6. CASE TimeSync
    <2>1. PICK passed \in SUBSET jobs :
             /\ synced' = TRUE
             /\ jobs' = {[j EXCEPT !.due = IF j \in passed \/ (0 < @ /\ @ <= now) THEN Never ELSE @] : j \in jobs}
             /\ untimed' = untimed \cup {j.alarm : j \in passed}
             /\ armed' \in BOOLEAN
             /\ UNCHANGED <<alarm, snooze_enabled, queue, kv, up, loading, now, inputs, fires,
                            unscheduled, unsaved, over>>
        BY <1>6 DEF TimeSync
    <2>t. \A j \in jobs : j \in JobSet /\ IsRequest(j) /\ j.alarm \in Alarms
        BY <1>0 DEF GoodJobs, JobSet
    <2>2. Rest'
        BY <1>0, <2>1, <2>t DEF Rest
    <2>3. ASSUME NEW j \in jobs
          PROVE  LET k == [j EXCEPT !.due = IF j \in passed \/ (0 < @ /\ @ <= now) THEN Never ELSE @]
                 IN  k \in JobSet /\ IsRequest(k)
        <3>1. Never \in Nat
            BY AlarmAssumption DEF Never
        <3> QED
            BY <2>t, <3>1 DEF JobSet, IsRequest
    <2>4. GoodJobs(jobs')
        BY <2>1, <2>3 DEF GoodJobs
    <2> QED
        BY <1>0, <2>1, <2>2, <2>4, TypeJoined
<1>7. CASE UNCHANGED vars
    BY <1>0, <1>7, TypeJoined DEF vars, Rest
<1> QED
    BY <1>2, <1>3, <1>4, <1>5, <1>6, <1>7

\* Every step keeps the types
LEMMA TypeStep == TypeOK /\ [Next]_vars => TypeOK'
<1> SUFFICES ASSUME TypeOK, [Next]_vars PROVE TypeOK'
    OBVIOUS
<1>1. CASE Call
    BY <1>1, TypeCall
<1>2. CASE Work
    BY <1>2, TypeWork
<1>3. ASSUME NEW a \in Alarms, StoreLoad(a) PROVE TypeOK'
    BY <1>3, TypeLoad
<1>4. ASSUME NEW j \in jobs, JobFires(j) PROVE TypeOK'
    BY <1>4, TypeFires
<1> QED
    BY <1>1, <1>2, <1>3, <1>4, TypeRest DEF Next

\* Every variable keeps its type: no request of a round is ever sent without its number, for
\* any number of alarms, calls, sleeps and power losses.
THEOREM TypeCorrect == Spec => []TypeOK
<1>1. Init => TypeOK
    <2> SUFFICES ASSUME Init PROVE TypeOK
        OBVIOUS
    <2>1. alarm \in [Alarms -> Alarm_Item]
        BY OffType DEF Init
    <2>2. kv \in [Alarms -> Stored]
        BY <2>1 DEF Init, Image, Stored, Alarm_Item
    <2>3. Requests = {}
        BY DEF Init, Requests
    <2>4. now \in Nat /\ inputs \in Nat /\ fires \in Nat
        BY AlarmAssumption DEF Init
    <2>5. jobs = {} /\ queue \in Seq([kind : Kinds, alarm : Alarms, seq : Nat])
        BY DEF Init
    <2>6. /\ snooze_enabled \in BOOLEAN /\ armed \in BOOLEAN /\ up \in BOOLEAN /\ synced \in BOOLEAN /\ unsaved \in BOOLEAN
          /\ loading = {} /\ unscheduled = {} /\ untimed = {} /\ over = Alarms
        BY DEF Init
    <2> QED
        BY <2>1, <2>2, <2>3, <2>4, <2>5, <2>6 DEF TypeOK
<1> QED
    BY <1>1, TypeStep, PTL DEF Spec

-----------------------------------------------------------------------------
(* A round that is over.  It is not enough that the alarm does not ring: the number of its *)
(* round has to be 0 as well, which no request in the work queue carries.                   *)

Quiet(r) == ~r.is_ringing /\ r.ring_seq = 0
OverInv == \A a \in over : Quiet(alarm[a])

\* What makes a record quiet, and what leaves a quiet one quiet
LEMMA QuietRecords ==
    ASSUME NEW r \in Alarm_Item
    PROVE  /\ Quiet(Off)
           /\ Quiet(Disabled(r))
           /\ Quiet([Cleared(r) EXCEPT !.ring_seq = 0])
           /\ \A c, id : Quiet(r) => Quiet(Configured(r, c, id))
           /\ \A id : Quiet(r) => Quiet([r EXCEPT !.cron_job = id])
           /\ \A id : Quiet(r) => Quiet([r EXCEPT !.snooze_job = id])
           /\ Quiet(r) => Quiet(Cleared(r))
           /\ Quiet(r) => Quiet([r EXCEPT !.enabled = TRUE])
           /\ \A id : Quiet(r) => Quiet([r EXCEPT !.enabled = FALSE, !.cron_job = id])
           /\ \A t : Quiet(r) => Quiet([r EXCEPT !.start = t])
BY DEF Quiet, Off, Disabled, Cleared, Configured, Alarm_Item

\* A step that changes one alarm keeps the invariant if this alarm is quiet or not over
LEMMA QuietOne ==
    ASSUME TypeOK, OverInv, NEW a \in Alarms, NEW r,
           alarm' = [alarm EXCEPT ![a] = r], over' \subseteq over \cup {a}, a \in over' => Quiet(r)
    PROVE  OverInv'
<1>1. alarm \in [Alarms -> Alarm_Item] /\ over \subseteq Alarms
    BY DEF TypeOK
<1>2. alarm'[a] = r /\ \A b \in Alarms \ {a} : alarm'[b] = alarm[b]
    BY <1>1
<1>3. ASSUME NEW b \in over' PROVE Quiet(alarm'[b])
    BY <1>1, <1>2 DEF OverInv
<1> QED
    BY <1>3 DEF OverInv

\* The calls keep it
LEMMA OverCall == TypeOK /\ OverInv /\ Call => OverInv'
<1> SUFFICES ASSUME TypeOK, OverInv, Call PROVE OverInv'
    OBVIOUS
<1>0. alarm \in [Alarms -> Alarm_Item] /\ over \subseteq Alarms
    BY DEF TypeOK
<1>1. \A a \in over : Quiet(alarm[a])
    BY DEF OverInv
<1>2. ASSUME NEW a \in Alarms, NEW config \in Configs, Add(a, config) PROVE OverInv'
    <2>1. PICK id : alarm' = [alarm EXCEPT ![a] = Configured(Off, Rolled(config), id)]
        BY <1>2 DEF Add
    <2>2. Quiet(Configured(Off, Rolled(config), id))
        BY OffType, QuietRecords
    <2> QED
        BY <1>2, <2>1, <2>2, QuietOne DEF Add
<1>2f. ASSUME NEW a \in Alarms, NEW config \in Configs, AddFails(a, config) PROVE OverInv'
    BY <1>1, <1>2f DEF AddFails, history, OverInv
<1>3. ASSUME NEW a \in Alarms, NEW config \in Configs, Update(a, config) PROVE OverInv'
    <2>1. PICK id : alarm' = [alarm EXCEPT ![a] = Configured(Cleared(alarm[a]), Rolled(config), id)]
        BY <1>3 DEF Update
    <2>2. a \in over => Quiet(Configured(Cleared(alarm[a]), Rolled(config), id))
        BY <1>0, <1>1, ClearedType, QuietRecords
    <2> QED
        BY <1>3, <2>1, <2>2, QuietOne DEF Update
<1>4. ASSUME NEW a \in Alarms, NEW config \in Configs, UpdateFails(a, config) PROVE OverInv'
    <2>1. PICK id : alarm' = [alarm EXCEPT ![a] = [Cleared(alarm[a]) EXCEPT !.cron_job = id]]
        BY <1>4 DEF UpdateFails, PutBack
    <2>2. a \in over => Quiet([Cleared(alarm[a]) EXCEPT !.cron_job = id])
        BY <1>0, <1>1, ClearedType, QuietRecords
    <2> QED
        BY <1>4, <2>1, <2>2, QuietOne DEF UpdateFails
<1>5. ASSUME NEW a \in Alarms, Remove(a) PROVE OverInv'
    BY <1>5, OffType, QuietRecords, QuietOne DEF Remove
<1>6. ASSUME NEW a \in Alarms, Enable(a) PROVE OverInv'
    <2> DEFINE on == [alarm[a] EXCEPT !.enabled = TRUE]
               c == Rolled(on)
    <2>1. on \in Alarm_Item
        BY <1>0 DEF Alarm_Item
    <2>2. c \in Alarm_Item /\ c = [on EXCEPT !.start = c.start]
        BY <2>1, RolledAlarm
    <2>3. a \in over => Quiet(on)
        BY <1>0, <1>1, QuietRecords
    <2>4. a \in over => Quiet(c)
        <3> HIDE DEF on, c
        <3> QED
            BY <2>1, <2>2, <2>3, QuietRecords
    <2>5. ASSUME NEW id, alarm' = [alarm EXCEPT ![a] = [c EXCEPT !.cron_job = id]] PROVE OverInv'
        <3>1. a \in over => Quiet([c EXCEPT !.cron_job = id])
            <4> HIDE DEF c
            <4> QED
                BY <2>2, <2>4, QuietRecords
        <3>2. over' = over
            BY <1>6 DEF Enable
        <3> HIDE DEF c
        <3> QED
            BY <2>5, <3>1, <3>2, QuietOne
    <2>6. ASSUME alarm' = [alarm EXCEPT ![a] = [c EXCEPT !.enabled = FALSE, !.cron_job = 0]] PROVE OverInv'
        <3>1. a \in over => Quiet([c EXCEPT !.enabled = FALSE, !.cron_job = 0])
            <4> HIDE DEF c
            <4> QED
                BY <2>2, <2>4, QuietRecords
        <3>2. over' = over
            BY <1>6 DEF Enable
        <3> HIDE DEF c
        <3> QED
            BY <2>6, <3>1, <3>2, QuietOne
    <2> QED
        BY <1>6, <2>5, <2>6 DEF Enable
<1>7. ASSUME NEW a \in Alarms, Disable(a) PROVE OverInv'
    BY <1>0, <1>7, QuietRecords, QuietOne DEF Disable
<1>8. ASSUME NEW a \in Alarms, Ack(a) PROVE OverInv'
    <2> DEFINE r == IF alarm[a].once THEN Disabled(alarm[a]) ELSE [Cleared(alarm[a]) EXCEPT !.ring_seq = 0]
    <2>1. Quiet(r)
        BY <1>0, QuietRecords
    <2>2. alarm' = [alarm EXCEPT ![a] = r] /\ over' = over \cup {a}
        BY <1>8 DEF Ack
    <2> HIDE DEF r
    <2> QED
        BY <2>1, <2>2, QuietOne
<1>9. CASE List
    <2>1. Expired \subseteq Alarms
        BY DEF Expired, Used
    <2>2. \A b \in Expired : Quiet(alarm'[b])
        BY <1>0, <1>9, <2>1, QuietRecords DEF List
    <2>3. \A b \in over \ Expired : Quiet(alarm'[b])
        BY <1>0, <1>1, <1>9 DEF List
    <2> QED
        BY <1>9, <2>2, <2>3 DEF List, OverInv
<1>10. CASE SnoozeOn
    BY <1>1, <1>10 DEF SnoozeOn, history, OverInv
<1>11. CASE SnoozeOff
    <2>1. \A b \in Alarms : alarm'[b] = [alarm[b] EXCEPT !.snooze_job = 0]
        BY <1>11 DEF SnoozeOff
    <2>2. ASSUME NEW b \in over PROVE Quiet(alarm'[b])
        <3>1. alarm[b] \in Alarm_Item /\ Quiet(alarm[b]) /\ alarm'[b] = [alarm[b] EXCEPT !.snooze_job = 0]
            BY <1>0, <1>1, <2>1
        <3> QED
            BY <3>1 DEF Quiet, Alarm_Item
    <2> QED
        BY <1>11, <2>2 DEF SnoozeOff, OverInv
<1> QED
    BY <1>2, <1>2f, <1>3, <1>4, <1>5, <1>6, <1>7, <1>8, <1>9, <1>10, <1>11 DEF Call

\* The handlers keep it: a snooze of a round that is over has another number
LEMMA OverWork == TypeOK /\ OverInv /\ Work => OverInv'
<1> SUFFICES ASSUME TypeOK, OverInv, Work PROVE OverInv'
    OBVIOUS
<1> DEFINE a == Head(queue).alarm
<1>0. alarm \in [Alarms -> Alarm_Item] /\ over \subseteq Alarms /\ GoodQueue(queue)
    BY TypeParts DEF Rest
<1>1. \A b \in over : Quiet(alarm[b])
    BY DEF OverInv
<1>2. queue # <<>>
    BY DEF Work, Fire, TimeoutSnoozes, TimeoutFinishes, SnoozeFires, TooLate, Take
<1>3. IsRequest(Head(queue)) /\ a \in Alarms /\ alarm[a] \in Alarm_Item
    BY <1>0, <1>2, GoodQueueTail DEF RequestSet
<1>4. ASSUME StartRinging(a), over' \subseteq over \ {a} PROVE OverInv'
    <2>1. PICK r : alarm' = [alarm EXCEPT ![a] = r]
        BY <1>4 DEF StartRinging
    <2> QED
        BY <1>3, <1>4, <2>1, QuietOne
<1>5. CASE Fire
    BY <1>4, <1>5 DEF Fire
<1>6. CASE TimeoutSnoozes
    <2>1. a \notin over
        BY <1>1, <1>6 DEF TimeoutSnoozes, Quiet
    <2>2. PICK r : alarm' = [alarm EXCEPT ![a] = r]
        BY <1>6 DEF TimeoutSnoozes
    <2>3. over' = over
        BY <1>6 DEF TimeoutSnoozes
    <2> HIDE DEF a
    <2> QED
        BY <1>3, <2>1, <2>2, <2>3, QuietOne
<1>7. CASE TimeoutFinishes
    <2> DEFINE r == [alarm[a] EXCEPT !.ack_timeout_job = 0, !.is_ringing = FALSE, !.ring_seq = 0,
                                     !.enabled = alarm[a].enabled /\ ~alarm[a].once]
    <2>1. Quiet(r)
        BY <1>3 DEF Quiet, Alarm_Item
    <2>2. alarm' = [alarm EXCEPT ![a] = r] /\ over' = over \cup {a}
        BY <1>7 DEF TimeoutFinishes
    <2> HIDE DEF a, r
    <2> QED
        BY <1>3, <2>1, <2>2, QuietOne
<1>8. CASE SnoozeFires
    <2>1. Head(queue).kind = "snooze" /\ alarm[a].ring_seq = Head(queue).seq /\ over' = over
        BY <1>8 DEF SnoozeFires, Take, OfRound
    <2>2. alarm[a].ring_seq > 0
        BY <1>3, <2>1 DEF IsRequest
    <2>3. a \notin over
        BY <1>1, <2>2 DEF Quiet
    <2>4. CASE snooze_enabled
        BY <1>4, <1>8, <2>1, <2>3, <2>4 DEF SnoozeFires
    <2>5. CASE ~snooze_enabled
        <3>1. PICK r : alarm' = [alarm EXCEPT ![a] = r]
            BY <1>8, <2>5 DEF SnoozeFires
        <3> QED
            BY <1>3, <2>1, <2>3, <3>1, QuietOne
    <2> QED
        BY <2>4, <2>5
<1>9. CASE TooLate
    BY <1>1, <1>9 DEF TooLate, OverInv
<1> QED
    BY <1>5, <1>6, <1>7, <1>8, <1>9 DEF Work

\* A round that was acknowledged, has finished or was ended otherwise stays over until the
\* alarm's date comes, whatever timeouts and snoozes are still in the work queue, for any
\* number of alarms, calls and rounds.
THEOREM OverStaysOver == Spec => []OverIsOver
<1>1. Init => OverInv
    BY OffType, QuietRecords DEF Init, OverInv
<1>2. TypeOK /\ OverInv /\ [Next]_vars => OverInv'
    <2> SUFFICES ASSUME TypeOK, OverInv, [Next]_vars PROVE OverInv'
        OBVIOUS
    <2>0. /\ alarm \in [Alarms -> Alarm_Item] /\ over \subseteq Alarms
          /\ \A a \in over : Quiet(alarm[a])
        BY DEF TypeOK, OverInv
    <2>1. CASE Call
        BY <2>1, OverCall
    <2>2. CASE Work
        BY <2>2, OverWork
    <2>3. ASSUME NEW a \in Alarms, StoreLoad(a) PROVE OverInv'
        <3>1. PICK c, id : alarm' = [alarm EXCEPT ![a] = Configured(Off, c, id)]
            BY <2>3 DEF StoreLoad
        <3>2. Quiet(Configured(Off, c, id))
            BY OffType, QuietRecords
        <3> QED
            BY <2>3, <3>1, <3>2, QuietOne DEF StoreLoad
    <2>4. CASE Deinit \/ PowerLoss
        <3>1. \A a \in Alarms : alarm'[a] = Off
            BY <2>4 DEF Deinit, PowerLoss
        <3> QED
            BY <2>4, <3>1, OffType, QuietRecords DEF Deinit, PowerLoss, OverInv
    <2>5. CASE InitService \/ Tick \/ TimeSync \/ UNCHANGED vars
        BY <2>0, <2>5 DEF InitService, Tick, TimeSync, history, vars, OverInv
    <2>6. ASSUME NEW j \in jobs, JobFires(j) PROVE OverInv'
        BY <2>0, <2>6 DEF JobFires, OverInv
    <2> QED
        BY <2>1, <2>2, <2>3, <2>4, <2>5, <2>6 DEF Next
<1>3. OverInv => OverIsOver
    BY DEF OverInv, OverIsOver, Quiet
<1> QED
    BY <1>1, <1>2, <1>3, TypeCorrect, PTL DEF Spec

-----------------------------------------------------------------------------
(* Jobs, dates, timeouts and the stored table. *)

\* A slot that is not used is empty, in the table and in the store; without the service, and
\* before it is loaded, a slot is not used.
Blank == [used |-> FALSE, enabled |-> FALSE, once |-> FALSE, start |-> 0]
UnusedInv ==
    /\ \A a \in Alarms : ~alarm[a].used => alarm[a] = Off
    /\ \A a \in Alarms : ~kv[a].used => kv[a] = Blank
    /\ ~up => loading = {} /\ \A a \in Alarms : ~alarm[a].used
    /\ \A a \in loading : ~alarm[a].used

\* The id of a job is in the one field that remembers it and in no other.
OwnInv ==
    /\ JobsOwned
    /\ \A j \in jobs, a \in Alarms, kind \in Kinds :
          Field(alarm[a], kind) = j.id => a = j.alarm /\ kind = j.kind

\* An alarm has one timeout or snooze in the cron table, or one request in the work queue.  A
\* job that was left behind and waits for a year does not count; one that is remembered and
\* waits for a year may be overtaken by the alarm's next date.
Round(j) == j.kind # "fire" /\ (j.known \/ j.due # Never)
SingleInv ==
    /\ \A j, k \in jobs : j.alarm = k.alarm /\ Round(j) /\ Round(k) => j = k
    /\ \A j \in jobs, i \in 1..Len(queue) :
          Round(j) /\ j.alarm = queue[i].alarm => j.due = Never /\ queue[i].kind = "fire"
    /\ \A i, k \in 1..Len(queue) : queue[i].alarm = queue[k].alarm => i = k

\* A timeout or snooze is to come soon or waits for a year, which the clock does not reach.
DueInv ==
    /\ now <= MaxTime + 1
    /\ \A j \in jobs : j.kind # "fire" => j.due \in {AnyTime, Never}

\* OnIsScheduled and RingIsTimed of one alarm
On(a) ==
    a \in Used \ unscheduled /\ alarm[a].enabled /\ (alarm[a].once => alarm[a].start > now) =>
        \E j \in jobs : /\ j.kind = "fire" /\ j.alarm = a /\ j.on
                        /\ j.due = IF alarm[a].once THEN alarm[a].start ELSE AnyTime
Timed(a) ==
    a \notin untimed /\ alarm[a].is_ringing =>
        \E r \in Coming : r.kind = "timeout" /\ r.alarm = a /\ r.seq = alarm[a].ring_seq

\* The inductive invariant
AlarmInv == UnusedInv /\ OwnInv /\ SingleInv /\ DueInv /\ OnIsScheduled /\ RingIsTimed /\ KvFollows

\* Dates and timeouts, alarm by alarm
LEMMA PerAlarm ==
    /\ OnIsScheduled <=> \A a \in Alarms : On(a)
    /\ RingIsTimed <=> \A a \in Alarms : Timed(a)
BY DEF OnIsScheduled, RingIsTimed, On, Timed, Used

-----------------------------------------------------------------------------
(* A step that changes one alarm: its record becomes r, jobs leave, a job comes. *)

Change(a, r, ids, new) ==
    /\ alarm' = [alarm EXCEPT ![a] = r]
    /\ jobs' = Without(jobs, ids) \cup new

\* The jobs that leave are the alarm's, those that come have new ids, and the record remembers
\* the jobs that stay and those that come, except for the ones cron has left behind.
Sound(a, r, ids, new) ==
    /\ ids \subseteq AllIds(alarm[a])
    /\ \A n \in new : /\ n.alarm = a /\ n.id # 0 /\ n.kind \in Kinds /\ n.id \notin Held(Without(jobs, ids))
                      /\ n.kind # "fire" => n.due = AnyTime
                      /\ n.known => r.used /\ Field(r, n.kind) = n.id
    /\ \A n, m \in new : n.id = m.id => n = m
    /\ \A kind \in Kinds : \/ Field(r, kind) \in {0, Field(alarm[a], kind)}
                           \/ \E n \in new : n.kind = kind /\ n.id = Field(r, kind)
    /\ \A j \in jobs : j.alarm = a /\ j.known => j.id \in ids \/ (r.used /\ Field(r, j.kind) = j.id)

\* The ids that an alarm remembers are those of its fields
LEMMA FieldIds ==
    /\ \A r : AllIds(r) = {Field(r, kind) : kind \in Kinds}
    /\ \A r : RuntimeIds(r) = {Field(r, kind) : kind \in {"timeout", "snooze"}}
    /\ \A js : \A a \in Alarms, kind \in Kinds : Field(alarm[a], kind) \in Held(js)
    /\ \A js : \A j \in js : j.id \in Held(js)
BY DEF AllIds, RuntimeIds, Field, Kinds, Held

\* With fewer jobs fewer ids are held
LEMMA HeldLess ==
    /\ \A js, ks : js \subseteq ks => Held(js) \subseteq Held(ks)
    /\ \A ids : Held(Without(jobs, ids)) \subseteq Held(jobs)
<1>1. ASSUME NEW js, NEW ks, js \subseteq ks PROVE Held(js) \subseteq Held(ks)
    BY <1>1 DEF Held
<1>2. \A ids : Without(jobs, ids) \subseteq jobs
    BY DEF Without
<1> QED
    BY <1>1, <1>2

\* A job of another alarm stays
LEMMA OthersStay ==
    ASSUME TypeOK, OwnInv, NEW a \in Alarms, NEW ids \in SUBSET AllIds(alarm[a]), NEW j \in jobs, j.alarm # a
    PROVE  j \in Without(jobs, ids)
BY FieldIds DEF OwnInv, Without

\* A sound change keeps jobs owned
LEMMA OwnChange ==
    ASSUME TypeOK, OwnInv, DueInv, now' = now, NEW a \in Alarms, NEW r, NEW ids, NEW new,
           Change(a, r, ids, new), Sound(a, r, ids, new)
    PROVE  OwnInv' /\ DueInv'
<1>0. /\ alarm'[a] = r /\ \A b \in Alarms \ {a} : alarm'[b] = alarm[b]
      /\ \A j \in jobs : j.alarm \in Alarms /\ j.kind \in Kinds /\ j.id # 0
    BY DEF TypeOK, Change
<1>1. \A j \in jobs' : (j \in jobs /\ j.id \notin ids) \/ j \in new
    BY DEF Change, Without
<1>2. ASSUME NEW j \in jobs', j.known
      PROVE  alarm'[j.alarm].used /\ Field(alarm'[j.alarm], j.kind) = j.id
    <2>1. CASE j \in new
        BY <1>0, <1>2, <2>1 DEF Sound
    <2>2. CASE j \in jobs /\ j.id \notin ids /\ j.alarm = a
        BY <1>0, <1>2, <2>2 DEF Sound
    <2>3. CASE j \in jobs /\ j.alarm # a
        BY <1>0, <1>2, <2>3 DEF OwnInv, JobsOwned
    <2> QED
        BY <1>1, <2>1, <2>2, <2>3
<1>h. \A j \in jobs : j.id \notin ids => j.id \in Held(Without(jobs, ids))
    BY FieldIds DEF Without
<1>3. ASSUME NEW j \in jobs', NEW k \in jobs', k.id = j.id PROVE k = j
    BY <1>1, <1>3, <1>h DEF OwnInv, JobsOwned, Sound
<1>4. ASSUME NEW j \in jobs', NEW b \in Alarms, NEW kind \in Kinds, Field(alarm'[b], kind) = j.id
      PROVE  b = j.alarm /\ kind = j.kind
    <2>1. CASE j \in new /\ b # a
        <3>1. Field(alarm[b], kind) \in Held(Without(jobs, ids))
            BY FieldIds
        <3> QED
            BY <1>0, <1>4, <2>1, <3>1 DEF Sound
    <2>2. CASE j \in new /\ b = a
        BY <1>0, <1>4, <2>2, FieldIds DEF Sound
    <2>3. CASE j \in jobs /\ b # a
        BY <1>0, <1>4, <2>3 DEF OwnInv
    <2>4. CASE j \in jobs /\ j.id \notin ids /\ b = a
        <3>1. Field(alarm[a], kind) = j.id
            BY <1>0, <1>4, <1>h, <2>4 DEF Sound
        <3> QED
            BY <2>4, <3>1 DEF OwnInv
    <2> QED
        BY <1>1, <2>1, <2>2, <2>3, <2>4
<1>5. DueInv'
    BY <1>1 DEF DueInv, Sound
<1> QED
    BY <1>2, <1>3, <1>4, <1>5 DEF OwnInv, JobsOwned

\* It keeps the dates of the other alarms
LEMMA DatesChange ==
    ASSUME TypeOK, OwnInv, OnIsScheduled, NEW a \in Alarms, NEW r, NEW ids, NEW new,
           Change(a, r, ids, new), Sound(a, r, ids, new),
           now' = now, unscheduled \ {a} \subseteq unscheduled', On(a)'
    PROVE  OnIsScheduled'
<1>0. \A b \in Alarms \ {a} : alarm'[b] = alarm[b]
    BY DEF TypeOK, Change
<1>1. ASSUME NEW b \in Alarms \ {a} PROVE On(b)'
    <2>1. On(b)
        BY PerAlarm
    <2>2. \A j \in jobs : j.alarm = b => j \in jobs'
        BY OthersStay DEF Change, Sound
    <2> QED
        BY <1>0, <2>1, <2>2 DEF On, Used
<1> QED
    BY <1>1 DEF OnIsScheduled, On, Used

\* ... and their timeouts
LEMMA TimeoutsChange ==
    ASSUME TypeOK, OwnInv, RingIsTimed, NEW a \in Alarms, NEW r, NEW ids, NEW new,
           Change(a, r, ids, new), Sound(a, r, ids, new),
           untimed \ {a} \subseteq untimed',
           \A q \in Requests : q.alarm # a => q \in Requests', Timed(a)'
    PROVE  RingIsTimed'
<1>0. \A b \in Alarms \ {a} : alarm'[b] = alarm[b]
    BY DEF TypeOK, Change
<1>1. ASSUME NEW b \in Alarms \ {a} PROVE Timed(b)'
    <2>1. Timed(b)
        BY PerAlarm
    <2>2. \A j \in jobs : j.alarm = b => j \in jobs'
        BY OthersStay DEF Change, Sound
    <2>3. \A q \in Coming : q.alarm = b => q \in Coming'
        BY <2>2 DEF Coming
    <2> QED
        BY <1>0, <2>1, <2>3 DEF Timed
<1> QED
    BY <1>1 DEF RingIsTimed, Timed

\* What is stored after a save agrees with the table
LEMMA ImageFollows ==
    ASSUME TypeOK', \A a \in Alarms : ~alarm'[a].used => alarm'[a] = Off, kv' = Image(alarm')
    PROVE  KvFollows' /\ \A a \in Alarms : ~kv'[a].used => kv'[a] = Blank
<1>1. \A a \in Alarms : /\ kv'[a].used = alarm'[a].used /\ kv'[a].enabled = alarm'[a].enabled
                        /\ kv'[a].once = alarm'[a].once /\ kv'[a].start = alarm'[a].start
    BY DEF Image
<1>2. ASSUME NEW a \in Alarms, ~kv'[a].used PROVE kv'[a] = Blank
    <2>1. alarm'[a] = Off
        BY <1>1, <1>2
    <2>2. kv'[a] = [used |-> Off.used, enabled |-> Off.enabled, once |-> Off.once, start |-> Off.start]
        BY <2>1, Zenon DEF Image
    <2> QED
        BY <2>2 DEF Off, Blank
<1>3. KvFollows'
    BY <1>1, Zenon DEF KvFollows
<1> QED
    BY <1>2, <1>3

\* A step that saves the table, or changes nothing that is saved, keeps the store up to date
SameConfig(r, s) ==
    r.used = s.used /\ r.enabled = s.enabled /\ r.once = s.once /\ (r.enabled => r.start = s.start)

\* Whether it is saved or unchanged, what is stored keeps up with the table
LEMMA StoreChange ==
    ASSUME TypeOK, TypeOK', UnusedInv, KvFollows, up, UNCHANGED <<up, loading>>,
           \A a \in Alarms : alarm'[a].used \/ alarm'[a] = Off,
           \A a \in loading : alarm'[a] = alarm[a],
           \/ StoreSave(alarm')
           \/ UNCHANGED <<kv, unsaved>> /\ \A a \in Alarms : SameConfig(alarm'[a], alarm[a])
    PROVE  UnusedInv' /\ KvFollows'
<1>0. ASSUME NEW a \in Alarms
      PROVE  /\ alarm[a].used \in BOOLEAN /\ alarm[a].enabled \in BOOLEAN /\ alarm[a].once \in BOOLEAN
             /\ alarm'[a].used \in BOOLEAN /\ alarm'[a].enabled \in BOOLEAN /\ alarm'[a].once \in BOOLEAN
             /\ kv[a].used \in BOOLEAN /\ kv[a].enabled \in BOOLEAN /\ kv[a].once \in BOOLEAN
    BY DEF TypeOK, Alarm_Item, Stored
<1>l. loading \subseteq Alarms /\ up \in BOOLEAN /\ up' \in BOOLEAN /\ unsaved \in BOOLEAN /\ unsaved' \in BOOLEAN
    BY DEF TypeOK
<1>u. /\ \A a \in Alarms : ~alarm'[a].used => alarm'[a] = Off
      /\ up' /\ \A a \in loading' : ~alarm'[a].used
    BY <1>0, <1>l DEF UnusedInv
<1>1. CASE kv' = Image(alarm')
    BY <1>1, <1>u, ImageFollows DEF UnusedInv
<1>2. CASE kv' = kv /\ unsaved'
    BY <1>2, <1>u DEF UnusedInv, KvFollows
<1>3. CASE UNCHANGED <<kv, unsaved>> /\ \A a \in Alarms : SameConfig(alarm'[a], alarm[a])
    <2>1. KvFollows'
        BY <1>0, <1>l, <1>3 DEF KvFollows, SameConfig
    <2> QED
        BY <1>3, <1>u, <2>1 DEF UnusedInv
<1> QED
    BY <1>1, <1>2, <1>3 DEF StoreSave

\* A call that changes one alarm and brings at most one job for a date keeps the invariant
LEMMA OneCall ==
    ASSUME TypeOK, TypeOK', AlarmInv, Input, NEW a \in Alarms, NEW r, NEW ids, NEW new,
           Change(a, r, ids, new), Sound(a, r, ids, new), r.used \/ r = Off,
           \A n \in new : n.kind = "fire",
           unscheduled \ {a} \subseteq unscheduled', untimed' = untimed, On(a)', Timed(a)',
           StoreSave(alarm') \/ (UNCHANGED <<kv, unsaved>> /\ SameConfig(r, alarm[a]))
    PROVE  AlarmInv'
<1>0. /\ alarm'[a] = r /\ \A b \in Alarms \ {a} : alarm'[b] = alarm[b]
      /\ up /\ loading = {} /\ UNCHANGED <<queue, up, loading, now>>
    BY DEF TypeOK, Change, Input
<1>1. OwnInv' /\ DueInv'
    BY <1>0, OwnChange DEF AlarmInv
<1>2. OnIsScheduled'
    BY <1>0, DatesChange DEF AlarmInv
<1>3. RingIsTimed'
    <2>1. Requests' = Requests
        BY <1>0 DEF Requests
    <2> QED
        BY <2>1, TimeoutsChange DEF AlarmInv
<1>4. UnusedInv' /\ KvFollows'
    <2>1. \A b \in Alarms : alarm'[b].used \/ alarm'[b] = Off
        BY <1>0 DEF AlarmInv, UnusedInv
    <2>2. \A b \in Alarms : SameConfig(alarm[b], alarm[b])
        BY DEF SameConfig
    <2>3. SameConfig(r, alarm[a]) => \A b \in Alarms : SameConfig(alarm'[b], alarm[b])
        BY <1>0, <2>2
    <2> QED
        BY <1>0, <2>1, <2>3, StoreChange DEF AlarmInv
<1>5. SingleInv'
    <2>1. \A j \in jobs' : j \in jobs \/ j.kind = "fire"
        BY DEF Change, Without
    <2> QED
        BY <1>0, <2>1 DEF AlarmInv, SingleInv, Round
<1> QED
    BY <1>1, <1>2, <1>3, <1>4, <1>5 DEF AlarmInv

\* The job that cron has for a configuration waits for its date
LEMMA DateByJob ==
    ASSUME TypeOK', NEW a \in Alarms, NEW c, NEW id, now' = now, FireJob(id, a, c) \in jobs',
           c.enabled = alarm'[a].enabled, c.once = alarm'[a].once, c.start = alarm'[a].start
    PROVE  On(a)'
<1>1. alarm'[a].once \in BOOLEAN /\ alarm'[a].enabled \in BOOLEAN /\ alarm'[a].start \in Nat /\ now' \in Nat
    BY DEF TypeOK, Alarm_Item
<1>2. /\ FireJob(id, a, c).kind = "fire" /\ FireJob(id, a, c).alarm = a
      /\ FireJob(id, a, c).on = c.enabled /\ FireJob(id, a, c).due = Due(c)
    BY DEF FireJob
<1>3. (c.once => c.start > now) => Due(c) = IF c.once THEN c.start ELSE AnyTime
    BY <1>1 DEF Due
<1> QED
    BY <1>1, <1>2, <1>3 DEF On

\* A new job for the date of an alarm, and one that cron leaves behind
LEMMA NewFireJob ==
    ASSUME NEW js, NEW a \in Alarms, NEW id \in NewIds(js, a, "fire"), NEW c,
           NEW n \in {FireJob(id, a, c), Orphan(FireJob(id, a, c))}
    PROVE  /\ n.alarm = a /\ n.id = id /\ n.id # 0 /\ n.kind = "fire" /\ n.kind \in Kinds /\ n.id \notin Held(js)
           /\ n = Orphan(FireJob(id, a, c)) => ~n.known
<1>1. id # 0 /\ id \notin Held(js)
    BY NewIdsType DEF Kinds
<1> QED
    BY <1>1 DEF FireJob, Orphan, Kinds

\* An alarm that does not ring needs no timeout
LEMMA SilentIsTimed ==
    ASSUME NEW a \in Alarms, ~alarm'[a].is_ringing PROVE Timed(a)'
BY DEF Timed

\* An alarm that is off needs no date
LEMMA OffIsOn ==
    ASSUME NEW a \in Alarms, ~alarm'[a].enabled \/ a \in unscheduled' \/ ~alarm'[a].used PROVE On(a)'
BY DEF On, Used

\* Every call keeps the invariant
LEMMA InvCall == TypeOK /\ TypeOK' /\ AlarmInv /\ Call => AlarmInv'
<1> SUFFICES ASSUME TypeOK, TypeOK', AlarmInv, Call PROVE AlarmInv'
    OBVIOUS
<1>0. alarm \in [Alarms -> Alarm_Item] /\ GoodJobs(jobs)
    BY TypeParts
<1>f. \A b \in Alarms : alarm[b] \in Alarm_Item
    BY <1>0
<1>j. \A j \in jobs : /\ j.alarm \in Alarms /\ j.kind \in Kinds
                      /\ j.known => /\ Field(alarm[j.alarm], j.kind) = j.id
                                    /\ j.id \in AllIds(alarm[j.alarm])
    BY <1>0, FieldIds DEF GoodJobs, JobSet, AlarmInv, OwnInv, JobsOwned
<1>n. ASSUME NEW ids, NEW a \in Alarms, NEW id \in NewIds(jobs, a, "fire"), NEW c,
             NEW n \in {FireJob(id, a, c), Orphan(FireJob(id, a, c))}
      PROVE  /\ n.alarm = a /\ n.id = id /\ n.id # 0 /\ n.kind = "fire" /\ n.kind \in Kinds
             /\ n.id \notin Held(Without(jobs, ids))
             /\ n = Orphan(FireJob(id, a, c)) => ~n.known
    BY HeldLess, NewFireJob
<1>1. ASSUME NEW a \in Alarms, NEW config \in Configs, Add(a, config) PROVE AlarmInv'
    <2> DEFINE c == Rolled(config)
    <2>1. PICK id \in NewIds(jobs, a, "fire") : Change(a, Configured(Off, c, id), {}, {FireJob(id, a, c)})
        BY <1>1 DEF Add, Taken, Change, Without
    <2> DEFINE r == Configured(Off, c, id)
    <2>2. /\ r.used /\ r.enabled = c.enabled /\ r.once = c.once /\ r.start = c.start
          /\ ~r.is_ringing /\ Field(r, "fire") = id
          /\ \A kind \in Kinds : kind # "fire" => Field(r, kind) = 0
        BY DEF Configured, Off, Field, Kinds
    <2>3. \A j \in jobs : j.known => j.alarm # a
        BY <1>1 DEF Add, Used, AlarmInv, OwnInv, JobsOwned
    <2>d. Input /\ StoreSave(alarm') /\ unscheduled \ {a} \subseteq unscheduled' /\ untimed' = untimed /\ now' = now
        BY <1>1 DEF Add, Input
    <2>e. alarm'[a] = r /\ FireJob(id, a, c) \in jobs'
        BY <1>0, <2>1 DEF Change
    <2> HIDE DEF c, r
    <2>4. Sound(a, r, {}, {FireJob(id, a, c)})
        BY <1>n, <2>2, <2>3 DEF Sound
    <2>5. On(a)' /\ Timed(a)'
        BY <2>2, <2>d, <2>e, DateByJob, SilentIsTimed
    <2> QED
        BY <1>n, <2>1, <2>2, <2>4, <2>5, <2>d, OneCall DEF r
<1>1f. ASSUME NEW a \in Alarms, NEW config \in Configs, AddFails(a, config) PROVE AlarmInv'
    <2> DEFINE c == Rolled(config)
    <2>1. PICK id \in NewIds(jobs, a, "fire") : jobs' = jobs \cup {Orphan(FireJob(id, a, c))}
        BY <1>1f DEF AddFails, LeftBehind
    <2>2. Change(a, alarm[a], {}, {Orphan(FireJob(id, a, c))})
        BY <1>0, <1>1f, <2>1 DEF AddFails, Change, Without
    <2>3. Input /\ UNCHANGED <<alarm, kv, unsaved, unscheduled, untimed>> /\ ~alarm[a].used
        BY <1>1f DEF AddFails, Used, history
    <2>4. alarm[a] = Off /\ alarm'[a] = Off /\ SameConfig(alarm[a], alarm[a])
        BY <2>3 DEF AlarmInv, UnusedInv, SameConfig
    <2>5. \A j \in jobs : j.known => j.alarm # a
        BY <2>3 DEF AlarmInv, OwnInv, JobsOwned
    <2>6. ~Off.used /\ ~Off.is_ringing
        BY DEF Off
    <2>7. On(a)' /\ Timed(a)'
        BY <2>4, <2>6, OffIsOn, SilentIsTimed
    <2> HIDE DEF c
    <2>8. Sound(a, alarm[a], {}, {Orphan(FireJob(id, a, c))})
        BY <1>n, <2>5 DEF Sound
    <2> QED
        BY <1>n, <2>2, <2>3, <2>4, <2>7, <2>8, OneCall
<1>2. ASSUME NEW a \in Alarms, NEW config \in Configs, Update(a, config) PROVE AlarmInv'
    <2> DEFINE c == Rolled(config)
               ids == AllIds(alarm[a])
    <2>1. PICK id \in NewIds(jobs, a, "fire") : Change(a, Configured(Cleared(alarm[a]), c, id), ids, {FireJob(id, a, c)})
        BY <1>2 DEF Update, Taken, Change
    <2> DEFINE r == Configured(Cleared(alarm[a]), c, id)
    <2>2. /\ r.used /\ r.enabled = c.enabled /\ r.once = c.once /\ r.start = c.start
          /\ ~r.is_ringing /\ Field(r, "fire") = id
          /\ \A kind \in Kinds : kind # "fire" => Field(r, kind) = 0
        BY <1>f DEF Configured, Cleared, Field, Kinds, Alarm_Item
    <2>d. Input /\ StoreSave(alarm') /\ unscheduled \ {a} \subseteq unscheduled' /\ untimed' = untimed /\ now' = now
        BY <1>2 DEF Update, Input
    <2>e. alarm'[a] = r /\ FireJob(id, a, c) \in jobs'
        BY <1>0, <2>1 DEF Change
    <2> HIDE DEF c, r
    <2>4. Sound(a, r, ids, {FireJob(id, a, c)})
        BY <1>j, <1>n, <2>2 DEF Sound
    <2>5. On(a)' /\ Timed(a)'
        BY <2>2, <2>d, <2>e, DateByJob, SilentIsTimed
    <2> QED
        BY <1>n, <2>1, <2>2, <2>4, <2>5, <2>d, OneCall DEF r
<1>3. ASSUME NEW a \in Alarms, NEW config \in Configs, UpdateFails(a, config) PROVE AlarmInv'
    <2> DEFINE ids == AllIds(alarm[a])
               js == Without(jobs, ids)
               c == Rolled(config)
    <2>d. Input /\ UNCHANGED <<kv, unsaved>> /\ untimed' = untimed /\ now' = now /\ alarm[a].used
        BY <1>3 DEF UpdateFails, Input, Used
    <2>p. ASSUME NEW left, PutBack(a, js \cup left), \A n, m \in left : n = m,
                 \A n \in left : /\ n.alarm = a /\ n.id # 0 /\ n.kind = "fire" /\ n.kind \in Kinds
                                 /\ n.id \notin Held(js) /\ ~n.known
          PROVE  AlarmInv'
        <3>u. unscheduled \ {a} \subseteq unscheduled'
            BY <2>p DEF PutBack
        <3>h. Held(js) \subseteq Held(js \cup left) /\ \A n \in left : n.id \in Held(js \cup left)
            <4> HIDE DEF js
            <4> QED
                BY HeldLess, FieldIds
        <3>n. ASSUME NEW id \in NewIds(js \cup left, a, "fire"),
                     NEW n \in {FireJob(id, a, alarm[a]), Orphan(FireJob(id, a, alarm[a]))}
              PROVE  /\ n.alarm = a /\ n.id = id /\ n.id # 0 /\ n.kind = "fire" /\ n.kind \in Kinds
                     /\ n.id \notin Held(js) /\ \A m \in left : n.id # m.id
                     /\ n = Orphan(FireJob(id, a, alarm[a])) => ~n.known
            <4> HIDE DEF js
            <4>1. /\ n.alarm = a /\ n.id = id /\ n.id # 0 /\ n.kind = "fire" /\ n.kind \in Kinds
                  /\ n.id \notin Held(js \cup left)
                  /\ n = Orphan(FireJob(id, a, alarm[a])) => ~n.known
                BY NewFireJob
            <4>2. n.id \notin Held(js) /\ \A m \in left : n.id # m.id
                BY <3>h, <4>1
            <4> QED
                BY <4>1, <4>2
        <3>1. ASSUME NEW id \in NewIds(js \cup left, a, "fire"),
                     alarm' = [alarm EXCEPT ![a] = [Cleared(alarm[a]) EXCEPT !.cron_job = id]],
                     jobs' = js \cup left \cup {FireJob(id, a, alarm[a])}
              PROVE  AlarmInv'
            <4> DEFINE r == [Cleared(alarm[a]) EXCEPT !.cron_job = id]
                       new == left \cup {FireJob(id, a, alarm[a])}
            <4>2. /\ r.used /\ r.enabled = alarm[a].enabled /\ r.once = alarm[a].once /\ r.start = alarm[a].start
                  /\ ~r.is_ringing /\ Field(r, "fire") = id
                  /\ \A kind \in Kinds : kind # "fire" => Field(r, kind) = 0
                BY <1>f, <2>d DEF Cleared, Field, Kinds, Alarm_Item
            <4>e. alarm'[a] = r /\ FireJob(id, a, alarm[a]) \in jobs'
                BY <1>0, <3>1
            <4>6. Change(a, r, ids, new)
                BY <3>1 DEF Change
            <4>7. \A n \in new : n.kind = "fire"
                BY <2>p, <3>n
            <4> HIDE DEF r
            <4>3. SameConfig(r, alarm[a])
                BY <2>d, <4>2 DEF SameConfig
            <4>4. Sound(a, r, ids, new)
                <5>1. \A n \in new : /\ n.alarm = a /\ n.id # 0 /\ n.kind = "fire" /\ n.kind \in Kinds
                                     /\ n.id \notin Held(js) /\ (n.known => n.id = id)
                    <6>1. ASSUME NEW n \in left
                          PROVE  /\ n.alarm = a /\ n.id # 0 /\ n.kind = "fire" /\ n.kind \in Kinds
                                 /\ n.id \notin Held(js) /\ ~n.known
                        BY <2>p
                    <6>2. ASSUME NEW n, n = FireJob(id, a, alarm[a])
                          PROVE  /\ n.alarm = a /\ n.id # 0 /\ n.kind = "fire" /\ n.kind \in Kinds
                                 /\ n.id \notin Held(js) /\ n.id = id
                        BY <3>n, <6>2
                    <6> HIDE DEF js
                    <6> QED
                        BY <6>1, <6>2
                <5>2. \A n, m \in new : n.id = m.id => n = m
                    BY <2>p, <3>n
                <5>3. \E n \in new : n.kind = "fire" /\ n.id = id
                    BY <3>n
                <5> HIDE DEF new
                <5> QED
                    BY <1>j, <4>2, <5>1, <5>2, <5>3 DEF Sound
            <4>5. On(a)' /\ Timed(a)'
                BY <2>d, <4>2, <4>e, DateByJob, SilentIsTimed
            <4> HIDE DEF new, ids
            <4> QED
                BY <2>d, <3>u, <4>2, <4>3, <4>4, <4>5, <4>6, <4>7, OneCall
        <3>2. ASSUME NEW x, jobs' = js \cup (left \cup x),
                     alarm' = [alarm EXCEPT ![a] = [Cleared(alarm[a]) EXCEPT !.cron_job = 0]], a \in unscheduled',
                     \A n, m \in x : n = m,
                     \A n \in x : /\ n.alarm = a /\ n.id # 0 /\ n.kind = "fire" /\ n.kind \in Kinds
                                  /\ n.id \notin Held(js) /\ ~n.known /\ \A m \in left : n.id # m.id
              PROVE  AlarmInv'
            <4> DEFINE r == [Cleared(alarm[a]) EXCEPT !.cron_job = 0]
                       new == left \cup x
            <4>2. /\ r.used /\ r.enabled = alarm[a].enabled /\ r.once = alarm[a].once /\ r.start = alarm[a].start
                  /\ ~r.is_ringing /\ \A kind \in Kinds : Field(r, kind) = 0
                BY <1>f, <2>d DEF Cleared, Field, Kinds, Alarm_Item
            <4>e. alarm'[a] = r
                BY <1>0, <3>2
            <4>6. Change(a, r, ids, new)
                BY <3>2 DEF Change
            <4>7. \A n \in new : n.kind = "fire"
                BY <2>p, <3>2
            <4> HIDE DEF r
            <4>3. SameConfig(r, alarm[a])
                BY <2>d, <4>2 DEF SameConfig
            <4>4. Sound(a, r, ids, new)
                <5>1. \A n \in new : /\ n.alarm = a /\ n.id # 0 /\ n.kind = "fire" /\ n.kind \in Kinds
                                     /\ n.id \notin Held(js) /\ ~n.known
                    BY <2>p, <3>2
                <5>2. \A n, m \in new : n.id = m.id => n = m
                    BY <2>p, <3>2
                <5> HIDE DEF new
                <5> QED
                    BY <1>j, <4>2, <5>1, <5>2 DEF Sound
            <4>5. On(a)' /\ Timed(a)'
                BY <3>2, <4>2, <4>e, OffIsOn, SilentIsTimed
            <4> HIDE DEF new, ids
            <4> QED
                BY <2>d, <3>u, <4>2, <4>3, <4>4, <4>5, <4>6, <4>7, OneCall
        <3>3. CASE \E id \in NewIds(js \cup left, a, "fire") :
                      /\ alarm' = [alarm EXCEPT ![a] = [Cleared(@) EXCEPT !.cron_job = id]]
                      /\ Taken(js \cup left, FireJob(id, a, alarm[a]))
            BY <3>1, <3>3 DEF Taken
        <3>4. CASE /\ alarm' = [alarm EXCEPT ![a] = [Cleared(@) EXCEPT !.cron_job = 0]]
                   /\ jobs' = js \cup left /\ unscheduled' = unscheduled \cup {a}
            <4> DEFINE x == {}
            <4>1. jobs' = js \cup (left \cup x) /\ \A n \in x : FALSE
                BY <3>4
            <4> HIDE DEF x
            <4> QED
                BY <3>2, <3>4, <4>1
        <3>5. ASSUME NEW id \in NewIds(js \cup left, a, "fire"),
                     alarm' = [alarm EXCEPT ![a] = [Cleared(@) EXCEPT !.cron_job = 0]],
                     jobs' = (js \cup left) \cup {Orphan(FireJob(id, a, alarm[a]))},
                     unscheduled' = unscheduled \cup {a}
              PROVE  AlarmInv'
            <4> DEFINE x == {Orphan(FireJob(id, a, alarm[a]))}
            <4>1. jobs' = js \cup (left \cup x) /\ \A n, m \in x : n = m
                BY <3>5
            <4>2. \A n \in x : /\ n.alarm = a /\ n.id # 0 /\ n.kind = "fire" /\ n.kind \in Kinds
                               /\ n.id \notin Held(js) /\ ~n.known /\ \A m \in left : n.id # m.id
                <5>1. ASSUME NEW n, n = Orphan(FireJob(id, a, alarm[a]))
                      PROVE  /\ n.alarm = a /\ n.id # 0 /\ n.kind = "fire" /\ n.kind \in Kinds
                             /\ n.id \notin Held(js) /\ ~n.known /\ \A m \in left : n.id # m.id
                    BY <3>n, <5>1, Zenon
                <5> HIDE DEF js
                <5> QED
                    BY <5>1
            <4> HIDE DEF x
            <4> QED
                BY <3>2, <3>5, <4>1, <4>2
        <3> HIDE DEF js
        <3> QED
            BY <2>p, <3>3, <3>4, <3>5, Zenon DEF PutBack, Leaves, LeftBehind
    <2>1. CASE PutBack(a, js)
        <3> DEFINE left == {}
        <3>1. js \cup left = js /\ \A n \in left : FALSE
            OBVIOUS
        <3> HIDE DEF left
        <3> QED
            BY <2>1, <2>p, <3>1
    <2>2. ASSUME NEW id \in NewIds(jobs, a, "fire"), PutBack(a, js \cup {Orphan(FireJob(id, a, c))}) PROVE AlarmInv'
        <3> DEFINE left == {Orphan(FireJob(id, a, c))}
        <3> HIDE DEF c
        <3>1. /\ \A n, m \in left : n = m
              /\ \A n \in left : /\ n.alarm = a /\ n.id # 0 /\ n.kind = "fire" /\ n.kind \in Kinds
                                  /\ n.id \notin Held(js) /\ ~n.known
            BY <1>n
        <3>2. PutBack(a, js \cup left)
            BY <2>2
        <3> HIDE DEF js, left
        <3> QED
            BY <2>p, <3>1, <3>2
    <2> QED
        BY <1>3, <2>1, <2>2 DEF UpdateFails
<1>4. ASSUME NEW a \in Alarms, Remove(a) PROVE AlarmInv'
    <2>1. Change(a, Off, AllIds(alarm[a]), {}) /\ Input /\ StoreSave(alarm') /\ UNCHANGED <<unscheduled, untimed>>
        BY <1>4 DEF Remove, Change, Leaves
    <2>2. ~Off.used /\ ~Off.is_ringing /\ \A kind \in Kinds : Field(Off, kind) = 0
        BY DEF Off, Field
    <2>3. Sound(a, Off, AllIds(alarm[a]), {})
        BY <1>j, <2>2 DEF Sound
    <2>4. alarm'[a] = Off
        BY <1>0, <2>1 DEF Change
    <2>5. On(a)' /\ Timed(a)'
        BY <2>2, <2>4, OffIsOn, SilentIsTimed
    <2> QED
        BY <2>1, <2>3, <2>5, OneCall
<1>5. ASSUME NEW a \in Alarms, Enable(a) PROVE AlarmInv'
    <2> DEFINE on == [alarm[a] EXCEPT !.enabled = TRUE]
               c == Rolled(on)
               ids == {alarm[a].cron_job}
    <2>a. on \in Alarm_Item
        BY <1>f DEF Alarm_Item
    <2>b. c \in Alarm_Item /\ c = [on EXCEPT !.start = c.start]
        BY <2>a, RolledAlarm
    <2>c. /\ c.used = alarm[a].used /\ c.once = alarm[a].once /\ c.is_ringing = alarm[a].is_ringing
          /\ c.ring_seq = alarm[a].ring_seq /\ c.enabled = TRUE
          /\ \A kind \in Kinds : Field(c, kind) = Field(alarm[a], kind)
        <3> HIDE DEF c
        <3> QED
            BY <1>f, <2>b DEF Field, Kinds, Alarm_Item
    <2>d. /\ Input /\ untimed' = untimed /\ now' = now /\ alarm[a].used /\ ~alarm[a].enabled
          /\ unscheduled \ {a} \subseteq unscheduled'
        BY <1>5 DEF Enable, Input, Used
    <2>j. /\ \A j \in jobs : j.alarm = a /\ j.known /\ j.kind = "fire" => j.id \in ids
          /\ \A j \in jobs : j.alarm = a /\ j.kind = "timeout" => j.id \notin ids
        BY <1>j DEF AlarmInv, OwnInv, Field, Kinds
    <2>s. ids \subseteq AllIds(alarm[a])
        BY DEF AllIds
    <2>t. ASSUME NEW r, NEW new, Change(a, r, ids, new), r.is_ringing = alarm[a].is_ringing,
                 r.ring_seq = alarm[a].ring_seq
          PROVE  Timed(a)'
        <3>1. Requests' = Requests
            BY <1>5 DEF Enable, Input, Requests
        <3>2. \A j \in jobs : j.alarm = a /\ j.kind = "timeout" => j \in jobs'
            BY <2>j, <2>t DEF Change, Without
        <3>3. Timed(a) /\ alarm'[a] = r
            BY <1>0, <2>t, PerAlarm DEF AlarmInv, Change
        <3> QED
            BY <2>d, <2>t, <3>1, <3>2, <3>3 DEF Timed, Coming
    <2>1. ASSUME NEW id \in NewIds(jobs, a, "fire"), Change(a, [c EXCEPT !.cron_job = id], ids, {FireJob(id, a, c)}),
                 StoreSave(alarm')
          PROVE  AlarmInv'
        <3> DEFINE r == [c EXCEPT !.cron_job = id]
        <3> HIDE DEF c
        <3>2. /\ r.used /\ r.enabled = c.enabled /\ r.once = c.once /\ r.start = c.start
              /\ r.is_ringing = alarm[a].is_ringing /\ r.ring_seq = alarm[a].ring_seq
              /\ Field(r, "fire") = id
              /\ \A kind \in Kinds : kind # "fire" => Field(r, kind) = Field(alarm[a], kind)
            BY <2>b, <2>c, <2>d DEF Field, Kinds, Alarm_Item
        <3>e. alarm'[a] = r /\ FireJob(id, a, c) \in jobs'
            BY <1>0, <2>1 DEF Change
        <3>6. Change(a, r, ids, {FireJob(id, a, c)})
            BY <2>1
        <3> HIDE DEF r, ids
        <3>4. Sound(a, r, ids, {FireJob(id, a, c)})
            BY <1>j, <1>n, <2>j, <2>s, <3>2 DEF Sound
        <3>5. On(a)' /\ Timed(a)'
            BY <2>d, <2>t, <3>2, <3>e, <3>6, DateByJob
        <3> QED
            BY <1>n, <2>1, <2>d, <3>2, <3>4, <3>5, <3>6, OneCall
    <2>2. ASSUME NEW left, Change(a, [c EXCEPT !.enabled = FALSE, !.cron_job = 0], ids, left),
                 UNCHANGED <<kv, unsaved>>, \A n, m \in left : n = m,
                 \A n \in left : /\ n.alarm = a /\ n.id # 0 /\ n.kind = "fire" /\ n.kind \in Kinds
                                 /\ n.id \notin Held(Without(jobs, ids)) /\ ~n.known
          PROVE  AlarmInv'
        <3> DEFINE r == [c EXCEPT !.enabled = FALSE, !.cron_job = 0]
        <3> HIDE DEF c
        <3>2. /\ r.used /\ r.enabled = FALSE /\ r.once = alarm[a].once
              /\ r.is_ringing = alarm[a].is_ringing /\ r.ring_seq = alarm[a].ring_seq
              /\ Field(r, "fire") = 0
              /\ \A kind \in Kinds : kind # "fire" => Field(r, kind) = Field(alarm[a], kind)
            BY <2>b, <2>c, <2>d DEF Field, Kinds, Alarm_Item
        <3>e. alarm'[a] = r
            BY <1>0, <2>2 DEF Change
        <3>6. Change(a, r, ids, left)
            BY <2>2
        <3> HIDE DEF r, ids
        <3>3. SameConfig(r, alarm[a])
            <4>1. alarm[a].enabled = FALSE
                BY <1>f, <2>d DEF Alarm_Item
            <4> QED
                BY <2>d, <3>2, <4>1 DEF SameConfig
        <3>4. Sound(a, r, ids, left)
            BY <1>j, <2>2, <2>d, <2>j, <2>s, <3>2 DEF Sound
        <3>5. On(a)' /\ Timed(a)'
            BY <2>t, <3>2, <3>e, <3>6, OffIsOn
        <3> QED
            BY <2>2, <2>d, <3>2, <3>3, <3>4, <3>5, <3>6, OneCall
    <2>3. \/ \E id \in NewIds(jobs, a, "fire") :
                /\ alarm' = [alarm EXCEPT ![a] = [c EXCEPT !.cron_job = id]]
                /\ jobs' = Without(jobs, ids) \cup {FireJob(id, a, c)}
                /\ StoreSave(alarm')
          \/ /\ alarm' = [alarm EXCEPT ![a] = [c EXCEPT !.enabled = FALSE, !.cron_job = 0]]
             /\ jobs' = Without(jobs, ids) /\ UNCHANGED <<kv, unsaved>>
          \/ \E id \in NewIds(jobs, a, "fire") :
                /\ alarm' = [alarm EXCEPT ![a] = [c EXCEPT !.enabled = FALSE, !.cron_job = 0]]
                /\ jobs' = Without(jobs, ids) \cup {Orphan(FireJob(id, a, c))} /\ UNCHANGED <<kv, unsaved>>
        BY <1>5, Zenon DEF Enable, Taken, Leaves, LeftBehind
    <2>4. ASSUME NEW id \in NewIds(jobs, a, "fire"),
                 alarm' = [alarm EXCEPT ![a] = [c EXCEPT !.enabled = FALSE, !.cron_job = 0]],
                 jobs' = Without(jobs, ids) \cup {Orphan(FireJob(id, a, c))}, UNCHANGED <<kv, unsaved>>
          PROVE  AlarmInv'
        <3> DEFINE left == {Orphan(FireJob(id, a, c))}
        <3> HIDE DEF c, ids
        <3>1. /\ \A n, m \in left : n = m
              /\ \A n \in left : /\ n.alarm = a /\ n.id # 0 /\ n.kind = "fire" /\ n.kind \in Kinds
                                  /\ n.id \notin Held(Without(jobs, ids)) /\ ~n.known
            BY <1>n
        <3>2. Change(a, [c EXCEPT !.enabled = FALSE, !.cron_job = 0], ids, left)
            BY <2>4 DEF Change
        <3> HIDE DEF left
        <3> QED
            BY <2>2, <2>4, <3>1, <3>2
    <2>5. ASSUME alarm' = [alarm EXCEPT ![a] = [c EXCEPT !.enabled = FALSE, !.cron_job = 0]],
                 jobs' = Without(jobs, ids), UNCHANGED <<kv, unsaved>>
          PROVE  AlarmInv'
        <3> DEFINE left == {}
        <3> HIDE DEF c, ids
        <3>1. \A n \in left : FALSE
            OBVIOUS
        <3>2. Change(a, [c EXCEPT !.enabled = FALSE, !.cron_job = 0], ids, left)
            BY <2>5 DEF Change
        <3> HIDE DEF left
        <3> QED
            BY <2>2, <2>5, <3>1, <3>2
    <2> HIDE DEF c, ids
    <2> QED
        BY <2>1, <2>3, <2>4, <2>5 DEF Change
<1>6. ASSUME NEW a \in Alarms, Disable(a) PROVE AlarmInv'
    <2> DEFINE r == Disabled(alarm[a])
    <2>1. Change(a, r, AllIds(alarm[a]), {}) /\ Input /\ StoreSave(alarm') /\ UNCHANGED <<unscheduled, untimed>>
          /\ alarm[a].used
        BY <1>6 DEF Disable, Change, Leaves, Used
    <2>2. r.used /\ ~r.enabled /\ ~r.is_ringing /\ \A kind \in Kinds : Field(r, kind) = 0
        BY <1>f, <2>1 DEF Disabled, Cleared, Field, Kinds, Alarm_Item
    <2> HIDE DEF r
    <2>3. Sound(a, r, AllIds(alarm[a]), {})
        BY <1>j, <2>2 DEF Sound
    <2>4. alarm'[a] = r
        BY <1>0, <2>1 DEF Change
    <2>5. On(a)' /\ Timed(a)'
        BY <2>2, <2>4, OffIsOn, SilentIsTimed
    <2> QED
        BY <2>1, <2>2, <2>3, <2>5, OneCall
<1>7. ASSUME NEW a \in Alarms, Ack(a), alarm[a].once PROVE AlarmInv'
    <2> DEFINE r == Disabled(alarm[a])
    <2>1. Change(a, r, AllIds(alarm[a]), {}) /\ Input /\ StoreSave(alarm') /\ UNCHANGED <<unscheduled, untimed>>
          /\ alarm[a].used
        BY <1>7 DEF Ack, Change, Leaves, Used
    <2>2. r.used /\ ~r.enabled /\ ~r.is_ringing /\ \A kind \in Kinds : Field(r, kind) = 0
        BY <1>f, <2>1 DEF Disabled, Cleared, Field, Kinds, Alarm_Item
    <2> HIDE DEF r
    <2>3. Sound(a, r, AllIds(alarm[a]), {})
        BY <1>j, <2>2 DEF Sound
    <2>4. alarm'[a] = r
        BY <1>0, <2>1 DEF Change
    <2>5. On(a)' /\ Timed(a)'
        BY <2>2, <2>4, OffIsOn, SilentIsTimed
    <2> QED
        BY <2>1, <2>2, <2>3, <2>5, OneCall
<1>8. ASSUME NEW a \in Alarms, Ack(a), ~alarm[a].once PROVE AlarmInv'
    <2> DEFINE r == [Cleared(alarm[a]) EXCEPT !.ring_seq = 0]
               ids == RuntimeIds(alarm[a])
    <2>1. /\ Change(a, r, ids, {}) /\ Input /\ UNCHANGED <<kv, unsaved, unscheduled, untimed, now>>
          /\ alarm[a].used
        BY <1>8 DEF Ack, Change, Leaves, Used, Input
    <2>2. /\ r.used /\ r.enabled = alarm[a].enabled /\ r.once = alarm[a].once
          /\ r.start = alarm[a].start /\ ~r.is_ringing
          /\ Field(r, "fire") = Field(alarm[a], "fire")
          /\ \A kind \in Kinds : kind # "fire" => Field(r, kind) = 0
        BY <1>f, <2>1 DEF Cleared, Field, Kinds, Alarm_Item
    <2>j. /\ \A j \in jobs : j.alarm = a /\ j.known /\ j.kind # "fire" => j.id \in ids
          /\ \A j \in jobs : j.alarm = a /\ j.kind = "fire" => j.id \notin ids
        BY <1>j DEF AlarmInv, OwnInv, Field, Kinds, RuntimeIds
    <2>s. ids \subseteq AllIds(alarm[a])
        BY DEF AllIds
    <2> HIDE DEF r, ids
    <2>3. Sound(a, r, ids, {})
        BY <1>j, <2>1, <2>2, <2>j, <2>s DEF Sound
    <2>4. alarm'[a] = r /\ SameConfig(r, alarm[a])
        BY <1>0, <2>1, <2>2 DEF Change, SameConfig
    <2>5. On(a)'
        <3>1. \A j \in jobs : j.alarm = a /\ j.kind = "fire" => j \in jobs'
            BY <2>1, <2>j DEF Change, Without
        <3>2. On(a)
            BY PerAlarm DEF AlarmInv
        <3> QED
            BY <2>1, <2>2, <2>4, <3>1, <3>2 DEF On, Used
    <2> QED
        BY <2>1, <2>2, <2>3, <2>4, <2>5, SilentIsTimed, OneCall
<1>9. CASE List
    <2> DEFINE ids == UNION {AllIds(alarm[b]) : b \in Expired}
    <2>1. \A x : x \in ids <=> \E b \in Expired : x \in AllIds(alarm[b])
        BY Zenon
    <2>2. /\ Input /\ StoreSave(alarm') /\ UNCHANGED <<unscheduled, untimed>>
          /\ jobs' = Without(jobs, ids)
        BY <1>9 DEF List, Leaves
    <2>3. /\ Expired \subseteq Alarms /\ \A b \in Expired : alarm[b].used
          /\ \A b \in Expired : alarm'[b] = Disabled(alarm[b])
          /\ \A b \in Alarms \ Expired : alarm'[b] = alarm[b]
        BY <1>9 DEF List, Expired, Used
    <2>4. \A b \in Expired : /\ alarm'[b].used /\ ~alarm'[b].enabled /\ ~alarm'[b].is_ringing
                             /\ \A kind \in Kinds : Field(alarm'[b], kind) = 0
        <3> SUFFICES ASSUME NEW b \in Expired
                     PROVE  /\ alarm'[b].used /\ ~alarm'[b].enabled /\ ~alarm'[b].is_ringing
                            /\ \A kind \in Kinds : Field(alarm'[b], kind) = 0
            OBVIOUS
        <3>1. alarm[b] \in Alarm_Item /\ alarm[b].used /\ alarm'[b] = Disabled(alarm[b])
            BY <1>f, <2>3
        <3> QED
            BY <3>1 DEF Disabled, Cleared, Field, Kinds, Alarm_Item
    <2> HIDE DEF ids
    <2>5. \A j \in jobs : j.known /\ j.alarm \in Expired => j.id \in ids
        BY <1>j, <2>1
    <2>6. \A j \in jobs : j.alarm \notin Expired => j.id \notin ids
        BY <1>j, <2>1, <2>3, FieldIds DEF AlarmInv, OwnInv
    <2>7. /\ jobs' \subseteq jobs /\ \A j \in jobs' : j.known => j.alarm \notin Expired
          /\ \A j \in jobs : j.alarm \notin Expired => j \in jobs'
        BY <2>2, <2>5, <2>6 DEF Without
    <2>u. /\ up /\ loading = {} /\ UNCHANGED <<queue, up, loading, now>> /\ Requests' = Requests
        BY <2>2 DEF Input, Requests
    <2>8. OwnInv'
        <3>1. JobsOwned'
            BY <1>j, <2>3, <2>7 DEF AlarmInv, OwnInv, JobsOwned
        <3>2. ASSUME NEW j \in jobs', NEW b \in Alarms, NEW kind \in Kinds, Field(alarm'[b], kind) = j.id
              PROVE  b = j.alarm /\ kind = j.kind
            <4>1. j \in jobs /\ j.id # 0
                BY <1>0, <2>7 DEF GoodJobs, JobSet
            <4>2. b \notin Expired
                BY <2>4, <3>2, <4>1
            <4> QED
                BY <2>3, <3>2, <4>1, <4>2 DEF AlarmInv, OwnInv
        <3> QED
            BY <3>1, <3>2 DEF OwnInv
    <2>9. \A b \in Alarms : On(b)' /\ Timed(b)'
        <3>1. ASSUME NEW b \in Expired PROVE On(b)' /\ Timed(b)'
            BY <2>3, <2>4, OffIsOn, SilentIsTimed
        <3>2. ASSUME NEW b \in Alarms \ Expired PROVE On(b)' /\ Timed(b)'
            <4>1. On(b) /\ Timed(b) /\ alarm'[b] = alarm[b]
                BY <2>3, PerAlarm DEF AlarmInv
            <4>2. \A j \in jobs : j.alarm = b => j \in jobs'
                BY <2>7
            <4>3. On(b)'
                BY <2>2, <2>u, <4>1, <4>2 DEF On, Used
            <4>4. Timed(b)'
                BY <2>2, <2>u, <4>1, <4>2 DEF Timed, Coming
            <4> QED
                BY <4>3, <4>4
        <3> QED
            BY <3>1, <3>2
    <2>10. OnIsScheduled' /\ RingIsTimed'
        BY <2>9 DEF OnIsScheduled, RingIsTimed, On, Timed, Used
    <2>11. SingleInv' /\ DueInv'
        BY <2>7, <2>u DEF AlarmInv, SingleInv, DueInv
    <2>12. UnusedInv' /\ KvFollows'
        <3>1. \A b \in Alarms : alarm'[b].used \/ alarm'[b] = Off
            BY <2>3, <2>4 DEF AlarmInv, UnusedInv
        <3> QED
            BY <2>2, <2>u, <3>1, StoreChange DEF AlarmInv
    <2> QED
        BY <2>8, <2>10, <2>11, <2>12 DEF AlarmInv
<1>10. CASE SnoozeOn
    <2>1. UNCHANGED <<alarm, jobs, queue, kv, up, loading, now, unscheduled, untimed, unsaved>>
        BY <1>10 DEF SnoozeOn, Input, history
    <2> QED
        BY <2>1 DEF AlarmInv, UnusedInv, OwnInv, JobsOwned, SingleInv, DueInv, OnIsScheduled, RingIsTimed,
                    KvFollows, Used, Requests, Coming
<1>11. CASE SnoozeOff
    <2>1. /\ Input /\ UNCHANGED <<kv, unsaved, unscheduled, untimed>>
          /\ \A b \in Alarms : alarm'[b] = [alarm[b] EXCEPT !.snooze_job = 0]
        BY <1>11 DEF SnoozeOff
    <2>2. \A b \in Alarms : /\ alarm'[b].used = alarm[b].used /\ alarm'[b].enabled = alarm[b].enabled
                            /\ alarm'[b].once = alarm[b].once /\ alarm'[b].start = alarm[b].start
                            /\ alarm'[b].is_ringing = alarm[b].is_ringing
                            /\ alarm'[b].ring_seq = alarm[b].ring_seq
                            /\ Field(alarm'[b], "snooze") = 0
                            /\ \A kind \in Kinds : kind # "snooze" => Field(alarm'[b], kind) = Field(alarm[b], kind)
        BY <1>f, <2>1 DEF Field, Kinds, Alarm_Item
    <2>3. /\ jobs' \subseteq jobs /\ \A j \in jobs' : j.known => j.kind # "snooze"
          /\ \A j \in jobs : j.kind # "snooze" => j \in jobs'
        <3>1. \A j : j \in jobs' <=> j \in jobs /\ ~\E b \in Alarms : alarm[b].snooze_job = j.id
            BY <1>11 DEF SnoozeOff, Leaves, Without
        <3>2. \A b \in Alarms : alarm[b].snooze_job = Field(alarm[b], "snooze")
            BY DEF Field
        <3>3. \A j \in jobs : /\ (\E b \in Alarms : alarm[b].snooze_job = j.id) => j.kind = "snooze"
                              /\ j.known /\ j.kind = "snooze" => \E b \in Alarms : alarm[b].snooze_job = j.id
            BY <1>j, <3>2 DEF AlarmInv, OwnInv, Kinds
        <3> QED
            BY <3>1, <3>3
    <2>u. /\ up /\ loading = {} /\ UNCHANGED <<queue, up, loading, now>> /\ Requests' = Requests
        BY <2>1 DEF Input, Requests
    <2>4. OwnInv'
        <3>1. JobsOwned'
            BY <1>j, <2>2, <2>3 DEF AlarmInv, OwnInv, JobsOwned
        <3>2. ASSUME NEW j \in jobs', NEW b \in Alarms, NEW kind \in Kinds, Field(alarm'[b], kind) = j.id
              PROVE  b = j.alarm /\ kind = j.kind
            <4>1. j \in jobs /\ j.id # 0
                BY <1>0, <2>3 DEF GoodJobs, JobSet
            <4>2. kind # "snooze"
                BY <2>2, <3>2, <4>1
            <4> QED
                BY <2>2, <3>2, <4>1, <4>2 DEF AlarmInv, OwnInv
        <3> QED
            BY <3>1, <3>2 DEF OwnInv
    <2>5. ASSUME NEW b \in Alarms PROVE On(b)' /\ Timed(b)'
        <3>1. On(b) /\ Timed(b)
            BY PerAlarm DEF AlarmInv
        <3>2. On(b)'
            BY <2>1, <2>2, <2>3, <2>u, <3>1 DEF On, Used
        <3>3. Timed(b)'
            BY <2>1, <2>2, <2>3, <2>u, <3>1 DEF Timed, Coming
        <3> QED
            BY <3>2, <3>3
    <2>6. OnIsScheduled' /\ RingIsTimed'
        BY <2>5 DEF OnIsScheduled, RingIsTimed, On, Timed, Used
    <2>7. SingleInv' /\ DueInv'
        BY <2>3, <2>u DEF AlarmInv, SingleInv, DueInv
    <2>8. UnusedInv' /\ KvFollows'
        <3>1. [Off EXCEPT !.snooze_job = 0] = Off
            BY DEF Off
        <3>2. \A b \in Alarms : alarm'[b].used \/ alarm'[b] = Off
            BY <2>1, <2>2, <3>1 DEF AlarmInv, UnusedInv
        <3>3. \A b \in Alarms : SameConfig(alarm'[b], alarm[b])
            BY <2>2 DEF SameConfig
        <3> QED
            BY <2>1, <2>u, <3>2, <3>3, StoreChange DEF AlarmInv
    <2> QED
        BY <2>4, <2>6, <2>7, <2>8 DEF AlarmInv
<1> QED
    BY <1>1, <1>1f, <1>2, <1>3, <1>4, <1>5, <1>6, <1>7, <1>8, <1>9, <1>10, <1>11 DEF Call

-----------------------------------------------------------------------------
(* Handlers, cron and the start. *)

\* The request that is handled is the only one of its alarm, and a timeout or snooze of this
\* alarm in the cron table waits for a year
LEMMA HeadAlone ==
    ASSUME TypeOK, SingleInv, queue # <<>>
    PROVE  /\ Head(queue) \in Requests /\ Head(queue).alarm \in Alarms /\ IsRequest(Head(queue))
           /\ \A j \in jobs : j.alarm = Head(queue).alarm /\ Round(j) => j.due = Never /\ Head(queue).kind = "fire"
           /\ \A q \in Requests : q.alarm = Head(queue).alarm => q = Head(queue)
           /\ queue' = Tail(queue) =>
                 /\ Requests' \subseteq Requests
                 /\ \A q \in Requests : q.alarm # Head(queue).alarm => q \in Requests'
                 /\ \A q \in Requests' : q.alarm # Head(queue).alarm
                 /\ \A i \in 1..Len(queue') : i + 1 \in 1..Len(queue) /\ queue'[i] = queue[i + 1]
<1>1. queue \in Seq(RequestSet) /\ GoodQueue(queue)
    BY TypeParts DEF GoodQueue
<1>2. Head(queue) = queue[1] /\ 1 \in 1..Len(queue) /\ Len(queue) \in Nat
    BY <1>1
<1>3. Head(queue) \in RequestSet /\ IsRequest(Head(queue))
    BY <1>1, GoodQueueTail
<1>4. Len(Tail(queue)) = Len(queue) - 1 /\ \A i \in 1..Len(Tail(queue)) : Tail(queue)[i] = queue[i + 1]
    BY <1>1
<1>5. \A i \in 1..Len(queue) : queue[i].alarm = Head(queue).alarm => i = 1
    BY <1>2 DEF SingleInv
<1>6. ASSUME queue' = Tail(queue)
      PROVE  /\ Requests' \subseteq Requests
             /\ \A q \in Requests : q.alarm # Head(queue).alarm => q \in Requests'
             /\ \A q \in Requests' : q.alarm # Head(queue).alarm
             /\ \A i \in 1..Len(queue') : i + 1 \in 1..Len(queue) /\ queue'[i] = queue[i + 1]
    <2>1. \A i \in 1..Len(queue') : i + 1 \in 1..Len(queue) /\ i + 1 # 1 /\ queue'[i] = queue[i + 1]
        BY <1>2, <1>4, <1>6
    <2>2. \A i \in 1..Len(queue) : i # 1 => i - 1 \in 1..Len(queue') /\ queue'[i - 1] = queue[i]
        BY <1>2, <1>4, <1>6
    <2>3. Requests' \subseteq Requests
        BY <2>1 DEF Requests
    <2>4. ASSUME NEW q \in Requests, q.alarm # Head(queue).alarm PROVE q \in Requests'
        <3>1. PICK i \in 1..Len(queue) : q = queue[i]
            BY DEF Requests
        <3>2. i # 1
            BY <1>2, <2>4, <3>1
        <3> QED
            BY <2>2, <3>1, <3>2 DEF Requests
    <2>5. ASSUME NEW q \in Requests' PROVE q.alarm # Head(queue).alarm
        <3>1. PICK i \in 1..Len(queue') : q = queue'[i]
            BY DEF Requests
        <3> QED
            BY <1>5, <2>1, <3>1
    <2> QED
        BY <2>1, <2>3, <2>4, <2>5
<1>7. \A j \in jobs : j.alarm = Head(queue).alarm /\ Round(j) => j.due = Never /\ Head(queue).kind = "fire"
    BY <1>2 DEF SingleInv
<1>8. Head(queue) \in Requests /\ \A q \in Requests : q.alarm = Head(queue).alarm => q = Head(queue)
    BY <1>2, <1>5 DEF Requests
<1> QED
    BY <1>3, <1>6, <1>7, <1>8 DEF RequestSet

\* Taking it and adding one job for its alarm leaves one job or request per alarm
LEMMA SingleTake ==
    ASSUME TypeOK, SingleInv, queue # <<>>, queue' = Tail(queue), NEW new,
           \A n, m \in new : n = m, \A n \in new : n.alarm = Head(queue).alarm,
           jobs' \subseteq jobs \cup new,
           new = {} \/ \A j \in jobs' : j.alarm = Head(queue).alarm /\ Round(j) => j \in new
    PROVE  SingleInv'
<1>1. \A i \in 1..Len(queue') : i + 1 \in 1..Len(queue) /\ queue'[i] = queue[i + 1] /\ queue'[i] \in Requests'
    BY HeadAlone DEF Requests
<1>2. \A i \in 1..Len(queue') : queue'[i].alarm # Head(queue).alarm
    BY <1>1, HeadAlone
<1>3. ASSUME NEW j \in jobs', NEW k \in jobs', j.alarm = k.alarm, Round(j), Round(k)
      PROVE  j = k
    BY <1>3 DEF SingleInv
<1>4. ASSUME NEW j \in jobs', NEW i \in 1..Len(queue'), Round(j), j.alarm = queue'[i].alarm
      PROVE  j.due = Never /\ queue'[i].kind = "fire"
    <2>1. j \in jobs
        BY <1>2, <1>4
    <2> QED
        BY <1>1, <1>4, <2>1 DEF SingleInv
<1>5. ASSUME NEW i \in 1..Len(queue'), NEW k \in 1..Len(queue'), queue'[i].alarm = queue'[k].alarm PROVE i = k
    <2>1. i + 1 = k + 1
        BY <1>1, <1>5 DEF SingleInv
    <2> QED
        BY <2>1
<1>6. \A j : Round(j)' <=> Round(j)
    BY DEF Round, Never
<1> QED
    BY <1>3, <1>4, <1>5, <1>6 DEF SingleInv, Never

\* A handler that changes the alarm of its request and brings at most one job for it keeps the
\* invariant
LEMMA OneHandler ==
    ASSUME TypeOK, TypeOK', AlarmInv, NEW kind, Take(kind), up, NEW a \in Alarms, a = Head(queue).alarm,
           alarm[a].used, NEW r, NEW ids, NEW new, r.used,
           Change(a, r, ids, new), Sound(a, r, ids, new), \A n, m \in new : n = m,
           \A j \in jobs : j.alarm = a /\ Round(j) => j.id \in ids,
           untimed \ {a} \subseteq untimed', On(a)', Timed(a)',
           StoreSave(alarm') \/ (UNCHANGED <<kv, unsaved>> /\ SameConfig(r, alarm[a]))
    PROVE  AlarmInv'
<1>0. /\ alarm'[a] = r /\ \A b \in Alarms \ {a} : alarm'[b] = alarm[b]
      /\ queue # <<>> /\ queue' = Tail(queue) /\ UNCHANGED <<up, loading, now, unscheduled>>
    BY DEF TypeOK, Change, Take, clock
<1>1. OwnInv' /\ DueInv'
    BY <1>0, OwnChange DEF AlarmInv
<1>2. OnIsScheduled'
    BY <1>0, DatesChange DEF AlarmInv
<1>3. RingIsTimed'
    BY <1>0, HeadAlone, TimeoutsChange DEF AlarmInv
<1>4. UnusedInv' /\ KvFollows'
    <2>1. \A b \in Alarms : alarm'[b].used \/ alarm'[b] = Off
        BY <1>0 DEF AlarmInv, UnusedInv
    <2>2. \A b \in Alarms : SameConfig(alarm[b], alarm[b])
        BY DEF SameConfig
    <2>3. SameConfig(r, alarm[a]) => \A b \in Alarms : SameConfig(alarm'[b], alarm[b])
        BY <1>0, <2>2
    <2>4. \A b \in loading : alarm'[b] = alarm[b]
        BY <1>0 DEF AlarmInv, UnusedInv, TypeOK
    <2> QED
        BY <1>0, <2>1, <2>3, <2>4, StoreChange DEF AlarmInv
<1>5. SingleInv'
    <2>1. /\ jobs' \subseteq jobs \cup new
          /\ \A j \in jobs' : j.alarm = a /\ Round(j) => j \in new
        BY DEF Change, Without
    <2>2. \A n \in new : n.alarm = a
        BY DEF Sound
    <2> QED
        BY <1>0, <2>1, <2>2, SingleTake DEF AlarmInv
<1> QED
    BY <1>1, <1>2, <1>3, <1>4, <1>5 DEF AlarmInv

\* A step that leaves the job for the date of an alarm alone
LEMMA DateStays ==
    ASSUME TypeOK, TypeOK', AlarmInv, NEW a \in Alarms, NEW r, NEW ids, NEW new,
           Change(a, r, ids, new), SameConfig(r, alarm[a]), UNCHANGED <<now, unscheduled>>,
           \A j \in jobs : j.alarm = a /\ j.kind = "fire" => j.id \notin ids
    PROVE  On(a)'
<1>1. On(a)
    BY PerAlarm DEF AlarmInv
<1>2. alarm'[a] = r /\ \A j \in jobs : j.alarm = a /\ j.kind = "fire" => j \in jobs'
    BY DEF Change, Without, TypeOK
<1> QED
    BY <1>1, <1>2 DEF On, Used, SameConfig

\* Starting to ring keeps the invariant
LEMMA RingKeeps ==
    ASSUME TypeOK, TypeOK', AlarmInv, NEW kind, Take(kind), up, NEW a \in Alarms, a = Head(queue).alarm,
           alarm[a].used, StartRinging(a), UNCHANGED <<kv, unsaved>>
    PROVE  AlarmInv'
<1>0. alarm \in [Alarms -> Alarm_Item] /\ alarm[a] \in Alarm_Item
    BY TypeParts
<1>h. queue # <<>> /\ UNCHANGED <<now, unscheduled>>
    BY DEF Take, clock
<1> DEFINE ids == RuntimeIds(alarm[a])
<1>k. \A j \in jobs : j.kind \in Kinds
    BY DEF TypeOK
<1>j. \A j \in jobs : j.alarm = a /\ j.known => j.id \in ids \/ (j.kind = "fire" /\ Field(alarm[a], "fire") = j.id)
    BY <1>k, FieldIds DEF AlarmInv, OwnInv, JobsOwned, Kinds
<1>r. \A j \in jobs : j.alarm = a /\ Round(j) => j.id \in ids
    BY <1>h, <1>j, HeadAlone DEF AlarmInv, Round
<1>m. AnyTime # Never
    BY AlarmAssumption DEF AnyTime, Never
<1>i. /\ ids \subseteq AllIds(alarm[a])
      /\ \A j \in jobs : j.alarm = a /\ j.kind = "fire" => j.id \notin ids
    BY DEF AllIds, RuntimeIds, AlarmInv, OwnInv, Field, Kinds
<1>n. ASSUME NEW id \in NewIds(jobs, a, "timeout"), NEW n, NEW o, n = RuntimeJob(id, "timeout", a, NextSeq(a)),
             o = Orphan(n)
      PROVE  /\ n.id = id /\ n.alarm = a /\ n.kind = "timeout" /\ n.seq = NextSeq(a) /\ n.due = AnyTime
             /\ o.id = id /\ o.alarm = a /\ o.kind = "timeout" /\ o.due = AnyTime /\ ~o.known
             /\ id # 0 /\ id \notin Held(Without(jobs, ids))
    <2>1. id # 0 /\ id \notin Held(jobs)
        BY NewIdsType DEF Kinds
    <2>2. id \notin Held(Without(jobs, ids))
        BY <2>1, HeldLess
    <2> QED
        BY <1>n, <2>1, <2>2 DEF RuntimeJob, Orphan
<1>1. ASSUME NEW id \in NewIds(jobs, a, "timeout"),
             alarm' = [alarm EXCEPT ![a] = [Cleared(@) EXCEPT !.ring_seq = NextSeq(a), !.is_ringing = TRUE,
                                                              !.ack_timeout_job = id]],
             jobs' = Without(jobs, ids) \cup {RuntimeJob(id, "timeout", a, NextSeq(a))},
             untimed' = untimed \ {a}
      PROVE  AlarmInv'
    <2> DEFINE r == [Cleared(alarm[a]) EXCEPT !.ring_seq = NextSeq(a), !.is_ringing = TRUE,
                                              !.ack_timeout_job = id]
               n == RuntimeJob(id, "timeout", a, NextSeq(a))
    <2>1. Change(a, r, ids, {n})
        BY <1>1 DEF Change
    <2>2. /\ r.used /\ SameConfig(r, alarm[a]) /\ r.ring_seq = NextSeq(a)
          /\ Field(r, "timeout") = id /\ Field(r, "snooze") = 0
          /\ Field(r, "fire") = Field(alarm[a], "fire")
        BY <1>0 DEF Cleared, Field, SameConfig, Alarm_Item
    <2>3. /\ n.id = id /\ n.alarm = a /\ n.kind = "timeout" /\ n.seq = NextSeq(a) /\ n.due = AnyTime
          /\ id # 0 /\ id \notin Held(Without(jobs, ids))
        BY <1>n
    <2>4. alarm'[a] = r
        BY <1>0, <1>1
    <2> HIDE DEF r, n, ids
    <2>5. Sound(a, r, ids, {n})
        <3>1. \A k \in Kinds : Field(r, k) \in {0, Field(alarm[a], k)} \/ (k = "timeout" /\ Field(r, k) = n.id)
            BY <2>2, <2>3 DEF Kinds
        <3> QED
            BY <1>i, <1>j, <2>2, <2>3, <3>1 DEF Sound, Kinds
    <2>6. On(a)'
        BY <1>h, <1>i, <2>1, <2>2, DateStays
    <2>7. Timed(a)'
        BY <1>m, <2>1, <2>2, <2>3, <2>4 DEF Timed, Change, Coming
    <2> QED
        BY <1>1, <1>r, <2>1, <2>2, <2>5, <2>6, <2>7, OneHandler
<1>2. ASSUME NEW left, alarm' = [alarm EXCEPT ![a] = [Cleared(@) EXCEPT !.ring_seq = NextSeq(a)]],
             jobs' = Without(jobs, ids) \cup left, untimed' = untimed \cup {a}, \A n, m \in left : n = m,
             \A n \in left : /\ n.alarm = a /\ n.id # 0 /\ n.kind = "timeout" /\ n.due = AnyTime
                             /\ n.id \notin Held(Without(jobs, ids)) /\ ~n.known
      PROVE  AlarmInv'
    <2> DEFINE r == [Cleared(alarm[a]) EXCEPT !.ring_seq = NextSeq(a)]
    <2>1. Change(a, r, ids, left)
        BY <1>2 DEF Change
    <2>2. /\ r.used /\ SameConfig(r, alarm[a])
          /\ Field(r, "timeout") = 0 /\ Field(r, "snooze") = 0
          /\ Field(r, "fire") = Field(alarm[a], "fire")
        BY <1>0 DEF Cleared, Field, SameConfig, Alarm_Item
    <2> HIDE DEF r, ids
    <2>5. Sound(a, r, ids, left)
        BY <1>2, <1>i, <1>j, <2>2 DEF Sound, Kinds
    <2>6. On(a)'
        BY <1>h, <1>i, <2>1, <2>2, DateStays
    <2>7. Timed(a)'
        BY <1>2 DEF Timed
    <2> QED
        BY <1>2, <1>r, <2>1, <2>2, <2>5, <2>6, <2>7, OneHandler
<1>3. ASSUME alarm' = [alarm EXCEPT ![a] = [Cleared(@) EXCEPT !.ring_seq = NextSeq(a)]],
             jobs' = Without(jobs, ids), untimed' = untimed \cup {a}
      PROVE  AlarmInv'
    <2> DEFINE left == {}
    <2>1. jobs' = Without(jobs, ids) \cup left /\ \A n \in left : FALSE
        BY <1>3
    <2> HIDE DEF left, ids
    <2> QED
        BY <1>2, <1>3, <2>1
<1>4. ASSUME NEW id \in NewIds(jobs, a, "timeout"),
             alarm' = [alarm EXCEPT ![a] = [Cleared(@) EXCEPT !.ring_seq = NextSeq(a)]],
             jobs' = Without(jobs, ids) \cup {Orphan(RuntimeJob(id, "timeout", a, NextSeq(a)))},
             untimed' = untimed \cup {a}
      PROVE  AlarmInv'
    <2> DEFINE left == {Orphan(RuntimeJob(id, "timeout", a, NextSeq(a)))}
    <2>1. \A n \in left : /\ n.alarm = a /\ n.id # 0 /\ n.kind = "timeout" /\ n.due = AnyTime
                          /\ n.id \notin Held(Without(jobs, ids)) /\ ~n.known
        BY <1>n
    <2>2. jobs' = Without(jobs, ids) \cup left /\ \A n, m \in left : n = m
        BY <1>4
    <2> HIDE DEF left, ids
    <2> QED
        BY <1>2, <1>4, <2>1, <2>2
<1> QED
    BY <1>1, <1>3, <1>4, Zenon DEF StartRinging, Taken, Leaves, LeftBehind

\* Every handler keeps the invariant
LEMMA InvWork == TypeOK /\ TypeOK' /\ AlarmInv /\ Work => AlarmInv'
<1> SUFFICES ASSUME TypeOK, TypeOK', AlarmInv, Work PROVE AlarmInv'
    OBVIOUS
<1>q. queue # <<>> /\ queue' = Tail(queue) /\ UNCHANGED <<up, loading, now, unscheduled>>
    BY DEF Work, Fire, TimeoutSnoozes, TimeoutFinishes, SnoozeFires, TooLate, Take, clock
<1>h. PICK a \in Alarms : a = Head(queue).alarm /\ IsRequest(Head(queue))
    BY <1>q, HeadAlone DEF AlarmInv
<1>0. alarm \in [Alarms -> Alarm_Item] /\ alarm[a] \in Alarm_Item
    BY <1>h, TypeParts
<1>k. ASSUME NEW j \in jobs, j.alarm = a, Head(queue).kind # "fire"
      PROVE  ~Round(j) /\ (j.known => j.kind = "fire" /\ Field(alarm[a], "fire") = j.id)
    BY <1>h, <1>k, <1>q, HeadAlone DEF AlarmInv, OwnInv, JobsOwned, Round
<1>c. \A k \in Coming : k.alarm = a /\ k.kind # "fire" => k = Head(queue)
    BY <1>h, <1>q, HeadAlone DEF AlarmInv, Coming, Round
<1>w. Without(jobs, {}) = jobs
    BY DEF Without
<1>1. CASE Fire
    BY <1>1, <1>h, RingKeeps DEF Fire, Used
<1>2. CASE TimeoutSnoozes
    <2>d. Take("timeout") /\ up /\ alarm[a].used /\ UNCHANGED <<kv, unsaved>> /\ Head(queue).kind = "timeout"
        BY <1>h, <1>2 DEF TimeoutSnoozes, OfRound, Used, Take
    <2>j. \A j \in jobs : j.alarm = a => ~Round(j) /\ (j.known => j.kind = "fire" /\ Field(alarm[a], "fire") = j.id)
        BY <1>k, <2>d
    <2>n. ASSUME NEW id \in NewIds(jobs, a, "snooze"), NEW n, n = RuntimeJob(id, "snooze", a, Head(queue).seq)
          PROVE  /\ n.id = id /\ n.alarm = a /\ n.kind = "snooze" /\ n.due = AnyTime
                 /\ id # 0 /\ id \notin Held(Without(jobs, {}))
        <3>1. id # 0 /\ id \notin Held(jobs)
            BY <1>h, NewIdsType DEF Kinds
        <3> QED
            BY <1>w, <2>n, <3>1 DEF RuntimeJob
    <2>1. ASSUME NEW id \in NewIds(jobs, a, "snooze"),
                 alarm' = [alarm EXCEPT ![a] = [@ EXCEPT !.ack_timeout_job = 0, !.is_ringing = FALSE, !.snooze_job = id]],
                 jobs' = jobs \cup {RuntimeJob(id, "snooze", a, Head(queue).seq)}, untimed' = untimed
          PROVE  AlarmInv'
        <3> DEFINE r == [alarm[a] EXCEPT !.ack_timeout_job = 0, !.is_ringing = FALSE, !.snooze_job = id]
                   n == RuntimeJob(id, "snooze", a, Head(queue).seq)
        <3>1. Change(a, r, {}, {n})
            BY <2>1, <1>w DEF Change
        <3>2. /\ r.used /\ SameConfig(r, alarm[a]) /\ ~r.is_ringing
              /\ Field(r, "timeout") = 0 /\ Field(r, "snooze") = id
              /\ Field(r, "fire") = Field(alarm[a], "fire")
            BY <1>0, <2>d DEF Field, SameConfig, Alarm_Item
        <3>3. /\ n.id = id /\ n.alarm = a /\ n.kind = "snooze" /\ n.due = AnyTime
              /\ id # 0 /\ id \notin Held(Without(jobs, {}))
            BY <2>n
        <3>4. alarm'[a] = r
            BY <1>0, <1>h, <2>1
        <3> HIDE DEF r, n
        <3>5. Sound(a, r, {}, {n})
            <4>1. \A k \in Kinds : Field(r, k) \in {0, Field(alarm[a], k)} \/ (k = "snooze" /\ Field(r, k) = n.id)
                BY <3>2, <3>3 DEF Kinds
            <4> QED
                BY <2>j, <3>2, <3>3, <4>1 DEF Sound, Kinds
        <3>6. On(a)'
            BY <1>h, <1>q, <3>1, <3>2, DateStays
        <3>7. Timed(a)'
            BY <1>h, <3>2, <3>4, SilentIsTimed
        <3> QED
            BY <1>h, <2>1, <2>d, <2>j, <3>1, <3>2, <3>5, <3>6, <3>7, OneHandler
    <2>r. ASSUME NEW id \in NewIds(jobs, a, "snooze"),
                 alarm' = [alarm EXCEPT ![a] = [@ EXCEPT !.ack_timeout_job = 0, !.snooze_job = id]],
                 jobs' = jobs \cup {RuntimeJob(id, "snooze", a, Head(queue).seq)}, untimed' = untimed \cup {a}
          PROVE  AlarmInv'
        <3> DEFINE r == [alarm[a] EXCEPT !.ack_timeout_job = 0, !.snooze_job = id]
                   n == RuntimeJob(id, "snooze", a, Head(queue).seq)
        <3>1. Change(a, r, {}, {n})
            BY <2>r, <1>w DEF Change
        <3>2. /\ r.used /\ SameConfig(r, alarm[a])
              /\ Field(r, "timeout") = 0 /\ Field(r, "snooze") = id
              /\ Field(r, "fire") = Field(alarm[a], "fire")
            BY <1>0, <2>d DEF Field, SameConfig, Alarm_Item
        <3>3. /\ n.id = id /\ n.alarm = a /\ n.kind = "snooze" /\ n.due = AnyTime
              /\ id # 0 /\ id \notin Held(Without(jobs, {}))
            BY <2>n
        <3>4. alarm'[a] = r
            BY <1>0, <1>h, <2>r
        <3> HIDE DEF r, n
        <3>5. Sound(a, r, {}, {n})
            <4>1. \A k \in Kinds : Field(r, k) \in {0, Field(alarm[a], k)} \/ (k = "snooze" /\ Field(r, k) = n.id)
                BY <3>2, <3>3 DEF Kinds
            <4> QED
                BY <2>j, <3>2, <3>3, <4>1 DEF Sound, Kinds
        <3>6. On(a)'
            BY <1>h, <1>q, <3>1, <3>2, DateStays
        <3>7. Timed(a)'
            BY <2>r DEF Timed
        <3> QED
            BY <1>h, <2>r, <2>d, <2>j, <3>1, <3>2, <3>5, <3>6, <3>7, OneHandler
    <2>2. ASSUME alarm' = [alarm EXCEPT ![a].ack_timeout_job = 0], jobs' = jobs, untimed' = untimed \cup {a}
          PROVE  AlarmInv'
        <3> DEFINE r == [alarm[a] EXCEPT !.ack_timeout_job = 0]
        <3>1. Change(a, r, {}, {})
            BY <2>2, <1>w DEF Change
        <3>2. /\ r.used /\ SameConfig(r, alarm[a])
              /\ Field(r, "timeout") = 0 /\ Field(r, "snooze") = Field(alarm[a], "snooze")
              /\ Field(r, "fire") = Field(alarm[a], "fire")
            BY <1>0, <2>d DEF Field, SameConfig, Alarm_Item
        <3> HIDE DEF r
        <3>5. Sound(a, r, {}, {})
            BY <2>j, <3>2 DEF Sound, Kinds
        <3>6. On(a)'
            BY <1>h, <1>q, <3>1, <3>2, DateStays
        <3>7. Timed(a)'
            BY <2>2 DEF Timed
        <3> QED
            BY <1>h, <2>2, <2>d, <2>j, <3>1, <3>2, <3>5, <3>6, <3>7, OneHandler
    <2> QED
        BY <1>h, <1>2, <2>1, <2>r, <2>2, Zenon DEF TimeoutSnoozes, Taken
<1>3. CASE TimeoutFinishes
    <2> DEFINE r == [alarm[a] EXCEPT !.ack_timeout_job = 0, !.is_ringing = FALSE, !.ring_seq = 0,
                                     !.enabled = alarm[a].enabled /\ ~alarm[a].once]
    <2>d. /\ Take("timeout") /\ up /\ alarm[a].used /\ untimed' = untimed /\ Head(queue).kind = "timeout"
          /\ StoreSave(alarm') \/ (UNCHANGED <<kv, unsaved>> /\ ~alarm[a].once)
        BY <1>h, <1>3 DEF TimeoutFinishes, OfRound, Used, Take
    <2>j. \A j \in jobs : j.alarm = a => ~Round(j) /\ (j.known => j.kind = "fire" /\ Field(alarm[a], "fire") = j.id)
        BY <1>k, <2>d
    <2>1. Change(a, r, {}, {})
        BY <1>h, <1>3, <1>w DEF TimeoutFinishes, Change
    <2>2. /\ r.used /\ ~r.is_ringing
          /\ ~alarm[a].once => SameConfig(r, alarm[a])
          /\ alarm[a].once => ~r.enabled
          /\ Field(r, "timeout") = 0 /\ Field(r, "snooze") = Field(alarm[a], "snooze")
          /\ Field(r, "fire") = Field(alarm[a], "fire")
        BY <1>0, <2>d DEF Field, SameConfig, Alarm_Item
    <2>4. alarm'[a] = r
        BY <1>0, <1>h, <2>1 DEF Change
    <2> HIDE DEF r
    <2>5. Sound(a, r, {}, {})
        BY <2>j, <2>2 DEF Sound, Kinds
    <2>6. On(a)'
        BY <1>h, <1>q, <2>1, <2>2, <2>4, DateStays, OffIsOn
    <2>7. Timed(a)'
        BY <1>h, <2>2, <2>4, SilentIsTimed
    <2> QED
        BY <1>h, <2>d, <2>j, <2>1, <2>2, <2>5, <2>6, <2>7, OneHandler
<1>4. CASE SnoozeFires
    <2>d. /\ Take("snooze") /\ up /\ alarm[a].used /\ UNCHANGED <<kv, unsaved>> /\ Head(queue).kind = "snooze"
        BY <1>h, <1>4 DEF SnoozeFires, OfRound, Used, Take
    <2>j. \A j \in jobs : j.alarm = a => ~Round(j) /\ (j.known => j.kind = "fire" /\ Field(alarm[a], "fire") = j.id)
        BY <1>k, <2>d
    <2>1. CASE snooze_enabled
        BY <1>4, <1>h, <2>1, <2>d, RingKeeps DEF SnoozeFires
    <2>2. CASE ~snooze_enabled
        <3> DEFINE r == [alarm[a] EXCEPT !.snooze_job = 0]
        <3>1. Change(a, r, {}, {}) /\ untimed' = untimed
            BY <1>h, <1>4, <1>w, <2>2 DEF SnoozeFires, Change
        <3>2. /\ r.used /\ SameConfig(r, alarm[a]) /\ r.is_ringing = alarm[a].is_ringing
              /\ Field(r, "snooze") = 0 /\ Field(r, "timeout") = Field(alarm[a], "timeout")
              /\ Field(r, "fire") = Field(alarm[a], "fire")
            BY <1>0, <2>d DEF Field, SameConfig, Alarm_Item
        <3>4. alarm'[a] = r
            BY <1>0, <1>h, <3>1 DEF Change
        <3> HIDE DEF r
        <3>5. Sound(a, r, {}, {})
            BY <2>j, <3>2 DEF Sound, Kinds
        <3>6. On(a)'
            BY <1>h, <1>q, <3>1, <3>2, DateStays
        <3>7. Timed(a)'
            <4>1. a \notin untimed => ~alarm[a].is_ringing
                <5>1. Timed(a)
                    BY <1>h, PerAlarm DEF AlarmInv
                <5>2. \A k \in Coming : k.alarm = a => k.kind # "timeout"
                    BY <1>c, <2>d
                <5> QED
                    BY <5>1, <5>2 DEF Timed
            <4> QED
                BY <3>1, <3>2, <3>4, <4>1 DEF Timed
        <3> QED
            BY <1>h, <2>d, <2>j, <3>1, <3>2, <3>5, <3>6, <3>7, OneHandler
    <2> QED
        BY <2>1, <2>2
<1>5. CASE TooLate
    <2>1. UNCHANGED <<alarm, jobs, kv, untimed, unsaved>>
        BY <1>5 DEF TooLate
    <2>2. UnusedInv' /\ OwnInv' /\ DueInv' /\ OnIsScheduled' /\ KvFollows'
        BY <1>q, <2>1 DEF AlarmInv, UnusedInv, OwnInv, JobsOwned, DueInv, OnIsScheduled, KvFollows, Used
    <2>3. SingleInv'
        <3> DEFINE new == {}
        <3>1. /\ jobs' \subseteq jobs \cup new /\ new = {}
              /\ (\A n, m \in new : n = m) /\ \A n \in new : n.alarm = Head(queue).alarm
            BY <2>1
        <3> HIDE DEF new
        <3> QED
            BY <1>q, <3>1, SingleTake DEF AlarmInv
    <2>4. ASSUME NEW b \in Alarms PROVE Timed(b)'
        <3>1. Timed(b)
            BY PerAlarm DEF AlarmInv
        <3>2. CASE b # a
            <4>1. \A k \in Coming : k.alarm = b => k \in Coming'
                BY <1>h, <1>q, <2>1, <3>2, HeadAlone DEF AlarmInv, Coming
            <4> QED
                BY <2>1, <3>1, <4>1 DEF Timed
        <3>3. CASE b = a /\ alarm[a].is_ringing /\ a \notin untimed
            <4>1. Head(queue).kind = "timeout" /\ Head(queue).seq = alarm[a].ring_seq
                BY <1>c, <3>1, <3>3 DEF Timed
            <4>2. alarm[a].used
                BY <1>h, <3>3 DEF AlarmInv, UnusedInv, Off
            <4>3. up
                BY <1>h, <4>2 DEF AlarmInv, UnusedInv
            <4>4. FALSE
                BY <1>5, <1>h, <3>3, <4>1, <4>2, <4>3 DEF TooLate, OfRound, Used
            <4> QED
                BY <4>4
        <3> QED
            BY <2>1, <3>2, <3>3 DEF Timed
    <2>5. RingIsTimed'
        BY <2>4 DEF RingIsTimed, Timed
    <2> QED
        BY <2>2, <2>3, <2>5 DEF AlarmInv
<1> QED
    BY <1>1, <1>2, <1>3, <1>4, <1>5 DEF Work

\* One turn of the loop that loads the table keeps the invariant
LEMMA InvLoad ==
    ASSUME TypeOK, TypeOK', AlarmInv, NEW a \in Alarms, StoreLoad(a)
    PROVE  AlarmInv'
<1>0. /\ alarm \in [Alarms -> Alarm_Item] /\ a \in loading /\ loading' = loading \ {a} /\ loading \subseteq Alarms
      /\ UNCHANGED <<queue, up, now, untimed>> /\ up \in BOOLEAN
    BY TypeParts DEF StoreLoad, clock, Rest
<1>1. up /\ ~alarm[a].used /\ \A j \in jobs : j.known => j.alarm # a
    BY <1>0 DEF AlarmInv, UnusedInv, OwnInv, JobsOwned
<1>w. Without(jobs, {}) = jobs
    BY DEF Without
<1>2. ASSUME NEW c, NEW id, NEW new, Change(a, Configured(Off, c, id), {}, new),
             \A n \in new : /\ n.alarm = a /\ n.id # 0 /\ n.kind = "fire" /\ n.id \notin Held(jobs)
                            /\ n.known => n.id = id,
             \A n, m \in new : n = m, id = 0 \/ \E n \in new : n.id = id,
             unscheduled \ {a} \subseteq unscheduled', On(a)'
      PROVE  AlarmInv'
    <2> DEFINE r == Configured(Off, c, id)
    <2>1. /\ r.used /\ ~r.is_ringing /\ Field(r, "fire") = id
          /\ Field(r, "timeout") = 0 /\ Field(r, "snooze") = 0
        BY DEF Configured, Off, Field
    <2>2. Change(a, r, {}, new)
        BY <1>2
    <2> HIDE DEF r
    <2>3. alarm'[a] = r /\ \A b \in Alarms \ {a} : alarm'[b] = alarm[b]
        BY <1>0, <2>2 DEF Change
    <2>4. Sound(a, r, {}, new)
        <3>1. \A k \in Kinds : \/ Field(r, k) \in {0, Field(alarm[a], k)}
                               \/ \E n \in new : n.kind = k /\ n.id = Field(r, k)
            BY <1>2, <2>1 DEF Kinds
        <3> QED
            BY <1>1, <1>2, <1>w, <2>1, <3>1 DEF Sound, Kinds
    <2>5. OwnInv' /\ DueInv' /\ OnIsScheduled'
        BY <1>0, <1>2, <2>2, <2>4, OwnChange, DatesChange DEF AlarmInv
    <2>6. RingIsTimed'
        <3>1. Timed(a)' /\ Requests' = Requests
            BY <1>0, <2>1, <2>3, SilentIsTimed DEF Requests
        <3> QED
            BY <1>0, <2>2, <2>4, <3>1, TimeoutsChange DEF AlarmInv
    <2>7. SingleInv'
        <3>1. \A j \in jobs' : j \in jobs \/ j.kind = "fire"
            BY <1>2 DEF Change, Without
        <3> QED
            BY <1>0, <3>1 DEF AlarmInv, SingleInv, Round
    <2>8. /\ \A b \in Alarms : ~alarm'[b].used => alarm'[b] = Off
          /\ up' /\ \A b \in loading' : ~alarm'[b].used
        BY <1>0, <1>1, <2>1, <2>3 DEF AlarmInv, UnusedInv
    <2>9. CASE kv' = Image(alarm')
        BY <2>5, <2>6, <2>7, <2>8, <2>9, ImageFollows DEF AlarmInv, UnusedInv
    <2>10. CASE kv' = kv /\ (unsaved' \/ loading' # {})
        <3>1. KvFollows'
            BY <2>10 DEF KvFollows
        <3> QED
            BY <2>5, <2>6, <2>7, <2>8, <2>10, <3>1 DEF AlarmInv, UnusedInv
    <2>11. kv' = Image(alarm') \/ (kv' = kv /\ (unsaved' \/ loading' # {}))
        <3>1. CASE loading = {a} /\ Image(alarm') # kv
            BY <3>1 DEF StoreLoad, StoreSave
        <3>2. CASE Image(alarm') = kv
            BY <3>2 DEF StoreLoad
        <3>3. CASE loading # {a}
            BY <1>0, <3>3 DEF StoreLoad
        <3> QED
            BY <3>1, <3>2, <3>3
    <2> QED
        BY <2>9, <2>10, <2>11
<1>3. ASSUME alarm' = [alarm EXCEPT ![a] = Configured(Off, [kv[a] EXCEPT !.enabled = FALSE], 0)],
             UNCHANGED <<jobs, unscheduled>>
      PROVE  AlarmInv'
    <2> DEFINE c == [kv[a] EXCEPT !.enabled = FALSE]
    <2>1. ~Configured(Off, c, 0).enabled
        BY DEF Configured, Off, TypeOK, Stored
    <2>2. Change(a, Configured(Off, c, 0), {}, {}) /\ alarm'[a] = Configured(Off, c, 0)
        BY <1>0, <1>3, <1>w DEF Change
    <2>3. On(a)'
        BY <2>1, <2>2, OffIsOn
    <2> HIDE DEF c
    <2> QED
        BY <1>2, <1>3, <2>2, <2>3
<1>4. ASSUME NEW id \in NewIds(jobs, a, "fire"), alarm' = [alarm EXCEPT ![a] = Configured(Off, kv[a], id)],
             jobs' = jobs \cup {FireJob(id, a, kv[a])}, unscheduled' = unscheduled
      PROVE  AlarmInv'
    <2> DEFINE r == Configured(Off, kv[a], id)
    <2>1. r.enabled = kv[a].enabled /\ r.once = kv[a].once /\ r.start = kv[a].start
        BY DEF Configured, Off
    <2>2. Change(a, r, {}, {FireJob(id, a, kv[a])}) /\ alarm'[a] = r
        BY <1>0, <1>4, <1>w DEF Change
    <2>3. On(a)'
        BY <1>0, <1>4, <2>1, <2>2, DateByJob
    <2>4. LET n == FireJob(id, a, kv[a]) IN n.alarm = a /\ n.id = id /\ n.id # 0 /\ n.kind = "fire" /\ n.id \notin Held(jobs)
        BY NewFireJob
    <2> QED
        BY <1>2, <1>4, <2>2, <2>3, <2>4
<1>5. ASSUME alarm' = [alarm EXCEPT ![a] = Configured(Off, kv[a], 0)], jobs' = jobs,
             unscheduled' = unscheduled \cup {a}
      PROVE  AlarmInv'
    <2>1. Change(a, Configured(Off, kv[a], 0), {}, {})
        BY <1>5, <1>w DEF Change
    <2>2. On(a)'
        BY <1>5, OffIsOn
    <2> QED
        BY <1>2, <1>5, <2>1, <2>2
<1>6. ASSUME NEW id \in NewIds(jobs, a, "fire"), alarm' = [alarm EXCEPT ![a] = Configured(Off, kv[a], 0)],
             jobs' = jobs \cup {Orphan(FireJob(id, a, kv[a]))}, unscheduled' = unscheduled \cup {a}
      PROVE  AlarmInv'
    <2>1. Change(a, Configured(Off, kv[a], 0), {}, {Orphan(FireJob(id, a, kv[a]))})
        BY <1>6, <1>w DEF Change
    <2>2. On(a)'
        BY <1>6, OffIsOn
    <2>3. LET n == Orphan(FireJob(id, a, kv[a])) IN n.alarm = a /\ n.id # 0 /\ n.kind = "fire" /\ n.id \notin Held(jobs) /\ ~n.known
        BY NewFireJob
    <2> QED
        BY <1>2, <1>6, <2>1, <2>2, <2>3
<1> QED
    BY <1>3, <1>4, <1>5, <1>6 DEF StoreLoad, Taken, LeftBehind

\* Cron handing a job to the work queue keeps the invariant
LEMMA InvFires ==
    ASSUME TypeOK, TypeOK', AlarmInv, NEW j \in jobs, JobFires(j)
    PROVE  AlarmInv'
<1> DEFINE q == [kind |-> j.kind, alarm |-> j.alarm, seq |-> j.seq]
<1>0. /\ UNCHANGED <<alarm, kv, up, loading, now, unscheduled, unsaved>>
      /\ jobs' \subseteq jobs /\ \A k \in jobs : k # j => k \in jobs'
      /\ j.due <= now /\ RoundsAreShort(j)
      /\ j.kind # "fire" => jobs' = jobs \ {j}
      /\ j.due = AnyTime => j.kind # "fire" \/ jobs' = jobs
    BY DEF JobFires, clock, Leaves
<1>t. /\ j \in JobSet /\ j.kind \in Kinds /\ now \in Nat /\ j.due \in Nat /\ queue \in Seq(RequestSet)
      /\ alarm \in [Alarms -> Alarm_Item]
    BY TypeParts DEF GoodJobs, JobSet, TypeOK, GoodQueue
<1>s. j.due # Never
    BY <1>0, <1>t, AlarmAssumption DEF AlarmInv, DueInv, Never
<1>a. q.alarm = j.alarm /\ q.kind = j.kind /\ q.seq = j.seq
    OBVIOUS
<1>h. \/ queue' = Append(queue, q) /\ untimed' = untimed
      \/ /\ untimed' = IF j.kind = "fire" THEN untimed ELSE untimed \cup {j.alarm}
         /\ queue' = queue
    BY DEF JobFires
<1>1. UnusedInv' /\ KvFollows'
    BY <1>0 DEF AlarmInv, UnusedInv, KvFollows
<1>2. OwnInv' /\ DueInv'
    BY <1>0 DEF AlarmInv, OwnInv, JobsOwned, DueInv
<1>3. ASSUME NEW b \in Alarms PROVE On(b)'
    <2>1. On(b)
        BY PerAlarm DEF AlarmInv
    <2>2. ASSUME NEW k \in jobs, k.kind = "fire", k.alarm = b,
                 alarm[b].once => alarm[b].start > now,
                 k.due = IF alarm[b].once THEN alarm[b].start ELSE AnyTime
          PROVE  k \in jobs'
        <3>1. CASE k # j
            BY <1>0, <3>1
        <3>2. CASE k = j /\ ~alarm[b].once
            BY <1>0, <2>2, <3>2
        <3>3. CASE k = j /\ alarm[b].once
            <4>1. alarm[b].start \in Nat
                BY <1>t DEF Alarm_Item
            <4> QED
                BY <1>0, <1>t, <2>2, <3>3, <4>1
        <3> QED
            BY <3>1, <3>2, <3>3
    <2> QED
        BY <1>0, <2>1, <2>2 DEF On, Used
<1>4. ASSUME NEW b \in Alarms PROVE Timed(b)'
    <2>1. Timed(b)
        BY PerAlarm DEF AlarmInv
    <2>2. CASE queue' = queue /\ untimed' = IF j.kind = "fire" THEN untimed ELSE untimed \cup {j.alarm}
        <3>1. Requests' = Requests
            BY <2>2 DEF Requests
        <3> QED
            BY <1>0, <2>1, <2>2, <3>1 DEF Timed, Coming
    <2>3. CASE queue' = Append(queue, q) /\ untimed' = untimed
        <3>1. /\ Len(queue') = Len(queue) + 1 /\ Len(queue) \in Nat /\ queue'[Len(queue) + 1] = q
              /\ \A i \in 1..Len(queue) : queue'[i] = queue[i]
            BY <1>t, <2>3
        <3>2. q \in Requests' /\ Requests \subseteq Requests'
            BY <3>1 DEF Requests
        <3> HIDE DEF q
        <3>3. q \in Coming' /\ \A k \in Coming : k \in Coming' \/ k = j
            BY <1>0, <3>2 DEF Coming
        <3> QED
            BY <1>0, <1>a, <2>1, <2>3, <3>3 DEF Timed
    <2> QED
        BY <1>h, <2>2, <2>3
<1>5. SingleInv'
    <2>1. CASE queue' = queue
        BY <1>0, <2>1 DEF AlarmInv, SingleInv
    <2>2. CASE queue' = Append(queue, q)
        <3> DEFINE m == Len(queue) + 1
        <3>1. /\ Len(queue') = m /\ Len(queue) \in Nat /\ queue'[m] = q
              /\ \A i \in 1..Len(queue) : queue'[i] = queue[i]
              /\ \A i \in 1..m : i \in 1..Len(queue) \/ i = m
            BY <1>t, <2>2
        <3>2. \A i \in 1..Len(queue) : queue[i].alarm # j.alarm
            BY <1>0, <1>s DEF AlarmInv, SingleInv, RoundsAreShort, Requests, Round
        <3>3. \A k \in jobs' : Round(k) /\ k.alarm = j.alarm => k.due = Never /\ j.kind = "fire"
            <4>1. CASE j.kind = "fire"
                BY <1>0, <4>1 DEF RoundsAreShort, Round
            <4>2. CASE j.kind # "fire"
                BY <1>0, <1>s, <4>2 DEF AlarmInv, SingleInv, Round
            <4> QED
                BY <4>1, <4>2
        <3> HIDE DEF q, m
        <3>4. \A k, l \in jobs' : k.alarm = l.alarm /\ Round(k) /\ Round(l) => k = l
            BY <1>0 DEF AlarmInv, SingleInv
        <3>5. \A k \in jobs', i \in 1..Len(queue') :
                 Round(k) /\ k.alarm = queue'[i].alarm => k.due = Never /\ queue'[i].kind = "fire"
            BY <1>0, <1>a, <3>1, <3>3 DEF AlarmInv, SingleInv
        <3>6. \A i, k \in 1..Len(queue') : queue'[i].alarm = queue'[k].alarm => i = k
            BY <1>a, <3>1, <3>2 DEF AlarmInv, SingleInv
        <3> QED
            BY <3>4, <3>5, <3>6 DEF SingleInv, Round, Never
    <2> QED
        BY <1>h, <2>1, <2>2
<1>6. OnIsScheduled' /\ RingIsTimed'
    BY <1>3, <1>4 DEF OnIsScheduled, RingIsTimed, On, Timed, Used
<1> QED
    BY <1>1, <1>2, <1>5, <1>6 DEF AlarmInv

\* So do the clock, low power, a power loss and the start
LEMMA InvRest ==
    ASSUME TypeOK, TypeOK', AlarmInv, Deinit \/ PowerLoss \/ InitService \/ Tick \/ TimeSync \/ UNCHANGED vars
    PROVE  AlarmInv'
<1> USE DEF AlarmInv
<1>o. ~Off.used /\ ~Off.is_ringing
    BY DEF Off
<1>1. CASE Deinit \/ PowerLoss
    <2>1. /\ \A a \in Alarms : alarm'[a] = Off
          /\ jobs' = {} /\ kv' = kv /\ up' = FALSE /\ loading' = {}
          /\ queue' = queue \/ queue' = <<>>
          /\ now' = now
        BY <1>1 DEF Deinit, PowerLoss, clock
    <2>2. UnusedInv' /\ KvFollows'
        BY <1>o, <2>1 DEF UnusedInv, KvFollows
    <2>3. OwnInv' /\ OnIsScheduled' /\ RingIsTimed'
        BY <1>o, <2>1 DEF OwnInv, JobsOwned, OnIsScheduled, RingIsTimed, Used
    <2>4. SingleInv' /\ DueInv'
        BY <2>1 DEF SingleInv, DueInv
    <2> QED
        BY <2>2, <2>3, <2>4
<1>2. CASE InitService
    <2>1. /\ ~up /\ UNCHANGED <<alarm, jobs, queue, kv, now>> /\ loading' = {a \in Alarms : kv[a].used} /\ up'
        BY <1>2 DEF InitService, clock
    <2>2. \A a \in Alarms : ~alarm[a].used /\ alarm[a] = Off
        BY <2>1 DEF UnusedInv
    <2>3. OwnInv' /\ SingleInv' /\ DueInv'
        BY <2>1 DEF OwnInv, JobsOwned, SingleInv, DueInv
    <2>4. OnIsScheduled' /\ RingIsTimed'
        BY <1>o, <2>1, <2>2 DEF OnIsScheduled, RingIsTimed, Used
    <2>5. UnusedInv'
        BY <2>1, <2>2 DEF UnusedInv
    <2>6. KvFollows'
        <3>1. SUFFICES ASSUME loading' = {}, NEW a \in Alarms
                       PROVE  /\ kv'[a].used = alarm'[a].used /\ kv'[a].enabled = alarm'[a].enabled
                              /\ kv'[a].once = alarm'[a].once
                              /\ alarm'[a].enabled => kv'[a].start = alarm'[a].start
            BY DEF KvFollows
        <3>2. ~kv[a].used
            BY <2>1, <3>1
        <3>3. kv'[a] = Blank /\ alarm'[a] = Off
            BY <2>1, <2>2, <3>2 DEF UnusedInv
        <3> QED
            BY <3>3 DEF Blank, Off
    <2> QED
        BY <2>3, <2>4, <2>5, <2>6
<1>3. CASE Tick
    <2>1. /\ UNCHANGED <<alarm, jobs, queue, kv, up, loading, unscheduled, untimed, unsaved>>
          /\ now < MaxTime /\ now' = now + 1 /\ MaxTime \in Nat
          /\ now \in Nat /\ \A a \in Alarms : alarm[a].start \in Nat
        BY <1>3, AlarmAssumption DEF Tick, history, TypeOK, Alarm_Item
    <2>2. UnusedInv' /\ OwnInv' /\ SingleInv' /\ RingIsTimed' /\ KvFollows'
        BY <2>1 DEF UnusedInv, OwnInv, JobsOwned, SingleInv, RingIsTimed, KvFollows, Requests, Coming
    <2>3. OnIsScheduled'
        BY <2>1 DEF OnIsScheduled, Used
    <2>4. DueInv'
        BY <2>1 DEF DueInv
    <2> QED
        BY <2>2, <2>3, <2>4
<1>4. CASE TimeSync
    <2>1. PICK passed \in SUBSET {k \in jobs : k.kind # "fire" /\ k.due # Never} :
             /\ jobs' = {[k EXCEPT !.due = IF k \in passed \/ (0 < @ /\ @ <= now) THEN Never ELSE @] : k \in jobs}
             /\ untimed' = untimed \cup {k.alarm : k \in passed}
             /\ UNCHANGED <<alarm, queue, kv, up, loading, now, unscheduled, unsaved>>
        BY <1>4 DEF TimeSync
    <2> DEFINE Moved(k) == [k EXCEPT !.due = IF k \in passed \/ (0 < @ /\ @ <= now) THEN Never ELSE @]
    <2>m. jobs' = {Moved(k) : k \in jobs}
        BY <2>1
    <2>2. \A k \in jobs : /\ Moved(k).id = k.id /\ Moved(k).kind = k.kind /\ Moved(k).alarm = k.alarm
                          /\ Moved(k).seq = k.seq /\ Moved(k).on = k.on /\ Moved(k).known = k.known
                          /\ Moved(k).due = IF k \in passed \/ (0 < k.due /\ k.due <= now) THEN Never ELSE k.due
        BY TypeParts DEF GoodJobs, JobSet
    <2> HIDE DEF Moved
    <2>n. 0 < Never /\ Never # AnyTime /\ AnyTime = 0
        BY AlarmAssumption DEF Never, AnyTime
    <2>d. \A k \in jobs : k.kind # "fire" =>
             /\ k.due = AnyTime \/ k.due = Never
             /\ k.due = Never => Moved(k).due = Never
             /\ k.due = AnyTime => Moved(k).due = IF k \in passed THEN Never ELSE AnyTime
        BY <2>2, <2>n DEF DueInv
    <2>3. UnusedInv' /\ KvFollows'
        BY <2>1 DEF UnusedInv, KvFollows
    <2>4. OwnInv' /\ DueInv'
        BY <2>1, <2>m, <2>2, <2>d DEF OwnInv, JobsOwned, DueInv
    <2>s. SingleInv'
        <3>1. \A k \in jobs : Round(Moved(k)) => Round(k)
            BY <2>2, <2>d DEF Round
        <3>2. ASSUME NEW k \in jobs', NEW l \in jobs', k.alarm = l.alarm, Round(k), Round(l) PROVE k = l
            BY <2>m, <2>2, <3>1, <3>2 DEF SingleInv
        <3>3. ASSUME NEW k \in jobs', NEW i \in 1..Len(queue'), Round(k), k.alarm = queue'[i].alarm
              PROVE  k.due = Never /\ queue'[i].kind = "fire"
            <4>1. PICK l \in jobs : k = Moved(l)
                BY <2>m
            <4>2. l.due = Never /\ queue[i].kind = "fire" /\ l.kind # "fire"
                BY <2>1, <2>2, <3>1, <3>3, <4>1 DEF SingleInv, Round
            <4> QED
                BY <2>1, <2>d, <4>1, <4>2
        <3>4. \A i, k \in 1..Len(queue') : queue'[i].alarm = queue'[k].alarm => i = k
            BY <2>1 DEF SingleInv
        <3> QED
            BY <3>2, <3>3, <3>4 DEF SingleInv, Round, Never
    <2>5. ASSUME NEW b \in Alarms PROVE On(b)' /\ Timed(b)'
        <3>1. On(b) /\ Timed(b) /\ now \in Nat /\ alarm[b].start \in Nat
            BY PerAlarm DEF TypeOK, Alarm_Item
        <3>2. On(b)'
            <4>1. \A k \in jobs : k.kind = "fire" => k \notin passed
                OBVIOUS
            <4> QED
                BY <2>1, <2>m, <2>2, <3>1, <4>1 DEF On, Used, AnyTime
        <3>3. Timed(b)'
            <4>1. Requests' = Requests
                BY <2>1 DEF Requests
            <4>2. ASSUME NEW k \in jobs, k.due # Never, k.kind = "timeout", k.alarm = b, b \notin untimed'
                  PROVE  Moved(k) \in Coming'
                <5>1. k \notin passed
                    BY <2>1, <4>2
                <5> QED
                    BY <2>m, <2>d, <2>n, <4>2, <5>1 DEF Coming, Never
            <4>3. b \notin untimed' => b \notin untimed
                BY <2>1
            <4> QED
                BY <2>1, <2>2, <3>1, <4>1, <4>2, <4>3 DEF Timed, Coming
        <3> QED
            BY <3>2, <3>3
    <2>6. OnIsScheduled' /\ RingIsTimed'
        BY <2>5 DEF OnIsScheduled, RingIsTimed, On, Timed, Used
    <2> QED
        BY <2>3, <2>4, <2>s, <2>6
<1>5. CASE UNCHANGED vars
    BY <1>5 DEF vars, UnusedInv, OwnInv, JobsOwned, SingleInv, DueInv, OnIsScheduled, RingIsTimed, KvFollows, Used,
                Requests, Coming
<1> QED
    BY <1>1, <1>2, <1>3, <1>4, <1>5

\* The invariant holds from the first power-up on
LEMMA InvHolds == Spec => []AlarmInv
<1>1. Init => AlarmInv
    <2> SUFFICES ASSUME Init PROVE AlarmInv
        OBVIOUS
    <2>1. /\ \A a \in Alarms : alarm[a] = Off
          /\ jobs = {} /\ queue = <<>> /\ up = FALSE /\ loading = {} /\ kv = Image(alarm)
          /\ now <= MaxTime + 1
        BY AlarmAssumption DEF Init
    <2>2. ASSUME NEW a \in Alarms PROVE kv[a] = Blank
        <3>1. kv[a] = [used |-> Off.used, enabled |-> Off.enabled, once |-> Off.once, start |-> Off.start]
            BY <2>1, Zenon DEF Image
        <3> QED
            BY <3>1 DEF Off, Blank
    <2>3. ~Off.used /\ ~Off.is_ringing
        BY DEF Off
    <2> QED
        BY <2>1, <2>2, <2>3 DEF AlarmInv, UnusedInv, OwnInv, JobsOwned, SingleInv, DueInv, OnIsScheduled,
                                RingIsTimed, KvFollows, Used
<1>2. TypeOK /\ AlarmInv /\ [Next]_vars => AlarmInv'
    <2> SUFFICES ASSUME TypeOK, AlarmInv, [Next]_vars PROVE AlarmInv'
        OBVIOUS
    <2>1. TypeOK'
        BY TypeStep
    <2>2. ASSUME NEW a \in Alarms, StoreLoad(a) PROVE AlarmInv'
        BY <2>1, <2>2, InvLoad
    <2>3. ASSUME NEW j \in jobs, JobFires(j) PROVE AlarmInv'
        BY <2>1, <2>3, InvFires
    <2> QED
        BY <2>1, <2>2, <2>3, InvCall, InvWork, InvRest DEF Next
<1> QED
    BY <1>1, <1>2, TypeCorrect, PTL DEF Spec

\* Every job in the cron table whose add succeeded is remembered by an alarm, and no two jobs
\* share an id, for any number of alarms, calls, rounds, sleeps and power losses.
THEOREM JobsAreOwned == Spec => []JobsOwned
<1>1. AlarmInv => JobsOwned
    BY DEF AlarmInv, OwnInv
<1> QED
    BY <1>1, InvHolds, PTL

\* Dates, timeouts and the stored table are never forgotten, unless cron, the work queue or the
\* store refused them or a time sync passed over the timeout.
THEOREM NothingIsForgotten == Spec => []NothingForgotten
<1>1. AlarmInv => NothingForgotten
    BY DEF AlarmInv, NothingForgotten
<1> QED
    BY <1>1, InvHolds, PTL
=============================================================================
