------------------------------ MODULE Pending ------------------------------
(***************************************************************************)
(* The request table of the playback control (wukong_playback_ctrl.c): the *)
(* auto-next worker, the MCP server and the UI ask the cloud over MQTT and *)
(* wait, each on the semaphore of a slot, for an answer that the skills    *)
(* thread stores in the slot.  The table has a mutex; the semaphore is     *)
(* waited for and posted outside it.                                       *)
(*                                                                         *)
(* A slot is matched by the name of the action, not by the request.  The   *)
(* network may lose, delay, reorder and duplicate answers.                 *)
(***************************************************************************)
EXTENDS Naturals

CONSTANTS
    Callers,     \* threads that ask
    Queries,     \* what can be asked; an answer is named by its query
    ActionOf,    \* the action of each query: music_list or refresh_play_url
    None,        \* NULL
    PendingMax   \* PLAYBACK_PENDING_MAX

ASSUME MaxAssumption == PendingMax \in Nat
ASSUME NoneAssumption == None \notin Queries /\ \A q \in Queries : ActionOf[q] # None

Slots == 1..PendingMax
Keys == {ActionOf[q] : q \in Queries}

VARIABLES
    used,       \* s_pending[i].used
    biz_id,     \* s_pending[i].biz_id, None for the empty string
    result,     \* s_pending[i].result
    sem,        \* the token of s_pending[i].sem, of which there is at most one
    posting,    \* the slot the skills thread has answered and not yet posted, or 0
    pc,         \* where each caller is
    slot,       \* its local `slot`, 0 outside a call
    query,      \* its parameters, None outside a call
    out,        \* *out_result of the call in progress
    reply,      \* *out_result of the last call, None if it failed
    net,        \* answers that may still arrive
    disturbed   \* history: actions for which an answer was late, repeated or contended

table == <<used, biz_id, result>>
vars == <<table, sem, posting, pc, slot, query, out, reply, net, disturbed>>

Init ==
    /\ used = [s \in Slots |-> FALSE]
    /\ biz_id = [s \in Slots |-> None]
    /\ result = [s \in Slots |-> None]
    /\ sem = [s \in Slots |-> 0]
    /\ posting = 0
    /\ pc = [t \in Callers |-> "idle"]
    /\ slot = [t \in Callers |-> 0]
    /\ query = [t \in Callers |-> None]
    /\ out = [t \in Callers |-> None]
    /\ reply = [t \in Callers |-> None]
    /\ net = {}
    /\ disturbed = {}

-----------------------------------------------------------------------------
(* The callers. *)

\* The slot a loop over the table stops at
IsFirst(s, S) == s \in S /\ \A u \in S : s <= u

FreeSlots == {s \in Slots : ~used[s]}
SlotsFor(k) == {s \in Slots : used[s] /\ biz_id[s] = k}

\* __pending_alloc by send_music_list or send_refresh_url, which returns at once if
\* the table is full
Call(t, q) ==
    /\ pc[t] = "idle"
    /\ \E s \in Slots :
        /\ IsFirst(s, FreeSlots)
        /\ used' = [used EXCEPT ![s] = TRUE]
        /\ biz_id' = [biz_id EXCEPT ![s] = ActionOf[q]]
        /\ result' = [result EXCEPT ![s] = None]
        /\ slot' = [slot EXCEPT ![t] = s]
    /\ pc' = [pc EXCEPT ![t] = "send"]
    /\ query' = [query EXCEPT ![t] = q]
    /\ reply' = [reply EXCEPT ![t] = None]
    /\ disturbed' = IF SlotsFor(ActionOf[q]) = {} THEN disturbed ELSE disturbed \cup {ActionOf[q]}
    /\ UNCHANGED <<sem, posting, out, net>>

\* Mutant: the token left by an earlier request is drained before the wait
SendDrains(t) ==
    /\ pc[t] = "send"
    /\ pc' = [pc EXCEPT ![t] = "wait"]
    /\ net' = net \cup {query[t]}
    /\ sem' = [sem EXCEPT ![slot[t]] = 0]
    /\ UNCHANGED <<table, posting, slot, query, out, reply, disturbed>>

\* iot_mqc_send_custom_msg succeeds: an answer may arrive from now on
Send(t) ==
    /\ pc[t] = "send"
    /\ pc' = [pc EXCEPT ![t] = "wait"]
    /\ net' = net \cup {query[t]}
    /\ UNCHANGED <<table, sem, posting, slot, query, out, reply, disturbed>>

\* __pending_free, and the call returns r
Return(t, r) ==
    /\ used' = [used EXCEPT ![slot[t]] = FALSE]
    /\ biz_id' = [biz_id EXCEPT ![slot[t]] = None]
    /\ result' = [result EXCEPT ![slot[t]] = None]
    /\ pc' = [pc EXCEPT ![t] = "idle"]
    /\ slot' = [slot EXCEPT ![t] = 0]
    /\ query' = [query EXCEPT ![t] = None]
    /\ out' = [out EXCEPT ![t] = None]
    /\ reply' = [reply EXCEPT ![t] = r]

\* Mutant: the error return that forgets to free the slot
SendFailsLeaks(t) ==
    /\ pc[t] = "send"
    /\ pc' = [pc EXCEPT ![t] = "idle"]
    /\ slot' = [slot EXCEPT ![t] = 0]
    /\ query' = [query EXCEPT ![t] = None]
    /\ UNCHANGED <<table, sem, posting, out, reply, net, disturbed>>

\* iot_mqc_send_custom_msg fails
SendFails(t) ==
    /\ pc[t] = "send"
    /\ Return(t, None)
    /\ UNCHANGED <<sem, posting, net, disturbed>>

\* Mutant: the slot is freed as soon as the semaphore is obtained
WakeFrees(t) ==
    /\ pc[t] = "wait"
    /\ sem[slot[t]] = 1
    /\ sem' = [sem EXCEPT ![slot[t]] = 0]
    /\ pc' = [pc EXCEPT ![t] = "take"]
    /\ used' = [used EXCEPT ![slot[t]] = FALSE]
    /\ UNCHANGED <<biz_id, result, posting, slot, query, out, reply, net, disturbed>>

\* __pending_wait: tal_semaphore_wait returns OPRT_OK
Wake(t) ==
    /\ pc[t] = "wait"
    /\ sem[slot[t]] = 1
    /\ sem' = [sem EXCEPT ![slot[t]] = 0]
    /\ pc' = [pc EXCEPT ![t] = "take"]
    /\ UNCHANGED <<table, posting, slot, query, out, reply, net, disturbed>>

\* Mutant: a wait without end
TimeOutNever(t) == FALSE /\ UNCHANGED vars

\* __pending_wait: tal_semaphore_wait gives up
TimeOut(t) ==
    /\ pc[t] = "wait"
    /\ sem[slot[t]] = 0
    /\ pc' = [pc EXCEPT ![t] = "failed"]
    /\ UNCHANGED <<table, sem, posting, slot, query, out, reply, net, disturbed>>

\* __pending_wait: the result is taken out of the slot under the mutex, NULL included
Take(t) ==
    /\ pc[t] = "take"
    /\ pc' = [pc EXCEPT ![t] = "taken"]
    /\ out' = [out EXCEPT ![t] = result[slot[t]]]
    /\ result' = [result EXCEPT ![slot[t]] = None]
    /\ UNCHANGED <<used, biz_id, sem, posting, slot, query, reply, net, disturbed>>

\* __pending_wait: the slot is freed, after a timeout or after the take
Finish(t) ==
    /\ pc[t] \in {"failed", "taken"}
    /\ Return(t, out[t])
    /\ disturbed' = IF out[t] = None THEN disturbed \cup {ActionOf[query[t]]} ELSE disturbed
    /\ UNCHANGED <<sem, posting, net>>

-----------------------------------------------------------------------------
(* The skills thread. *)

\* Mutant: the first slot in use, whatever it waits for
DispatchAny(a) ==
    /\ posting = 0
    /\ a \in net
    /\ \E n \in {net, net \ {a}} :
        /\ net' = n
        /\ disturbed' = IF a \in n THEN disturbed \cup {ActionOf[a]} ELSE disturbed
    /\ \E s \in Slots :
        /\ IsFirst(s, {u \in Slots : used[u]})
        /\ result' = [result EXCEPT ![s] = a]
        /\ posting' = s
    /\ UNCHANGED <<used, biz_id, sem, pc, slot, query, out, reply>>

\* wukong_playback_ctrl_dispatch_response, the part under the mutex; the answer may
\* arrive again
Dispatch(a) ==
    /\ posting = 0
    /\ a \in net
    /\ \E n \in {net, net \ {a}} :
        /\ net' = n
        /\ disturbed' = IF a \in n THEN disturbed \cup {ActionOf[a]} ELSE disturbed
    /\ \/ \E s \in Slots :
            /\ IsFirst(s, SlotsFor(ActionOf[a]))
            /\ result' = [result EXCEPT ![s] = a]
            /\ posting' = s
       \/ /\ SlotsFor(ActionOf[a]) = {}
          /\ UNCHANGED <<result, posting>>
    /\ UNCHANGED <<used, biz_id, sem, pc, slot, query, out, reply>>

\* Mutant: a semaphore that counts past one
PostCounts ==
    /\ posting # 0
    /\ sem' = [sem EXCEPT ![posting] = @ + 1]
    /\ posting' = 0
    /\ UNCHANGED <<table, pc, slot, query, out, reply, net, disturbed>>

\* dispatch_response: tal_semaphore_post, outside the mutex
Post ==
    /\ posting # 0
    /\ sem' = [sem EXCEPT ![posting] = 1]
    /\ posting' = 0
    /\ UNCHANGED <<table, pc, slot, query, out, reply, net, disturbed>>

-----------------------------------------------------------------------------
\* A step of a call in progress
Step(t) ==
    \/ Send(t)
    \/ SendFails(t)
    \/ Wake(t)
    \/ TimeOut(t)
    \/ Take(t)
    \/ Finish(t)

Next ==
    \/ \E t \in Callers : Step(t) \/ \E q \in Queries : Call(t, q)
    \/ \E a \in Queries : Dispatch(a)
    \/ Post

\* The semaphore wait is bounded, and threads are scheduled; answers need not arrive
Fairness == (\A t \in Callers : WF_vars(Step(t))) /\ WF_vars(Post)

Spec == Init /\ [][Next]_vars /\ Fairness

-----------------------------------------------------------------------------
(* Properties. *)

Locations == {"idle", "send", "wait", "take", "taken", "failed"}

TypeOK ==
    /\ used \in [Slots -> BOOLEAN]
    /\ biz_id \in [Slots -> Keys \cup {None}]
    /\ result \in [Slots -> Queries \cup {None}]
    /\ sem \in [Slots -> {0, 1}]
    /\ posting \in Slots \cup {0}
    /\ pc \in [Callers -> Locations]
    /\ slot \in [Callers -> Slots \cup {0}]
    /\ query \in [Callers -> Queries \cup {None}]
    /\ out \in [Callers -> Queries \cup {None}]
    /\ reply \in [Callers -> Queries \cup {None}]
    /\ net \subseteq Queries
    /\ disturbed \subseteq Keys

InCall(t) == pc[t] # "idle"

\* No slot is lost or shared: a slot is in use exactly while one call holds it, on every
\* way out of a call, and then it waits for that call's action.
SlotsOwned ==
    /\ \A s \in Slots : used[s] <=> \E t \in Callers : InCall(t) /\ slot[t] = s
    /\ \A t, u \in Callers : InCall(t) /\ InCall(u) /\ slot[t] = slot[u] => t = u
    /\ \A t \in Callers : InCall(t) => biz_id[slot[t]] = ActionOf[query[t]]

\* An answer stored for a caller that still waits has its token, or the skills thread is
\* about to post it: the post outside the mutex loses no wake-up.
NoLostWakeup == \A t \in Callers :
    pc[t] \in {"send", "wait"} /\ result[slot[t]] # None =>
        sem[slot[t]] = 1 \/ posting = slot[t]

\* As long as no answer of an action came twice, came after its call had ended or found two
\* calls waiting, each call gets the answer to its own query, although slots are matched
\* by the action alone.
OwnAnswer == \A t \in Callers :
    InCall(t) /\ ActionOf[query[t]] \notin disturbed => out[t] \in {None, query[t]}

\* The slots with their semaphores are mailboxes of the callers.
Mail == INSTANCE Mailbox WITH
    asked <- query,
    mail <- net,
    box <- [t \in Callers |->
        IF pc[t] = "taken" THEN out[t] ELSE IF InCall(t) THEN result[slot[t]] ELSE None]

\* Pending implements Mailbox: a call hands out nothing or an answer of its action that
\* was asked for, arrived during the call and, unless the network repeats it, reached no
\* other caller.
ImplementsMailbox == Mail!Spec

\* Every call returns, whatever the network and the other callers do.
CallsReturn == \A t \in Callers : InCall(t) ~> ~InCall(t)
=============================================================================
