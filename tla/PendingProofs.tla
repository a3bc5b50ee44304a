--------------------------- MODULE PendingProofs ---------------------------
(***************************************************************************)
(* Proofs about Pending: slots are neither lost nor shared, no wake-up is  *)
(* lost, and the table implements Mailbox, for every number of callers,    *)
(* slots and queries.                                                      *)
(***************************************************************************)
EXTENDS Pending, TLAPS

\* The locals of a caller between and during calls
Locals == \A t \in Callers :
    /\ ~InCall(t) => slot[t] = 0 /\ query[t] = None
    /\ InCall(t) => slot[t] \in Slots /\ query[t] \in Queries
    /\ pc[t] # "taken" => out[t] = None

Inv == TypeOK /\ Locals /\ SlotsOwned

\* A step of a call finds the call's slot in use.
LEMMA HeldSlot ==
    ASSUME Inv, NEW t \in Callers, InCall(t)
    PROVE  /\ slot[t] \in Slots
           /\ used[slot[t]]
           /\ query[t] \in Queries
           /\ ActionOf[query[t]] \in Keys
BY DEF Inv, Locals, SlotsOwned, Keys

\* The initial state satisfies the invariant.
LEMMA InitInv == Init => Inv
BY DEF Init, Inv, TypeOK, Locals, SlotsOwned, InCall, Locations, Keys

\* Every step keeps the types.
LEMMA TypeStep == Inv /\ [Next]_vars => TypeOK'
<1> SUFFICES ASSUME Inv, [Next]_vars PROVE TypeOK'
    OBVIOUS
<1>0. TypeOK
    BY DEF Inv
<1>1. CASE UNCHANGED vars
    BY <1>0, <1>1 DEF TypeOK, vars, table
<1>2. ASSUME NEW t \in Callers, Step(t) PROVE TypeOK'
    <2>1. InCall(t)
        BY <1>2 DEF Step, Send, SendFails, Wake, TimeOut, Take, Finish, InCall
    <2>2. slot[t] \in Slots /\ query[t] \in Queries /\ ActionOf[query[t]] \in Keys
        BY <2>1, HeldSlot
    <2>3. CASE Send(t)
        BY <1>0, <2>2, <2>3 DEF Send, TypeOK, Locations, table
    <2>4. CASE SendFails(t)
        BY <1>0, <2>2, <2>4 DEF SendFails, Return, TypeOK, Locations
    <2>5. CASE Wake(t)
        BY <1>0, <2>2, <2>5 DEF Wake, TypeOK, Locations, table
    <2>6. CASE TimeOut(t)
        BY <1>0, <2>2, <2>6 DEF TimeOut, TypeOK, Locations, table
    <2>7. CASE Take(t)
        BY <1>0, <2>2, <2>7 DEF Take, TypeOK, Locations
    <2>8. CASE Finish(t)
        BY <1>0, <2>2, <2>8 DEF Finish, Return, TypeOK, Locations
    <2> QED
        BY <1>2, <2>3, <2>4, <2>5, <2>6, <2>7, <2>8 DEF Step
<1>3. ASSUME NEW t \in Callers, NEW q \in Queries, Call(t, q) PROVE TypeOK'
    BY <1>0, <1>3 DEF Call, TypeOK, Locations, Keys
<1>4. ASSUME NEW a \in Queries, Dispatch(a) PROVE TypeOK'
    <2>1. ActionOf[a] \in Keys
        BY DEF Keys
    <2> QED
        BY <1>0, <1>4, <2>1 DEF Dispatch, TypeOK
<1>5. CASE Post
    BY <1>0, <1>5 DEF Post, TypeOK, table
<1> QED
    BY <1>1, <1>2, <1>3, <1>4, <1>5 DEF Next

\* Every step keeps the callers' locals in order and the slots owned.
LEMMA OwnedStep == Inv /\ [Next]_vars => Locals' /\ SlotsOwned'
<1> SUFFICES ASSUME Inv, [Next]_vars PROVE Locals' /\ SlotsOwned'
    OBVIOUS
<1>0. TypeOK /\ Locals /\ SlotsOwned
    BY DEF Inv
<1> USE DEF Locals, SlotsOwned, InCall
<1>1. CASE UNCHANGED vars
    BY <1>0, <1>1 DEF vars, table
<1>2. ASSUME NEW t \in Callers, Step(t) PROVE Locals' /\ SlotsOwned'
    <2>1. pc[t] # "idle"
        BY <1>2 DEF Step, Send, SendFails, Wake, TimeOut, Take, Finish
    <2>2. slot[t] \in Slots /\ query[t] \in Queries
        BY <2>1, <1>0
    <2>3. CASE Send(t) \/ Wake(t) \/ TimeOut(t) \/ Take(t)
        BY <1>0, <2>1, <2>2, <2>3 DEF Send, Wake, TimeOut, Take, TypeOK, table
    <2>4. CASE SendFails(t) \/ Finish(t)
        <3>1. /\ pc' = [pc EXCEPT ![t] = "idle"]
              /\ slot' = [slot EXCEPT ![t] = 0]
              /\ query' = [query EXCEPT ![t] = None]
              /\ out' = [out EXCEPT ![t] = None]
              /\ used' = [used EXCEPT ![slot[t]] = FALSE]
              /\ biz_id' = [biz_id EXCEPT ![slot[t]] = None]
            BY <2>4 DEF SendFails, Finish, Return
        <3>2. \A u \in Callers : u # t /\ pc[u] # "idle" => slot[u] # slot[t]
            BY <1>0, <2>1
        <3>3. Locals'
            BY <1>0, <3>1 DEF TypeOK
        <3>4. \A s \in Slots : used'[s] <=> \E u \in Callers : pc'[u] # "idle" /\ slot'[u] = s
            <4> SUFFICES ASSUME NEW s \in Slots
                         PROVE  used'[s] <=> \E u \in Callers : pc'[u] # "idle" /\ slot'[u] = s
                OBVIOUS
            <4>1. used[s] <=> \E u \in Callers : pc[u] # "idle" /\ slot[u] = s
                BY <1>0
            <4>2. used'[s] <=> used[s] /\ s # slot[t]
                BY <1>0, <2>2, <3>1 DEF TypeOK
            <4>3. \A u \in Callers : pc'[u] # "idle" /\ slot'[u] = s
                                        <=> u # t /\ pc[u] # "idle" /\ slot[u] = s
                BY <1>0, <3>1 DEF TypeOK
            <4> QED
                BY <3>2, <4>1, <4>2, <4>3
        <3>5. \A u, w \in Callers :
                  pc'[u] # "idle" /\ pc'[w] # "idle" /\ slot'[u] = slot'[w] => u = w
            BY <1>0, <3>1 DEF TypeOK
        <3>6. \A u \in Callers : pc'[u] # "idle" => biz_id'[slot'[u]] = ActionOf[query'[u]]
            BY <1>0, <3>1, <3>2 DEF TypeOK
        <3> QED
            BY <3>3, <3>4, <3>5, <3>6
    <2> QED
        BY <1>2, <2>3, <2>4 DEF Step
<1>3. ASSUME NEW t \in Callers, NEW q \in Queries, Call(t, q) PROVE Locals' /\ SlotsOwned'
    <2> PICK s \in Slots :
            /\ IsFirst(s, FreeSlots)
            /\ used' = [used EXCEPT ![s] = TRUE]
            /\ biz_id' = [biz_id EXCEPT ![s] = ActionOf[q]]
            /\ slot' = [slot EXCEPT ![t] = s]
        BY <1>3 DEF Call
    <2>1. ~used[s]
        BY DEF IsFirst, FreeSlots
    <2>2. /\ pc[t] = "idle"
          /\ pc' = [pc EXCEPT ![t] = "send"]
          /\ query' = [query EXCEPT ![t] = q]
          /\ out' = out
        BY <1>3 DEF Call
    <2> QED
        BY <1>0, <2>1, <2>2 DEF TypeOK
<1>4. ASSUME NEW a \in Queries, Dispatch(a) PROVE Locals' /\ SlotsOwned'
    BY <1>0, <1>4 DEF Dispatch
<1>5. CASE Post
    BY <1>0, <1>5 DEF Post, table
<1> QED
    BY <1>1, <1>2, <1>3, <1>4, <1>5 DEF Next

\* The inductive invariant holds throughout.
LEMMA InvHolds == Spec => []Inv
<1>1. Inv /\ [Next]_vars => Inv'
    BY TypeStep, OwnedStep DEF Inv
<1> QED
    BY <1>1, InitInv, PTL DEF Spec

\* Pending keeps its types for every number of callers, slots and queries.
THEOREM TypeCorrect == Spec => []TypeOK
<1>1. Inv => TypeOK
    BY DEF Inv
<1> QED
    BY <1>1, InvHolds, PTL

\* On no way out of a call (table full, send failed, timeout, answer) is a slot lost, and
\* no two calls ever hold the same one.
THEOREM SlotsAreOwned == Spec => []SlotsOwned
<1>1. Inv => SlotsOwned
    BY DEF Inv
<1> QED
    BY <1>1, InvHolds, PTL
-----------------------------------------------------------------------------
(* No lost wake-up. *)

\* Every step keeps the token, or the coming post, of an answer someone waits for.
LEMMA WakeupStep == Inv /\ NoLostWakeup /\ [Next]_vars => NoLostWakeup'
<1> SUFFICES ASSUME Inv, NoLostWakeup, [Next]_vars,
                    NEW t \in Callers, pc'[t] \in {"send", "wait"}, result'[slot'[t]] # None
             PROVE  sem'[slot'[t]] = 1 \/ posting' = slot'[t]
    BY DEF NoLostWakeup
<1>0. TypeOK /\ Locals /\ SlotsOwned
    BY DEF Inv
<1>1. CASE UNCHANGED vars
    BY <1>1 DEF vars, table, NoLostWakeup
<1>2. ASSUME NEW u \in Callers, Step(u) PROVE sem'[slot'[t]] = 1 \/ posting' = slot'[t]
    <2>1. pc[u] # "idle"
        BY <1>2 DEF Step, Send, SendFails, Wake, TimeOut, Take, Finish
    <2>2. slot[u] \in Slots /\ \A w \in Callers : w # u /\ pc[w] # "idle" => slot[w] # slot[u]
        BY <1>0, <2>1 DEF Locals, SlotsOwned, InCall
    <2>3. CASE Send(u)
        BY <1>0, <2>3 DEF Send, TypeOK, NoLostWakeup, table
    <2>4. CASE SendFails(u) \/ Finish(u)
        <3>1. /\ pc' = [pc EXCEPT ![u] = "idle"]
              /\ slot' = [slot EXCEPT ![u] = 0]
              /\ result' = [result EXCEPT ![slot[u]] = None]
              /\ sem' = sem /\ posting' = posting
            BY <2>4 DEF SendFails, Finish, Return
        <3>2. t # u /\ pc'[t] = pc[t] /\ slot'[t] = slot[t]
            BY <1>0, <3>1 DEF TypeOK
        <3>3. result[slot[t]] # None
            BY <1>0, <2>2, <3>1, <3>2 DEF TypeOK, Locals, InCall
        <3> QED
            BY <3>1, <3>2, <3>3 DEF NoLostWakeup
    <2>5. CASE Wake(u)
        BY <1>0, <2>2, <2>5 DEF Wake, TypeOK, NoLostWakeup, table
    <2>6. CASE TimeOut(u)
        BY <1>0, <2>6 DEF TimeOut, TypeOK, NoLostWakeup, table
    <2>7. CASE Take(u)
        BY <1>0, <2>2, <2>7 DEF Take, TypeOK, NoLostWakeup
    <2> QED
        BY <1>2, <2>3, <2>4, <2>5, <2>6, <2>7 DEF Step
<1>3. ASSUME NEW u \in Callers, NEW q \in Queries, Call(u, q)
      PROVE  sem'[slot'[t]] = 1 \/ posting' = slot'[t]
    <2> PICK s \in Slots :
            /\ IsFirst(s, FreeSlots)
            /\ result' = [result EXCEPT ![s] = None]
            /\ slot' = [slot EXCEPT ![u] = s]
        BY <1>3 DEF Call
    <2> QED
        BY <1>0, <1>3 DEF Call, TypeOK, NoLostWakeup
<1>4. ASSUME NEW a \in Queries, Dispatch(a) PROVE sem'[slot'[t]] = 1 \/ posting' = slot'[t]
    <2>1. pc' = pc /\ slot' = slot /\ sem' = sem
        BY <1>4 DEF Dispatch
    <2>2. slot[t] \in Slots
        BY <1>0, <2>1 DEF Locals, InCall
    <2>3. CASE result' = result /\ posting' = posting
        BY <2>1, <2>3 DEF NoLostWakeup
    <2>4. ASSUME NEW s \in Slots, result' = [result EXCEPT ![s] = a], posting' = s
          PROVE  sem'[slot'[t]] = 1 \/ posting' = slot'[t]
        <3>1. CASE slot[t] = s
            BY <2>1, <2>4, <3>1
        <3>2. CASE slot[t] # s
            <4>1. result[slot[t]] # None
                BY <1>0, <2>1, <2>2, <2>4, <3>2 DEF TypeOK
            <4>2. posting = 0
                BY <1>4 DEF Dispatch
            <4>3. 0 \notin Slots
                BY DEF Slots
            <4> QED
                BY <2>1, <2>2, <4>1, <4>2, <4>3 DEF NoLostWakeup
        <3> QED
            BY <3>1, <3>2
    <2> QED
        BY <1>4, <2>3, <2>4 DEF Dispatch
<1>5. CASE Post
    BY <1>0, <1>5 DEF Post, TypeOK, NoLostWakeup, table
<1> QED
    BY <1>1, <1>2, <1>3, <1>4, <1>5 DEF Next

\* The semaphore posted outside the mutex loses no wake-up, for any number of callers,
\* slots, and late or repeated answers.
THEOREM WakeupsKept == Spec => []NoLostWakeup
<1>1. Init => NoLostWakeup
    BY DEF Init, NoLostWakeup
<1> QED
    BY <1>1, WakeupStep, InvHolds, PTL DEF Spec

-----------------------------------------------------------------------------
(* The refinement. *)

Box == [t \in Callers |->
    IF pc[t] = "taken" THEN out[t] ELSE IF InCall(t) THEN result[slot[t]] ELSE None]

\* Every step of Pending is a step of Mailbox or leaves it unchanged.
LEMMA MailStep == Inv /\ [Next]_vars => [Mail!Next]_(Mail!vars)
<1> DEFINE Same == query' = query /\ Box' = Box /\ reply' = reply /\ net' = net
<1> SUFFICES ASSUME Inv, [Next]_vars
             PROVE  Mail!Next \/ Same
    BY DEF Mail!vars, Box
<1>0. TypeOK /\ Locals /\ SlotsOwned
    BY DEF Inv
<1>1. CASE UNCHANGED vars
    BY <1>1 DEF vars, table, Box, InCall
<1>2. ASSUME NEW t \in Callers, Step(t)
      PROVE  Mail!Next \/ Same
    <2>1. pc[t] # "idle" /\ pc[t] \in Locations
        BY <1>0, <1>2 DEF Step, Send, SendFails, Wake, TimeOut, Take, Finish, TypeOK
    <2>2. /\ slot[t] \in Slots
          /\ query[t] \in Queries
          /\ \A u \in Callers : u # t /\ pc[u] # "idle" => slot[u] # slot[t]
        BY <1>0, <2>1 DEF Locals, SlotsOwned, InCall
    <2>3. CASE Wake(t) \/ TimeOut(t)
        <3>1. \A u \in Callers : Box'[u] = Box[u]
            BY <1>0, <2>3 DEF Wake, TimeOut, TypeOK, table, Box, InCall
        <3> QED
            BY <2>3, <3>1 DEF Wake, TimeOut, Box
    <2>6. CASE Send(t)
        <3>1. \A u \in Callers : Box'[u] = Box[u]
            BY <1>0, <2>6 DEF Send, TypeOK, table, Box, InCall
        <3>2. Box' = Box
            BY <3>1 DEF Box
        <3>3. Mail!Request(t)
            BY <2>2, <2>6, <3>2, NoneAssumption DEF Mail!Request, Send, Box
        <3> QED
            BY <3>3 DEF Mail!Next
    <2>4. CASE Take(t)
        <3>1. \A u \in Callers : Box'[u] = Box[u]
            BY <1>0, <2>1, <2>2, <2>4 DEF Take, TypeOK, Box, InCall
        <3> QED
            BY <2>4, <3>1 DEF Take, Box
    <2>5. CASE SendFails(t) \/ Finish(t)
        <3>1. PICK r \in {None, Box[t]} : Return(t, r)
            BY <1>0, <2>5 DEF SendFails, Finish, Locals, Box
        <3>2. Box' = [Box EXCEPT ![t] = None]
            <4>1. Box'[t] = None
                BY <1>0, <3>1 DEF Return, TypeOK, Box, InCall
            <4>2. \A u \in Callers : u # t => Box'[u] = Box[u]
                BY <1>0, <2>2, <3>1 DEF Return, TypeOK, Box, InCall
            <4> QED
                BY <4>1, <4>2 DEF Box
        <3>3. net' = net
            BY <2>5 DEF SendFails, Finish
        <3>4. Mail!Return(t)
            BY <2>2, <3>1, <3>2, <3>3, NoneAssumption DEF Mail!Return, Return, Box
        <3> QED
            BY <3>4 DEF Mail!Next
    <2> QED
        BY <1>2, <2>3, <2>4, <2>5, <2>6 DEF Step
<1>3. ASSUME NEW t \in Callers, NEW q \in Queries, Call(t, q)
      PROVE  Mail!Next
    <2> PICK s \in Slots :
            /\ IsFirst(s, FreeSlots)
            /\ result' = [result EXCEPT ![s] = None]
            /\ slot' = [slot EXCEPT ![t] = s]
        BY <1>3 DEF Call
    <2>1. \A u \in Callers : pc[u] # "idle" => slot[u] # s
        BY <1>0 DEF IsFirst, FreeSlots, SlotsOwned, InCall
    <2>2. \A u \in Callers : Box'[u] = Box[u]
        BY <1>0, <1>3, <2>1 DEF Call, TypeOK, Box, InCall
    <2>3. Box' = Box
        BY <2>2 DEF Box
    <2>4. Mail!Ask(t, q)
        BY <1>0, <1>3, <2>3 DEF Call, Mail!Ask, Locals, InCall, Box
    <2> QED
        BY <2>4 DEF Mail!Next
<1>4. ASSUME NEW a \in Queries, Dispatch(a)
      PROVE  Mail!Next
    <2>1. pc' = pc /\ slot' = slot /\ query' = query /\ out' = out /\ reply' = reply
        BY <1>4 DEF Dispatch
    <2>0. Mail!Arrive(a)
        BY <1>4 DEF Dispatch, Mail!Arrive
    <2>4. ASSUME Box' = Box
          PROVE  Mail!Next
        <3>1. Mail!Drop(a)
            BY <2>0, <2>1, <2>4 DEF Mail!Drop, Box
        <3> QED
            BY <3>1 DEF Mail!Next
    <2>2. CASE result' = result
        <3>1. Box' = Box
            BY <2>1, <2>2 DEF Box, InCall
        <3> QED
            BY <2>4, <3>1
    <2>3. ASSUME NEW s \in Slots, used[s], biz_id[s] = ActionOf[a],
                 result' = [result EXCEPT ![s] = a]
          PROVE  Mail!Next
        <3> PICK t \in Callers : pc[t] # "idle" /\ slot[t] = s
            BY <1>0, <2>3 DEF SlotsOwned, InCall
        <3>1. /\ query[t] \in Queries
              /\ ActionOf[query[t]] = ActionOf[a]
              /\ \A u \in Callers : u # t /\ pc[u] # "idle" => slot[u] # s
            BY <1>0, <2>3 DEF SlotsOwned, Locals, InCall
        <3>2. \A u \in Callers : u # t => Box'[u] = Box[u]
            BY <1>0, <2>1, <2>3, <3>1 DEF TypeOK, Box, InCall
        <3>3. CASE pc[t] = "taken"
            <4>1. Box'[t] = Box[t]
                BY <2>1, <3>3 DEF Box
            <4>2. Box' = Box
                BY <3>2, <4>1 DEF Box
            <4> QED
                BY <2>4, <4>2
        <3>4. CASE pc[t] # "taken"
            <4>1. Box'[t] = a
                BY <1>0, <2>1, <2>3, <3>4 DEF TypeOK, Box, InCall
            <4>2. Box' = [Box EXCEPT ![t] = a]
                BY <3>2, <4>1 DEF Box
            <4>3. Mail!Deliver(t, a)
                BY <2>0, <2>1, <3>1, <4>2, NoneAssumption DEF Mail!Deliver, Box
            <4> QED
                BY <4>3 DEF Mail!Next
        <3> QED
            BY <3>3, <3>4
    <2> QED
        BY <1>4, <2>2, <2>3 DEF Dispatch, IsFirst, SlotsFor
<1>5. CASE Post
    BY <1>5 DEF Post, table, Box, InCall
<1> QED
    BY <1>1, <1>2, <1>3, <1>4, <1>5 DEF Next

\* The table of slots and semaphores implements the mailboxes.
THEOREM TableImplementsMailbox == Spec => ImplementsMailbox
<1>1. Init => Mail!Init
    BY DEF Init, Mail!Init, InCall
<1> QED
    BY <1>1, MailStep, InvHolds, PTL DEF Spec, ImplementsMailbox, Mail!Spec
-----------------------------------------------------------------------------
(* Answers reach the call that asked. *)

\* A call of an undisturbed action is the only one, and holds no answer but its own.
Alone == \A t \in Callers : InCall(t) /\ ActionOf[query[t]] \notin disturbed =>
    /\ \A u \in Callers : InCall(u) /\ ActionOf[query[u]] = ActionOf[query[t]] => u = t
    /\ out[t] \in {None, query[t]}
    /\ result[slot[t]] \in {None, query[t]}
    /\ pc[t] = "send" => result[slot[t]] = None

\* An answer to an undisturbed action that is on its way has its call waiting.
Expected(a) == \E t \in Callers :
    /\ pc[t] \notin {"idle", "send"}
    /\ query[t] = a
    /\ result[slot[t]] = None
    /\ out[t] = None

NetExpected == \A a \in net : ActionOf[a] \in disturbed \/ Expected(a)

\* A return keeps every other caller's locals and slot.
LEMMA OthersStay ==
    ASSUME Inv, NEW t \in Callers, NEW r, InCall(t), Return(t, r)
    PROVE  /\ ~InCall(t)'
           /\ \A u \in Callers : u # t =>
                 /\ pc'[u] = pc[u]
                 /\ slot'[u] = slot[u]
                 /\ query'[u] = query[u]
                 /\ out'[u] = out[u]
                 /\ InCall(u) => result'[slot[u]] = result[slot[u]]
<1>1. TypeOK /\ Locals /\ SlotsOwned
    BY DEF Inv
<1>2. \A u \in Callers : u # t /\ InCall(u) => slot[u] # slot[t] /\ slot[u] \in Slots
    BY <1>1 DEF Locals, SlotsOwned
<1> QED
    BY <1>1, <1>2 DEF Return, TypeOK, InCall

\* Every step keeps an undisturbed action undisturbed.
LEMMA OwnStep == Inv /\ Alone /\ NetExpected /\ [Next]_vars => Alone' /\ NetExpected'
<1> SUFFICES ASSUME Inv, Alone, NetExpected, [Next]_vars PROVE Alone' /\ NetExpected'
    OBVIOUS
<1>0. TypeOK /\ Locals /\ SlotsOwned
    BY DEF Inv
<1>1. CASE UNCHANGED vars
    BY <1>1 DEF vars, table, Alone, NetExpected, Expected, InCall
<1>2. ASSUME NEW t \in Callers, Send(t) PROVE Alone' /\ NetExpected'
    <2>1. query[t] \in Queries /\ InCall(t) /\ slot[t] \in Slots
        BY <1>0, <1>2 DEF Send, Locals, InCall
    <2>2. Alone'
        BY <1>0, <1>2, <2>1 DEF Send, TypeOK, table, Alone, InCall
    <2>3. ActionOf[query[t]] \in disturbed \/ Expected(query[t])'
        BY <1>0, <1>2, <2>1 DEF Send, TypeOK, table, Alone, Expected, Locals, InCall
    <2>4. \A a \in net : Expected(a) => Expected(a)'
        BY <1>0, <1>2 DEF Send, TypeOK, table, Expected
    <2> QED
        BY <1>2, <2>2, <2>3, <2>4 DEF Send, NetExpected
<1>3. ASSUME NEW t \in Callers, Wake(t) \/ TimeOut(t) PROVE Alone' /\ NetExpected'
    <2>1. Alone'
        BY <1>0, <1>3 DEF Wake, TimeOut, TypeOK, table, Alone, InCall
    <2>2. \A a \in net : Expected(a) => Expected(a)'
        BY <1>0, <1>3 DEF Wake, TimeOut, TypeOK, table, Expected
    <2> QED
        BY <1>3, <2>1, <2>2 DEF Wake, TimeOut, NetExpected
<1>4. ASSUME NEW t \in Callers, Take(t) PROVE Alone' /\ NetExpected'
    <2>1. InCall(t) /\ slot[t] \in Slots
        BY <1>0, <1>4 DEF Take, Locals, InCall
    <2>2. \A u \in Callers : u # t /\ InCall(u) => slot[u] # slot[t] /\ slot[u] \in Slots
        BY <1>0, <2>1 DEF Locals, SlotsOwned
    <2>3. Alone'
        BY <1>0, <1>4, <2>1, <2>2 DEF Take, TypeOK, Alone, InCall
    <2>4. \A a \in net : Expected(a) => Expected(a)'
        BY <1>0, <1>4, <2>1, <2>2 DEF Take, TypeOK, Expected, InCall
    <2> QED
        BY <1>4, <2>3, <2>4 DEF Take, NetExpected
<1>5. ASSUME NEW t \in Callers, SendFails(t) \/ Finish(t) PROVE Alone' /\ NetExpected'
    <2>1. InCall(t)
        BY <1>5 DEF SendFails, Finish, InCall
    <2>2. PICK r : Return(t, r)
        BY <1>5 DEF SendFails, Finish
    <2>3. disturbed \subseteq disturbed' /\ net' = net
        BY <1>5 DEF SendFails, Finish
    <2>4. Alone'
        BY <2>1, <2>2, <2>3, OthersStay DEF Alone, InCall
    <2>5. ASSUME NEW a \in net, ActionOf[a] \notin disturbed' PROVE Expected(a)'
        <3>1. PICK u \in Callers :
                /\ pc[u] \notin {"idle", "send"}
                /\ query[u] = a
                /\ result[slot[u]] = None
                /\ out[u] = None
            BY <2>3, <2>5 DEF NetExpected, Expected
        <3>2. u # t
            BY <1>5, <2>5, <3>1 DEF SendFails, Finish
        <3> QED
            BY <2>1, <2>2, <3>1, <3>2, OthersStay DEF Expected, InCall
    <2> QED
        BY <2>3, <2>4, <2>5 DEF NetExpected
<1>6. ASSUME NEW t \in Callers, NEW q \in Queries, Call(t, q) PROVE Alone' /\ NetExpected'
    <2> PICK s \in Slots :
            /\ IsFirst(s, FreeSlots)
            /\ used' = [used EXCEPT ![s] = TRUE]
            /\ biz_id' = [biz_id EXCEPT ![s] = ActionOf[q]]
            /\ result' = [result EXCEPT ![s] = None]
            /\ slot' = [slot EXCEPT ![t] = s]
        BY <1>6 DEF Call
    <2>1. \A u \in Callers : InCall(u) => slot[u] # s /\ slot[u] \in Slots /\ u # t
        BY <1>0, <1>6 DEF IsFirst, FreeSlots, SlotsOwned, Locals, InCall, Call
    <2>2. /\ pc' = [pc EXCEPT ![t] = "send"] /\ query' = [query EXCEPT ![t] = q]
          /\ out' = out /\ net' = net /\ out[t] = None
        BY <1>0, <1>6 DEF Call, Locals
    <2>3. \A u \in Callers : u # t =>
              /\ pc'[u] = pc[u] /\ query'[u] = query[u] /\ slot'[u] = slot[u]
              /\ InCall(u) => result'[slot[u]] = result[slot[u]]
        BY <1>0, <2>1, <2>2 DEF TypeOK
    <2>4. pc'[t] = "send" /\ query'[t] = q /\ slot'[t] = s /\ result'[s] = None
        BY <1>0, <2>2 DEF TypeOK
    <2>5. disturbed \subseteq disturbed'
        BY <1>6 DEF Call
    <2>6. ASSUME NEW u \in Callers, InCall(u), ActionOf[query[u]] = ActionOf[q]
          PROVE  ActionOf[q] \in disturbed'
        <3>1. slot[u] \in SlotsFor(ActionOf[q])
            BY <1>0, <2>1, <2>6 DEF SlotsFor, SlotsOwned
        <3> QED
            BY <1>6, <3>1 DEF Call
    <2>7. Alone'
        BY <2>1, <2>2, <2>3, <2>4, <2>5, <2>6 DEF Alone, InCall
    <2>8. \A a \in net : Expected(a) => Expected(a)'
        BY <2>1, <2>2, <2>3 DEF Expected, InCall
    <2> QED
        BY <2>2, <2>5, <2>7, <2>8 DEF NetExpected
<1>7. ASSUME NEW a \in Queries, Dispatch(a) PROVE Alone' /\ NetExpected'
    <2>1. /\ pc' = pc /\ slot' = slot /\ query' = query /\ out' = out
          /\ disturbed \subseteq disturbed' /\ net' \subseteq net /\ a \in net
          /\ a \in net' => ActionOf[a] \in disturbed'
        BY <1>7 DEF Dispatch
    <2>2. CASE result' = result
        BY <2>1, <2>2 DEF Alone, NetExpected, Expected, InCall
    <2>3. ASSUME NEW s \in Slots, used[s], biz_id[s] = ActionOf[a],
                 result' = [result EXCEPT ![s] = a]
          PROVE  Alone' /\ NetExpected'
        <3> PICK t \in Callers : InCall(t) /\ slot[t] = s
            BY <1>0, <2>3 DEF SlotsOwned
        <3>1. ActionOf[query[t]] = ActionOf[a]
            BY <1>0, <2>3 DEF SlotsOwned
        <3>2. \A u \in Callers : InCall(u) /\ u # t => result'[slot[u]] = result[slot[u]]
            BY <1>0, <2>3 DEF TypeOK, SlotsOwned, Locals
        <3>3. ActionOf[a] \in disturbed' \/ (query[t] = a /\ pc[t] # "send")
            BY <2>1, <3>1 DEF Alone, NetExpected, Expected, InCall
        <3>4. result'[slot[t]] = a
            BY <1>0, <2>3 DEF TypeOK
        <3>5. Alone'
            BY <2>1, <3>1, <3>2, <3>3, <3>4 DEF Alone, InCall
        <3>6. ASSUME NEW b \in net', ActionOf[b] \notin disturbed' PROVE Expected(b)'
            <4>1. PICK u \in Callers :
                    /\ pc[u] \notin {"idle", "send"}
                    /\ query[u] = b
                    /\ result[slot[u]] = None
                    /\ out[u] = None
                BY <2>1, <3>6 DEF NetExpected, Expected
            <4>2. u # t
                BY <2>1, <3>1, <3>3, <3>6, <4>1
            <4> QED
                BY <2>1, <3>2, <4>1, <4>2 DEF Expected, InCall
        <3> QED
            BY <3>5, <3>6 DEF NetExpected
    <2> QED
        BY <1>7, <2>2, <2>3 DEF Dispatch, IsFirst, SlotsFor
<1>8. CASE Post
    BY <1>8 DEF Post, table, Alone, NetExpected, Expected, InCall
<1> QED
    BY <1>1, <1>2, <1>3, <1>4, <1>5, <1>6, <1>7, <1>8 DEF Next, Step

\* While no answer to an action came late, came twice or found two calls, matching by the
\* action alone gives every call its own answer.
THEOREM AnswersReachTheirCall == Spec => []OwnAnswer
<1>1. Init => Alone /\ NetExpected
    BY DEF Init, Alone, NetExpected, InCall
<1>2. Alone => OwnAnswer
    BY DEF Alone, OwnAnswer
<1> QED
    BY <1>1, <1>2, OwnStep, InvHolds, PTL DEF Spec
=============================================================================
