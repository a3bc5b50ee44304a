------------------------------ MODULE Mailbox ------------------------------
(***************************************************************************)
(* What the playback control promises to a thread that asks the cloud: the *)
(* call returns once, and what it hands out is nothing, or an answer of    *)
(* the action it asked for that arrived while the call was in progress.    *)
(* Each arrival goes to at most one caller; only an answer that the        *)
(* network repeats can reach another one.  Pending implements it.          *)
(***************************************************************************)
CONSTANTS
    Callers,   \* threads
    Queries,   \* what can be asked; an answer is named by its query
    ActionOf,  \* the action of each query: music_list or refresh_play_url
    None       \* no query, no answer

VARIABLES
    asked,  \* the query of a caller's call in progress
    box,    \* the answer that has arrived for that call
    reply,  \* what the caller's last call handed out
    mail    \* answers that may still arrive

vars == <<asked, box, reply, mail>>

Init ==
    /\ asked = [t \in Callers |-> None]
    /\ box = [t \in Callers |-> None]
    /\ reply = [t \in Callers |-> None]
    /\ mail = {}

Ask(t, q) ==
    /\ asked[t] = None
    /\ asked' = [asked EXCEPT ![t] = q]
    /\ reply' = [reply EXCEPT ![t] = None]
    /\ UNCHANGED <<box, mail>>

\* The request leaves: no answer arrives that nobody has asked for
Request(t) ==
    /\ asked[t] # None
    /\ mail' = mail \cup {asked[t]}
    /\ UNCHANGED <<asked, box, reply>>

\* An answer arrives; the network may bring it again
Arrive(a) == a \in mail /\ mail' \in {mail, mail \ {a}}

\* It is put in the box of one caller, where a later one replaces it
Deliver(t, a) ==
    /\ asked[t] # None
    /\ ActionOf[a] = ActionOf[asked[t]]
    /\ Arrive(a)
    /\ box' = [box EXCEPT ![t] = a]
    /\ UNCHANGED <<asked, reply>>

\* It finds no caller
Drop(a) == Arrive(a) /\ UNCHANGED <<asked, box, reply>>

Return(t) ==
    /\ asked[t] # None
    /\ \E r \in {None, box[t]} : reply' = [reply EXCEPT ![t] = r]
    /\ asked' = [asked EXCEPT ![t] = None]
    /\ box' = [box EXCEPT ![t] = None]
    /\ UNCHANGED mail

Next ==
    \/ \E t \in Callers :
        \/ \E q \in Queries : Ask(t, q) \/ Deliver(t, q)
        \/ Request(t)
        \/ Return(t)
    \/ \E a \in Queries : Drop(a)

Spec == Init /\ [][Next]_vars
=============================================================================
