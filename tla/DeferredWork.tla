---------------------------- MODULE DeferredWork ----------------------------
(***************************************************************************)
(* What a RequestQueue (mbm-ril/u300-ril.c) promises to its users, without *)
(* its lists, locks, waits and channel failures: every request the         *)
(* framework makes is processed, once and in its turn; a callback enqueued *)
(* for an instant runs once, not before that instant, and, among those     *)
(* that wait, the earliest is chosen first.  RequestQueue implements it.   *)
(***************************************************************************)
EXTENDS Integers

CONSTANT Horizon    \* bound: the last instant a callback is enqueued for

VARIABLES
    requests,   \* requests made so far
    served,     \* requests processed so far
    scheduled,  \* callbacks enqueued so far
    waiting,    \* the callbacks that wait, with their instants
    chosen,     \* the callback that is about to run
    fired,      \* the callbacks that ran
    now

vars == <<requests, served, scheduled, waiting, chosen, fired, now>>
requestVars == <<requests, served>>
eventVars == <<scheduled, waiting, chosen, fired>>

Init ==
    /\ requests = 0 /\ served = 0
    /\ scheduled = 0 /\ waiting = {} /\ chosen = {} /\ fired = {}
    /\ now = 0

Submit ==
    /\ requests' = requests + 1
    /\ UNCHANGED <<served, eventVars, now>>

Serve ==
    /\ served < requests
    /\ served' = served + 1
    /\ UNCHANGED <<requests, eventVars, now>>

Schedule ==
    /\ \E due \in 0 .. Horizon :
           waiting' = waiting \cup {[id |-> scheduled + 1, due |-> due]}
    /\ scheduled' = scheduled + 1
    /\ UNCHANGED <<requestVars, chosen, fired, now>>

\* The earliest of those whose time has come.
Choose ==
    /\ chosen = {}
    /\ \E c \in waiting :
           /\ c.due <= now
           /\ \A d \in waiting : c.due <= d.due
           /\ chosen' = {c}
           /\ waiting' = waiting \ {c}
    /\ UNCHANGED <<requestVars, scheduled, fired, now>>

Fire ==
    /\ \E c \in chosen : fired' = fired \cup {c.id}
    /\ chosen' = {}
    /\ UNCHANGED <<requestVars, scheduled, waiting, now>>

Tick == now' = now + 1 /\ UNCHANGED <<requestVars, eventVars>>

Next == Submit \/ Serve \/ Schedule \/ Choose \/ Fire \/ Tick

SafeSpec == Init /\ [][Next]_vars

\* What is asked for is done.
Spec == SafeSpec /\ WF_vars(Serve) /\ WF_vars(Choose) /\ WF_vars(Fire)
=============================================================================
