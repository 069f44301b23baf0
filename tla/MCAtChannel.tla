----------------------------- MODULE MCAtChannel -----------------------------
(***************************************************************************)
(* Small instances of AtChannel for TLC.  The callers are interchangeable, *)
(* in the scenarios too.                                                   *)
(***************************************************************************)
EXTENDS AtChannel, TLC

\* One thread uses every entry point of a device that may vanish; two threads command and
\* handshake, with spurious wake-ups and unsolicited NO CARRIER; two threads with a call that
\* waits for one command and is overtaken by the next.
Safety ==
    { [callers |-> {c}, calls |-> 2, apis |-> AllApis \ {"command", "handshake"},
       mayDie |-> TRUE, urcKinds |-> {"urc", "smsurc"}, maxSpurious |-> 0] : c \in Callers }
    \cup { [callers |-> Callers, calls |-> 2, apis |-> {"command", "handshake"},
            mayDie |-> FALSE, urcKinds |-> {"nocarrier"}, maxSpurious |-> 1],
           [callers |-> Callers, calls |-> 3, apis |-> {"command"}, mayDie |-> FALSE,
            urcKinds |-> {}, maxSpurious |-> 0] }

\* Two threads command a device that may vanish.
Live == { [callers |-> Callers, calls |-> 2, apis |-> {"command"}, mayDie |-> TRUE,
           urcKinds |-> {}, maxSpurious |-> 0] }

CallerSymmetry == Permutations(Callers)
=============================================================================
