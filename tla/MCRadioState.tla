---------------------------- MODULE MCRadioState ----------------------------
(***************************************************************************)
(* The scenarios of RadioState for TLC.                                    *)
(***************************************************************************)
EXTENDS RadioState

Base == [maxSimChanges |-> 0, maxPowers |-> 0, maxDeaths |-> 0, maxFailures |-> 0]

\* The SIM changes once.
SimChange1 == {[Base EXCEPT !.maxSimChanges = 1]}

\* The SIM changes, or the framework switches the radio and commands are refused.
SimOrPower == SimChange1 \cup {[Base EXCEPT !.maxPowers = 2, !.maxFailures = 1]}

\* The SIM changes and the modem restarts.
SimAndRestart == {[Base EXCEPT !.maxSimChanges = 1, !.maxDeaths = 1]}
=============================================================================
