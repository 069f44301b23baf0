---------------------------- MODULE MCNetwork ----------------------------
(***************************************************************************)
(* Bounds for model checking Network: what may happen in one behaviour.    *)
(***************************************************************************)
EXTENDS Network

Scenario(asked, happens, nAsked, nHappens, nFaults, booted) ==
    [requests |-> asked, changes |-> happens, maxRequests |-> nAsked,
     maxChanges |-> nHappens, maxFaults |-> nFaults, booted |-> booted]

MCScenarios ==
    { \* Reports and cached answers.
     Scenario({"cs", "ps"}, {"registration", "cell"}, 2, 2, 0, TRUE),
     Scenario({"operator"}, {"registration", "cell"}, 2, 3, 0, TRUE),
     Scenario({"operator"}, {"registration"}, 2, 2, 1, TRUE),
     \* The screen goes off and on, the SIM comes and goes.
     Scenario({"cs", "screenOn", "screenOff"}, {"sim"}, 3, 3, 1, FALSE),
     Scenario({"cs", "screenOff"}, {"registration"}, 2, 2, 0, TRUE),
     Scenario({"cs", "screenOn", "screenOff"}, {"registration"}, 3, 1, 1, TRUE),
     \* Signal strength.
     Scenario({"strength", "screenOn"}, {"sim", "signal"}, 2, 3, 1, FALSE),
     \* Selection, also of a modem that was denied while the screen was off.
     Scenario({"automatic", "manual"}, {"registration"}, 2, 1, 1, TRUE),
     Scenario({"automatic", "cs", "screenOff"}, {"registration"}, 3, 1, 0, TRUE),
     \* Connections and fast dormancy.
     Scenario({"ps"}, {"registration", "data", "capability"}, 1, 3, 0, TRUE),
     Scenario({}, {"registration", "data", "traffic", "capability"}, 0, 4, 1, TRUE)}
=============================================================================
