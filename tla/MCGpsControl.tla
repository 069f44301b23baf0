---- MODULE MCGpsControl ----
EXTENDS GpsControl

\* What happens in one behaviour: calls, losses of the modem, SUPL failures, settings.
Base == [calls |-> {}, pref |-> "supl", allowed |-> TRUE, cleanup |-> FALSE, maxCalls |-> 0,
         maxSettings |-> 0, maxLosses |-> 0, maxFailures |-> 0, maxRefusals |-> 0, maxNi |-> 0]

\* Sessions with SUPL failures and refused commands; sessions and losses of the modem, also
\* with a SUPL failure; settings; roaming and flags; requests of the network; the cleanup.
MCScenarios ==
    { [Base EXCEPT !.calls = {"start", "stop", "mode"}, !.maxCalls = 4, !.maxFailures = 2],
      [Base EXCEPT !.calls = {"start", "stop"}, !.maxCalls = 3, !.maxFailures = 2,
                   !.maxRefusals = 1],
      [Base EXCEPT !.pref = "pgps", !.calls = {"start", "stop"}, !.maxCalls = 3, !.maxLosses = 1],
      [Base EXCEPT !.calls = {"start", "stop"}, !.maxCalls = 2, !.maxLosses = 1,
                   !.maxFailures = 1],
      [Base EXCEPT !.calls = {"server"}, !.maxCalls = 1, !.maxSettings = 2, !.maxLosses = 1,
                   !.maxRefusals = 1],
      [Base EXCEPT !.calls = {"start", "network"}, !.maxCalls = 3, !.maxSettings = 1,
                   !.maxFailures = 1],
      [Base EXCEPT !.pref = "standalone", !.calls = {"start"}, !.maxCalls = 1, !.maxLosses = 1,
                   !.maxNi = 2],
      [Base EXCEPT !.calls = {"start"}, !.maxCalls = 1, !.maxLosses = 1, !.cleanup = TRUE] }
=============================================================================
