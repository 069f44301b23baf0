---- MODULE MCServiceLink ----
EXTENDS ServiceLink

MCSettings == <<"APN_INFO", "ROAMING_ALLOWED">>

Base == [booted |-> TRUE, before |-> 0, keys |-> {}, maxChanges |-> 0, maxToggles |-> 0,
         others |-> 0, maxRequests |-> 0]

\* Settings change while the GPS is enabled, at boot or later; it is disabled and enabled again;
\* the modem asks for data meanwhile; another provider changes.
MCScenarios ==
    { [Base EXCEPT !.keys = {"APN_INFO", "ROAMING_ALLOWED"}, !.maxChanges = 2],
      [Base EXCEPT !.booted = FALSE, !.keys = {"APN_INFO"}, !.maxChanges = 1, !.maxToggles = 2],
      [Base EXCEPT !.before = 1, !.maxToggles = 2],
      [Base EXCEPT !.before = 1, !.maxToggles = 1, !.maxRequests = 1],
      [Base EXCEPT !.keys = {"ROAMING_ALLOWED"}, !.maxChanges = 1, !.others = 1] }
====
