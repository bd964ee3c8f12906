--------------------------- MODULE MCTapeReporting ---------------------------
(* Settings and bounds of the reporting of calls for TLC.                  *)
EXTENDS TapeReporting

Scenario(trackers, hold, filter, tapes, updates, skips, lostAnswers) ==
  [trackers |-> trackers, HoldResumeReportEvents |-> hold, PartyFilterActive |-> filter,
   tapes |-> tapes, updates |-> updates, skips |-> skips, lost |-> lostAnswers, clients |-> {}]

\* No tracker, and clients that follow the messages.
Followed(clients, updates) ==
  [Scenario(0, FALSE, FALSE, 1, updates, 0, 0) EXCEPT !.clients = clients]

AllScenarios ==
  {Scenario(1, TRUE, FALSE, 1, 1, 1, 1),    \* one call, skips and lost answers
   Scenario(1, TRUE, FALSE, 1, 2, 0, 0),    \* a hold and its resume
   Scenario(1, FALSE, FALSE, 1, 1, 0, 0),   \* holds are not reported
   Scenario(1, TRUE, FALSE, 2, 0, 0, 0),    \* two calls on one port
   Scenario(1, FALSE, TRUE, 1, 0, 0, 0),    \* a party filter
   Scenario(2, FALSE, FALSE, 1, 0, 0, 0),   \* two trackers, one of them unreachable
   Followed({"c1"}, 1),                     \* a client whose list overflows
   Followed({"c1", "c2"}, 0)}               \* two clients where one may be served
===============================================================================
