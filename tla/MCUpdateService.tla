---------------------------- MODULE MCUpdateService ----------------------------
(* UpdateService for TLC.                                                   *)
EXTENDS UpdateService

TwoReleases == {1, 2}

Plain == [releases |-> {1}, time |-> 2, claims |-> 1, writes |-> 0, toggles |-> 1, checkFails |-> FALSE,
          overtaken |-> FALSE, reordered |-> FALSE, timesOut |-> FALSE, disconnects |-> FALSE]

\* A release that fails again and again; claims and an upload in the way; checks that fail; the
\* messages that race, with and without a panel that goes away.
AllScenes ==
    {[Plain EXCEPT !.releases = {1, 2}, !.time = 6, !.claims = 0],
     [Plain EXCEPT !.writes = 1],
     [Plain EXCEPT !.checkFails = TRUE],
     [Plain EXCEPT !.overtaken = TRUE, !.timesOut = TRUE],
     [Plain EXCEPT !.claims = 0, !.overtaken = TRUE, !.reordered = TRUE, !.disconnects = TRUE]}
================================================================================
