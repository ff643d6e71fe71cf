--------------------------- MODULE MCOcrScheduler ---------------------------
(* Instances of OcrScheduler and OcrLedger for TLC. *)
EXTENDS OcrLedger, TLC

CONSTANTS p1, p2, own, j1, j2

TwoPids == {p1, p2}
TwoAndOwn == {p1, p2, own}
TwoJobs == {j1, j2}

\* The remote registrations are one machine's.
OneName == [p \in Pids |-> IF p \in Local THEN "local" ELSE "m"]

\* Two volumes of one generation, or two generations of one volume.
OneRow == [j \in Jobs |-> 1]
EachItsVolume == [j \in Jobs |-> j]
TwoRows == [j \in Jobs |-> IF j = j1 THEN 1 ELSE 2]
OneVolume == [j \in Jobs |-> "v"]

\* What a behaviour meets, a few kinds at a time.
RemoteInputs ==
    {{"cut", "results"}, {"pause", "bench"}, {"cut", "returns"}, {"results", "returns"},
     {"cut", "archive"}, {"stale", "wait", "retry"}, {"fatal", "stop"}}
LocalInputs ==
    {{"cut", "fatal", "stop"}, {"apply", "retry"}, {"results", "returns", "late returns"}}
AllInputs ==
    {{"remote", "walk"} \cup i : i \in RemoteInputs} \cup {{"local", "walk"} \cup i : i \in LocalInputs}
DrainInputs == {{"remote", "walk", "drain", "results", "returns"}}

\* Sound where the constants name no processor apart.
Symmetric == Permutations(TwoPids)
=============================================================================
