------------------------- MODULE MCProcessorSession -------------------------
(* ProcessorSession for TLC: one session, one or two claims, one or two     *)
(* workers and at most one benchmark, as model values.                     *)
EXTENDS ProcessorSession

CONSTANTS s1, c1, c2, b1, w1, w2

OneSid == {s1}
TwoClaims == {c1, c2}
OneBid == {b1}
TwoWorkers == {w1, w2}
AllInOne == [c \in Claims |-> s1]

Plain == [claims |-> {c1, c2}, bids |-> {}, workers |-> {w1}, room |-> 2, modes |-> {},
          resumes |-> FALSE, updates |-> FALSE, installs |-> FALSE]

\* Two workers and an install; a full book and a pause; one claim under pauses that are lifted;
\* a benchmark under one; one claim under an update and an owner's pause; the update beside a
\* claim and a benchmark.
SafetyScenes ==
    {[Plain EXCEPT !.workers = {w1, w2}, !.installs = TRUE],
     [Plain EXCEPT !.room = 1, !.modes = {"after", "now"}],
     [Plain EXCEPT !.claims = {c1}, !.modes = {"after"}, !.resumes = TRUE],
     [Plain EXCEPT !.claims = {}, !.bids = {b1}, !.modes = {"now"}, !.resumes = TRUE],
     [Plain EXCEPT !.claims = {c1}, !.modes = {"now"}, !.updates = TRUE],
     [Plain EXCEPT !.claims = {c1}, !.bids = {b1}, !.updates = TRUE]}

PlainScene == {Plain}
=============================================================================
