------------------------------- MODULE OcrLedger -------------------------------
(* The scheduler of OcrScheduler keeps the promise of JobLedger: a claim is *)
(* a lease, its claim id the lease's id, and a helper thread that has put   *)
(* its sidecar on disk a lease that has installed.                          *)
EXTENDS OcrScheduler

LeaseState(c, H, j) ==
    IF c.state = "running" THEN "running"
    ELSE IF \E h \in H : h.job = j /\ h.kind = "installed" THEN "installed" ELSE "settling"

LeaseOf(c, H, j) ==
    IF c = NoClaim THEN [id |-> 0, state |-> "free"] ELSE [id |-> c.id, state |-> LeaseState(c, H, j)]

Leases == [j \in Jobs |-> LeaseOf(claims[j], helpers, j)]

Ledger == INSTANCE JobLedger WITH lease <- Leases, issued <- claim_seq

\* Every step of the scheduler is a step of the ledger or changes nothing there:
\* claims are taken, given back, settled and installed as the ledger allows,
\* whatever drop_processor, end_session, collect and cancel_stale_jobs meet.
KeepsTheLedger == Ledger!Spec
================================================================================
