------------------------------- MODULE JobLedger -------------------------------
(***************************************************************************)
(* What the OCR scheduler promises about jobs, whatever machines, links,   *)
(* sessions and helper threads do: a job is leased to at most one holder   *)
(* at a time, under an id that is never used again; a lease that is        *)
(* settling is not taken back; only a lease that is settling puts a        *)
(* sidecar on disk, once; and a job is leased only while its sidecar is    *)
(* not there.  OcrLedger shows that OcrScheduler keeps the promise.        *)
(***************************************************************************)
EXTENDS Integers

CONSTANT Jobs

VARIABLES
    lease,     \* job -> the lease on it
    issued,    \* the last id given out
    written    \* job -> sidecars written since its archive last changed

vars == <<lease, issued, written>>

Free == [id |-> 0, state |-> "free"]
State(j) == lease[j].state

Init ==
    /\ lease = [j \in Jobs |-> Free]
    /\ issued = 0
    /\ written = [j \in Jobs |-> 0]

\* A new id, and the job it is for; or an id whose holder was gone at once.
Grant(j) ==
    /\ State(j) = "free" /\ written[j] = 0
    /\ issued' = issued + 1
    /\ lease' = [lease EXCEPT ![j] = [id |-> issued + 1, state |-> "running"]]
    /\ UNCHANGED written

Waste ==
    /\ issued' = issued + 1
    /\ UNCHANGED <<lease, written>>

\* Leases that run go back; the archives of R changed.
GiveBack(J, R) ==
    /\ \A j \in J : State(j) = "running"
    /\ lease' = [j \in Jobs |-> IF j \in J THEN Free ELSE lease[j]]
    /\ written' = [j \in Jobs |-> IF j \in R THEN 0 ELSE written[j]]
    /\ UNCHANGED issued

\* The holder says it is done with the job.
Settle(j) ==
    /\ State(j) = "running"
    /\ lease' = [lease EXCEPT ![j].state = "settling"]
    /\ UNCHANGED <<issued, written>>

Install(j) ==
    /\ State(j) = "settling"
    /\ lease' = [lease EXCEPT ![j].state = "installed"]
    /\ written' = [written EXCEPT ![j] = @ + 1]
    /\ UNCHANGED issued

End(j) ==
    /\ State(j) \in {"settling", "installed"}
    /\ lease' = [lease EXCEPT ![j] = Free]
    /\ UNCHANGED <<issued, written>>

Next ==
    \/ \E j \in Jobs : Grant(j) \/ Settle(j) \/ Install(j) \/ End(j)
    \/ \E J, R \in SUBSET Jobs : GiveBack(J, R)
    \/ Waste

Spec == Init /\ [][Next]_vars

-----------------------------------------------------------------------------
TypeOK ==
    /\ lease \in [Jobs -> [id : Nat, state : {"free", "running", "settling", "installed"}]]
    /\ issued \in Nat
    /\ written \in [Jobs -> Nat]

\* A lease that has not installed has nothing beside it yet.
NothingYet == \A j \in Jobs : State(j) \in {"running", "settling"} => written[j] = 0

\* One archive, one sidecar.
AtMostOnce == \A j \in Jobs : written[j] <= 1
================================================================================
