--------------------------- MODULE DownloadBreaker ---------------------------
(***************************************************************************)
(* The download breaker of a remote processor and the per-job count of     *)
(* returned archive downloads: bunko-sched/src/breaker.rs as the OCR       *)
(* scheduler's settle.rs drives it (download_delivered, judge_returned,    *)
(* own_copy_read, count_return, finish, release).                          *)
(*                                                                         *)
(* A processor that cannot fetch an archive gives the claim back           *)
(* (volume_returned).  Three returns in a row open the processor's         *)
(* breaker: it is offered nothing for a hold that doubles on every         *)
(* re-opening.  A job is recorded as "download failed" after three counted *)
(* returns, and a return counts against the job only while the processor's *)
(* own download path is known to work.                                     *)
(*                                                                         *)
(* Time is counted in units of DOWNLOAD_BREAKER_HOLD (600 s).  A pid names *)
(* one registration and is never used twice.                               *)
(***************************************************************************)
EXTENDS Naturals, FiniteSets

CONSTANTS
    Pids,      \* processor registrations
    Jobs,      \* the volumes to fetch
    Lookahead, \* claims one registration holds at once
    Scenes     \* what one behaviour may meet (see Scene)

\* The registrations and volumes there are, when the clock stops, and how often an archive is
\* replaced.
Scene == [pids : SUBSET Pids, jobs : SUBSET Jobs, time : Nat, stamps : Nat \ {0}]

ASSUME BoundsAssumption == Lookahead \in Nat \ {0} /\ Scenes \subseteq Scene

VARIABLES
    scene,       \* what this behaviour meets, fixed from the start
    now,         \* the clock
    machines,    \* pid -> "unused", "registered" or "gone" (never registered again)
    breakers,    \* pid -> its DownloadBreaker (an absent one reads as a new one)
    held,        \* pid -> the jobs of its sessions
    reading,     \* job -> the return being settled while the server reads its own copy
    stamps,      \* job -> the archive's (size, mtime_ns), as a version number
    returns,     \* job -> its JobReturns (an absent one reads as NoReturns)
    returned_by, \* job -> the pids that returned it in this scan
    failed,      \* jobs with a failure record
    history      \* what the properties count (no guard reads it)

vars == <<scene, now, machines, breakers, held, reading, stamps, returns, returned_by,
          failed, history>>

DOWNLOAD_BREAKER_RETURNS == 3
DOWNLOAD_BREAKER_HOLD == 1
DOWNLOAD_BREAKER_MAX_HOLD == 6
DOWNLOAD_RETURN_LIMIT == 3

\* The classes the counting tells apart: "changed" is about the file and never
\* the processor, "no_room" about the processor and never the job, "stalled"
\* (and "differs") make the server read its own copy before it counts.
Classes == {"stalled", "changed", "no_room", "local"}

\* A stamp that could not be read (None in the code).
NoStamp == 0

Idle == [pid |-> "none"]

NewBreaker ==
    [consecutive |-> 0, proven |-> FALSE, hold |-> DOWNLOAD_BREAKER_HOLD, open_until |-> 0]

NoReturns == [count |-> 0, stamp |-> NoStamp]

-----------------------------------------------------------------------------
(* breaker.rs *)

IsOpen(b, at) == at < b.open_until

Doubled(hold) ==
    IF 2 * hold <= DOWNLOAD_BREAKER_MAX_HOLD THEN 2 * hold ELSE DOWNLOAD_BREAKER_MAX_HOLD

\* Mutant: a return while the breaker is open stretches the hold.
NoteReturnStretches(b, klass, at) ==
    LET run == b.consecutive + 1
        opens == run >= DOWNLOAD_BREAKER_RETURNS
    IN  IF klass = "changed"
          THEN b
          ELSE [b EXCEPT !.consecutive = run,
                         !.open_until = IF opens THEN (IF IsOpen(b, at) THEN @ ELSE at) + b.hold ELSE @,
                         !.hold = IF opens THEN Doubled(@) ELSE @]

\* note_return: the third return in a row opens the breaker, unless it is open.
NoteReturn(b, klass, at) ==
    LET run == b.consecutive + 1
        opens == run >= DOWNLOAD_BREAKER_RETURNS /\ ~IsOpen(b, at)
    IN  IF klass = "changed"
          THEN b
          ELSE [b EXCEPT !.consecutive = run,
                         !.open_until = IF opens THEN at + b.hold ELSE @,
                         !.hold = IF opens THEN Doubled(@) ELSE @]

\* Mutant: every return of a run is charged.
CountedOnAnyRun(b, klass) == b.proven /\ klass # "no_room"

\* ReturnNoted.job_counted, then return_counts_for_job.
Counted(b, klass) ==
    /\ b.proven
    /\ b.consecutive = 0
    /\ klass # "no_room"

NoteDelivered(b) ==
    [consecutive |-> 0, proven |-> TRUE, hold |-> DOWNLOAD_BREAKER_HOLD, open_until |-> 0]

\* Whether the count r is about the file this stamp names.
SameFile(r, stamp) == stamp = NoStamp \/ r.stamp = stamp

\* Mutant: the count goes on when the file changes.
NoteJobReturnAnyFile(r, stamp, counted) ==
    IF counted THEN [r EXCEPT !.count = @ + 1] ELSE r

\* JobReturns::note: another file under the same name starts the count again.
NoteJobReturn(r, stamp, counted) ==
    LET kept == IF SameFile(r, stamp) THEN r ELSE [count |-> 0, stamp |-> stamp]
    IN  IF counted THEN [kept EXCEPT !.count = @ + 1] ELSE kept

\* The count that records the job as "download failed".
AtLimit(counted, r) == counted /\ r.count >= DOWNLOAD_RETURN_LIMIT

-----------------------------------------------------------------------------
(* The scheduler around it *)

Registered(p) == machines[p] = "registered"

Claimed(j) == reading[j] # Idle \/ \E p \in Pids : j \in held[p]

NoHistory ==
    [delivered |-> {},                      \* pids that ever delivered an archive
     charged |-> [p \in Pids |-> 0],        \* counted returns of a pid since it last delivered
     files |-> [j \in Jobs |-> {}],         \* stamps the running count of a job is about
     by |-> [j \in Jobs |-> {}]]            \* pids in the running count of a job

Init ==
    /\ scene \in Scenes
    /\ now = 0
    /\ machines = [p \in Pids |-> "unused"]
    /\ breakers = [p \in Pids |-> NewBreaker]
    /\ held = [p \in Pids |-> {}]
    /\ reading = [j \in Jobs |-> Idle]
    /\ stamps = [j \in Jobs |-> 1]
    /\ returns = [j \in Jobs |-> NoReturns]
    /\ returned_by = [j \in Jobs |-> {}]
    /\ failed = {}
    /\ history = NoHistory

Register(p) ==
    /\ machines[p] = "unused"
    /\ machines' = [machines EXCEPT ![p] = "registered"]
    /\ UNCHANGED <<now, breakers, held, reading, stamps, returns, returned_by, failed, history>>

\* claim: an open breaker is offered nothing; a job goes to a pid that returned
\* it only in a later scan (which may start at any time, NewScan).
Take(p, j) ==
    /\ Registered(p)
    /\ ~IsOpen(breakers[p], now)
    /\ Cardinality(held[p]) < Lookahead
    /\ ~Claimed(j)
    /\ j \notin failed
    /\ p \notin returned_by[j]
    /\ held' = [held EXCEPT ![p] = @ \cup {j}]
    /\ UNCHANGED <<now, machines, breakers, reading, stamps, returns, returned_by, failed, history>>

\* download_delivered: fetch state "ready".
Deliver(p, j) ==
    /\ Registered(p)
    /\ j \in held[p]
    /\ breakers' = [breakers EXCEPT ![p] = NoteDelivered(@)]
    /\ returns' = [returns EXCEPT ![j] = NoReturns]
    /\ history' = [history EXCEPT !.delivered = @ \cup {p},
                                  !.charged[p] = 0,
                                  !.files[j] = {},
                                  !.by[j] = {}]
    /\ UNCHANGED <<now, machines, held, reading, stamps, returned_by, failed>>

\* The history after a return: a count that starts again forgets what it held.
Recorded(p, j, klass, stamp, counted, limit) ==
    LET same == SameFile(returns[j], stamp)
        Grown(old, new) == IF limit THEN {}
                           ELSE (IF same THEN old ELSE {}) \cup (IF counted THEN {new} ELSE {})
    IN  [history EXCEPT
            !.charged[p] = IF counted /\ klass # "changed" THEN @ + 1 ELSE @,
            !.files[j] = Grown(@, stamp),
            !.by[j] = Grown(@, p)]

\* count_return, for a claim whose pid may have left while the server read its
\* own copy (finish then records nothing).  The caller takes the claim away.
CountReturn(p, j, klass, stamp) ==
    LET counted == Counted(breakers[p], klass)
        noted == NoteJobReturn(returns[j], stamp, counted)
        limit == AtLimit(counted, noted)
    IN  /\ breakers' = [breakers EXCEPT ![p] = NoteReturn(@, klass, now)]
        /\ returns' = [returns EXCEPT ![j] = IF limit THEN NoReturns ELSE noted]
        /\ failed' = IF limit /\ Registered(p) THEN failed \cup {j} ELSE failed
        /\ returned_by' = IF limit THEN returned_by
                                   ELSE [returned_by EXCEPT ![j] = @ \cup {p}]
        /\ history' = Recorded(p, j, klass, stamp, counted, limit)

\* judge_returned of a class that counts at once; the stamp is the file's now,
\* or unreadable.
Return(p, j, klass) ==
    /\ Registered(p)
    /\ j \in held[p]
    /\ klass # "stalled"
    /\ held' = [held EXCEPT ![p] = @ \ {j}]
    /\ \E s \in {stamps[j], NoStamp} : CountReturn(p, j, klass, s)
    /\ UNCHANGED <<now, machines, reading, stamps>>

\* judge_returned of a stalled or differing download: the claim settles while
\* a helper thread reads the server's own copy.
ReturnStalled(p, j) ==
    /\ Registered(p)
    /\ j \in held[p]
    /\ held' = [held EXCEPT ![p] = @ \ {j}]
    /\ \E s \in {stamps[j], NoStamp} :
          reading' = [reading EXCEPT ![j] = [pid |-> p, stamp |-> s]]
    /\ UNCHANGED <<now, machines, breakers, stamps, returns, returned_by, failed, history>>

\* own_copy_read without an error: the return counts after all.
OwnCopyRead(j) ==
    /\ reading[j] # Idle
    /\ CountReturn(reading[j].pid, j, "stalled", reading[j].stamp)
    /\ reading' = [reading EXCEPT ![j] = Idle]
    /\ UNCHANGED <<now, machines, held, stamps>>

\* The job's count is dropped with the claim's outcome (finish).
Forget(j) ==
    /\ returns' = [returns EXCEPT ![j] = NoReturns]
    /\ history' = [history EXCEPT !.files[j] = {}, !.by[j] = {}]

\* own_copy_read with an error: finish, a failure of the library's own file
\* unless the processor has left.
OwnCopyBad(j) ==
    /\ reading[j] # Idle
    /\ IF Registered(reading[j].pid)
         THEN Forget(j) /\ failed' = failed \cup {j}
         ELSE UNCHANGED <<returns, history, failed>>
    /\ reading' = [reading EXCEPT ![j] = Idle]
    /\ UNCHANGED <<now, machines, breakers, held, stamps, returned_by>>

\* finish of a volume that was read, or failed to be: its count goes.  (A
\* cancelled one keeps its count and records nothing: that is a Release.)
Finish(p, j, ok) ==
    /\ j \in held[p]
    /\ held' = [held EXCEPT ![p] = @ \ {j}]
    /\ Forget(j)
    /\ failed' = IF ok THEN failed \ {j} ELSE failed \cup {j}
    /\ UNCHANGED <<now, machines, breakers, reading, stamps, returned_by>>

\* release: the claim goes back with nothing recorded (a session ended, the
\* archive is gone or has another size than the one sent, a pause).
Release(p, j) ==
    /\ j \in held[p]
    /\ held' = [held EXCEPT ![p] = @ \ {j}]
    /\ UNCHANGED <<now, machines, breakers, reading, stamps, returns, returned_by, failed, history>>

\* drop_processor: claims that are not settling go back, the breaker goes.
Drop(p) ==
    /\ Registered(p)
    /\ machines' = [machines EXCEPT ![p] = "gone"]
    /\ breakers' = [breakers EXCEPT ![p] = NewBreaker]
    /\ held' = [held EXCEPT ![p] = {}]
    /\ UNCHANGED <<now, reading, stamps, returns, returned_by, failed, history>>

\* A WebDAV PUT or MOVE puts another file in place.
Replace(j) ==
    /\ stamps[j] < scene.stamps
    /\ stamps' = [stamps EXCEPT ![j] = @ + 1]
    /\ UNCHANGED <<now, machines, breakers, held, reading, returns, returned_by, failed, history>>

\* maybe_end_scan / start_scan: returned_by is per scan.  An admin's retry
\* (retry_failed) also starts one and drops the failure records.
NewScan ==
    /\ returned_by' = [j \in Jobs |-> {}]
    /\ failed' \in {failed, {}}
    /\ UNCHANGED <<now, machines, breakers, held, reading, stamps, returns, history>>

Tick ==
    /\ now < scene.time
    /\ now' = now + 1
    /\ UNCHANGED <<machines, breakers, held, reading, stamps, returns, returned_by, failed, history>>

Next ==
    /\ UNCHANGED scene
    /\ \/ Tick
       \/ NewScan
       \/ \E p \in Pids \cap scene.pids : Register(p) \/ Drop(p)
       \/ \E p \in Pids, j \in Jobs \cap scene.jobs :
             \/ Take(p, j)
             \/ Deliver(p, j)
             \/ ReturnStalled(p, j)
             \/ Release(p, j)
             \/ \E ok \in BOOLEAN : Finish(p, j, ok)
             \/ \E klass \in Classes : Return(p, j, klass)
       \/ \E j \in Jobs \cap scene.jobs : OwnCopyRead(j) \/ OwnCopyBad(j) \/ Replace(j)

Spec == Init /\ [][Next]_vars

-----------------------------------------------------------------------------
(* Properties *)

Breaker == [consecutive : Nat, proven : BOOLEAN, hold : 1..DOWNLOAD_BREAKER_MAX_HOLD,
            open_until : Nat]

\* Every field keeps its shape; a hold never outgrows DOWNLOAD_BREAKER_MAX_HOLD
\* and a running count never reaches the limit that would have recorded it.
TypeOK ==
    /\ now \in Nat
    /\ machines \in [Pids -> {"unused", "registered", "gone"}]
    /\ breakers \in [Pids -> Breaker]
    /\ held \in [Pids -> SUBSET Jobs]
    /\ reading \in [Jobs -> {Idle} \cup [pid : Pids, stamp : Nat]]
    /\ stamps \in [Jobs -> Nat]
    /\ returns \in [Jobs -> [count : 0..(DOWNLOAD_RETURN_LIMIT - 1), stamp : Nat]]
    /\ returned_by \in [Jobs -> SUBSET Pids]
    /\ failed \subseteq Jobs
    /\ history \in [delivered : SUBSET Pids, charged : [Pids -> Nat],
                    files : [Jobs -> SUBSET Nat], by : [Jobs -> SUBSET Pids]]

\* One broken path cannot fail a library: a registration that never delivered
\* an archive charges no job, and one that did charges at most one return of
\* its own doing per delivery (note_return's job_counted).
ChargedOncePerDelivery ==
    \A p \in Pids :
        /\ history.charged[p] <= 1
        /\ p \notin history.delivered => history.charged[p] = 0

\* Nobody without a delivery stands behind a count that may fail a job.
CountedByProvenOnly ==
    \A j \in Jobs : history.by[j] \subseteq history.delivered

\* Both: what a broken path between a processor and the server returns is never
\* held against the volumes (note_return, return_counts_for_job).
BrokenPathIsNotCharged == ChargedOncePerDelivery /\ CountedByProvenOnly

\* A count never mixes two files of one name: what it counted is about the
\* stamp it carries, or about a file that could not be looked at.
CountIsAboutOneFile ==
    \A j \in Jobs : history.files[j] \subseteq {returns[j].stamp, NoStamp}

\* Three failures in a row have always opened the breaker, and only they.
RunOfThreeHolds ==
    \A p \in Pids :
        breakers[p].consecutive >= DOWNLOAD_BREAKER_RETURNS <=> breakers[p].open_until > 0

\* However often it re-opens, a breaker frees its processor within an hour.
HoldEndsWithinAnHour ==
    \A p \in Pids : breakers[p].open_until <= now + DOWNLOAD_BREAKER_MAX_HOLD

\* Both: a processor is held after the third failure in a row and not before,
\* and never for good.
HoldsComeAndGo == RunOfThreeHolds /\ HoldEndsWithinAnHour
===============================================================================
