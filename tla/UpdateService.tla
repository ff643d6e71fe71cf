----------------------------- MODULE UpdateService -----------------------------
(***************************************************************************)
(* The server's automatic update (bunko-server/src/admin/update.rs) with   *)
(* the scheduler it drains (ServerQuiet of app.rs): the background task    *)
(* that checks, waits for a quiet moment and installs, "Check now", the    *)
(* setting and "Update and restart" of the panel, and the backoff it keeps *)
(* (Retry of bunko-update/src/auto.rs).  What install itself does is       *)
(* ReleaseSwitch; how the scheduler drains is OcrScheduler.                *)
(*                                                                         *)
(* Quiet::drain only spawns the message to the scheduler, so a query sent  *)
(* later may be answered first, and two messages may change places; ask    *)
(* answers None after 30 s, which in_flight cannot tell from "nothing".    *)
(* Releases are numbers above the running one, 0.  The install is          *)
(* self-managed and has a download; the state and the problems shown are   *)
(* left out, and update.check is on.                                       *)
(***************************************************************************)
EXTENDS Integers, Sequences, FiniteSetsExt

CONSTANTS
    Releases,        \* the releases that may be published
    Period,          \* CHECK_EVERY
    RETRY_FIRST, RETRY_MAX,
    MaxFailures,     \* bound: failures are counted up to here, where the wait has stopped growing
    Scenes           \* what one behaviour may meet (see Scene)

\* Bounds: the releases published, the time that passes, the OCR claims and the uploads that are
\* under way at once, the changes of update.auto.  Claims and uploads begin any number of times.
\* Faults: a check may fail; a query may be answered before
\* a drain spawned earlier; two drains may change places; the scheduler may take more than 30 s
\* to answer; the panel's connection may go away.
Scene == [releases : SUBSET Releases, time : Nat, claims : Nat, writes : Nat, toggles : Nat,
          checkFails : BOOLEAN, overtaken : BOOLEAN, reordered : BOOLEAN, timesOut : BOOLEAN,
          disconnects : BOOLEAN]

ASSUME UpdateAssumption ==
    /\ Releases \subseteq Nat \ {0} /\ Releases # {}
    /\ Period \in Nat \ {0} /\ RETRY_FIRST \in Nat \ {0} /\ RETRY_MAX \in Nat
    /\ MaxFailures \in 1..17 /\ RETRY_FIRST * 2^(MaxFailures - 1) >= RETRY_MAX
    /\ Scenes \subseteq Scene

VARIABLES
    scene,       \* what this behaviour meets, fixed from the start
    now, published,
    auto,        \* update.auto
    cached,      \* the last check: a release, 0: nothing newer, Failed
    kick,        \* a notification not yet taken
    task,        \* where the background task is
    target,      \* the release it acts on
    wake,        \* when it wakes by itself
    admin,       \* where the panel's apply is
    applying,
    retry,
    blocked,     \* .update-blocked.json
    stopping,    \* the stop token
    left,        \* the restart was asked for
    drains,      \* drains spawned and not yet handled
    drained,     \* the scheduler's update_drain
    claims,      \* OCR claims in flight
    writes,      \* uploads in flight
    toggles,
    due          \* release -> when its wait after a failure is over, and failures in a row

taskVars == <<cached, kick, task, target, wake, applying, retry, drains>>
quietVars == <<drained, claims, writes>>
vars == <<scene, now, published, auto, taskVars, admin, blocked, stopping, left, quietVars, toggles, due>>

Failed == -1
Check == -2
NoRetry == [version |-> 0, failures |-> 0, not_before |-> 0]

Init ==
    /\ scene \in Scenes
    /\ now = 0 /\ published = 0
    /\ auto \in BOOLEAN /\ blocked \in scene.releases \cup {0}
    /\ cached = 0 /\ kick = FALSE /\ task = "sleep" /\ target = 0 /\ wake = 1
    /\ admin = "none" /\ applying = FALSE /\ retry = NoRetry
    /\ stopping = FALSE /\ left = FALSE
    /\ drains = <<>> /\ drained = FALSE /\ claims = 0 /\ writes = 0
    /\ toggles = 0 /\ due = [r \in Releases |-> [at |-> 0, n |-> 0]]

-----------------------------------------------------------------------------
(* Retry *)

WaitAfter(n) == Min({RETRY_FIRST * 2^(n - 1), Max({RETRY_MAX, RETRY_FIRST})})
MayTry(r, v) == r.version = v => now >= r.not_before

\* Mutant: every failure waits the first wait.
FailedFlat(r, v) ==
    [version |-> v, failures |-> 1, not_before |-> now + WaitAfter(1)]

FailedOnce(r, v) ==
    LET n == IF r.version = v THEN Min({r.failures + 1, MaxFailures}) ELSE 1
    IN  [version |-> v, failures |-> n, not_before |-> now + WaitAfter(n)]

\* The wait the owner was promised for v.
Waits(v) ==
    LET n == Min({due[v].n + 1, MaxFailures}) IN [due EXCEPT ![v] = [at |-> now + WaitAfter(n), n |-> n]]

-----------------------------------------------------------------------------
(* The background task *)

\* start: it sleeps until the next period, or until the retry is due.
SleepUntil(r) ==
    IF auto /\ r # NoRetry THEN Min({Max({r.not_before, now}) + 1, now + Period}) ELSE now + Period

Sleeps(r) == task' = "sleep" /\ target' = 0 /\ wake' = SleepUntil(r)

\* check_now, by the task: the newest release, or an error.
CheckResult(fails) == IF fails THEN Failed ELSE published

Wake(fails) ==
    /\ task = "sleep" /\ now >= wake /\ ~stopping
    /\ cached' = CheckResult(fails) /\ task' = "try" /\ target' = cached' /\ wake' = 0
    /\ UNCHANGED <<now, published, auto, kick, applying, retry, drains, admin, blocked, stopping, left,
                   quietVars, toggles, due>>

\* A notification: the last result is looked at again.
Kicked ==
    /\ task = "sleep" /\ kick /\ ~stopping
    /\ kick' = FALSE /\ task' = "try" /\ target' = cached /\ wake' = 0
    /\ UNCHANGED <<now, published, auto, cached, applying, retry, drains, admin, blocked, stopping, left,
                   quietVars, toggles, due>>

\* try_auto, up to its first await.
TryReports ==
    /\ task = "try"
    /\ \/ auto /\ target = Failed /\ retry' = FailedOnce(retry, Check)
       \/ /\ \/ ~auto \/ target \in {0, blocked}
             \/ target > 0 /\ (~MayTry(retry, target) \/ applying)
          /\ UNCHANGED retry
    /\ Sleeps(retry')
    /\ UNCHANGED <<now, published, auto, cached, kick, applying, drains, admin, blocked, stopping, left, quietVars,
                   toggles, due>>

\* Mutant: applying is not looked at.
TryBeginsAnyway ==
    /\ task = "try" /\ auto /\ target > 0 /\ blocked # target
    /\ MayTry(retry, target)
    /\ applying' = TRUE /\ task' = "quiet"
    /\ drains' = Append(drains, TRUE)
    /\ UNCHANGED <<now, published, auto, cached, kick, target, wake, retry, admin, blocked, stopping, left,
                   quietVars, toggles, due>>

\* Mutant: the scheduler is not told to drain.
TryBeginsUndrained ==
    /\ task = "try" /\ auto /\ target > 0 /\ blocked # target
    /\ MayTry(retry, target) /\ ~applying
    /\ applying' = TRUE /\ task' = "quiet"
    /\ UNCHANGED <<now, published, auto, cached, kick, target, wake, retry, drains, admin, blocked, stopping, left,
                   quietVars, toggles, due>>

TryBegins ==
    /\ task = "try" /\ auto /\ target > 0 /\ blocked # target
    /\ MayTry(retry, target) /\ ~applying
    /\ applying' = TRUE /\ task' = "quiet"
    /\ drains' = Append(drains, TRUE)
    /\ UNCHANGED <<now, published, auto, cached, kick, target, wake, retry, admin, blocked, stopping, left,
                   quietVars, toggles, due>>

\* auto_install: it is called off ...
\* Mutant: called off, the drain stays.
CallOffDrained ==
    /\ task = "quiet" /\ (stopping \/ ~auto)
    /\ applying' = FALSE
    /\ Sleeps(retry)
    /\ UNCHANGED <<now, published, auto, cached, kick, retry, drains, admin, blocked, stopping, left, quietVars,
                   toggles, due>>

CallOff ==
    /\ task = "quiet" /\ (stopping \/ ~auto)
    /\ drains' = Append(drains, FALSE)
    /\ applying' = FALSE
    /\ Sleeps(retry)
    /\ UNCHANGED <<now, published, auto, cached, kick, retry, admin, blocked, stopping, left, quietVars, toggles, due>>

\* ... or it asks the scheduler what is in flight (busy).  Nothing tests the setting and the
\* stop token again before the install begins.
Asks ==
    /\ task = "quiet" /\ auto /\ ~stopping
    /\ task' = "asking"
    /\ UNCHANGED <<now, published, auto, cached, kick, target, wake, applying, retry, drains, admin, blocked,
                   stopping, left, quietVars, toggles, due>>

\* The question is behind the drains that were spawned, or overtook one.
HeardInOrder == drains = <<>> \/ scene.overtaken
\* Mutant: the drain is all it waits for.
SaysNothingAtOnce == TRUE
\* Not answered in time, in_flight says nothing.
SaysNothing == claims = 0 \/ scene.timesOut

Answered ==
    /\ task = "asking" /\ HeardInOrder
    /\ \/ SaysNothing /\ task' = "counting"
       \/ claims > 0 /\ task' = "quiet"
    /\ UNCHANGED <<now, published, auto, cached, kick, target, wake, applying, retry, drains, admin, blocked,
                   stopping, left, quietVars, toggles, due>>

\* The uploads are counted when the answer is there.
Begin ==
    /\ task = "counting"
    /\ task' = IF writes = 0 THEN "install" ELSE "quiet"
    /\ UNCHANGED <<now, published, auto, cached, kick, target, wake, applying, retry, drains, admin, blocked,
                   stopping, left, quietVars, toggles, due>>

Installed ==
    /\ task = "install"
    /\ task' = "leave" /\ retry' = NoRetry
    /\ UNCHANGED <<now, published, auto, cached, kick, target, wake, applying, drains, admin, blocked, stopping,
                   left, quietVars, toggles, due>>

\* install_failed: the drain ends, the version waits.
InstallFailed ==
    /\ task = "install"
    /\ drains' = Append(drains, FALSE) /\ applying' = FALSE
    /\ retry' = FailedOnce(retry, target) /\ due' = Waits(target)
    /\ Sleeps(retry')
    /\ UNCHANGED <<now, published, auto, cached, kick, admin, blocked, stopping, left, quietVars, toggles>>

\* An upload that began meanwhile finishes first, or twelve polls have passed.
Leave ==
    /\ task = "leave"
    /\ task' = "gone" /\ left' = TRUE /\ stopping' = TRUE
    /\ UNCHANGED <<now, published, auto, cached, kick, target, wake, applying, retry, drains, admin, blocked,
                   quietVars, toggles, due>>

\* stop: the task ends where it sleeps.
Ends ==
    /\ task = "sleep" /\ stopping
    /\ task' = "gone"
    /\ UNCHANGED <<now, published, auto, cached, kick, target, wake, applying, retry, drains, admin, blocked,
                   stopping, left, quietVars, toggles, due>>

-----------------------------------------------------------------------------
(* The panel *)

\* status with refresh: check, then look at the automatic update.
Refresh(fails) ==
    /\ ~stopping
    /\ cached' = CheckResult(fails) /\ kick' = TRUE
    /\ UNCHANGED <<now, published, auto, task, target, wake, applying, retry, drains, admin, blocked, stopping,
                   left, quietVars, toggles, due>>

Toggle ==
    /\ ~stopping /\ toggles < scene.toggles /\ toggles' = toggles + 1
    /\ auto' = ~auto /\ kick' = TRUE
    /\ UNCHANGED <<now, published, cached, task, target, wake, applying, retry, drains, admin, blocked,
                   stopping, left, quietVars, due>>

\* apply: one at a time ...
Apply ==
    /\ ~stopping /\ ~applying /\ admin = "none"
    /\ applying' = TRUE /\ admin' = "look"
    /\ UNCHANGED <<now, published, auto, cached, kick, task, target, wake, retry, drains, blocked, stopping,
                   left, quietVars, toggles, due>>

\* ... of the release the last check found, or a new check when that one is old
\* (the age of a check is not kept).
ApplyLooks(again, fails) ==
    /\ admin = "look"
    /\ cached' = IF again THEN CheckResult(fails) ELSE cached
    /\ applying' = (cached' > 0) /\ admin' = IF cached' > 0 THEN "install" ELSE "none"
    /\ UNCHANGED <<now, published, auto, kick, task, target, wake, retry, drains, blocked, stopping,
                   left, quietVars, toggles, due>>

ApplyEnds(ok) ==
    /\ admin = "install"
    /\ admin' = IF ok THEN "audit" ELSE "none"
    /\ applying' = ok /\ blocked' = IF ok THEN 0 ELSE blocked
    /\ UNCHANGED <<now, published, auto, cached, kick, task, target, wake, retry, drains, stopping, left,
                   quietVars, toggles, due>>

\* The handler has waited for the audit and spawned the restart ...
ApplyAudited ==
    /\ admin = "audit" /\ admin' = "restart"
    /\ UNCHANGED <<now, published, auto, taskVars, blocked, stopping, left, quietVars, toggles, due>>

\* ... which comes after RESTART_DELAY.
ApplyRestarts ==
    /\ admin = "restart"
    /\ admin' = "none" /\ left' = TRUE /\ stopping' = TRUE
    /\ UNCHANGED <<now, published, auto, taskVars, blocked, quietVars, toggles, due>>

\* The browser goes away: the handler's future is dropped where it waits, after the install too.
ApplyDropped ==
    /\ scene.disconnects /\ admin \in {"look", "install", "audit"}
    /\ admin' = "none"
    /\ UNCHANGED <<now, published, auto, taskVars, blocked, stopping, left, quietVars, toggles, due>>

-----------------------------------------------------------------------------
(* The rest of the server *)

\* The scheduler handles a drain that was spawned: the oldest, or any.
HandleDrain(i) ==
    /\ i \in 1..Len(drains) /\ (scene.reordered \/ i = 1)
    /\ drained' = drains[i]
    /\ drains' = SubSeq(drains, 1, i - 1) \o SubSeq(drains, i + 1, Len(drains))
    /\ UNCHANGED <<now, published, auto, cached, kick, task, target, wake, applying, retry, admin, blocked,
                   stopping, left, claims, writes, toggles, due>>

quietFrame == UNCHANGED <<now, published, auto, taskVars, admin, blocked, stopping, left, drained, toggles, due>>

Claim == ~drained /\ ~stopping /\ claims < scene.claims /\ claims' = claims + 1 /\ UNCHANGED writes /\ quietFrame
ClaimEnds == claims > 0 /\ claims' = claims - 1 /\ UNCHANGED writes /\ quietFrame

\* Nothing refuses an upload while an update waits.
WriteBegins == writes < scene.writes /\ ~stopping /\ writes' = writes + 1 /\ UNCHANGED claims /\ quietFrame
WriteEnds == writes > 0 /\ writes' = writes - 1 /\ UNCHANGED claims /\ quietFrame

Tick ==
    /\ now < scene.time /\ ~stopping /\ now' = now + 1
    /\ UNCHANGED <<published, auto, taskVars, admin, blocked, stopping, left, quietVars, toggles, due>>

Publish(r) ==
    /\ r > published /\ published' = r
    /\ UNCHANGED <<now, auto, taskVars, admin, blocked, stopping, left, quietVars, toggles, due>>

Stop ==
    /\ ~stopping /\ stopping' = TRUE
    /\ UNCHANGED <<now, published, auto, taskVars, admin, blocked, left, quietVars, toggles, due>>

-----------------------------------------------------------------------------
Checks ==
    \E fails \in {FALSE, scene.checkFails} :
        Wake(fails) \/ Refresh(fails) \/ \E again \in BOOLEAN : ApplyLooks(again, fails)
TaskStep ==
    \/ Wake(FALSE) \/ Kicked \/ TryReports \/ TryBegins \/ CallOff \/ Asks \/ Answered \/ Begin
    \/ Installed \/ InstallFailed \/ Leave \/ Ends
AdminStep == Toggle \/ Apply \/ ApplyAudited \/ ApplyRestarts \/ ApplyDropped \/ \E ok \in BOOLEAN : ApplyEnds(ok)
QuietStep == (\E i \in DOMAIN drains : HandleDrain(i)) \/ ClaimEnds \/ WriteEnds

Next ==
    /\ UNCHANGED scene
    /\ \/ Checks \/ TaskStep \/ AdminStep \/ QuietStep
       \/ Claim \/ WriteBegins
       \/ Tick \/ Stop \/ \E r \in scene.releases : Publish(r)

Spec == Init /\ [][Next]_vars

\* Tasks are polled, spawned messages are sent, the scheduler answers, each volume and
\* each upload under way ends some time, and an install ends one way or the other.
Fairness ==
    /\ WF_vars(TaskStep /\ UNCHANGED scene)
    /\ WF_vars((ApplyAudited \/ ApplyRestarts \/ ApplyLooks(FALSE, FALSE) \/ \E ok \in BOOLEAN : ApplyEnds(ok))
               /\ UNCHANGED scene)
    /\ WF_vars((\E i \in DOMAIN drains : HandleDrain(i)) /\ UNCHANGED scene)
    /\ WF_vars(ClaimEnds /\ UNCHANGED scene) /\ WF_vars(WriteEnds /\ UNCHANGED scene)

FairSpec == Spec /\ Fairness

-----------------------------------------------------------------------------
TypeOK ==
    /\ scene \in Scenes
    /\ cached \in Releases \cup {0, Failed} /\ target \in Releases \cup {0, Failed}
    /\ task \in {"sleep", "try", "quiet", "asking", "counting", "install", "leave", "gone"}
    /\ admin \in {"none", "look", "install", "audit", "restart"}
    /\ retry.version \in Releases \cup {0, Check} /\ retry.failures \in Nat /\ retry.not_before \in Nat
    /\ \A i \in 1..Len(drains) : drains[i] \in BOOLEAN
    /\ claims \in 0..scene.claims /\ writes \in 0..scene.writes

\* The task has an update in hand.
Works == task \in {"quiet", "asking", "counting", "install", "leave"}

\* One release is installed at a time (applying): the task and the panel never
\* both switch the executable.
OneInstaller == ~(task \in {"install", "leave"} /\ admin \in {"install", "audit", "restart"})

\* "An update is already being applied" is said only while one is, as long as the panel's
\* connection holds (a dropped apply leaves the flag set).
ApplyingIsHeld ==
    ~scene.disconnects /\ applying => Works \/ admin # "none" \/ left

\* Both: the flag keeps the task and the panel apart, and is set for no other reason.
ApplyingExcludes == OneInstaller /\ ApplyingIsHeld

\* Drains reach the scheduler in order, and it has heard of them and answered before busy is
\* believed.
Heard == ~scene.overtaken /\ ~scene.timesOut /\ ~scene.reordered

\* No OCR claim is in flight while a release is installed over the server (drain, then busy).
QuietAtInstall == Heard /\ task \in {"install", "leave"} => claims = 0

\* New claims are allowed again once the update has given up (drain), when the drains arrive
\* in the order they were spawned.
DrainIsLifted == ~scene.reordered /\ task \in {"sleep", "try"} /\ drains = <<>> => ~drained

\* "A version that failed is not tried again before its wait is over, whatever triggers it"
\* (Retry), as long as no check fails in between.
BeginsEarly == TryBegins /\ ~(now >= due[target].at)
NeverEarly == [][scene.checkFails \/ ~BeginsEarly]_vars

\* An update that waits or installs comes to an end, the server restarts or the next attempt is
\* free to begin, once no upload begins any more; the scheduler's drain is what ends the claims.
\* With uploads that overlap for ever it waits for ever: nothing holds them back.
UpdateEnds == ~scene.disconnects /\ ~scene.reordered /\ <>[](writes = 0) => (applying ~> ~applying \/ left)
================================================================================
