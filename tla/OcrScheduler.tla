----------------------------- MODULE OcrScheduler -----------------------------
(***************************************************************************)
(* The OCR scheduler of bunko-server (crates/bunko-server/src/ocr/sched):  *)
(* one thread that owns all state and handles one message at a time.       *)
(*                                                                         *)
(* handle(msg) dispatches the message and then pumps: every lane that can  *)
(* work claims a job and opens a session, every open session is topped up, *)
(* and the scan ends when nothing is left.  A handler is one action with   *)
(* phase = "ready"; it leaves phase = "pump" and the lanes to visit in     *)
(* todo, and no other message is handled before the pump has ended.        *)
(* Sockets, processors and helper threads run beside it: a link may be cut *)
(* between any two steps, a helper finishes when it likes.                 *)
(*                                                                         *)
(* Processors are arbitrary: they may send any event about any claim they  *)
(* hold, or none.  An event about a session or claim the scheduler no      *)
(* longer has is ignored (on_event, pop_job), so it is not a step here.    *)
(* Time is left to choice: a timer may fire whenever its condition can     *)
(* have become true.                                                       *)
(*                                                                         *)
(* A claim id is never reused, and ids grow, so the order of a session's   *)
(* claims is the order of their ids; a session is named by the id of the   *)
(* first claim submitted to it.                                            *)
(***************************************************************************)
EXTENDS Integers, FiniteSets

CONSTANTS
    Pids,       \* registrations; a remote one is never used twice
    Local,      \* the registrations of the in-process processor
    Names,      \* machine names (the key of strikes and holds)
    NameOf,     \* pid -> its machine's name
    Jobs,       \* (volume, generation) pairs
    Rows,       \* generations; a smaller number runs first
    RowOf,      \* job -> its generation
    VolumeOf,   \* job -> the archive it reads
    LanesPer,   \* lanes of one machine
    Lookahead,  \* claims in flight per session (MAX_OUTSTANDING_VOLUMES)
    MaxClaims,  \* bound: claims submitted in one behaviour
    Inputs      \* sets of kinds of outside input: a behaviour meets the kinds of one of them

ASSUME SchedulerAssumption ==
    /\ Local \subseteq Pids
    /\ NameOf \in [Pids -> Names]
    /\ Rows \subseteq Nat
    /\ RowOf \in [Jobs -> Rows]
    /\ LanesPer \in Nat \ {0}
    /\ Lookahead \in Nat \ {0}
    /\ MaxClaims \in Nat

Ids == 1..MaxClaims
Lanes == Pids \X (1..LanesPer)

\* Two sessions in a row that finished nothing stop the row on that machine.
SESSION_CRASH_LIMIT == 2

NoSession == [lane |-> "none"]
NoClaim == [lane |-> "none"]
NoJob == "none"

\* "fatal": an error was reported, "refused": it was a precision refusal,
\* "worked": a volume was finished (completed > 0).
Flags == {"ready", "closing", "draining", "fatal", "refused", "worked"}

VARIABLES
    machines,    \* pid -> "unused", "registered", "up", "cut" (the link is dead) or "gone"
    paused,      \* pids whose owner paused them
    held,        \* machine names held (a benchmark), and "drain": held for an update
    tripped,     \* pids whose download breaker is open
    rows,        \* generation -> "runnable", "disabled" or "removed" (from the settings)
    lanes,       \* the lanes there are
    laneSession, \* lane -> its session, or 0
    idle,        \* lanes that found nothing at the current queue generation
    waiting,     \* lanes that left volumes to faster ones
    sessions,    \* sid -> its Session
    jobOf,       \* claim id -> the job it was submitted for
    claim_seq,   \* the last claim id used
    claims,      \* job -> its Claimed
    attempted,   \* jobs taken in this scan
    cancelled,   \* jobs whose session is being stopped on purpose
    results,     \* uploaded results waiting for their volume_done
    helpers,     \* helper threads that work for a claim
    owed,        \* the owed index: jobs the last walk or hook found
    missing,     \* the disk: jobs whose archive is there and sidecar is not
    written,     \* history: job -> sidecars written since its archive last changed
    failed,      \* jobs with a failure record that still backs off
    strikes,     \* <<row, name>> -> sessions in a row that finished nothing
    stopped,     \* <<row, name>> stopped for this scan
    scan,        \* "on" or "off" (scan_active)
    phase,       \* "ready", "pump" or "stopped"
    todo,        \* lanes the pump has still to visit
    inputs       \* the kinds of input of this behaviour (never changes)

fleetVars == <<machines, paused, held, tripped, rows>>
laneVars == <<lanes, laneSession, idle, waiting>>
sessionVars == <<sessions, jobOf, claim_seq, results, helpers>>
claimVars == <<claims, attempted, cancelled>>
diskVars == <<owed, missing, written>>
blameVars == <<failed, strikes, stopped>>
vars == <<machines, paused, held, tripped, rows, lanes, laneSession, idle, waiting,
          sessions, jobOf, claim_seq, claims, attempted, cancelled, results, helpers,
          owed, missing, written, failed, strikes, stopped, scan, phase, todo, inputs>>

-----------------------------------------------------------------------------
(* Reading the state *)

Registered(p) == machines[p] \in {"registered", "up", "cut"}
Connected(p) == machines[p] \in {"up", "cut"}
PidOf(lane) == lane[1]
Live(s) == sessions[s] # NoSession
LiveSids == {s \in Ids : Live(s)}
SessionsOf(P) == {s \in LiveSids : PidOf(sessions[s].lane) \in P}
SessionHas(s, flag) == flag \in sessions[s].flags
IdsOf(S) == UNION {sessions[s].ids : s \in S}
JobsOf(S) == {jobOf[i] : i \in IdsOf(S)}
IsClaimed(j) == claims[j] # NoClaim
Settling(j) == IsClaimed(j) /\ claims[j].state = "settling"
ClaimedJobs == {j \in Jobs : IsClaimed(j)}
KeyOf(s) == <<sessions[s].row, NameOf[PidOf(sessions[s].lane)]>>
Configured(j) == rows[RowOf[j]] # "removed"

IsHeld(p) == "drain" \in held \/ NameOf[p] \in held

\* wanted_lanes: a connected machine that is not paused has its lanes.
Wanted(ms, ps) == {l \in Lanes : ms[PidOf(l)] \in {"up", "cut"} /\ PidOf(l) \notin ps}

\* rebuild_lanes: keep what is wanted or busy, add what is wanted.
Rebuilt(ms, ps, session) == Wanted(ms, ps) \cup {l \in lanes : session[l] # 0}

\* maybe_start_scan's conditions: someone is connected, not everyone is held.
CanScan(ms, ps, hs, ts) ==
    \E p \in Pids : /\ ms[p] \in {"up", "cut"}
                    /\ p \notin ps
                    /\ p \notin ts
                    /\ "drain" \notin hs /\ NameOf[p] \notin hs

-----------------------------------------------------------------------------
(* Scans *)

\* Every handler ends in a pump over the lanes there are then.
ThenPump == phase' = "pump" /\ todo' = lanes'

\* start_scan.  The rows struck out are forgiven once per poll interval.
StartScan ==
    /\ scan' = "on"
    /\ attempted' = {}
    /\ \/ strikes' = [k \in Rows \X Names |-> 0] /\ stopped' = {}
       \/ UNCHANGED <<strikes, stopped>>

\* maybe_start_scan, for handlers that touch neither attempted nor strikes.
MaybeStartScan(ms, ps, hs, ts) ==
    IF scan = "off" /\ CanScan(ms, ps, hs, ts)
      THEN StartScan
      ELSE UNCHANGED <<scan, attempted, strikes, stopped>>

-----------------------------------------------------------------------------
(* Settling claims (settle.rs) *)

Unclaimed(J) == [j \in Jobs |-> IF j \in J THEN NoClaim ELSE claims[j]]

\* release(job, retry_this_scan): the claim goes back, nothing recorded.
Release(j, retry) ==
    /\ claims' = Unclaimed({j})
    /\ cancelled' = cancelled \ {j}
    /\ attempted' = IF retry THEN attempted \ {j} ELSE attempted
    /\ UNCHANGED failed

\* finish(job, ok): a failure is recorded unless the claim was cancelled, its
\* processor left, or its generation is no longer configured.
Finish(j, ok) ==
    LET returned == ~ok /\ ~Registered(PidOf(claims[j].lane))
        records == ~ok /\ ~returned /\ j \notin cancelled /\ Configured(j)
    IN  /\ claims' = Unclaimed({j})
        /\ cancelled' = cancelled \ {j}
        /\ attempted' = IF returned THEN attempted \ {j} ELSE attempted
        /\ failed' = IF ok THEN failed \ {j} ELSE IF records THEN failed \cup {j} ELSE failed

-----------------------------------------------------------------------------
(* Ending sessions (session.rs, end_session) *)

Oldest(s) == CHOOSE i \in sessions[s].ids : \A k \in sessions[s].ids : i <= k

\* Mutant: a processor that paused itself is blamed too.
BlamesOldestPaused(s) == Registered(PidOf(sessions[s].lane))

\* Nothing that ends with a processor that left or is paused is a failure.
BlamesOldest(s) == Registered(PidOf(sessions[s].lane)) /\ PidOf(sessions[s].lane) \notin paused

\* The volume a session's end is blamed on: the oldest one, if its archive was
\* there, and unless the runner never became ready or refused the precision.
Blamed(s, refused) ==
    LET environment == (PidOf(sessions[s].lane) \notin Local /\ ~SessionHas(s, "ready")) \/ refused
    IN  IF /\ BlamesOldest(s) /\ ~environment
           /\ sessions[s].ids # {}
           /\ Oldest(s) \in sessions[s].delivered
          THEN {jobOf[Oldest(s)]}
          ELSE {}

Capped(n) == IF n > SESSION_CRASH_LIMIT THEN SESSION_CRASH_LIMIT ELSE n

Strike(key) ==
    /\ strikes' = [strikes EXCEPT ![key] = Capped(@ + 1)]
    /\ stopped' = IF strikes[key] + 1 >= SESSION_CRASH_LIMIT THEN stopped \cup {key} ELSE stopped

\* The failures that blaming records, when C is cancelled (finish).
Recorded(blamed, C) == {j \in blamed : j \notin cancelled \cup C /\ Configured(j)}

LanesWithout(S) == [l \in Lanes |-> IF \E s \in S : sessions[s].lane = l THEN 0 ELSE laneSession[l]]

\* Mutant: what was uploaded for a claim that ends stays counted.
ResultsKeep(S) == results

ResultsWithout(S) == {r \in results : r.sid \notin S \/ r.id \notin IdsOf(S)}

\* The sessions S end; blamed is a set of their jobs and C the jobs whose
\* cancellation was marked just before.
EndSessions(S, blamed, C) ==
    LET js == JobsOf(S)
        marked == cancelled \cup C
    IN  /\ sessions' = [s \in Ids |-> IF s \in S THEN NoSession ELSE sessions[s]]
        /\ laneSession' = LanesWithout(S)
        /\ idle' = {}
        /\ claims' = Unclaimed(js)
        /\ cancelled' = marked \ js
        /\ attempted' = attempted \ (js \ blamed)
        /\ results' = ResultsWithout(S)
        /\ UNCHANGED <<jobOf, claim_seq, helpers>>

\* end_session of one session that was not killed: exit, a wedge, a refused
\* close.  fatal: it ended with an error; refused: that was a precision refusal.
EndSession(s, fatal, refused) ==
    LET counts == BlamesOldest(s) /\ JobsOf({s}) \cap cancelled = {}
        strike == ~SessionHas(s, "worked") /\ (sessions[s].ids # {} \/ fatal)
        clear == SessionHas(s, "worked") /\ sessions[s].ids # {}
    IN  /\ EndSessions({s}, Blamed(s, refused), {})
        /\ failed' = failed \cup Recorded(Blamed(s, refused), {})
        /\ IF counts /\ strike THEN Strike(KeyOf(s))
           ELSE IF counts /\ clear THEN strikes' = [strikes EXCEPT ![KeyOf(s)] = 0] /\ UNCHANGED stopped
           ELSE UNCHANGED <<strikes, stopped>>

\* kill_session of every session in S because the jobs they hold are cancelled:
\* nobody is struck and nothing is recorded, but the oldest job of each session
\* is finished, not released, and stays tried for this scan.
CancelSessions(S) == EndSessions(S, UNION {Blamed(s, SessionHas(s, "refused")) : s \in S}, JobsOf(S))

\* drop_processor of every pid in P: claims not being installed go back, the
\* sessions end blaming nobody, the lanes go.
\* Mutants: every claim is kept; those that run are; those being installed go too.
DroppedJobsNone(P) == {}
DroppedJobsSettling(P) == {j \in ClaimedJobs : PidOf(claims[j].lane) \in P /\ Settling(j)}
DroppedJobsAll(P) == {j \in ClaimedJobs : PidOf(claims[j].lane) \in P}

DroppedJobs(P) == {j \in ClaimedJobs : PidOf(claims[j].lane) \in P /\ ~Settling(j)}

DropAll(P) ==
    LET S == SessionsOf(P)
        js == DroppedJobs(P)
    IN  /\ claims' = Unclaimed(js)
        /\ cancelled' = cancelled \ js
        /\ sessions' = [s \in Ids |-> IF s \in S THEN NoSession ELSE sessions[s]]
        /\ results' = {r \in results : r.sid \in LiveSids \ S}
        /\ laneSession' = [l \in Lanes |-> IF PidOf(l) \in P THEN 0 ELSE laneSession[l]]
        /\ tripped' = tripped \ P
        /\ waiting' = {l \in waiting : PidOf(l) \notin P}
        /\ idle' = IF P = {} THEN idle ELSE {}

-----------------------------------------------------------------------------
(* Machines come and go (registry.rs, availability.rs) *)

\* What dropping P does to the fleet, which is ms with ps paused afterwards: a
\* benchmark's hold goes with its machine (bench_machine_left), which may let a
\* scan start.
Disconnect(P, ms, ps) ==
    /\ DropAll(P)
    /\ machines' = ms
    /\ paused' = ps
    /\ held' = held \ {NameOf[p] : p \in P}
    /\ lanes' = Rebuilt(ms, ps, laneSession')
    /\ IF held' # held /\ scan = "off" /\ CanScan(ms, ps, held', tripped')
         THEN StartScan
         ELSE attempted' = attempted \ DroppedJobs(P) /\ UNCHANGED <<scan, strikes, stopped>>
    /\ UNCHANGED <<rows, jobOf, claim_seq, helpers, diskVars, failed>>

Gone(P) == [p \in Pids |-> IF p \in P THEN "gone" ELSE machines[p]]

\* Drop, DropAccount, a second socket, a silent processor: one disconnect path.
Leave(P) ==
    /\ phase = "ready"
    /\ P # {} /\ \A p \in P : Registered(p)
    /\ Disconnect(P, Gone(P), paused \ P)
    /\ ThenPump

\* register: the same name (a reconnect), stale socketless registrations and
\* those beyond the account's limit go; the new one may be paused already.
Register(p, P) ==
    /\ phase = "ready" /\ "remote" \in inputs
    /\ p \notin Local /\ machines[p] = "unused"
    /\ P \subseteq {q \in Pids \ Local : Registered(q)}
    /\ \A q \in Pids \ Local : Registered(q) /\ NameOf[q] = NameOf[p] => q \in P
    /\ \E ps \in {paused \ P, (paused \ P) \cup {p}} :
          /\ ps \subseteq paused \/ "pause" \in inputs
          /\ Disconnect(P, [Gone(P) EXCEPT ![p] = "registered"], ps)
    /\ ThenPump

\* socket_open and local_up: the machine has its lanes and a scan starts.
Connect(p) ==
    /\ phase = "ready" /\ (p \in Local => "local" \in inputs)
    /\ machines[p] \in IF p \in Local THEN {"unused", "gone"} ELSE {"registered"}
    /\ machines' = [machines EXCEPT ![p] = "up"]
    /\ lanes' = Rebuilt(machines', paused, laneSession)
    /\ idle' = {}
    /\ MaybeStartScan(machines', paused, held, tripped)
    /\ ThenPump
    /\ UNCHANGED <<paused, held, tripped, rows, laneSession, waiting, sessionVars,
                   claims, cancelled, diskVars, failed>>

\* The socket task or the local processor ends; its Drop is on its way.
Cut(p) ==
    /\ "cut" \in inputs
    /\ machines[p] = "up"
    /\ phase # "stopped"
    /\ machines' = [machines EXCEPT ![p] = "cut"]
    /\ UNCHANGED <<paused, held, tripped, rows, laneVars, sessionVars, claimVars, diskVars,
                   blameVars, scan, phase, todo>>

\* set_availability: a pause retires the lanes that are not busy.
SetAvailability(p, pause) ==
    /\ "pause" \in inputs
    /\ phase = "ready"
    /\ Registered(p)
    /\ pause # (p \in paused)
    /\ paused' = IF pause THEN paused \cup {p} ELSE paused \ {p}
    /\ lanes' = Rebuilt(machines, paused', laneSession)
    /\ idle' = {}
    /\ IF pause THEN UNCHANGED <<scan, attempted, strikes, stopped>>
                ELSE MaybeStartScan(machines, paused', held, tripped)
    /\ ThenPump
    /\ UNCHANGED <<machines, held, tripped, rows, laneSession, waiting, sessionVars,
                   claims, cancelled, diskVars, failed>>

\* released: the claims a pausing processor gives back, of any of its sessions.
Released(p, I) ==
    LET S == SessionsOf({p})
        js == {jobOf[i] : i \in I}
    IN  /\ "pause" \in inputs
        /\ phase = "ready"
        /\ p \in paused
        /\ I # {} /\ I \subseteq IdsOf(S)
        /\ sessions' = [s \in Ids |-> IF s \in S THEN [sessions[s] EXCEPT !.ids = @ \ I, !.delivered = @ \ I] ELSE sessions[s]]
        /\ results' = {r \in results : r.id \notin I}
        /\ claims' = Unclaimed(js)
        /\ attempted' = attempted \ js
        /\ cancelled' = cancelled \ js
        /\ idle' = {}
        /\ UNCHANGED <<fleetVars, lanes, laneSession, waiting, jobOf, claim_seq, helpers,
                       diskVars, blameVars, scan>>
        /\ ThenPump

\* set_update_drain: no machine gets a new claim; what is in flight finishes.
SetUpdateDrain ==
    /\ "drain" \in inputs
    /\ phase = "ready"
    /\ held' = IF "drain" \in held THEN held \ {"drain"} ELSE held \cup {"drain"}
    /\ idle' = {}
    /\ IF "drain" \in held THEN MaybeStartScan(machines, paused, held', tripped)
                           ELSE UNCHANGED <<scan, attempted, strikes, stopped>>
    /\ UNCHANGED <<machines, paused, tripped, rows, lanes, laneSession, waiting, sessionVars,
                   claims, cancelled, diskVars, failed>>
    /\ ThenPump

\* Mutant: the claims being installed are marked too.
BenchCancelsAll(p) == {j \in ClaimedJobs : NameOf[PidOf(claims[j].lane)] = NameOf[p]}

BenchCancels(p) == {j \in ClaimedJobs : NameOf[PidOf(claims[j].lane)] = NameOf[p] /\ ~Settling(j)}

\* preempt_for_bench: the machine is held and everything it runs is cancelled,
\* to be offered to the others at once.
PreemptForBench(p) ==
    LET S == {s \in LiveSids : NameOf[PidOf(sessions[s].lane)] = NameOf[p]}
    IN  /\ "bench" \in inputs
        /\ phase = "ready"
        /\ Connected(p) /\ NameOf[p] \notin held
        /\ held' = held \cup {NameOf[p]}
        /\ EndSessions(S, {}, BenchCancels(p))
        /\ lanes' = Rebuilt(machines, paused, laneSession')
        /\ UNCHANGED <<machines, paused, tripped, rows, waiting, diskVars, blameVars, scan>>
        /\ ThenPump

\* hold_queue: a benchmark that waits for the machine's sessions to drain.
HoldQueue(p) ==
    /\ "bench" \in inputs
    /\ phase = "ready"
    /\ Connected(p) /\ NameOf[p] \notin held
    /\ held' = held \cup {NameOf[p]}
    /\ idle' = {}
    /\ UNCHANGED <<machines, paused, tripped, rows, lanes, laneSession, waiting, sessionVars,
                   claimVars, diskVars, blameVars, scan>>
    /\ ThenPump

\* release_queue: the benchmark is over.
ReleaseQueue(n) ==
    /\ phase = "ready"
    /\ n \in held \ {"drain"}
    /\ held' = held \ {n}
    /\ idle' = {}
    /\ MaybeStartScan(machines, paused, held', tripped)
    /\ UNCHANGED <<machines, paused, tripped, rows, lanes, laneSession, waiting, sessionVars,
                   claims, cancelled, diskVars, failed>>
    /\ ThenPump

-----------------------------------------------------------------------------
(* Events of a processor about its session (on_event) *)

\* The session s may hear from its processor, and holds the claim i.
Hears(s) == phase = "ready" /\ Live(s) /\ Registered(PidOf(sessions[s].lane))
Holds(s, i) == Hears(s) /\ i \in sessions[s].ids

Noted(s, flags) == sessions' = [sessions EXCEPT ![s].flags = @ \cup flags]

\* Events that only mark the session: ready, fatal, spawn_failed.
Mark(s, flags) ==
    /\ Hears(s)
    /\ Noted(s, flags)
    /\ UNCHANGED <<fleetVars, laneVars, jobOf, claim_seq, results, helpers, claimVars, diskVars,
                   blameVars, scan>>
    /\ ThenPump

Ready(s) == Mark(s, {"ready"})
Fatal(s) == "fatal" \in inputs /\ (Mark(s, {"fatal"}) \/ Mark(s, {"fatal", "refused"}))

\* fetch "ready": the processor has the archive, its breaker closes.
Delivered(s, i) ==
    LET p == PidOf(sessions[s].lane)
    IN  /\ Holds(s, i)
        /\ sessions' = [sessions EXCEPT ![s].delivered = @ \cup {i}]
        /\ tripped' = tripped \ {p}
        /\ idle' = IF p \in tripped THEN {} ELSE idle
        /\ UNCHANGED <<machines, paused, held, rows, lanes, laneSession, waiting, jobOf, claim_seq,
                       results, helpers, claimVars, diskVars, blameVars, scan>>
        /\ ThenPump

VolumeStarted(s, i) ==
    /\ Holds(s, i)
    /\ sessions' = [sessions EXCEPT ![s].delivered = @ \cup {i}]
    /\ UNCHANGED <<fleetVars, laneVars, jobOf, claim_seq, results, helpers, claimVars, diskVars,
                   blameVars, scan>>
    /\ ThenPump

\* pop_job: the claim leaves its session.
Popped(s, i) == [sessions EXCEPT ![s].ids = @ \ {i}, ![s].delivered = @ \ {i}]

\* volume_returned (judge_returned).  The archive is gone (no retry this scan),
\* has another size, or the return is counted at once; or the claim settles
\* while a helper reads the server's own copy.  A claim may be returned at any
\* time, and what was uploaded for it stays in results.
VolumeReturned(s, i) ==
    /\ "returns" \in inputs
    /\ Holds(s, i)
    /\ sessions' = Popped(s, i)
    /\ \/ /\ \E retry \in BOOLEAN : Release(jobOf[i], retry)
          /\ tripped' = tripped
          /\ idle' = {}
          /\ UNCHANGED helpers
       \/ /\ \/ Release(jobOf[i], TRUE) \/ Finish(jobOf[i], FALSE)
          /\ tripped' \in {tripped, tripped \cup {PidOf(sessions[s].lane)}}
          /\ idle' = {}
          /\ UNCHANGED helpers
       \/ /\ claims' = [claims EXCEPT ![jobOf[i]].state = "settling"]
          /\ helpers' = helpers \cup {[kind |-> "own_copy", job |-> jobOf[i], id |-> i, sid |-> s]}
          /\ UNCHANGED <<tripped, idle, attempted, cancelled, failed>>
    /\ UNCHANGED <<machines, paused, held, rows, lanes, laneSession, waiting, jobOf, claim_seq,
                   results, diskVars, strikes, stopped, scan>>
    /\ ThenPump

\* own_copy_read: the library's own file is bad, or the return counts.
OwnCopyRead(h) ==
    /\ phase = "ready"
    /\ h \in helpers /\ h.kind = "own_copy"
    /\ helpers' = helpers \ {h}
    /\ \/ Finish(h.job, FALSE) /\ tripped' = tripped
       \/ /\ Finish(h.job, FALSE) \/ Release(h.job, TRUE)
          /\ tripped' \in {tripped, tripped \cup {PidOf(claims[h.job].lane)}}
    /\ idle' = {}
    /\ UNCHANGED <<machines, paused, held, rows, lanes, laneSession, waiting, sessions, jobOf,
                   claim_seq, results, diskVars, strikes, stopped, scan>>
    /\ ThenPump

\* volume_done, then collect: a result is installed only for the claim that
\* still owns the job; the claim settles on a helper thread.
Owns(s, i) ==
    LET c == claims[jobOf[i]]
    IN  c # NoClaim /\ c.sid = s /\ c.id = i

VolumeDone(s, i) ==
    /\ Holds(s, i)
    /\ sessions' = [Popped(s, i) EXCEPT ![s].flags = @ \cup {"worked"}]
    /\ results' = results \ {[sid |-> s, id |-> i]}
    /\ IF Owns(s, i)
         THEN /\ claims' = [claims EXCEPT ![jobOf[i]].state = "settling"]
              /\ helpers' = helpers \cup {[kind |-> "collect", job |-> jobOf[i], id |-> i, sid |-> s]}
         ELSE UNCHANGED <<claims, helpers>>
    /\ UNCHANGED <<fleetVars, laneVars, jobOf, claim_seq, attempted, cancelled, diskVars, blameVars, scan>>
    /\ ThenPump

VolumeFailed(s, i) ==
    /\ Holds(s, i)
    /\ sessions' = Popped(s, i)
    /\ results' = results \ {[sid |-> s, id |-> i]}
    /\ Finish(jobOf[i], FALSE)
    /\ idle' = {}
    /\ UNCHANGED <<fleetVars, lanes, laneSession, waiting, jobOf, claim_seq, helpers, diskVars,
                   strikes, stopped, scan>>
    /\ ThenPump

\* result_stored under the expected name; an upload for a claim that is not
\* outstanding is thrown away.
ResultStored(s, i) ==
    /\ "results" \in inputs
    /\ phase = "ready" /\ Live(s) /\ i \in sessions[s].ids
    /\ results' = results \cup {[sid |-> s, id |-> i]}
    /\ UNCHANGED <<fleetVars, laneVars, sessions, jobOf, claim_seq, helpers, claimVars, diskVars,
                   blameVars, scan>>
    /\ ThenPump

\* The helper's install puts the sidecar on disk before its message is handled.
Install(h) ==
    /\ h \in helpers /\ h.kind = "collect"
    /\ helpers' = (helpers \ {h}) \cup {[h EXCEPT !.kind = "installed"]}
    /\ missing' = missing \ {h.job}
    /\ written' = [written EXCEPT ![h.job] = @ + 1]
    /\ UNCHANGED <<fleetVars, laneVars, sessions, jobOf, claim_seq, results, claimVars, owed,
                   blameVars, scan, phase, todo>>

\* collected: installed, failed, discarded (another archive is there) or busy.
Collected(h) ==
    /\ phase = "ready"
    /\ h \in helpers /\ h.kind \in {"collect", "installed"}
    /\ helpers' = helpers \ {h}
    /\ IF h.kind = "installed"
         THEN Finish(h.job, TRUE) /\ owed' = owed \ {h.job}
         ELSE (Finish(h.job, FALSE) \/ Release(h.job, TRUE)) /\ UNCHANGED owed
    /\ idle' = {}
    /\ UNCHANGED <<fleetVars, lanes, laneSession, waiting, sessions, jobOf, claim_seq, results,
                   missing, written, strikes, stopped, scan>>
    /\ ThenPump

-----------------------------------------------------------------------------
(* Sessions end *)

\* What every end of sessions leaves to rebuild_lanes.
AfterEnd ==
    /\ lanes' = Rebuilt(machines, paused, laneSession')
    /\ UNCHANGED <<fleetVars, waiting, scan>>

\* exit: an error unless nothing was left and the status was clean.
Exit(s, clean) ==
    /\ Hears(s)
    /\ EndSession(s, ~(sessions[s].ids = {} /\ clean), SessionHas(s, "refused"))
    /\ AfterEnd /\ UNCHANGED diskVars
    /\ ThenPump

\* check_sessions: a wedged session (and one whose sidecar arrived under
\* another name, kill_session_blaming_pub) is judged like a crash.
Wedged(s) ==
    /\ phase = "ready"
    /\ Live(s) /\ ~SessionHas(s, "closing")
    /\ EndSession(s, TRUE, FALSE)
    /\ AfterEnd /\ UNCHANGED diskVars
    /\ ThenPump

\* check_sessions: a closing session, which holds nothing, never said exit.
Overdue(s) ==
    /\ phase = "ready"
    /\ Live(s) /\ SessionHas(s, "closing")
    /\ EndSessions({s}, {}, {})
    /\ AfterEnd /\ UNCHANGED <<diskVars, blameVars>>
    /\ ThenPump

\* cancel_stale_jobs: a session is stopped only when all its claims are stale.
StaleSessions(stale) == {s \in LiveSids : sessions[s].ids # {} /\ JobsOf({s}) \subseteq stale}

\* archive_arrived and archive_removed, for the archive v: the stamps of some
\* of its running claims no longer match; found is what is owed now.
ArchiveChanged(v, arrived, stale, found) ==
    LET mine == {j \in Jobs : VolumeOf[j] = v}
        S == StaleSessions(stale)
    IN  /\ "archive" \in inputs
        /\ phase = "ready"
        /\ stale \subseteq {j \in mine : IsClaimed(j) /\ ~Settling(j)}
        /\ found \subseteq IF arrived THEN mine ELSE {}
        /\ CancelSessions(S)
        /\ lanes' = Rebuilt(machines, paused, laneSession')
        /\ owed' = (owed \ mine) \cup found
        /\ missing' = (missing \ mine) \cup found
        /\ written' = [j \in Jobs |-> IF j \in mine THEN 0 ELSE written[j]]
        /\ IF arrived /\ scan = "off" /\ CanScan(machines, paused, held, tripped)
             THEN StartScan
             ELSE UNCHANGED <<scan, strikes, stopped>>
        /\ UNCHANGED <<fleetVars, waiting, failed>>
        /\ ThenPump

-----------------------------------------------------------------------------
(* The walk, the settings, the timers, the end (mod.rs) *)

\* walked: the index of a finished walk, which may be older than the hooks that
\* ran meanwhile.  (A walk begun under other settings is started again.)
Walked(S) ==
    /\ "walk" \in inputs
    /\ phase = "ready"
    /\ owed' = S
    /\ idle' = {}
    /\ MaybeStartScan(machines, paused, held, tripped)
    /\ UNCHANGED <<fleetVars, lanes, laneSession, waiting, sessionVars, claims, cancelled,
                   missing, written, failed>>
    /\ ThenPump

\* apply_settings: the sessions of a row that was removed, disabled or given
\* another recipe are cancelled.
Apply(newRows, changed) ==
    LET S == {s \in LiveSids : newRows[sessions[s].row] # "runnable" \/ sessions[s].row \in changed}
    IN  /\ "apply" \in inputs
        /\ phase = "ready"
        /\ rows' = newRows
        /\ CancelSessions(S)
        /\ failed' = {j \in failed : newRows[RowOf[j]] # "removed"}
        /\ lanes' = Rebuilt(machines, paused, laneSession')
        /\ UNCHANGED <<machines, paused, held, tripped, waiting, diskVars, strikes, stopped, scan>>
        /\ ThenPump

\* retry_failed: the failure records of some volumes are dropped and a scan
\* starts at once, even when one is running.
RetryFailed(J) ==
    /\ "retry" \in inputs
    /\ phase = "ready"
    /\ J \subseteq failed
    /\ failed' = failed \ J
    /\ StartScan
    /\ idle' = {}
    /\ UNCHANGED <<fleetVars, lanes, laneSession, waiting, sessionVars, claims, cancelled, diskVars>>
    /\ ThenPump

\* A failure's backoff ends, or its record is pruned; a breaker's hold ends.
FailureExpires(j) ==
    /\ j \in failed
    /\ failed' = failed \ {j}
    /\ UNCHANGED <<fleetVars, laneVars, sessionVars, claimVars, diskVars, strikes, stopped, scan,
                   phase, todo>>

BreakerExpires(p) ==
    /\ p \in tripped
    /\ tripped' = tripped \ {p}
    /\ UNCHANGED <<machines, paused, held, rows, laneVars, sessionVars, claimVars, diskVars,
                   blameVars, scan, phase, todo>>

\* tick: lanes that wait for faster ones look again, and the pump runs.
Tick ==
    /\ phase = "ready"
    /\ idle' = idle \ waiting
    /\ UNCHANGED <<fleetVars, lanes, laneSession, waiting, sessionVars, claimVars, diskVars,
                   blameVars, scan>>
    /\ ThenPump

\* stop: everything in flight goes back untouched and the loop ends.
Stop ==
    LET P == {p \in Pids : Registered(p)}
    IN  /\ "stop" \in inputs
        /\ phase = "ready"
        /\ DropAll(P)
        /\ machines' = Gone(P)
        /\ paused' = paused \ P
        /\ held' = held \ {NameOf[p] : p \in P}
        /\ lanes' = {}
        /\ attempted' = attempted \ DroppedJobs(P)
        /\ phase' = "stopped" /\ todo' = {}
        /\ UNCHANGED <<rows, jobOf, claim_seq, helpers, diskVars, blameVars, scan>>

-----------------------------------------------------------------------------
(* The pump (pump, top_up, open_session, claim) *)

Visits(l) == phase = "pump" /\ l \in todo
LaneKey(l, j) == <<RowOf[j], NameOf[PidOf(l)]>>

\* Phase A of claim: this machine gets nothing now.
Refused(l) == IsHeld(PidOf(l)) \/ PidOf(l) \in tripped \/ PidOf(l) \in paused

\* candidates, less those in flight or tried: what phase B and C choose from.
Candidates == {j \in owed : ~IsClaimed(j) /\ j \notin attempted /\ j \notin failed
                             /\ rows[RowOf[j]] = "runnable"}
Offered(l) == IF Refused(l) THEN {} ELSE {j \in Candidates : LaneKey(l, j) \notin stopped}

\* Mutant: the index is believed.
ClaimableUnasked(l) == Offered(l)

\* still_owed is asked at the claim; what is no longer owed is forgotten.
Claimable(l) == Offered(l) \cap missing
Forgotten(l) == owed' \in {owed \ F : F \in SUBSET (Offered(l) \ missing)}

\* The claim may leave every candidate (the machine does not run that row, a
\* faster or a warm lane gets it, its runner backs off): then the lane may wait.
ClaimsNothing(l) ==
    /\ Forgotten(l)
    /\ IF Refused(l) THEN waiting' = waiting
       ELSE waiting' \in {waiting \ {l}} \cup (IF "wait" \in inputs THEN {waiting \cup {l}} ELSE {})

\* drain_reason
DrainReason(s) ==
    LET p == PidOf(sessions[s].lane)
    IN  \/ IsHeld(p)
        \/ p \in paused
        \/ KeyOf(s) \in stopped
        \/ p \notin Local /\ p \in tripped
        \/ rows[sessions[s].row] # "runnable"
        \/ ~Registered(p)

\* An earlier generation has work for this machine.
MayPreempt(l, s) == \E j \in Offered(l) : RowOf[j] < sessions[s].row

Stays(s) == ~SessionHas(s, "closing") /\ ~SessionHas(s, "draining")
Full(s) == Cardinality(sessions[s].ids) >= Lookahead

\* Mutant: the id is read before it is counted.
Last_id == claim_seq

\* take, then submit, for the job j on the lane l: the next claim id.
Next_id == claim_seq + 1
Submitted(l, j, sid) ==
    /\ claims' = [claims EXCEPT ![j] = [lane |-> l, id |-> Next_id, sid |-> sid, state |-> "running"]]
    /\ jobOf' = [jobOf EXCEPT ![Next_id] = j]
    /\ claim_seq' = Next_id
    /\ attempted' = attempted \cup {j}
    /\ idle' = {}
    /\ waiting' = waiting \ {l}

\* take, then release: the link is dead, the claim goes back.
Bounced(l, j) ==
    /\ attempted' = attempted \ {j}
    /\ idle' = {}
    /\ waiting' = waiting \ {l}
    /\ UNCHANGED <<claims, jobOf>>

FirstDelivered(l, i) == IF PidOf(l) \in Local THEN {i} ELSE {}

PumpDrain(l) ==
    LET s == laneSession[l]
    IN  /\ Visits(l) /\ s # 0
        /\ Stays(s) /\ DrainReason(s)
        /\ Noted(s, {"draining"})
        /\ UNCHANGED <<fleetVars, laneVars, jobOf, claim_seq, results, helpers, claimVars, diskVars,
                       blameVars, scan, phase, todo>>

PumpTopUp(l, j) ==
    LET s == laneSession[l]
    IN  /\ Visits(l) /\ s # 0
        /\ Stays(s) /\ ~DrainReason(s) /\ ~Full(s)
        /\ j \in Claimable(l) /\ RowOf[j] = sessions[s].row
        /\ claim_seq < MaxClaims
        /\ Forgotten(l)
        /\ \/ /\ machines[PidOf(l)] = "up"
              /\ Submitted(l, j, s)
              /\ \E more \in {{}} \cup (IF MayPreempt(l, s) THEN {{"draining"}} ELSE {}) :
                    sessions' = [sessions EXCEPT ![s].ids = @ \cup {Next_id},
                                                 ![s].delivered = @ \cup FirstDelivered(l, Next_id),
                                                 ![s].flags = @ \cup more]
           \/ /\ machines[PidOf(l)] = "cut"
              /\ Bounced(l, j)
              /\ claim_seq' = Next_id
              /\ Noted(s, {"draining"})
        /\ UNCHANGED <<fleetVars, lanes, laneSession, results, helpers, cancelled, missing, written,
                       blameVars, scan, phase, todo>>

\* No (more) claims for this session: one that holds nothing is closed, and
\* ends here when the link is dead.
PumpLeave(l) ==
    LET s == laneSession[l]
        flags == sessions[s].flags
        asks == Stays(s) /\ ~Full(s)
    IN  /\ Visits(l) /\ s # 0
        /\ Stays(s) => ~DrainReason(s)
        /\ \/ asks /\ ClaimsNothing(l)
           \/ (asks => sessions[s].ids # {}) /\ UNCHANGED <<owed, waiting>>
        /\ \/ /\ sessions[s].ids # {} \/ "closing" \in flags
              /\ sessions' \in {sessions} \cup
                     (IF asks /\ MayPreempt(l, s) THEN {[sessions EXCEPT ![s].flags = @ \cup {"draining"}]} ELSE {})
              /\ todo' = todo \ {l}
              /\ UNCHANGED <<lanes, laneSession, idle, jobOf, claim_seq, results, helpers, claimVars, blameVars>>
           \/ /\ sessions[s].ids = {} /\ "closing" \notin flags
              /\ machines[PidOf(l)] = "up"
              /\ Noted(s, {"closing"})
              /\ todo' = todo \ {l}
              /\ UNCHANGED <<lanes, laneSession, idle, jobOf, claim_seq, results, helpers, claimVars, blameVars>>
           \/ /\ sessions[s].ids = {} /\ "closing" \notin flags
              /\ machines[PidOf(l)] = "cut"
              /\ EndSession(s, "fatal" \in flags, "refused" \in flags)
              /\ lanes' = Rebuilt(machines, paused, laneSession')
              /\ todo' = (todo \ {l}) \cap lanes'
        /\ UNCHANGED <<fleetVars, missing, written, scan, phase>>

\* claim and open_session: OpenSession and the first Volume are two sends, and
\* the link may die before either.
PumpOpen(l, j) ==
    LET p == PidOf(l)
        opened == [lane |-> l, row |-> RowOf[j], ids |-> {Next_id},
                   delivered |-> FirstDelivered(l, Next_id), flags |-> {}]
        refused == [lane |-> l, row |-> RowOf[j], ids |-> {}, delivered |-> {}, flags |-> {"draining"}]
    IN  /\ Visits(l) /\ laneSession[l] = 0
        /\ scan = "on" /\ l \notin idle
        /\ j \in Claimable(l)
        /\ claim_seq < MaxClaims
        /\ Forgotten(l)
        /\ \/ /\ machines[p] = "up"
              /\ Submitted(l, j, Next_id)
              /\ sessions' = [sessions EXCEPT ![Next_id] = opened]
              /\ laneSession' = [laneSession EXCEPT ![l] = Next_id]
              /\ UNCHANGED <<machines, blameVars, todo>>
           \/ /\ machines[p] = "up" /\ "cut" \in inputs
              /\ machines' = [machines EXCEPT ![p] = "cut"]
              /\ Bounced(l, j)
              /\ claim_seq' = Next_id
              /\ sessions' = [sessions EXCEPT ![Next_id] = refused]
              /\ laneSession' = [laneSession EXCEPT ![l] = Next_id]
              /\ UNCHANGED <<blameVars, todo>>
           \/ /\ machines[p] = "cut"
              /\ IF p \in Local
                   THEN failed' = failed \cup {j} /\ attempted' = attempted \cup {j} /\ UNCHANGED <<strikes, stopped>>
                   ELSE Strike(LaneKey(l, j)) /\ attempted' = attempted \ {j} /\ UNCHANGED failed
              /\ idle' = {} /\ waiting' = waiting \ {l}
              /\ todo' = todo \ {l}
              /\ UNCHANGED <<machines, claims, jobOf, claim_seq, sessions, laneSession>>
        /\ UNCHANGED <<paused, held, tripped, rows, lanes, results, helpers, cancelled, missing,
                       written, scan, phase>>

\* claim found nothing for a lane without a session.
PumpIdle(l) ==
    /\ Visits(l) /\ laneSession[l] = 0
    /\ scan = "on" /\ l \notin idle
    /\ ClaimsNothing(l)
    /\ idle' = idle \cup {l}
    /\ todo' = todo \ {l}
    /\ UNCHANGED <<fleetVars, lanes, laneSession, sessionVars, claimVars, missing, written, blameVars,
                   scan, phase>>

PumpSkip(l) ==
    /\ Visits(l) /\ laneSession[l] = 0
    /\ scan = "off" \/ l \in idle
    /\ todo' = todo \ {l}
    /\ UNCHANGED <<fleetVars, laneVars, sessionVars, claimVars, diskVars, blameVars, scan, phase>>

\* Mutant: lanes are asked, claims on helper threads are not.
LanesAreDone ==
    /\ scan = "on"
    /\ held \subseteq {"drain"}
    /\ \A l \in lanes : l \notin waiting /\ laneSession[l] = 0 /\ l \in idle

\* maybe_end_scan: nothing in flight, no machine held for a benchmark, and
\* every lane found nothing and waits for nobody.
ScanIsOver ==
    /\ scan = "on"
    /\ ClaimedJobs = {}
    /\ held \subseteq {"drain"}
    /\ \A l \in lanes : l \notin waiting /\ laneSession[l] = 0 /\ l \in idle

PumpEnd ==
    /\ phase = "pump" /\ todo = {}
    /\ phase' = "ready"
    /\ IF ScanIsOver
         THEN scan' = "off" /\ attempted' = {} /\ idle' = {}
         ELSE UNCHANGED <<scan, attempted, idle>>
    /\ UNCHANGED <<fleetVars, lanes, laneSession, waiting, sessionVars, claims, cancelled, diskVars,
                   blameVars, todo>>

-----------------------------------------------------------------------------
(* The specification *)

Init ==
    /\ machines = [p \in Pids |-> "unused"]
    /\ paused = {} /\ held = {} /\ tripped = {}
    /\ rows = [r \in Rows |-> "runnable"]
    /\ lanes = {} /\ laneSession = [l \in Lanes |-> 0] /\ idle = {} /\ waiting = {}
    /\ sessions = [s \in Ids |-> NoSession]
    /\ jobOf = [i \in Ids |-> NoJob]
    /\ claim_seq = 0
    /\ claims = [j \in Jobs |-> NoClaim]
    /\ attempted = {} /\ cancelled = {}
    /\ results = {} /\ helpers = {}
    /\ owed = {} /\ missing = Jobs
    /\ written = [j \in Jobs |-> 0]
    /\ failed = {}
    /\ strikes = [k \in Rows \X Names |-> 0] /\ stopped = {}
    /\ scan = "off" /\ phase = "ready" /\ todo = {}
    /\ inputs \in Inputs

FleetStep ==
    \/ \E P \in SUBSET Pids : Leave(P)
    \/ \E p \in Pids, P \in SUBSET Pids : Register(p, P)
    \/ \E p \in Pids : Connect(p) \/ Cut(p) \/ HoldQueue(p) \/ PreemptForBench(p) \/ BreakerExpires(p)
    \/ \E p \in Pids, pause \in BOOLEAN : SetAvailability(p, pause)
    \/ \E p \in Pids, I \in SUBSET Ids : Released(p, I)
    \/ \E n \in Names : ReleaseQueue(n)
    \/ SetUpdateDrain

EventStep(s) ==
    \/ Ready(s) \/ Fatal(s)
    \/ \E i \in Ids : Delivered(s, i) \/ VolumeStarted(s, i) \/ ResultStored(s, i)

\* The repository's own processor returns a claim before it runs it (its book
\* is full, its archive cannot be fetched), so before its upload; another may
\* return it later.
ReturnsLate == "late returns" \in inputs

ReturnsInTime(s, i) == ReturnsLate \/ [sid |-> s, id |-> i] \notin results

\* What a processor that works, or falls silent, does in the end.
SettleStep(s) ==
    \/ \E clean \in BOOLEAN : Exit(s, clean)
    \/ Wedged(s) \/ Overdue(s)
    \/ \E i \in Ids : (ReturnsInTime(s, i) /\ VolumeReturned(s, i)) \/ VolumeDone(s, i) \/ VolumeFailed(s, i)

HelperStep(h) == Install(h) \/ Collected(h) \/ OwnCopyRead(h)

OperatorStep ==
    \/ \E v \in {VolumeOf[j] : j \in Jobs}, arrived \in BOOLEAN :
          \E stale, found \in SUBSET Jobs : ArchiveChanged(v, arrived, stale, found)
    \/ \E S \in SUBSET Jobs : (S = missing \/ "stale" \in inputs) /\ Walked(S)
    \/ \E newRows \in [Rows -> {"runnable", "disabled", "removed"}], changed \in SUBSET Rows : Apply(newRows, changed)
    \/ \E J \in SUBSET Jobs : RetryFailed(J)
    \/ \E j \in Jobs : FailureExpires(j)
    \/ Tick \/ Stop

PumpStep ==
    \/ \E l \in Lanes : PumpDrain(l) \/ PumpLeave(l) \/ PumpIdle(l) \/ PumpSkip(l)
    \/ \E l \in Lanes, j \in Jobs : PumpTopUp(l, j) \/ PumpOpen(l, j)
    \/ PumpEnd

Next ==
    /\ \/ FleetStep
       \/ \E s \in Ids : EventStep(s) \/ SettleStep(s)
       \/ \E h \in helpers : HelperStep(h)
       \/ OperatorStep
       \/ PumpStep
    /\ UNCHANGED inputs

Spec == Init /\ [][Next]_vars

\* The actor handles its messages in order, so a message that keeps coming is
\* handled in the end.  A processor finishes what it holds or falls silent, and
\* silence is a wedge (SESSION_WEDGE_SECONDS) or an overdue close; a helper
\* thread returns; the pump is a loop of the actor itself.
Fairness ==
    /\ WF_vars(PumpStep /\ UNCHANGED inputs)
    /\ \A s \in Ids : SF_vars(SettleStep(s) /\ UNCHANGED inputs)
    /\ \A j \in Jobs : SF_vars(\E h \in helpers : h.job = j /\ HelperStep(h) /\ UNCHANGED inputs)

FairSpec == Spec /\ Fairness

-----------------------------------------------------------------------------
(* Properties *)

Claim == [lane : Lanes, id : Ids, sid : Ids, state : {"running", "settling"}]
Session == [lane : Lanes, row : Rows, ids : SUBSET Ids, delivered : SUBSET Ids, flags : SUBSET Flags]
Helper == [kind : {"own_copy", "collect", "installed"}, job : Jobs, id : Ids, sid : Ids]

\* Every variable has the shape of the field it stands for.
TypeOK ==
    /\ machines \in [Pids -> {"unused", "registered", "up", "cut", "gone"}]
    /\ paused \subseteq Pids /\ tripped \subseteq Pids
    /\ held \subseteq Names \cup {"drain"}
    /\ rows \in [Rows -> {"runnable", "disabled", "removed"}]
    /\ lanes \subseteq Lanes /\ idle \subseteq Lanes /\ waiting \subseteq Lanes /\ todo \subseteq Lanes
    /\ laneSession \in [Lanes -> Ids \cup {0}]
    /\ sessions \in [Ids -> Session \cup {NoSession}]
    /\ jobOf \in [Ids -> Jobs \cup {NoJob}]
    /\ claim_seq \in 0..MaxClaims
    /\ claims \in [Jobs -> Claim \cup {NoClaim}]
    /\ attempted \subseteq Jobs /\ cancelled \subseteq Jobs
    /\ results \subseteq [sid : Ids, id : Ids]
    /\ helpers \subseteq Helper
    /\ owed \subseteq Jobs /\ missing \subseteq Jobs /\ failed \subseteq Jobs
    /\ written \in [Jobs -> Nat]
    /\ strikes \in [Rows \X Names -> 0..SESSION_CRASH_LIMIT]
    /\ stopped \subseteq Rows \X Names
    /\ scan \in {"on", "off"} /\ phase \in {"ready", "pump", "stopped"}

\* Session and claim agree (pop_job, collect's owned test, drop_processor): a
\* claim a session holds is that job's one claim, by that session and lane.
SessionsOwnTheirClaims ==
    \A s \in LiveSids : \A i \in sessions[s].ids :
        jobOf[i] \in Jobs /\ claims[jobOf[i]] = [lane |-> sessions[s].lane, id |-> i, sid |-> s, state |-> "running"]

\* No claim is orphaned: nothing but its session or its helper ever settles a
\* claim, so one held by neither would keep its volume from every machine, and
\* the scan from ending, until a restart.
NoOrphanClaim ==
    \A j \in ClaimedJobs :
        LET c == claims[j]
        IN  IF c.state = "running"
              THEN Live(c.sid) /\ c.id \in sessions[c.sid].ids
              ELSE \E h \in helpers : h.job = j /\ h.id = c.id

\* A helper thread works for the claim that started it, and no two work for
\* one volume: drop_processor and cancel_stale_jobs leave settling claims alone.
HelpersOwnTheirClaims ==
    /\ \A h \in helpers : Settling(h.job) /\ claims[h.job].id = h.id /\ claims[h.job].sid = h.sid
    /\ \A h, k \in helpers : h.job = k.job => h = k

\* A lane and its session name each other, and only lanes there are have one.
LaneSessionsAgree ==
    /\ \A l \in Lanes : laneSession[l] # 0 => l \in lanes /\ Live(laneSession[l]) /\ sessions[laneSession[l]].lane = l
    /\ \A s \in LiveSids : laneSession[sessions[s].lane] = s

\* An uploaded result waits for a claim that is still out: in_flight counts
\* them, so one left behind puts off the automatic update.  Only a return that
\* comes after the upload leaves one (volume_returned does not drop_result).
ResultsAreAwaited ==
    ReturnsLate \/ \A r \in results : Live(r.sid) /\ r.id \in sessions[r.sid].ids

\* A cancellation mark never outlives the handler that made it: a mark left
\* behind would swallow the next real failure of that volume.
NoCancelLeftBehind == cancelled = {}

\* Both: what a claim leaves in the scheduler's tables goes with the claim,
\* however it ends.
NothingLeftBehind == ResultsAreAwaited /\ NoCancelLeftBehind

\* A scan that is over has nothing in flight and nothing tried (maybe_end_scan
\* is the only way out of a scan).
ScanOffIsQuiet == scan = "off" => ClaimedJobs = {} /\ LiveSids = {} /\ attempted = {}

\* One archive gets one sidecar: however claims are lost, returned, retried and
\* answered late, no second result is installed beside the first.
WrittenOnce == \A j \in Jobs : written[j] <= 1

\* The parts together: who owns a job is never in doubt.
Ownership ==
    /\ SessionsOwnTheirClaims
    /\ NoOrphanClaim
    /\ HelpersOwnTheirClaims
    /\ LaneSessionsAgree

\* What a new failure record of j must rest on.
FailureIsEarned(j) ==
    LET c == claims[j]
        p == PidOf(c.lane)
    IN  IF IsClaimed(j)
          THEN /\ machines'[p] \in {"registered", "up", "cut"}
               /\ c.state = "running" /\ sessions'[c.sid] = NoSession =>
                     p \notin paused /\ c.id = Oldest(c.sid) /\ c.id \in sessions[c.sid].delivered
          ELSE \E q \in Local : machines[q] = "cut"

NewFailuresEarned == \A j \in failed' \ failed : FailureIsEarned(j)

\* A volume is failed only by a claim on it whose processor is still there
\* after the step; and when it is a session's end that fails it, the processor
\* was not paused and the volume was the oldest, with its archive delivered.  A
\* disconnect, a pause, a cancellation or a shutdown is nobody's failure.  (The
\* exception is this server's own processor that could not be asked to open.)
FailuresAreEarned == [][NewFailuresEarned]_vars

\* Every claim is settled in the end, however its processor, link, session and
\* helper fare: again and again (an id is used once, so for good) it is not out.
Outstanding(i) == \E j \in ClaimedJobs : claims[j].id = i
ClaimsSettle == \A i \in Ids : []<>~Outstanding(i)

\* set_update_drain: whenever a drain is on, it is called off, or a moment comes
\* with no claim left and no result either, unless a claim was returned after its
\* upload; then in_flight has nothing to say and the automatic update comes.
Drained == ClaimedJobs = {} /\ (results = {} \/ ReturnsLate)
DrainEnds == []<>("drain" \notin held \/ Drained)

===============================================================================
