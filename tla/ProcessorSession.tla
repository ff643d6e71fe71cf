--------------------------- MODULE ProcessorSession ---------------------------
(***************************************************************************)
(* A processor's side of the link (crates/bunko-processor/src/session.rs): *)
(* the hub that takes the library's ops, the feeder, runner and reporter   *)
(* of every session, the owner's pause, and the drain of an automatic      *)
(* update (remote.rs, run_connection).                                     *)
(*                                                                         *)
(* Threads and tasks interleave between the places where the code takes a  *)
(* lock or awaits: the connection task handles one op at a time, and       *)
(* drains and ends the drain; the pause watcher applies the owner's pause; *)
(* per session there are one feeder, a few workers and one reporter.       *)
(* `heard` is what went out to the library about each claim.  Progress     *)
(* events (pages, stats, download progress) and the times in the events    *)
(* are left out.                                                           *)
(***************************************************************************)
EXTENDS Integers, Sequences, FiniteSets, Functions

CONSTANTS
    Sids,            \* sessions the library may open, each id once
    Claims,          \* claims the library may send, each id once
    SidOf,           \* the session each claim is sent to
    Bids,            \* benchmarks
    Workers,         \* workers of one runner
    Scenes,          \* what one behaviour may meet (see Scene)
    None             \* no claim

\* The claims and benchmarks sent, the workers of a runner (at least one: run calls work
\* itself), MAX_OUTSTANDING_VOLUMES, the
\* pauses the owner asks for, whether the owner lifts one, whether an automatic update comes
\* and whether the OCR backend is being installed.
Scene == [claims : SUBSET Claims, bids : SUBSET Bids, workers : (SUBSET Workers) \ {{}}, room : Nat \ {0},
          modes : SUBSET {"after", "now"}, resumes : BOOLEAN, updates : BOOLEAN, installs : BOOLEAN]

ASSUME ConstantsAssumption ==
    /\ SidOf \in [Claims -> Sids] /\ Sids \cap Bids = {}
    /\ Scenes \subseteq Scene /\ None \notin Claims

VARIABLES
    scene,            \* what this behaviour meets, fixed from the start
    owner, unseen,    \* PauseCtl's state, and that the watcher has not read its last change
    watcher,          \* the pause watcher: where it is, and the mode it read
    paused,           \* the pause in force, as last applied
    installing,       \* the OCR backend is being installed
    apply,            \* apply_pause in progress; it holds the lock `paused`
    draining, conn,   \* the update's drain, and where the connection task is
    leaving,          \* nothing more is said
    ses,              \* session -> its tokens and its intake
    outstanding, seen, started, released, cancels, cut,   \* the books
    queue, feeder,    \* session -> claims to fetch, and its feeder
    jobs, fed,        \* session -> the runner's queue, and every claim handed over, in order
    runner, fatal, worker,
    msgs, pending, nextSeq, reporter,
    bench,            \* benchmark -> where it is
    heard,            \* claim -> the events said of it, in order
    ends,             \* session -> claims, in the order of their volume_done / volume_failed
    exits             \* session or benchmark -> how many exits were said

hubVars == <<owner, unseen, watcher, paused, installing, apply, draining, conn, leaving>>
bookVars == <<outstanding, seen, started, released, cancels, cut>>
feedVars == <<queue, feeder>>
runVars == <<jobs, fed, runner, fatal, worker>>
repVars == <<msgs, pending, nextSeq, reporter>>
saidVars == <<heard, ends, exits>>
vars == <<scene, hubVars, ses, bookVars, feedVars, runVars, repVars, bench, saidVars>>

Modes == {"no", "after", "now"}
IdleApply == [at |-> "free", by |-> "watcher", now |-> FALSE, left |-> {}, all |-> {}, given |-> {}]
IdleWatcher == [at |-> "idle", mode |-> "no"]
Fresh == [state |-> "none", quiet |-> FALSE, stopping |-> FALSE, abandon |-> FALSE, intake |-> FALSE]
Terminal == [claim : Claims, seq : Nat \ {0}, result : {"ok", "failed", "cancelled"}, started : BOOLEAN,
             released : BOOLEAN]
NoTerminal == [claim |-> None, seq |-> 0, result |-> "cancelled", started |-> FALSE, released |-> FALSE]
IdleWorker == [at |-> "idle", claim |-> None, fatal |-> FALSE, started |-> FALSE]

TypeOK ==
    /\ scene \in Scenes
    /\ owner \in Modes /\ unseen \in BOOLEAN /\ paused \in Modes /\ installing \in BOOLEAN
    /\ watcher \in [at : {"idle", "read", "apply", "busy", "ended"}, mode : Modes]
    /\ apply \in [at : {"free", "release", "abandon"}, by : {"watcher", "connection"}, now : BOOLEAN,
                  left : SUBSET Sids, all : SUBSET Sids, given : SUBSET Claims]
    /\ draining \in BOOLEAN /\ leaving \in BOOLEAN
    /\ conn \in [at : {"serving", "drained", "drain", "busy", "waiting", "book", "finishing",
                       "updating", "ended", "end", "left"},
                 mode : Modes, sid : Sids \cup {None}, left : SUBSET Sids]
    /\ ses \in [Sids -> [state : {"none", "open", "gone"}, quiet : BOOLEAN, stopping : BOOLEAN,
                         abandon : BOOLEAN, intake : BOOLEAN]]
    /\ \A b \in {outstanding, seen, started, released, cancels, cut} : b \subseteq Claims
    /\ queue \in [Sids -> Seq(Claims)] /\ jobs \in [Sids -> Seq(Claims)] /\ fed \in [Sids -> Seq(Claims)]
    /\ feeder \in [Sids -> [at : {"idle", "checked", "fetching", "fetched", "handing", "fault",
                                  "drop", "return", "settled"},
                            claim : Claims \cup {None}]]
    /\ runner \in [Sids -> {"none", "loading", "working", "unloaded", "done"}]
    /\ fatal \in [Sids -> BOOLEAN]
    /\ worker \in [Sids -> [Workers -> [at : {"idle", "took", "marked", "running", "ended"},
                                        claim : Claims \cup {None}, fatal : BOOLEAN, started : BOOLEAN]]]
    /\ msgs \in [Sids -> Seq([kind : {"ready", "started"}, claim : Claims]
                             \cup [kind : {"terminal"}, term : Terminal]
                             \cup [kind : {"exit"}])]
    /\ pending \in [Sids -> SUBSET Terminal] /\ nextSeq \in [Sids -> Nat]
    /\ reporter \in [Sids -> [at : {"idle", "drain", "counted", "delivering", "telling", "exiting", "gone"},
                              term : Terminal \cup {NoTerminal}]]
    /\ bench \in [Bids -> {"none", "waiting", "running", "cancelled", "exited", "gone"}]
    /\ heard \in [Claims -> Seq({"ready", "started", "done", "failed", "returned", "released"})]
    /\ ends \in [Sids -> Seq(Claims)] /\ exits \in [Sids \cup Bids -> Nat]

Init ==
    /\ scene \in Scenes
    /\ owner = "no" /\ unseen = FALSE /\ paused = "no" /\ installing = FALSE
    /\ watcher = IdleWatcher
    /\ apply = IdleApply
    /\ draining = FALSE /\ leaving = FALSE
    /\ conn = [at |-> "serving", mode |-> "no", sid |-> None, left |-> {}]
    /\ ses = [s \in Sids |-> Fresh]
    /\ outstanding = {} /\ seen = {} /\ started = {} /\ released = {} /\ cancels = {} /\ cut = {}
    /\ queue = [s \in Sids |-> <<>>]
    /\ feeder = [s \in Sids |-> [at |-> "idle", claim |-> None]]
    /\ jobs = [s \in Sids |-> <<>>] /\ fed = [s \in Sids |-> <<>>]
    /\ runner = [s \in Sids |-> "none"] /\ fatal = [s \in Sids |-> FALSE]
    /\ worker = [s \in Sids |-> [w \in Workers |-> IdleWorker]]
    /\ msgs = [s \in Sids |-> <<>>] /\ pending = [s \in Sids |-> {}]
    /\ nextSeq = [s \in Sids |-> 1]
    /\ reporter = [s \in Sids |-> [at |-> "idle", term |-> NoTerminal]]
    /\ bench = [b \in Bids |-> "none"]
    /\ heard = [c \in Claims |-> <<>>]
    /\ ends = [s \in Sids |-> <<>>] /\ exits = [i \in Sids \cup Bids |-> 0]

-----------------------------------------------------------------------------
(* What is said.                                                           *)

Talking(s) == ~leaving /\ ~ses[s].quiet

\* Session::say of an event about a claim.
Say(c, e) ==
    heard' = IF Talking(SidOf[c]) THEN [heard EXCEPT ![c] = Append(@, e)] ELSE heard

\* Hub::say of `released`.
SayReleased(cs) ==
    heard' = IF leaving THEN heard
             ELSE [c \in Claims |-> IF c \in cs THEN Append(heard[c], "released") ELSE heard[c]]

SayExit(i) == exits' = IF leaving THEN exits ELSE [exits EXCEPT ![i] = @ + 1]

\* Session::settle: the claim leaves every book but `seen`.
Settle(c) ==
    /\ outstanding' = outstanding \ {c}
    /\ started' = started \ {c}
    /\ released' = released \ {c}
    /\ cancels' = cancels \ {c}
    /\ UNCHANGED <<seen, cut>>

OpenSids == {s \in Sids : ses[s].state = "open"}
Stopped(r) == [r EXCEPT !.stopping = TRUE, !.intake = FALSE]
Abandoned(r) == [r EXCEPT !.quiet = TRUE, !.stopping = TRUE, !.abandon = TRUE, !.intake = FALSE]

-----------------------------------------------------------------------------
(* The owner, the watcher and apply_pause.                                 *)

\* Mutant: a change while the watcher is busy is not noticed.
OwnerUnnoticed(mode) ==
    /\ mode # owner
    /\ owner' = mode /\ unseen' = (watcher.at = "idle")
    /\ UNCHANGED <<installing, watcher, paused, apply, draining, conn, leaving, ses, bookVars, feedVars, runVars,
                   repVars, bench, saidVars>>

Owner(mode) ==
    /\ mode # owner
    /\ owner' = mode /\ unseen' = TRUE
    /\ UNCHANGED <<installing, watcher, paused, apply, draining, conn, leaving, ses, bookVars, feedVars, runVars,
                   repVars, bench, saidVars>>

\* PauseCtl::pause: `now` stays `now` once taken.
OwnerPauses(mode) == mode \in scene.modes /\ owner # "now" /\ Owner(mode)
OwnerResumes == scene.resumes /\ Owner("no")

WatcherReads ==
    /\ watcher.at = "idle" /\ unseen
    /\ unseen' = FALSE
    /\ watcher' = [at |-> "read", mode |-> owner]
    /\ UNCHANGED <<installing, owner, paused, apply, draining, conn, leaving, ses, bookVars, feedVars, runVars,
                   repVars, bench, saidVars>>

\* The drain stays, unless the owner says `now`.
WatcherTests ==
    /\ watcher.at = "read"
    /\ watcher' = IF leaving THEN [IdleWatcher EXCEPT !.at = "ended"]
                  ELSE IF draining /\ watcher.mode # "now" THEN IdleWatcher
                  ELSE [watcher EXCEPT !.at = "apply"]
    /\ UNCHANGED <<installing, owner, unseen, paused, apply, draining, conn, leaving, ses, bookVars, feedVars,
                   runVars, repVars, bench, saidVars>>

\* apply_pause: the lock, the pause, the announcement, the early returns.
Applies(by, mode) ==
    /\ apply.at = "free"
    /\ paused' = mode
    /\ apply' = IF mode = "no" \/ paused = "now" \/ (paused = "after" /\ mode = "after")
                THEN apply
                ELSE [at |-> "release", by |-> by, now |-> mode = "now", left |-> OpenSids,
                      all |-> OpenSids, given |-> {}]

ReturnTo(by) ==
    IF by = "watcher"
    THEN watcher' = IdleWatcher /\ UNCHANGED conn
    ELSE /\ conn' = [conn EXCEPT !.at = IF draining THEN "waiting" ELSE "serving"]
         /\ UNCHANGED watcher

WatcherApplies ==
    /\ watcher.at = "apply"
    /\ Applies("watcher", watcher.mode)
    /\ watcher' = IF apply' = apply THEN IdleWatcher ELSE [IdleWatcher EXCEPT !.at = "busy"]
    /\ UNCHANGED <<installing, owner, unseen, draining, conn, leaving, ses, bookVars, feedVars, runVars, repVars,
                   bench, saidVars>>

\* Session::release, under its book's lock.
ReleasedBy(s, now) ==
    {c \in outstanding : SidOf[c] = s /\ (now \/ c \notin started) /\ c \notin released}

\* Mutant: a pause after the volume forgets which claims it gave back.
ReleaseUnmarked(s) ==
    /\ apply.at = "release" /\ s \in apply.left
    /\ apply' = [apply EXCEPT !.left = @ \ {s}, !.given = @ \cup ReleasedBy(s, apply.now)]
    /\ cut' = cut \cup (ReleasedBy(s, apply.now) \cap cancels)
    /\ UNCHANGED <<installing, owner, unseen, watcher, paused, draining, conn, leaving, ses, outstanding, seen,
                   started, released, cancels, feedVars, runVars, repVars, bench, saidVars>>

\* One session's claims go back; their downloads are cut.
Release(s) ==
    /\ apply.at = "release" /\ s \in apply.left
    /\ apply' = [apply EXCEPT !.left = @ \ {s}, !.given = @ \cup ReleasedBy(s, apply.now)]
    /\ released' = released \cup ReleasedBy(s, apply.now)
    /\ cut' = cut \cup (ReleasedBy(s, apply.now) \cap cancels)
    /\ UNCHANGED <<installing, owner, unseen, watcher, paused, draining, conn, leaving, ses, outstanding, seen,
                   started, cancels, feedVars, runVars, repVars, bench, saidVars>>

\* `released` is said; after the volume that is all.
TellReleased ==
    /\ apply.at = "release" /\ apply.left = {}
    /\ SayReleased(apply.given)
    /\ IF apply.now
       THEN /\ apply' = [apply EXCEPT !.at = "abandon", !.left = apply.all]
            /\ UNCHANGED <<watcher, conn>>
       ELSE /\ apply' = IdleApply
            /\ ReturnTo(apply.by)
    /\ UNCHANGED <<installing, owner, unseen, paused, draining, leaving, ses, bookVars, feedVars, runVars, repVars,
                   bench, ends, exits>>

AbandonOne(s) ==
    /\ apply.at = "abandon" /\ s \in apply.left
    /\ apply' = [apply EXCEPT !.left = @ \ {s}]
    /\ ses' = [ses EXCEPT ![s] = Abandoned(@)]
    /\ UNCHANGED <<installing, owner, unseen, watcher, paused, draining, conn, leaving, bookVars, feedVars, runVars,
                   repVars, bench, saidVars>>

CancelBenches ==
    /\ apply.at = "abandon" /\ apply.left = {}
    /\ bench' = [b \in Bids |-> IF bench[b] \in {"waiting", "running"} THEN "cancelled" ELSE bench[b]]
    /\ apply' = IdleApply
    /\ ReturnTo(apply.by)
    /\ UNCHANGED <<installing, owner, unseen, paused, draining, leaving, ses, bookVars, feedVars, runVars, repVars,
                   saidVars>>

InstallChanges ==
    /\ scene.installs
    /\ installing' = ~installing
    /\ UNCHANGED <<owner, unseen, watcher, paused, apply, draining, conn, leaving, ses, bookVars, feedVars,
                   runVars, repVars, bench, saidVars>>

-----------------------------------------------------------------------------
(* The connection task: one op, or one step of the update, at a time.      *)

Serving == conn.at \in {"serving", "waiting", "updating"} /\ apply.at = "free"

\* Work offered while paused or installing goes straight back.
Refusing == paused # "no" \/ installing

OpenSession(s) ==
    /\ Serving /\ ~leaving /\ ses[s].state = "none"
    /\ IF Refusing
       THEN /\ SayExit(s)
            /\ ses' = [ses EXCEPT ![s].state = "gone"]
            /\ UNCHANGED runner
       ELSE /\ ses' = [ses EXCEPT ![s].state = "open", ![s].intake = TRUE]
            /\ runner' = [runner EXCEPT ![s] = "loading"]
            /\ UNCHANGED exits
    /\ UNCHANGED <<hubVars, bookVars, feedVars, jobs, fed, fatal, worker, repVars, bench, heard, ends>>

\* A volume op: given back while paused, else offered to its session.
Volume(c) ==
    LET s == SidOf[c]
    IN /\ Serving /\ c \in scene.claims \ seen /\ ses[s].state # "none"
       /\ seen' = seen \cup {c}
       /\ \/ /\ Refusing
             /\ SayReleased({c})
             /\ UNCHANGED <<outstanding, queue>>
          \/ /\ ~Refusing /\ (ses[s].state = "gone" \/ ses[s].stopping \/ ~ses[s].intake)
             /\ UNCHANGED <<outstanding, queue, heard>>
          \/ /\ ~Refusing /\ ses[s].state = "open" /\ ~ses[s].stopping /\ ses[s].intake
             /\ IF Cardinality({d \in outstanding : SidOf[d] = s}) >= scene.room
                THEN Say(c, "returned") /\ UNCHANGED <<outstanding, queue>>
                ELSE /\ outstanding' = outstanding \cup {c}
                     /\ queue' = [queue EXCEPT ![s] = Append(@, c)]
                     /\ UNCHANGED heard
       /\ UNCHANGED <<hubVars, ses, started, released, cancels, cut, feeder, runVars, repVars, bench,
                      ends, exits>>

\* Mutant: a close that leaves the runner's queue open.
CloseLeavesIntake(s) ==
    /\ Serving /\ ses[s].state = "open"
    /\ ses' = [ses EXCEPT ![s].stopping = TRUE]
    /\ UNCHANGED <<hubVars, bookVars, feedVars, runVars, repVars, bench, saidVars>>

CloseSession(s) ==
    /\ Serving /\ ses[s].state = "open"
    /\ ses' = [ses EXCEPT ![s] = Stopped(@)]
    /\ UNCHANGED <<hubVars, bookVars, feedVars, runVars, repVars, bench, saidVars>>

CancelSession(s) ==
    /\ Serving /\ ses[s].state = "open"
    /\ ses' = [ses EXCEPT ![s] = Abandoned(@)]
    /\ UNCHANGED <<hubVars, bookVars, feedVars, runVars, repVars, bench, saidVars>>

\* A bench op: refused while paused, else it waits for the sessions to end (or 60 s).
Bench(b) ==
    /\ Serving /\ ~leaving /\ b \in scene.bids /\ bench[b] = "none"
    /\ IF Refusing
       THEN bench' = [bench EXCEPT ![b] = "gone"] /\ SayExit(b)
       ELSE bench' = [bench EXCEPT ![b] = "waiting"] /\ UNCHANGED exits
    /\ UNCHANGED <<hubVars, ses, bookVars, feedVars, runVars, repVars, heard, ends>>

CancelBench(b) ==
    /\ Serving /\ bench[b] \in {"waiting", "running"}
    /\ bench' = [bench EXCEPT ![b] = "cancelled"]
    /\ UNCHANGED <<hubVars, ses, bookVars, feedVars, runVars, repVars, saidVars>>

BenchRuns(b) ==
    /\ bench[b] = "waiting"
    /\ bench' = [bench EXCEPT ![b] = "running"]
    /\ UNCHANGED <<hubVars, ses, bookVars, feedVars, runVars, repVars, saidVars>>

BenchExits(b) ==
    /\ bench[b] \in {"waiting", "running", "cancelled"}
    /\ bench' = [bench EXCEPT ![b] = "exited"]
    /\ SayExit(b)
    /\ UNCHANGED <<hubVars, ses, bookVars, feedVars, runVars, repVars, heard, ends>>

BenchGone(b) ==
    /\ bench[b] = "exited"
    /\ bench' = [bench EXCEPT ![b] = "gone"]
    /\ UNCHANGED <<hubVars, ses, bookVars, feedVars, runVars, repVars, saidVars>>

-----------------------------------------------------------------------------
(* The update: drain, wait, install, and back if it fails.                 *)

At(at) == conn' = [conn EXCEPT !.at = at]
ConnOnly == UNCHANGED <<installing, owner, unseen, watcher, paused, apply, leaving, ses, bookVars, feedVars, runVars,
                        repVars, bench, saidVars>>

DrainForUpdate ==
    /\ scene.updates /\ conn.at = "serving"
    /\ draining' = TRUE
    /\ At("drained")
    /\ ConnOnly

\* An owner's `now` already in force stays as it is.
DrainTests ==
    /\ conn.at = "drained" /\ apply.at = "free"
    /\ At(IF paused # "now" THEN "drain" ELSE "waiting")
    /\ ConnOnly /\ UNCHANGED draining

DrainApplies ==
    /\ conn.at = "drain"
    /\ Applies("connection", "after")
    /\ At(IF apply' = apply THEN "waiting" ELSE "busy")
    /\ UNCHANGED <<installing, owner, unseen, watcher, draining, leaving, ses, bookVars, feedVars, runVars, repVars,
                   bench, saidVars>>

\* Hub::in_flight: each session's book, then its finishing count; then the benchmarks.
CountStarts ==
    /\ conn.at = "waiting"
    /\ conn' = [conn EXCEPT !.at = "book", !.left = OpenSids]
    /\ ConnOnly /\ UNCHANGED draining

\* Mutant: the volumes past the runner are not counted.
CountBookOnly(s) ==
    /\ conn.at = "book" /\ s \in conn.left
    /\ conn' = IF \E c \in outstanding \ released : SidOf[c] = s
               THEN [conn EXCEPT !.at = "waiting", !.left = {}]
               ELSE [conn EXCEPT !.left = @ \ {s}]
    /\ ConnOnly /\ UNCHANGED draining

CountBook(s) ==
    /\ conn.at = "book" /\ s \in conn.left
    /\ conn' = IF \E c \in outstanding \ released : SidOf[c] = s
               THEN [conn EXCEPT !.at = "waiting", !.left = {}]
               ELSE [conn EXCEPT !.at = "finishing", !.sid = s, !.left = @ \ {s}]
    /\ ConnOnly /\ UNCHANGED draining

Finishing(s) == reporter[s].at \in {"counted", "delivering", "telling"}

CountFinishing ==
    /\ conn.at = "finishing"
    /\ conn' = [conn EXCEPT !.at = IF Finishing(conn.sid) THEN "waiting" ELSE "book", !.sid = None,
                            !.left = IF Finishing(conn.sid) THEN {} ELSE @]
    /\ ConnOnly /\ UNCHANGED draining

CountEnds ==
    /\ conn.at = "book" /\ conn.left = {}
    /\ At(IF \E b \in Bids : bench[b] \in {"waiting", "running", "cancelled", "exited"}
          THEN "waiting" ELSE "updating")
    /\ ConnOnly /\ UNCHANGED draining

\* The update failed: end_drain clears the flag, reads the owner's pause, applies it.
InstallFails ==
    /\ conn.at = "updating"
    /\ draining' = FALSE
    /\ At("ended")
    /\ ConnOnly

EndDrainReads ==
    /\ conn.at = "ended"
    /\ conn' = [conn EXCEPT !.at = "end", !.mode = owner]
    /\ ConnOnly /\ UNCHANGED draining

EndDrainApplies ==
    /\ conn.at = "end"
    /\ Applies("connection", conn.mode)
    /\ conn' = [conn EXCEPT !.mode = "no", !.at = IF apply' = apply THEN "serving" ELSE "busy"]
    /\ UNCHANGED <<installing, owner, unseen, watcher, draining, leaving, ses, bookVars, feedVars, runVars, repVars,
                   bench, saidVars>>

\* The connection ends (lost, closed, updated): silence first, then everything stops.
Leave ==
    /\ conn.at \in {"serving", "waiting", "updating"}
    /\ leaving' = TRUE
    /\ At("left")
    /\ ses' = [s \in Sids |-> IF ses[s].state = "open" THEN Abandoned(ses[s]) ELSE ses[s]]
    /\ bench' = [b \in Bids |-> IF bench[b] \in {"waiting", "running"} THEN "cancelled" ELSE bench[b]]
    /\ UNCHANGED <<installing, owner, unseen, watcher, paused, apply, draining, bookVars, feedVars, runVars, repVars,
                   saidVars>>

-----------------------------------------------------------------------------
(* The feeder of session s: one claim at a time, in the order they came.   *)

FeederAt(s, at, c) == feeder' = [feeder EXCEPT ![s] = [at |-> at, claim |-> c]]

FeedTake(s) ==
    /\ feeder[s].at = "idle" /\ queue[s] # <<>>
    /\ queue' = [queue EXCEPT ![s] = Tail(@)]
    /\ IF ses[s].stopping \/ Head(queue[s]) \in released
       THEN Settle(Head(queue[s])) /\ UNCHANGED feeder
       ELSE FeederAt(s, "checked", Head(queue[s])) /\ UNCHANGED bookVars
    /\ UNCHANGED <<hubVars, ses, runVars, repVars, bench, saidVars>>

FetchStarts(s) ==
    /\ feeder[s].at = "checked"
    /\ cancels' = cancels \cup {feeder[s].claim}
    /\ FeederAt(s, "fetching", feeder[s].claim)
    /\ UNCHANGED <<hubVars, ses, outstanding, seen, started, released, cut, queue, runVars, repVars, bench,
                   saidVars>>

\* The archive is there and so is its workspace, or the claim goes back.
FetchEnds(s, at) ==
    /\ feeder[s].at = "fetching" /\ at \in {"fetched", "fault"}
    /\ FeederAt(s, at, feeder[s].claim)
    /\ UNCHANGED <<hubVars, ses, bookVars, queue, runVars, repVars, bench, saidVars>>

FetchCancelled(s) ==
    /\ feeder[s].at = "fetching" /\ (ses[s].stopping \/ feeder[s].claim \in cut)
    /\ Settle(feeder[s].claim)
    /\ FeederAt(s, "idle", None)
    /\ UNCHANGED <<hubVars, ses, queue, runVars, repVars, bench, saidVars>>

\* The library refused the account: silence, and the connection ends.
FetchLost(s) ==
    /\ feeder[s].at = "fetching"
    /\ Settle(feeder[s].claim)
    /\ FeederAt(s, "idle", None)
    /\ leaving' = TRUE
    /\ UNCHANGED <<installing, owner, unseen, watcher, paused, apply, draining, conn, ses, queue, runVars, repVars,
                   bench, saidVars>>

\* give_back reads `released`, settles, and speaks unless the session is ending.
GiveBackReads(s) ==
    /\ feeder[s].at = "fault"
    /\ FeederAt(s, IF feeder[s].claim \in released THEN "drop" ELSE "return", feeder[s].claim)
    /\ UNCHANGED <<hubVars, ses, bookVars, queue, runVars, repVars, bench, saidVars>>

\* Mutant: a returned claim keeps its slot.
GiveBackKeepsSlot(s) ==
    /\ feeder[s].at \in {"drop", "return"}
    /\ IF feeder[s].at = "drop" THEN FeederAt(s, "idle", None)
                                ELSE FeederAt(s, "settled", feeder[s].claim)
    /\ UNCHANGED <<hubVars, ses, bookVars, queue, runVars, repVars, bench, saidVars>>

GiveBackSettles(s) ==
    /\ feeder[s].at \in {"drop", "return"}
    /\ Settle(feeder[s].claim)
    /\ IF feeder[s].at = "drop" THEN FeederAt(s, "idle", None)
                                ELSE FeederAt(s, "settled", feeder[s].claim)
    /\ UNCHANGED <<hubVars, ses, queue, runVars, repVars, bench, saidVars>>

GiveBackSays(s) ==
    /\ feeder[s].at = "settled"
    /\ IF ses[s].stopping THEN UNCHANGED heard ELSE Say(feeder[s].claim, "returned")
    /\ FeederAt(s, "idle", None)
    /\ UNCHANGED <<hubVars, ses, bookVars, queue, runVars, repVars, bench, ends, exits>>

HandOverTests(s) ==
    /\ feeder[s].at = "fetched"
    /\ IF feeder[s].claim \in released
       THEN Settle(feeder[s].claim) /\ FeederAt(s, "idle", None)
       ELSE FeederAt(s, "handing", feeder[s].claim) /\ UNCHANGED bookVars
    /\ UNCHANGED <<hubVars, ses, queue, runVars, repVars, bench, saidVars>>

\* Under the intake's lock: `fetch ready` to the reporter, then the job.
HandOver(s) ==
    LET c == feeder[s].claim
    IN /\ feeder[s].at = "handing"
       /\ FeederAt(s, "idle", None)
       /\ IF ses[s].stopping \/ ~ses[s].intake
          THEN Settle(c) /\ UNCHANGED <<jobs, fed, msgs>>
          ELSE /\ jobs' = [jobs EXCEPT ![s] = Append(@, c)]
               /\ fed' = [fed EXCEPT ![s] = Append(@, c)]
               /\ msgs' = [msgs EXCEPT ![s] = Append(@, [kind |-> "ready", claim |-> c])]
               /\ UNCHANGED bookVars
       /\ UNCHANGED <<hubVars, ses, queue, runner, fatal, worker, pending, nextSeq, reporter, bench,
                      saidVars>>

-----------------------------------------------------------------------------
(* The runner of session s and its workers.                                *)

Report(s, m) == msgs' = [msgs EXCEPT ![s] = Append(@, m)]
ExitMsg == [kind |-> "exit"]

\* The models would not load, or the session was abandoned meanwhile: nobody is blamed.
RunnerStops(s) ==
    /\ runner[s] = "loading"
    /\ runner' = [runner EXCEPT ![s] = "unloaded"]
    /\ \/ ses' = [ses EXCEPT ![s] = Stopped(@)]
       \/ ses[s].abandon /\ ses' = [ses EXCEPT ![s].intake = FALSE]
    /\ jobs' = [jobs EXCEPT ![s] = <<>>]
    /\ Report(s, ExitMsg)
    /\ UNCHANGED <<hubVars, bookVars, feedVars, fed, fatal, worker, pending, nextSeq, reporter, bench,
                   saidVars>>

RunnerReady(s) ==
    /\ runner[s] = "loading" /\ ~ses[s].abandon
    /\ runner' = [runner EXCEPT ![s] = "working"]
    /\ UNCHANGED <<hubVars, ses, bookVars, feedVars, jobs, fed, fatal, worker, repVars, bench, saidVars>>

RunCancelled(s) == ses[s].abandon \/ fatal[s]

WorkerAt(s, w, r) == worker' = [worker EXCEPT ![s][w] = r]
SeqOf(s, c) == CHOOSE i \in DOMAIN fed[s] : fed[s][i] = c

TerminalMsg(s, c, result, begun, back) ==
    [kind |-> "terminal", term |-> [claim |-> c, seq |-> SeqOf(s, c), result |-> result,
                                    started |-> begun, released |-> back]]

WorkerTakes(s, w) ==
    /\ runner[s] = "working" /\ worker[s][w].at = "idle" /\ jobs[s] # <<>>
    /\ jobs' = [jobs EXCEPT ![s] = Tail(@)]
    /\ WorkerAt(s, w, [at |-> "took", claim |-> Head(jobs[s]), fatal |-> fatal[s], started |-> FALSE])
    /\ UNCHANGED <<hubVars, ses, bookVars, feedVars, fed, runner, fatal, repVars, bench, saidVars>>

\* Under the book's lock: given back already, or started.
WorkerMarks(s, w) ==
    LET c == worker[s][w].claim
    IN /\ worker[s][w].at = "took"
       /\ IF c \in released
          THEN /\ Report(s, TerminalMsg(s, c, "cancelled", FALSE, TRUE))
               /\ WorkerAt(s, w, IdleWorker)
               /\ UNCHANGED started
          ELSE /\ started' = started \cup {c}
               /\ WorkerAt(s, w, [worker[s][w] EXCEPT !.at = "marked"])
               /\ UNCHANGED msgs
       /\ UNCHANGED <<hubVars, ses, outstanding, seen, released, cancels, cut, feedVars, jobs, fed, runner,
                      fatal, pending, nextSeq, reporter, bench, saidVars>>

\* Accepted but never run: failed with the session's error, or cancelled with it.
WorkerBegins(s, w) ==
    LET c == worker[s][w].claim
    IN /\ worker[s][w].at = "marked"
       /\ IF worker[s][w].fatal \/ RunCancelled(s)
          THEN /\ Report(s, TerminalMsg(s, c, IF worker[s][w].fatal THEN "failed" ELSE "cancelled",
                                        FALSE, FALSE))
               /\ WorkerAt(s, w, IdleWorker)
          ELSE /\ WorkerAt(s, w, [worker[s][w] EXCEPT !.at = "running"])
               /\ UNCHANGED msgs
       /\ UNCHANGED <<hubVars, ses, bookVars, feedVars, jobs, fed, runner, fatal, pending, nextSeq,
                      reporter, bench, saidVars>>

WorkerProgress(s, w) ==
    /\ worker[s][w].at = "running" /\ ~worker[s][w].started
    /\ WorkerAt(s, w, [worker[s][w] EXCEPT !.started = TRUE])
    /\ Report(s, [kind |-> "started", claim |-> worker[s][w].claim])
    /\ UNCHANGED <<hubVars, ses, bookVars, feedVars, jobs, fed, runner, fatal, pending, nextSeq, reporter,
                   bench, saidVars>>

WorkerFinishes(s, w, result) ==
    /\ worker[s][w].at = "running" /\ result \in {"ok", "failed", "cancelled"}
    /\ result = "cancelled" => ses[s].abandon
    /\ Report(s, TerminalMsg(s, worker[s][w].claim, result, worker[s][w].started, FALSE))
    /\ WorkerAt(s, w, IdleWorker)
    /\ UNCHANGED <<hubVars, ses, bookVars, feedVars, jobs, fed, runner, fatal, pending, nextSeq, reporter,
                   bench, saidVars>>

\* A fatal error of the pipeline ends the session: no more claims, the running ones stop.
WorkerFatal(s, w) ==
    /\ worker[s][w].at = "running"
    /\ fatal' = [fatal EXCEPT ![s] = TRUE]
    /\ ses' = [ses EXCEPT ![s] = Stopped(@)]
    /\ Report(s, TerminalMsg(s, worker[s][w].claim, "failed", worker[s][w].started, FALSE))
    /\ WorkerAt(s, w, IdleWorker)
    /\ UNCHANGED <<hubVars, bookVars, feedVars, jobs, fed, runner, pending, nextSeq, reporter, bench,
                   saidVars>>

\* Mutant: a worker leaves as soon as the intake is closed, whatever the queue holds.
WorkerLeavesEarly(s, w) ==
    /\ runner[s] = "working" /\ worker[s][w].at = "idle" /\ ~ses[s].intake
    /\ WorkerAt(s, w, [IdleWorker EXCEPT !.at = "ended"])
    /\ UNCHANGED <<hubVars, ses, bookVars, feedVars, jobs, fed, runner, fatal, repVars, bench, saidVars>>

WorkerEnds(s, w) ==
    /\ runner[s] = "working" /\ worker[s][w].at = "idle" /\ jobs[s] = <<>> /\ ~ses[s].intake
    /\ WorkerAt(s, w, [IdleWorker EXCEPT !.at = "ended"])
    /\ UNCHANGED <<hubVars, ses, bookVars, feedVars, jobs, fed, runner, fatal, repVars, bench, saidVars>>

RunnerEnds(s) ==
    /\ runner[s] = "working" /\ \A w \in scene.workers : worker[s][w].at = "ended"
    /\ runner' = [runner EXCEPT ![s] = "done"]
    /\ Report(s, ExitMsg)
    /\ UNCHANGED <<hubVars, ses, bookVars, feedVars, jobs, fed, fatal, worker, pending, nextSeq, reporter,
                   bench, saidVars>>

-----------------------------------------------------------------------------
(* The reporter of session s.                                              *)

ReporterAt(s, at, t) == reporter' = [reporter EXCEPT ![s] = [at |-> at, term |-> t]]

ReporterTakes(s) ==
    LET m == Head(msgs[s])
    IN /\ reporter[s].at = "idle" /\ msgs[s] # <<>>
       /\ msgs' = [msgs EXCEPT ![s] = Tail(@)]
       /\ \/ /\ m.kind \in {"ready", "started"}
             /\ Say(m.claim, m.kind)
             /\ UNCHANGED <<ses, pending, reporter>>
          \/ /\ m.kind = "terminal"
             /\ pending' = [pending EXCEPT ![s] = @ \cup {m.term}]
             /\ ReporterAt(s, "drain", NoTerminal)
             /\ UNCHANGED <<ses, heard>>
          \/ /\ m.kind = "exit"
             /\ ses' = [ses EXCEPT ![s] = [Stopped(@) EXCEPT !.state = "gone"]]
             /\ ReporterAt(s, "exiting", NoTerminal)
             /\ UNCHANGED <<pending, heard>>
       /\ UNCHANGED <<hubVars, bookVars, feedVars, runVars, nextSeq, bench, ends, exits>>

\* Mutant: whatever terminal is there is reported, in no particular order.
ReporterPicksAny(s) ==
    /\ reporter[s].at = "drain"
    /\ IF pending[s] # {}
       THEN \E t \in pending[s] :
                /\ pending' = [pending EXCEPT ![s] = @ \ {t}]
                /\ nextSeq' = [nextSeq EXCEPT ![s] = @ + 1]
                /\ ReporterAt(s, "counted", t)
       ELSE ReporterAt(s, "idle", NoTerminal) /\ UNCHANGED <<pending, nextSeq>>
    /\ UNCHANGED <<hubVars, ses, bookVars, feedVars, runVars, msgs, bench, saidVars>>

\* The next terminal in arrival order, if it is there; finish_volume counts itself first.
ReporterPicks(s) ==
    /\ reporter[s].at = "drain"
    /\ IF \E t \in pending[s] : t.seq = nextSeq[s]
       THEN \E t \in pending[s] :
                /\ t.seq = nextSeq[s]
                /\ pending' = [pending EXCEPT ![s] = @ \ {t}]
                /\ nextSeq' = [nextSeq EXCEPT ![s] = @ + 1]
                /\ ReporterAt(s, "counted", t)
       ELSE ReporterAt(s, "idle", NoTerminal) /\ UNCHANGED <<pending, nextSeq>>
    /\ UNCHANGED <<hubVars, ses, bookVars, feedVars, runVars, msgs, bench, saidVars>>

\* Mutant: volume_started is said again with the terminal event.
FinishStartsAgain(s) ==
    LET t == reporter[s].term
    IN /\ reporter[s].at = "counted"
       /\ Settle(t.claim)
       /\ IF t.released \/ ~Talking(s)
          THEN ReporterAt(s, "drain", NoTerminal) /\ UNCHANGED heard
          ELSE /\ Say(t.claim, "started")
               /\ ReporterAt(s, IF t.result = "ok" THEN "delivering" ELSE "telling", t)
       /\ UNCHANGED <<hubVars, ses, feedVars, runVars, msgs, pending, nextSeq, bench, ends, exits>>

\* The slot is free before the terminal event goes; a given-back or silenced one says nothing.
FinishSettles(s) ==
    LET t == reporter[s].term
    IN /\ reporter[s].at = "counted"
       /\ Settle(t.claim)
       /\ IF t.released \/ ~Talking(s)
          THEN ReporterAt(s, "drain", NoTerminal) /\ UNCHANGED heard
          ELSE /\ IF t.started THEN UNCHANGED heard ELSE Say(t.claim, "started")
               /\ ReporterAt(s, IF t.result = "ok" THEN "delivering" ELSE "telling", t)
       /\ UNCHANGED <<hubVars, ses, feedVars, runVars, msgs, pending, nextSeq, bench, ends, exits>>

\* The sidecar is sent, or could not be (or the session was abandoned meanwhile).
FinishDelivers(s, result) ==
    /\ reporter[s].at = "delivering" /\ result \in {"ok", "failed"}
    /\ ReporterAt(s, "telling", [reporter[s].term EXCEPT !.result = result])
    /\ UNCHANGED <<hubVars, ses, bookVars, feedVars, runVars, msgs, pending, nextSeq, bench, saidVars>>

FinishTells(s) ==
    LET t == reporter[s].term
    IN /\ reporter[s].at = "telling"
       /\ Say(t.claim, IF t.result = "ok" THEN "done" ELSE "failed")
       /\ ends' = IF Talking(s) THEN [ends EXCEPT ![s] = Append(@, t.claim)] ELSE ends
       /\ ReporterAt(s, "drain", NoTerminal)
       /\ UNCHANGED <<hubVars, ses, bookVars, feedVars, runVars, msgs, pending, nextSeq, bench, exits>>

\* end_session, its last step: `exit`.
SessionExits(s) ==
    /\ reporter[s].at = "exiting"
    /\ SayExit(s)
    /\ ReporterAt(s, "gone", NoTerminal)
    /\ UNCHANGED <<hubVars, ses, bookVars, feedVars, runVars, msgs, pending, nextSeq, bench, heard, ends>>

-----------------------------------------------------------------------------
Feed(s) ==
    \/ FeedTake(s) \/ FetchStarts(s) \/ FetchCancelled(s) \/ FetchLost(s)
    \/ \E at \in {"fetched", "fault"} : FetchEnds(s, at)
    \/ GiveBackReads(s) \/ GiveBackSettles(s) \/ GiveBackSays(s) \/ HandOverTests(s) \/ HandOver(s)

Work(s, w) ==
    \/ WorkerTakes(s, w) \/ WorkerMarks(s, w) \/ WorkerBegins(s, w) \/ WorkerProgress(s, w)
    \/ \E r \in {"ok", "failed", "cancelled"} : WorkerFinishes(s, w, r)
    \/ WorkerFatal(s, w) \/ WorkerEnds(s, w)

Run(s) == RunnerStops(s) \/ RunnerReady(s) \/ RunnerEnds(s)

Reports(s) ==
    \/ ReporterTakes(s) \/ ReporterPicks(s) \/ FinishSettles(s)
    \/ \E r \in {"ok", "failed"} : FinishDelivers(s, r)
    \/ FinishTells(s) \/ SessionExits(s)

Pausing ==
    \/ WatcherReads \/ WatcherTests \/ WatcherApplies \/ TellReleased \/ CancelBenches
    \/ \E s \in Sids : Release(s) \/ AbandonOne(s)

Update ==
    \/ DrainForUpdate \/ DrainTests \/ DrainApplies
    \/ CountStarts \/ CountFinishing \/ CountEnds \/ (\E s \in Sids : CountBook(s))
    \/ InstallFails \/ EndDrainReads \/ EndDrainApplies

Ops ==
    \/ \E s \in Sids : OpenSession(s) \/ CloseSession(s) \/ CancelSession(s)
    \/ \E c \in Claims : Volume(c)
    \/ \E b \in Bids : Bench(b) \/ CancelBench(b)

Benches == \E b \in Bids : BenchRuns(b) \/ BenchExits(b) \/ BenchGone(b)

Next ==
    /\ UNCHANGED scene
    /\ \/ \E mode \in {"after", "now"} : OwnerPauses(mode)
       \/ OwnerResumes \/ InstallChanges \/ Pausing \/ Update \/ Ops \/ Leave \/ Benches
       \/ \E s \in Sids : Feed(s) \/ Run(s) \/ Reports(s) \/ \E w \in scene.workers : Work(s, w)

Spec == Init /\ [][Next]_vars

\* Downloads and uploads have deadlines and a volume has finitely many pages, so every
\* task that can go on does; the library and the owner owe nothing.
Fairness ==
    /\ WF_vars(Pausing /\ UNCHANGED scene)
    /\ \A s \in Sids :
          /\ WF_vars(Feed(s) /\ UNCHANGED scene) /\ WF_vars(Run(s) /\ UNCHANGED scene)
          /\ WF_vars(Reports(s) /\ UNCHANGED scene)
          /\ \A w \in Workers : WF_vars(w \in scene.workers /\ Work(s, w) /\ UNCHANGED scene)

LiveSpec == Spec /\ Fairness

-----------------------------------------------------------------------------
(* Properties.                                                             *)

Said(c, e) == {i \in DOMAIN heard[c] : heard[c][i] = e}
\* The claims open sessions still answer for.
Answered == {c \in outstanding : ses[SidOf[c]].state = "open"}

Outcome(c) == Said(c, "done") \cup Said(c, "failed") \cup Said(c, "returned")

\* Every claim is reported at most once: one volume_started after its fetch ready, then one
\* volume_done or volume_failed; or one volume_returned and nothing else (the module's
\* invariants, finish_volume and give_back).
OneOutcome ==
    \A c \in Claims :
        /\ Cardinality(Outcome(c)) <= 1 /\ Cardinality(Said(c, "started")) <= 1
        /\ \A i \in Said(c, "started") : \E j \in Said(c, "ready") : j < i
        /\ \A i \in Said(c, "done") \cup Said(c, "failed") : \E j \in Said(c, "started") : j < i
        /\ Said(c, "returned") # {} => Said(c, "ready") = {}

\* With several workers volumes finish in any order, and yet their terminal events go out in
\* the order the claims were handed to the runner (report's pending map).
EndsInOrder ==
    \A s \in Sids : \A i, j \in DOMAIN ends[s] :
        i < j => SeqOf(s, ends[s][i]) < SeqOf(s, ends[s][j])

\* When a session whose models loaded says its exit and was not silenced, every claim its
\* runner was handed has had its terminal event or was given back (if by a pause at that very
\* moment, its `released` is next): a fatal error, a close or a pause loses none of the claims still in the queue.
ExitLeavesNoneBehind ==
    \A s \in Sids :
        reporter[s].at = "gone" /\ runner[s] = "done" /\ Talking(s) =>
            \A c \in Range(fed[s]) :
                Outcome(c) # {} \/ Said(c, "released") # {} \/ c \in apply.given

\* Every session and benchmark that ended on a processor that is not leaving said exactly one
\* exit, one refused by a pause included; no other said any.
ExitOnce ==
    /\ \A s \in Sids :
          /\ exits[s] <= 1 /\ (exits[s] = 1 => ses[s].state = "gone")
          /\ ~leaving /\ (reporter[s].at = "gone" \/ (ses[s].state = "gone" /\ runner[s] = "none"))
                => exits[s] = 1
    /\ \A b \in Bids : exits[b] <= 1 /\ (bench[b] = "gone" /\ ~leaving => exits[b] = 1)

\* While a pause is in force and applied, every claim the hub still answers for was started by
\* a worker before the pause or given back by it: none slips in between an op and the pause.
PauseMissesNoClaim ==
    paused # "no" /\ apply.at = "free" => Answered \subseteq started \cup released

\* A claim given back is given back once, and only by a pause that is in force or was.
ReleasedOnce == \A c \in Claims : Cardinality(Said(c, "released")) <= 1

\* The three together: however tasks, pauses and cancellations interleave, the server hears of
\* each claim's end, each release and each exit once.
SaidOnce == OneOutcome /\ ReleasedOnce /\ ExitOnce

\* While the update installs under the drain, nothing the library could still wait for is under
\* way: no claim that was not given back, no sidecar on its way, no benchmark (in_flight). An
\* owner who resumes may lift the drain's pause meanwhile (watch_pause), and then it is.
UpdateWaits ==
    ~scene.resumes /\ conn.at = "updating" =>
        /\ Answered \subseteq released
        /\ \A s \in Sids : Finishing(s) /\ Talking(s) =>
               \/ reporter[s].term.claim \in apply.given
               \/ Said(reporter[s].term.claim, "released") # {}
        /\ \A b \in Bids : bench[b] \in {"none", "gone"}

\* Once the watcher has nothing left to read or apply, an owner's pause is in force, whatever
\* was asked for and lifted before it (watch_pause); an update's drain is another matter.
OwnerObeyed ==
    ~scene.updates /\ owner # "no" /\ ~unseen /\ watcher.at = "idle" /\ ~leaving => paused # "no"

\* A session that is closed or cancelled ends: its runner stops, its reporter says exit and
\* goes, whatever its downloads, volumes and uploads come to.
StoppedSessionEnds ==
    \A s \in Sids : ses[s].state = "open" /\ ses[s].stopping ~> reporter[s].at = "gone"

\* Every claim the hub took leaves the book, or its session ends: no slot is held for ever.
ClaimLeavesTheBook ==
    \A c \in Claims : c \in outstanding ~> c \notin outstanding \/ ses[SidOf[c]].state = "gone"

=============================================================================
