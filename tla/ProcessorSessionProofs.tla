------------------------ MODULE ProcessorSessionProofs ------------------------
(***************************************************************************)
(* Proofs about ProcessorSession, for any sessions, claims, workers and    *)
(* benchmarks, with updates or without.  First the types and the hub: its  *)
(* books, the pause, the exits.  Then what a step does to the line of one  *)
(* session (feeder, runner, workers, reporter), and six invariants of that *)
(* line: claims are handed over once (FedOK), messages and events are      *)
(* about claims that were (MailOK), each claim is in one place until its   *)
(* turn (PlaceOK), `started` is said after `ready`, once, and before the   *)
(* end (StartOK), ends come in the order of places (OrderOK), and nothing  *)
(* is lost on the way (WholeOK).  Last the update's wait: its drain stays  *)
(* in force (DrainOK), what is in a session's line is in its book (BookOK) *)
(* and a session found idle stays so while the next are counted (CountOK). *)
(***************************************************************************)
EXTENDS ProcessorSession, FiniteSetTheorems, TLAPS

-----------------------------------------------------------------------------
(* Types, by the part of the processor that keeps the state.               *)

WatchRecord == [at : {"idle", "read", "apply", "busy", "ended"}, mode : Modes]
ApplyRecord == [at : {"free", "release", "abandon"}, by : {"watcher", "connection"}, now : BOOLEAN,
                left : SUBSET Sids, all : SUBSET Sids, given : SUBSET Claims]
ConnRecord == [at : {"serving", "drained", "drain", "busy", "waiting", "book", "finishing",
                     "updating", "ended", "end", "left"},
               mode : Modes, sid : Sids \cup {None}, left : SUBSET Sids]
SesRecord == [state : {"none", "open", "gone"}, quiet : BOOLEAN, stopping : BOOLEAN,
              abandon : BOOLEAN, intake : BOOLEAN]

FlagTypes == unseen \in BOOLEAN /\ installing \in BOOLEAN /\ draining \in BOOLEAN /\ leaving \in BOOLEAN
PauseTypes == owner \in Modes /\ paused \in Modes /\ watcher \in WatchRecord
ConnTypes == conn \in ConnRecord
ApplyTypes == apply \in ApplyRecord
HubTypes == scene \in Scenes /\ FlagTypes /\ PauseTypes /\ ConnTypes /\ ApplyTypes

SessionTypes ==
    /\ ses \in [Sids -> SesRecord]
    /\ runner \in [Sids -> {"none", "loading", "working", "unloaded", "done"}]
    /\ fatal \in [Sids -> BOOLEAN]
    /\ bench \in [Bids -> {"none", "waiting", "running", "cancelled", "exited", "gone"}]
    /\ exits \in [Sids \cup Bids -> Nat]

BookTypes == \A b \in {outstanding, seen, started, released, cancels, cut} : b \subseteq Claims

\* A feeder that is busy has a claim.
FeedTypes ==
    /\ queue \in [Sids -> Seq(Claims)]
    /\ feeder \in [Sids -> [at : {"idle", "checked", "fetching", "fetched", "handing", "fault",
                                  "drop", "return", "settled"},
                            claim : Claims \cup {None}]]
    /\ \A s \in Sids : feeder[s].at # "idle" => feeder[s].claim \in Claims

WorkerRecord == [at : {"idle", "took", "marked", "running", "ended"}, claim : Claims \cup {None},
                 fatal : BOOLEAN, started : BOOLEAN]
Busy(s, w) == worker[s][w].at \in {"took", "marked", "running"}

\* A runner's queue and its workers have claims that were handed over.
RunTypes ==
    /\ jobs \in [Sids -> Seq(Claims)] /\ fed \in [Sids -> Seq(Claims)]
    /\ worker \in [Sids -> [Workers -> WorkerRecord]]
    /\ \A s \in Sids : \A i \in DOMAIN jobs[s] : jobs[s][i] \in Range(fed[s])
    /\ \A s \in Sids : \A w \in Workers : Busy(s, w) => worker[s][w].claim \in Range(fed[s])

Msg == [kind : {"ready", "started"}, claim : Claims] \cup [kind : {"terminal"}, term : Terminal]
       \cup [kind : {"exit"}]

ReporterPlaces == {"idle", "drain", "counted", "delivering", "telling", "exiting", "gone"}
ReporterTypes ==
    /\ reporter \in [Sids -> [at : ReporterPlaces, term : Terminal \cup {NoTerminal}]]
    /\ \A s \in Sids : Finishing(s) => reporter[s].term \in Terminal

RepTypes ==
    /\ msgs \in [Sids -> Seq(Msg)]
    /\ pending \in [Sids -> SUBSET Terminal] /\ nextSeq \in [Sids -> Nat]
    /\ ReporterTypes

SaidTypes ==
    /\ heard \in [Claims -> Seq({"ready", "started", "done", "failed", "returned", "released"})]
    /\ ends \in [Sids -> Seq(Claims)]

Types == HubTypes /\ SessionTypes /\ BookTypes /\ FeedTypes /\ RunTypes /\ RepTypes /\ SaidTypes

\* The parts together are the type invariant.
LEMMA TypesSuffice == Types => TypeOK
  BY DEF Types, HubTypes, SessionTypes, BookTypes, FeedTypes, RunTypes, RepTypes, SaidTypes, TypeOK, Msg,
     FlagTypes, PauseTypes, ConnTypes, ApplyTypes, WatchRecord, ApplyRecord, ConnRecord, SesRecord, WorkerRecord,
     ReporterTypes, ReporterPlaces

\* The empty sequence.
LEMMA Empty == ASSUME NEW S PROVE <<>> \in Seq(S) /\ DOMAIN <<>> = {}
  OBVIOUS

\* The types hold at the start.
LEMMA InitTypes == ASSUME Init PROVE Types
  <1> USE ConstantsAssumption DEF Init
  <1>1. HubTypes
    BY DEF HubTypes, FlagTypes, PauseTypes, ConnTypes, ApplyTypes, WatchRecord, ApplyRecord, ConnRecord,
       IdleWatcher, IdleApply, Modes
  <1>2. SessionTypes BY DEF SessionTypes, SesRecord, Fresh
  <1>3. BookTypes BY DEF BookTypes
  <1>4. FeedTypes BY DEF FeedTypes
  <1>5. RunTypes BY DEF RunTypes, WorkerRecord, IdleWorker, Busy
  <1>6. RepTypes BY DEF RepTypes, ReporterTypes, ReporterPlaces, NoTerminal, Terminal, Finishing
  <1>7. SaidTypes BY DEF SaidTypes
  <1> QED BY <1>1, <1>2, <1>3, <1>4, <1>5, <1>6, <1>7 DEF Types

-----------------------------------------------------------------------------
(* What the groups of steps leave alone.                                   *)

Controls ==
    \/ \E mode \in {"after", "now"} : OwnerPauses(mode)
    \/ OwnerResumes \/ InstallChanges \/ Pausing \/ Update \/ Leave

\* The owner, the watcher, the update and a leave touch neither lines nor events.
LEMMA ControlsLeave ==
    ASSUME Controls
    PROVE  UNCHANGED <<feedVars, runVars, repVars, ends, exits, outstanding, seen, started, cancels>>
  <1> USE DEF feedVars, runVars, repVars, saidVars, bookVars
  <1>1. ASSUME NEW mode \in {"after", "now"}, OwnerPauses(mode)
        PROVE  UNCHANGED <<feedVars, runVars, repVars, ends, exits, outstanding, seen, started, cancels>>
    BY <1>1 DEF OwnerPauses, Owner
  <1>2. CASE OwnerResumes BY <1>2 DEF OwnerResumes, Owner
  <1>3. CASE InstallChanges BY <1>3 DEF InstallChanges
  <1>4. CASE Pausing
    BY <1>4 DEF Pausing, WatcherReads, WatcherTests, WatcherApplies, TellReleased, CancelBenches, Release, AbandonOne
  <1>5. CASE Update
    BY <1>5 DEF Update, DrainForUpdate, DrainTests, DrainApplies, CountStarts, CountFinishing, CountEnds,
       CountBook, InstallFails, EndDrainReads, EndDrainApplies, ConnOnly
  <1>6. CASE Leave BY <1>6 DEF Leave
  <1> QED BY <1>1, <1>2, <1>3, <1>4, <1>5, <1>6 DEF Controls

\* The library's ops touch only what a session and a claim begin with.
LEMMA OpsLeave ==
    ASSUME Ops
    PROVE  UNCHANGED <<hubVars, started, released, cancels, cut, feeder, jobs, fed, fatal, worker, repVars, ends>>
  <1> USE DEF hubVars, feedVars, runVars, repVars, saidVars, bookVars
  <1>1. ASSUME NEW s \in Sids, OpenSession(s) \/ CloseSession(s) \/ CancelSession(s)
        PROVE  UNCHANGED <<hubVars, started, released, cancels, cut, feeder, jobs, fed, fatal, worker, repVars, ends>>
    BY <1>1 DEF OpenSession, CloseSession, CancelSession
  <1>2. ASSUME NEW c \in Claims, Volume(c)
        PROVE  UNCHANGED <<hubVars, started, released, cancels, cut, feeder, jobs, fed, fatal, worker, repVars, ends>>
    BY <1>2 DEF Volume
  <1>3. ASSUME NEW b \in Bids, Bench(b) \/ CancelBench(b)
        PROVE  UNCHANGED <<hubVars, started, released, cancels, cut, feeder, jobs, fed, fatal, worker, repVars, ends>>
    BY <1>3 DEF Bench, CancelBench
  <1> QED BY <1>1, <1>2, <1>3 DEF Ops

\* A benchmark's steps touch only benchmarks and their exits.
LEMMA BenchesLeave ==
    ASSUME Benches
    PROVE  UNCHANGED <<hubVars, ses, bookVars, feedVars, runVars, repVars, heard, ends>>
  BY DEF Benches, BenchRuns, BenchExits, BenchGone, saidVars

\* A feeder's step touches its queue, the books and what it hands over.
LEMMA FeedLeaves ==
    ASSUME NEW s \in Sids, Feed(s)
    PROVE  /\ UNCHANGED <<owner, unseen, watcher, paused, installing, apply, draining, conn, ses, seen, cut>>
           /\ UNCHANGED <<runner, fatal, worker, pending, nextSeq, reporter, bench, ends, exits>>
  BY DEF Feed, FeedTake, FetchStarts, FetchCancelled, FetchLost, FetchEnds, GiveBackReads, GiveBackSettles,
     GiveBackSays, HandOverTests, HandOver, Settle, hubVars, bookVars, runVars, repVars, saidVars

\* A runner's step touches runners, queues, intakes and messages.
LEMMA RunLeaves ==
    ASSUME NEW s \in Sids, Run(s)
    PROVE  UNCHANGED <<hubVars, bookVars, feedVars, fed, fatal, worker, pending, nextSeq, reporter, bench, saidVars>>
  BY DEF Run, RunnerStops, RunnerReady, RunnerEnds, repVars

\* A worker's step touches workers, jobs, messages and the mark `started`.
LEMMA WorkLeaves ==
    ASSUME NEW s \in Sids, NEW w, Work(s, w)
    PROVE  /\ UNCHANGED <<hubVars, outstanding, seen, released, cancels, cut, feedVars, fed, runner>>
           /\ UNCHANGED <<pending, nextSeq, reporter, bench, saidVars>>
  BY DEF Work, WorkerTakes, WorkerMarks, WorkerBegins, WorkerProgress, WorkerFinishes, WorkerFatal, WorkerEnds,
     bookVars, repVars

\* A reporter's step touches neither hub nor runner.
LEMMA ReportsLeave ==
    ASSUME NEW s \in Sids, Reports(s)
    PROVE  UNCHANGED <<hubVars, seen, cut, feedVars, runVars, bench>>
  BY DEF Reports, ReporterTakes, ReporterPicks, FinishSettles, FinishDelivers, FinishTells, SessionExits,
     Settle, bookVars

\* What a step is.
Cases ==
    \/ Controls \/ Ops \/ Benches
    \/ \E s \in Sids : Feed(s) \/ Run(s) \/ Reports(s) \/ \E w \in scene.workers : Work(s, w)

\* A step is of one of these kinds.
LEMMA Steps == ASSUME Next PROVE scene' = scene /\ Cases
  BY DEF Next, Cases, Controls

-----------------------------------------------------------------------------
(* Every step keeps the types.                                             *)

\* Types of the hub.
LEMMA HubKept ==
    ASSUME Types, Next
    PROVE  HubTypes'
  <1>1. OpenSids \subseteq Sids BY DEF OpenSids
  <1>2. HubTypes /\ BookTypes /\ outstanding \subseteq Claims BY DEF Types, BookTypes
  <1>3. scene' = scene /\ Cases BY Steps
  <1>4. CASE Controls
    <2>1. FlagTypes'
      BY <1>2, <1>4 DEF HubTypes, FlagTypes, Controls, OwnerPauses, OwnerResumes, Owner, InstallChanges, Leave, Update,
         DrainForUpdate, DrainTests, DrainApplies, CountStarts, CountFinishing, CountEnds, CountBook,
         InstallFails, EndDrainReads, EndDrainApplies, ConnOnly, Pausing, WatcherReads, WatcherTests,
         WatcherApplies, TellReleased, CancelBenches, Release, AbandonOne
    <2>2. PauseTypes'
      <3>1. CASE Pausing
        <4>1. CASE TellReleased \/ CancelBenches
          BY <1>2, <4>1 DEF HubTypes, PauseTypes, WatchRecord, Modes, IdleWatcher, TellReleased, CancelBenches, ReturnTo
        <4>2. CASE WatcherReads \/ WatcherTests
          BY <1>2, <4>2 DEF HubTypes, PauseTypes, WatchRecord, Modes, IdleWatcher, WatcherReads, WatcherTests
        <4>3. CASE WatcherApplies
          BY <1>2, <4>3 DEF HubTypes, PauseTypes, WatchRecord, Modes, IdleWatcher, WatcherApplies, Applies
        <4>4. CASE \E s \in Sids : Release(s) \/ AbandonOne(s)
          BY <1>2, <4>4 DEF HubTypes, PauseTypes, Release, AbandonOne
        <4> QED BY <3>1, <4>1, <4>2, <4>3, <4>4 DEF Pausing
      <3>2. CASE Update
        BY <1>2, <3>2 DEF HubTypes, PauseTypes, ConnTypes, ConnRecord, Modes, Update, DrainForUpdate,
           DrainTests, DrainApplies, CountStarts, CountFinishing, CountEnds, CountBook, InstallFails,
           EndDrainReads, EndDrainApplies, Applies, ConnOnly
      <3>3. CASE ~Pausing /\ ~Update
        BY <1>2, <1>4, <3>3 DEF HubTypes, PauseTypes, Modes, Controls, OwnerPauses, OwnerResumes, Owner,
           InstallChanges, Leave
      <3> QED BY <3>1, <3>2, <3>3
    <2>3. ConnTypes'
      <3>1. CASE Pausing
        BY <1>2, <3>1 DEF HubTypes, ConnTypes, ConnRecord, Pausing, WatcherReads, WatcherTests, WatcherApplies,
           TellReleased, CancelBenches, Release, AbandonOne, ReturnTo
      <3>2. CASE Update
        BY <1>1, <1>2, <3>2 DEF HubTypes, PauseTypes, ConnTypes, ConnRecord, Modes, Update, At, DrainForUpdate,
           DrainTests, DrainApplies, CountStarts, CountFinishing, CountEnds, CountBook, InstallFails,
           EndDrainReads, EndDrainApplies
      <3>3. CASE ~Pausing /\ ~Update
        BY <1>2, <1>4, <3>3 DEF HubTypes, ConnTypes, ConnRecord, Controls, OwnerPauses, OwnerResumes, Owner,
           InstallChanges, Leave, At
      <3> QED BY <3>1, <3>2, <3>3
    <2>4. ApplyTypes'
      <3>1. \A s \in Sids : ReleasedBy(s, apply.now) \subseteq Claims BY <1>2 DEF ReleasedBy
      <3>a. ASSUME NEW by \in {"watcher", "connection"}, NEW mode, Applies(by, mode) PROVE ApplyTypes'
        BY <1>1, <1>2, <3>a DEF HubTypes, ApplyTypes, ApplyRecord, Applies
      <3>2. CASE Pausing
        <4>1. CASE TellReleased \/ CancelBenches
          <5>1. apply' = IdleApply \/ apply' = [apply EXCEPT !.at = "abandon", !.left = apply.all]
            BY <4>1 DEF TellReleased, CancelBenches
          <5>2. IdleApply \in ApplyRecord BY DEF ApplyRecord, IdleApply
          <5>3. apply \in ApplyRecord BY <1>2 DEF HubTypes, ApplyTypes
          <5>4. [apply EXCEPT !.at = "abandon", !.left = apply.all] \in ApplyRecord BY <5>3 DEF ApplyRecord
          <5> QED BY <5>1, <5>2, <5>4 DEF ApplyTypes
        <4>2. CASE WatcherReads \/ WatcherTests
          BY <1>2, <4>2 DEF HubTypes, ApplyTypes, WatcherReads, WatcherTests
        <4>3. CASE WatcherApplies
          BY <3>a, <4>3 DEF WatcherApplies
        <4>4. ASSUME NEW s \in Sids, Release(s) \/ AbandonOne(s) PROVE ApplyTypes'
          BY <1>2, <3>1, <4>4 DEF HubTypes, ApplyTypes, ApplyRecord, Release, AbandonOne
        <4> QED BY <3>2, <4>1, <4>2, <4>3, <4>4 DEF Pausing
      <3>3. CASE Update
        <4>1. CASE DrainApplies \/ EndDrainApplies BY <3>a, <4>1 DEF DrainApplies, EndDrainApplies
        <4>2. CASE ~DrainApplies /\ ~EndDrainApplies
          BY <1>2, <3>3, <4>2 DEF HubTypes, ApplyTypes, Update, DrainForUpdate, DrainTests, CountStarts,
             CountFinishing, CountEnds, CountBook, InstallFails, EndDrainReads, ConnOnly
        <4> QED BY <4>1, <4>2
      <3>4. CASE ~Pausing /\ ~Update
        BY <1>2, <1>4, <3>4 DEF HubTypes, ApplyTypes, Controls, OwnerPauses, OwnerResumes, Owner,
           InstallChanges, Leave
      <3> QED BY <3>2, <3>3, <3>4
    <2> QED BY <1>2, <1>3, <2>1, <2>2, <2>3, <2>4 DEF HubTypes
  <1>5. CASE Ops BY <1>2, <1>3, <1>5, OpsLeave DEF HubTypes, FlagTypes, PauseTypes, ConnTypes, ApplyTypes, hubVars
  <1>6. CASE Benches BY <1>2, <1>3, <1>6, BenchesLeave DEF HubTypes, FlagTypes, PauseTypes, ConnTypes, ApplyTypes, hubVars
  <1>7. ASSUME NEW s \in Sids, Feed(s) PROVE HubTypes'
    <2>1. leaving' \in BOOLEAN
      BY <1>2, <1>7 DEF HubTypes, FlagTypes, hubVars, Feed, FeedTake, FetchStarts, FetchCancelled, FetchLost, FetchEnds,
         GiveBackReads, GiveBackSettles, GiveBackSays, HandOverTests, HandOver
    <2> QED BY <1>2, <1>3, <1>7, <2>1, FeedLeaves DEF HubTypes, FlagTypes, PauseTypes, ConnTypes, ApplyTypes
  <1>8. ASSUME NEW s \in Sids, Run(s) PROVE HubTypes'
    BY <1>2, <1>3, <1>8, RunLeaves DEF HubTypes, FlagTypes, PauseTypes, ConnTypes, ApplyTypes, hubVars
  <1>9. ASSUME NEW s \in Sids, Reports(s) PROVE HubTypes'
    BY <1>2, <1>3, <1>9, ReportsLeave DEF HubTypes, FlagTypes, PauseTypes, ConnTypes, ApplyTypes, hubVars
  <1>10. ASSUME NEW s \in Sids, NEW w, Work(s, w) PROVE HubTypes'
    BY <1>2, <1>3, <1>10, WorkLeaves DEF HubTypes, FlagTypes, PauseTypes, ConnTypes, ApplyTypes, hubVars
  <1> QED BY <1>3, <1>4, <1>5, <1>6, <1>7, <1>8, <1>9, <1>10 DEF Cases

\* Types of the books.
LEMMA BookKept ==
    ASSUME Types, Next
    PROVE  BookTypes'
  <1> USE DEF BookTypes, bookVars
  <1>1. BookTypes /\ FeedTypes /\ RunTypes /\ RepTypes BY DEF Types
  <1>2. Cases BY Steps
  <1>3. CASE Controls
    <2>1. released' \subseteq Claims /\ cut' \subseteq Claims
      <3>1. \A s \in Sids : ReleasedBy(s, apply.now) \subseteq Claims BY <1>1 DEF ReleasedBy
      <3>2. CASE Pausing
        BY <1>1, <3>1, <3>2 DEF Pausing, WatcherReads, WatcherTests, WatcherApplies, TellReleased, CancelBenches,
           Release, AbandonOne
      <3>3. CASE ~Pausing
        BY <1>1, <1>3, <3>3 DEF Controls, OwnerPauses, OwnerResumes, Owner, InstallChanges, Leave, Update,
           DrainForUpdate, DrainTests, DrainApplies, CountStarts, CountFinishing, CountEnds, CountBook,
           InstallFails, EndDrainReads, EndDrainApplies, ConnOnly
      <3> QED BY <3>2, <3>3
    <2> QED BY <1>1, <1>3, <2>1, ControlsLeave
  <1>4. CASE Ops
    <2>1. outstanding' \subseteq Claims /\ seen' \subseteq Claims
      BY <1>1, <1>4 DEF Ops, OpenSession, CloseSession, CancelSession, Volume, Bench, CancelBench
    <2> QED BY <1>1, <1>4, <2>1, OpsLeave
  <1>5. CASE Benches BY <1>1, <1>5, BenchesLeave
  <1>6. ASSUME NEW s \in Sids, Feed(s) PROVE BookTypes'
    BY <1>1, <1>6 DEF FeedTypes, Feed, FeedTake, FetchStarts, FetchCancelled, FetchLost, FetchEnds,
       GiveBackReads, GiveBackSettles, GiveBackSays, HandOverTests, HandOver, Settle
  <1>7. ASSUME NEW s \in Sids, Run(s) PROVE BookTypes' BY <1>1, <1>7, RunLeaves
  <1>8. ASSUME NEW s \in Sids, Reports(s) PROVE BookTypes'
    BY <1>1, <1>8 DEF Reports, ReporterTakes, ReporterPicks, FinishSettles, FinishDelivers, FinishTells,
       SessionExits, Settle
  <1>9. ASSUME NEW s \in Sids, NEW w \in Workers, Work(s, w) PROVE BookTypes'
    <2>1. started' \subseteq Claims
      <3>1. CASE WorkerMarks(s, w)
        <4>1. worker[s][w].at = "took" BY <3>1 DEF WorkerMarks
        <4>2. worker[s][w].claim \in Claims BY <1>1, <4>1 DEF RunTypes, Busy, Range
        <4> QED BY <1>1, <3>1, <4>2 DEF WorkerMarks
      <3>2. CASE ~WorkerMarks(s, w)
        BY <1>1, <1>9, <3>2 DEF Work, WorkerTakes, WorkerBegins, WorkerProgress, WorkerFinishes, WorkerFatal,
           WorkerEnds
      <3> QED BY <3>1, <3>2
    <2> QED BY <1>1, <1>9, <2>1, WorkLeaves
  <1>10. scene.workers \subseteq Workers BY ConstantsAssumption DEF Types, HubTypes, Scene
  <1> QED BY <1>2, <1>3, <1>4, <1>5, <1>6, <1>7, <1>8, <1>9, <1>10 DEF Cases

\* Types of sessions, runners, benchmarks and exits.
LEMMA SessionKept ==
    ASSUME Types, Next
    PROVE  SessionTypes'
  <1> USE DEF SessionTypes
  <1>1. SessionTypes BY DEF Types
  <1>r. \A r \in SesRecord : Stopped(r) \in SesRecord /\ Abandoned(r) \in SesRecord
    BY DEF SesRecord, Stopped, Abandoned
  <1>2. Cases BY Steps
  <1>3. CASE Controls
    <2>1. UNCHANGED <<runner, fatal, exits>> BY <1>3, ControlsLeave DEF runVars
    <2>2. ses' \in [Sids -> SesRecord]
      <3>1. CASE \E s \in Sids : AbandonOne(s) BY <1>1, <1>r, <3>1 DEF AbandonOne
      <3>2. CASE Leave BY <1>1, <1>r, <3>2 DEF Leave
      <3>3. CASE ~Leave /\ ~\E s \in Sids : AbandonOne(s)
        BY <1>1, <1>3, <3>3 DEF Controls, OwnerPauses, OwnerResumes, Owner, InstallChanges, Update,
           DrainForUpdate, DrainTests, DrainApplies, CountStarts, CountFinishing, CountEnds, CountBook,
           InstallFails, EndDrainReads, EndDrainApplies, ConnOnly, Pausing, WatcherReads, WatcherTests,
           WatcherApplies, TellReleased, CancelBenches, Release
      <3> QED BY <3>1, <3>2, <3>3
    <2>3. bench' \in [Bids -> {"none", "waiting", "running", "cancelled", "exited", "gone"}]
      BY <1>1, <1>3 DEF Controls, OwnerPauses, OwnerResumes, Owner, InstallChanges, Leave, Update,
         DrainForUpdate, DrainTests, DrainApplies, CountStarts, CountFinishing, CountEnds, CountBook,
         InstallFails, EndDrainReads, EndDrainApplies, ConnOnly, Pausing, WatcherReads, WatcherTests,
         WatcherApplies, TellReleased, CancelBenches, Release, AbandonOne
    <2> QED BY <1>1, <2>1, <2>2, <2>3
  <1>4. CASE Ops
    <2>1. ASSUME NEW s \in Sids, OpenSession(s) PROVE SessionTypes'
      <3>1. \A r \in SesRecord : /\ [r EXCEPT !.state = "gone"] \in SesRecord
                                 /\ [r EXCEPT !.state = "open", !.intake = TRUE] \in SesRecord
        BY DEF SesRecord
      <3>2. ses' \in [Sids -> SesRecord]
        <4>1. ses[s] \in SesRecord BY <1>1
        <4>2. ses' = [ses EXCEPT ![s] = [ses[s] EXCEPT !.state = "gone"]]
              \/ ses' = [ses EXCEPT ![s] = [ses[s] EXCEPT !.state = "open", !.intake = TRUE]]
          BY <1>1, <2>1 DEF OpenSession
        <4> QED BY <1>1, <3>1, <4>1, <4>2
      <3> QED BY <1>1, <2>1, <3>2 DEF OpenSession, SayExit
    <2>2. ASSUME NEW s \in Sids, CloseSession(s) \/ CancelSession(s) PROVE SessionTypes'
      BY <1>1, <1>r, <2>2 DEF CloseSession, CancelSession, runVars, saidVars
    <2>3. ASSUME NEW c \in Claims, Volume(c) PROVE SessionTypes' BY <1>1, <2>3 DEF Volume, runVars
    <2>4. ASSUME NEW b \in Bids, Bench(b) PROVE SessionTypes' BY <1>1, <2>4 DEF Bench, runVars, SayExit
    <2>5. ASSUME NEW b \in Bids, CancelBench(b) PROVE SessionTypes' BY <1>1, <2>5 DEF CancelBench, runVars, saidVars
    <2> QED BY <1>4, <2>1, <2>2, <2>3, <2>4, <2>5 DEF Ops
  <1>5. CASE Benches BY <1>1, <1>5 DEF Benches, BenchRuns, BenchExits, BenchGone, SayExit, runVars, saidVars
  <1>6. ASSUME NEW s \in Sids, Feed(s) PROVE SessionTypes' BY <1>1, <1>6, FeedLeaves
  <1>7. ASSUME NEW s \in Sids, Run(s) PROVE SessionTypes'
    <2>1. \A r \in SesRecord : [r EXCEPT !.intake = FALSE] \in SesRecord BY DEF SesRecord
    <2>2. ses[s] \in SesRecord BY <1>1
    <2>3. \/ ses' = ses \/ ses' = [ses EXCEPT ![s] = Stopped(ses[s])]
          \/ ses' = [ses EXCEPT ![s] = [ses[s] EXCEPT !.intake = FALSE]]
      BY <1>1, <1>7 DEF Run, RunnerStops, RunnerReady, RunnerEnds
    <2>4. ses' \in [Sids -> SesRecord] BY <1>1, <1>r, <2>1, <2>2, <2>3
    <2> QED BY <1>1, <1>7, <2>4 DEF Run, RunnerStops, RunnerReady, RunnerEnds, saidVars
  <1>8. ASSUME NEW s \in Sids, Reports(s) PROVE SessionTypes'
    <2>1. \A r \in SesRecord : [Stopped(r) EXCEPT !.state = "gone"] \in SesRecord BY DEF SesRecord, Stopped
    <2>2. ses[s] \in SesRecord BY <1>1
    <2>3. ses' = ses \/ ses' = [ses EXCEPT ![s] = [Stopped(ses[s]) EXCEPT !.state = "gone"]]
      BY <1>1, <1>8 DEF Reports, ReporterTakes, ReporterPicks, FinishSettles, FinishDelivers, FinishTells,
         SessionExits
    <2>4. ses' \in [Sids -> SesRecord] BY <1>1, <2>1, <2>2, <2>3
    <2>5. exits' \in [Sids \cup Bids -> Nat]
      <3>1. CASE SessionExits(s) BY <1>1, <3>1 DEF SessionExits, SayExit
      <3>2. CASE ~SessionExits(s)
        BY <1>1, <1>8, <3>2 DEF Reports, ReporterTakes, ReporterPicks, FinishSettles, FinishDelivers, FinishTells,
           saidVars
      <3> QED BY <3>1, <3>2
    <2> QED BY <1>1, <1>8, <2>4, <2>5, ReportsLeave DEF runVars
  <1>9. ASSUME NEW s \in Sids, NEW w, Work(s, w) PROVE SessionTypes'
    <2>1. ses[s] \in SesRecord BY <1>1
    <2>2. CASE WorkerFatal(s, w) BY <1>1, <1>r, <2>1, <2>2 DEF WorkerFatal, saidVars
    <2>3. CASE ~WorkerFatal(s, w)
      BY <1>1, <1>9, <2>3 DEF Work, WorkerTakes, WorkerMarks, WorkerBegins, WorkerProgress, WorkerFinishes,
         WorkerEnds, saidVars
    <2> QED BY <2>2, <2>3
  <1> QED BY <1>2, <1>3, <1>4, <1>5, <1>6, <1>7, <1>8, <1>9 DEF Cases

\* Putting an element at the end of a sequence, and taking the first one.
LEMMA Appending ==
    ASSUME NEW S, NEW q \in Seq(S), NEW x \in S
    PROVE  /\ Append(q, x) \in Seq(S) /\ Range(Append(q, x)) = Range(q) \cup {x}
           /\ DOMAIN Append(q, x) = 1 .. Len(q) + 1 /\ Append(q, x)[Len(q) + 1] = x
           /\ \A i \in DOMAIN q : i \in DOMAIN Append(q, x) /\ Append(q, x)[i] = q[i]
  BY DEF Range

\* What is left when the first member of a sequence is taken.
LEMMA Taking ==
    ASSUME NEW S, NEW q \in Seq(S), q # <<>>
    PROVE  /\ Tail(q) \in Seq(S) /\ Head(q) \in S /\ Head(q) = q[1] /\ 1 \in DOMAIN q
           /\ Len(Tail(q)) = Len(q) - 1
           /\ \A i \in DOMAIN Tail(q) : i + 1 \in DOMAIN q /\ Tail(q)[i] = q[i + 1]
           /\ Range(Tail(q)) \subseteq Range(q) /\ Head(q) \in Range(q)
  BY DEF Range

\* Types of the feeders.
LEMMA FeedKept ==
    ASSUME Types, Next
    PROVE  FeedTypes'
  <1>1. FeedTypes BY DEF Types
  <1>2. Cases BY Steps
  <1>3. CASE Controls BY <1>1, <1>3, ControlsLeave DEF FeedTypes, feedVars
  <1>4. CASE Ops
    <2>1. feeder' = feeder BY <1>4, OpsLeave
    <2>2. queue' \in [Sids -> Seq(Claims)]
      <3>1. ASSUME NEW c \in Claims, Volume(c) PROVE queue' \in [Sids -> Seq(Claims)]
        <4>1. SidOf[c] \in Sids BY ConstantsAssumption
        <4>2. queue' = queue \/ queue' = [queue EXCEPT ![SidOf[c]] = Append(queue[SidOf[c]], c)]
          BY <3>1 DEF Volume
        <4>3. queue \in [Sids -> Seq(Claims)] BY <1>1 DEF FeedTypes
        <4>4. Append(queue[SidOf[c]], c) \in Seq(Claims) BY <4>1, <4>3
        <4> QED BY <4>1, <4>2, <4>3, <4>4
      <3>2. CASE ~\E c \in Claims : Volume(c)
        BY <1>1, <1>4, <3>2 DEF FeedTypes, feedVars, Ops, OpenSession, CloseSession, CancelSession, Bench, CancelBench
      <3> QED BY <3>1, <3>2
    <2> QED BY <1>1, <2>1, <2>2 DEF FeedTypes
  <1>5. CASE Benches BY <1>1, <1>5, BenchesLeave DEF FeedTypes, feedVars
  <1>6. ASSUME NEW s \in Sids, Feed(s) PROVE FeedTypes'
    <2>1. CASE FeedTake(s)
      <3>1. /\ queue[s] \in Seq(Claims) /\ queue[s] # <<>>
            /\ queue' = [queue EXCEPT ![s] = Tail(queue[s])]
            /\ feeder' = feeder \/ feeder' = [feeder EXCEPT ![s] = [at |-> "checked", claim |-> Head(queue[s])]]
        BY <1>1, <2>1 DEF FeedTypes, FeedTake, FeederAt
      <3>2. Head(queue[s]) \in Claims /\ Tail(queue[s]) \in Seq(Claims) BY <3>1, Taking
      <3>3. queue' \in [Sids -> Seq(Claims)] BY <1>1, <3>1, <3>2 DEF FeedTypes
      <3>4. CASE feeder' = feeder BY <1>1, <3>3, <3>4 DEF FeedTypes
      <3>5. CASE feeder' = [feeder EXCEPT ![s] = [at |-> "checked", claim |-> Head(queue[s])]]
        BY <1>1, <3>2, <3>3, <3>5 DEF FeedTypes
      <3> QED BY <3>1, <3>4, <3>5
    <2>2. CASE ~FeedTake(s)
      <3>1. queue' = queue
        BY <1>6, <2>2 DEF Feed, FetchStarts, FetchCancelled, FetchLost, FetchEnds, GiveBackReads,
           GiveBackSettles, GiveBackSays, HandOverTests, HandOver
      <3>2. \/ feeder' = [feeder EXCEPT ![s] = [at |-> "idle", claim |-> None]]
            \/ /\ feeder[s].at # "idle"
               /\ \E at \in {"fetching", "fetched", "fault", "drop", "return", "settled", "handing"} :
                     feeder' = [feeder EXCEPT ![s] = [at |-> at, claim |-> feeder[s].claim]]
        BY <1>6, <2>2 DEF Feed, FeederAt, FetchStarts, FetchCancelled, FetchLost, FetchEnds, GiveBackReads,
           GiveBackSettles, GiveBackSays, HandOverTests, HandOver
      <3>3. CASE feeder' = [feeder EXCEPT ![s] = [at |-> "idle", claim |-> None]]
        BY <1>1, <3>1, <3>3 DEF FeedTypes
      <3>4. ASSUME NEW at \in {"fetching", "fetched", "fault", "drop", "return", "settled", "handing"},
                   feeder[s].at # "idle",
                   feeder' = [feeder EXCEPT ![s] = [at |-> at, claim |-> feeder[s].claim]]
            PROVE  FeedTypes'
        BY <1>1, <3>1, <3>4 DEF FeedTypes
      <3> QED BY <3>2, <3>3, <3>4
    <2> QED BY <2>1, <2>2
  <1>7. ASSUME NEW s \in Sids, Run(s) PROVE FeedTypes' BY <1>1, <1>7, RunLeaves DEF FeedTypes, feedVars
  <1>8. ASSUME NEW s \in Sids, Reports(s) PROVE FeedTypes' BY <1>1, <1>8, ReportsLeave DEF FeedTypes, feedVars
  <1>9. ASSUME NEW s \in Sids, NEW w, Work(s, w) PROVE FeedTypes'
    BY <1>1, <1>9, WorkLeaves DEF FeedTypes, feedVars
  <1> QED BY <1>2, <1>3, <1>4, <1>5, <1>6, <1>7, <1>8, <1>9 DEF Cases

\* Types of runners and workers; what they hold was handed over.
LEMMA RunKept ==
    ASSUME Types, Next
    PROVE  RunTypes'
  <1>1. RunTypes /\ FeedTypes BY DEF Types
  <1>2. Cases BY Steps
  <1>3. CASE Controls BY <1>1, <1>3, ControlsLeave DEF RunTypes, runVars, Busy
  <1>4. CASE Ops BY <1>1, <1>4, OpsLeave DEF RunTypes, Busy
  <1>5. CASE Benches BY <1>1, <1>5, BenchesLeave DEF RunTypes, runVars, Busy
  <1>6. ASSUME NEW s \in Sids, Feed(s) PROVE RunTypes'
    <2>1. CASE UNCHANGED <<jobs, fed>> BY <1>1, <1>6, <2>1, FeedLeaves DEF RunTypes, Busy
    <2>2. CASE ~UNCHANGED <<jobs, fed>>
      <3>1. HandOver(s) /\ ~(ses[s].stopping \/ ~ses[s].intake)
        BY <1>6, <2>2 DEF Feed, FeedTake, FetchStarts, FetchCancelled, FetchLost, FetchEnds, GiveBackReads,
           GiveBackSettles, GiveBackSays, HandOverTests, HandOver, runVars
      <3>2. PICK c \in Claims : /\ jobs' = [jobs EXCEPT ![s] = Append(jobs[s], c)]
                                /\ fed' = [fed EXCEPT ![s] = Append(fed[s], c)]
        BY <1>1, <3>1 DEF HandOver, FeedTypes
      <3>3. jobs[s] \in Seq(Claims) /\ fed[s] \in Seq(Claims) BY <1>1 DEF RunTypes
      <3>4. Range(Append(fed[s], c)) = Range(fed[s]) \cup {c} BY <3>3, Appending
      <3>5. \A i \in DOMAIN Append(jobs[s], c) : Append(jobs[s], c)[i] \in Range(fed[s]) \cup {c}
        BY <1>1, <3>3 DEF RunTypes
      <3>6. /\ jobs' \in [Sids -> Seq(Claims)] /\ fed' \in [Sids -> Seq(Claims)] /\ worker' = worker
            /\ fed'[s] = Append(fed[s], c) /\ jobs'[s] = Append(jobs[s], c)
            /\ \A t \in Sids : t # s => fed'[t] = fed[t] /\ jobs'[t] = jobs[t]
        BY <1>1, <1>6, <3>2, <3>3, FeedLeaves, Appending DEF RunTypes
      <3> QED BY <1>1, <3>4, <3>5, <3>6 DEF RunTypes, Busy
    <2> QED BY <2>1, <2>2
  <1>7. ASSUME NEW s \in Sids, Run(s) PROVE RunTypes'
    <2>1. jobs' = jobs \/ jobs' = [jobs EXCEPT ![s] = <<>>]
      <3>1. CASE RunnerStops(s) BY <3>1 DEF RunnerStops
      <3>2. CASE ~RunnerStops(s) BY <1>7, <3>2 DEF Run, RunnerReady, RunnerEnds
      <3> QED BY <3>1, <3>2
    <2>2. jobs' \in [Sids -> Seq(Claims)] BY <1>1, <2>1, Empty DEF RunTypes
    <2>3. \A t \in Sids : jobs'[t] = jobs[t] \/ DOMAIN jobs'[t] = {} BY <1>1, <2>1, Empty DEF RunTypes
    <2> QED BY <1>1, <1>7, <2>2, <2>3, RunLeaves DEF RunTypes, Busy
  <1>8. ASSUME NEW s \in Sids, Reports(s) PROVE RunTypes' BY <1>1, <1>8, ReportsLeave DEF RunTypes, runVars, Busy
  <1>9. ASSUME NEW s \in Sids, NEW w \in Workers, Work(s, w) PROVE RunTypes'
    <2>1. fed' = fed BY <1>9, WorkLeaves
    <2>2. CASE WorkerTakes(s, w)
      <3>1. /\ jobs[s] \in Seq(Claims) /\ jobs[s] # <<>> /\ fatal[s] \in BOOLEAN
            /\ jobs' = [jobs EXCEPT ![s] = Tail(jobs[s])]
            /\ worker' = [worker EXCEPT ![s][w] = [at |-> "took", claim |-> Head(jobs[s]), fatal |-> fatal[s],
                                                   started |-> FALSE]]
        BY <1>1, <2>2 DEF RunTypes, WorkerTakes, WorkerAt, Types, SessionTypes
      <3>2. Head(jobs[s]) \in Range(fed[s]) /\ Tail(jobs[s]) \in Seq(Claims)
            /\ \A i \in DOMAIN Tail(jobs[s]) : Tail(jobs[s])[i] \in Range(fed[s])
        BY <1>1, <3>1, Taking DEF RunTypes
      <3>3. Head(jobs[s]) \in Claims BY <3>1
      <3>4. worker' \in [Sids -> [Workers -> WorkerRecord]]
        BY <1>1, <3>1, <3>3 DEF RunTypes, WorkerRecord
      <3>5. \A t \in Sids : \A v \in Workers : (Busy(t, v) => worker[t][v].claim \in Range(fed[t]))'
        BY <1>1, <2>1, <3>1, <3>2 DEF RunTypes, Busy
      <3> QED BY <1>1, <2>1, <3>1, <3>2, <3>4, <3>5 DEF RunTypes
    <2>3. CASE ~WorkerTakes(s, w)
      <3>1. jobs' = jobs
        BY <1>9, <2>3 DEF Work, WorkerMarks, WorkerBegins, WorkerProgress, WorkerFinishes, WorkerFatal, WorkerEnds
      <3>2. \/ worker' = [worker EXCEPT ![s][w] = IdleWorker]
            \/ worker' = [worker EXCEPT ![s][w] = [IdleWorker EXCEPT !.at = "ended"]]
            \/ Busy(s, w) /\ worker' = [worker EXCEPT ![s][w] = [worker[s][w] EXCEPT !.at = "marked"]]
            \/ Busy(s, w) /\ worker' = [worker EXCEPT ![s][w] = [worker[s][w] EXCEPT !.at = "running"]]
            \/ Busy(s, w) /\ worker' = [worker EXCEPT ![s][w] = [worker[s][w] EXCEPT !.started = TRUE]]
        BY <1>1, <1>9, <2>3 DEF Work, WorkerMarks, WorkerBegins, WorkerProgress, WorkerFinishes, WorkerFatal,
           WorkerEnds, WorkerAt, Busy
      <3>3. /\ IdleWorker \in WorkerRecord /\ IdleWorker.at = "idle"
            /\ [IdleWorker EXCEPT !.at = "ended"] \in WorkerRecord /\ [IdleWorker EXCEPT !.at = "ended"].at = "ended"
        BY DEF IdleWorker, WorkerRecord
      <3>a. worker[s][w] \in WorkerRecord BY <1>1 DEF RunTypes
      <3>b. /\ [worker[s][w] EXCEPT !.at = "marked"] \in WorkerRecord
            /\ [worker[s][w] EXCEPT !.at = "running"] \in WorkerRecord
            /\ [worker[s][w] EXCEPT !.started = TRUE] \in WorkerRecord
        BY <3>a DEF WorkerRecord
      <3>c. /\ [worker[s][w] EXCEPT !.at = "marked"].claim = worker[s][w].claim
            /\ [worker[s][w] EXCEPT !.at = "running"].claim = worker[s][w].claim
            /\ [worker[s][w] EXCEPT !.started = TRUE].claim = worker[s][w].claim
        BY <3>a DEF WorkerRecord
      <3>d. PICK r \in WorkerRecord : /\ worker' = [worker EXCEPT ![s][w] = r]
                                      /\ \/ r.at \in {"idle", "ended"}
                                         \/ Busy(s, w) /\ r.claim = worker[s][w].claim
        <4>1. CASE worker' = [worker EXCEPT ![s][w] = IdleWorker] BY <3>3, <4>1
        <4>2. CASE worker' = [worker EXCEPT ![s][w] = [IdleWorker EXCEPT !.at = "ended"]] BY <3>3, <4>2
        <4>3. CASE Busy(s, w) BY <3>2, <3>3, <3>b, <3>c, <4>3
        <4> QED BY <3>2, <4>1, <4>2, <4>3
      <3>4. worker' \in [Sids -> [Workers -> WorkerRecord]] BY <1>1, <3>d DEF RunTypes
      <3>5. \A t \in Sids : \A v \in Workers : (Busy(t, v) => worker[t][v].claim \in Range(fed[t]))'
        BY <1>1, <2>1, <3>d DEF RunTypes, Busy
      <3> QED BY <1>1, <2>1, <3>1, <3>4, <3>5 DEF RunTypes
    <2> QED BY <2>2, <2>3
  <1>10. scene.workers \subseteq Workers BY ConstantsAssumption DEF Types, HubTypes, Scene
  <1> QED BY <1>2, <1>3, <1>4, <1>5, <1>6, <1>7, <1>8, <1>9, <1>10 DEF Cases

\* A claim a runner was handed has its place in the order.
LEMMA Places ==
    ASSUME Types, NEW s \in Sids, NEW c \in Range(fed[s])
    PROVE  /\ c \in Claims /\ SeqOf(s, c) \in DOMAIN fed[s] /\ fed[s][SeqOf(s, c)] = c
           /\ SeqOf(s, c) \in Nat \ {0} /\ SeqOf(s, c) <= Len(fed[s])
  <1>1. fed[s] \in Seq(Claims) BY DEF Types, RunTypes
  <1>2. \E i \in DOMAIN fed[s] : fed[s][i] = c BY DEF Range
  <1>3. SeqOf(s, c) \in DOMAIN fed[s] /\ fed[s][SeqOf(s, c)] = c BY <1>2 DEF SeqOf
  <1> QED BY <1>1, <1>3

\* What a step of a worker puts before the reporter.
Reported(s, w, m) ==
    LET c == worker[s][w].claim
    IN \/ m = [kind |-> "started", claim |-> c]
       \/ \E result \in {"ok", "failed", "cancelled"}, begun, back \in BOOLEAN :
             m = TerminalMsg(s, c, result, begun, back)

\* A worker posts only what it may report.
LEMMA WorkersReport ==
    ASSUME Types, NEW s \in Sids, NEW w \in Workers, Work(s, w)
    PROVE  \/ msgs' = msgs
           \/ Busy(s, w) /\ \E m : Reported(s, w, m) /\ Report(s, m)
  <1>1. worker[s][w].fatal \in BOOLEAN /\ worker[s][w].started \in BOOLEAN
    BY DEF Types, RunTypes, WorkerRecord
  <1>2. CASE WorkerTakes(s, w) \/ WorkerEnds(s, w) BY <1>2 DEF WorkerTakes, WorkerEnds, repVars
  <1>3. CASE WorkerMarks(s, w) BY <1>3 DEF WorkerMarks, Busy, Reported
  <1>4. CASE WorkerBegins(s, w) BY <1>4 DEF WorkerBegins, Busy, Reported
  <1>5. CASE WorkerProgress(s, w) BY <1>5 DEF WorkerProgress, Busy, Reported
  <1>6. ASSUME NEW r \in {"ok", "failed", "cancelled"}, WorkerFinishes(s, w, r)
        PROVE  Busy(s, w) /\ \E m : Reported(s, w, m) /\ Report(s, m)
    BY <1>1, <1>6 DEF WorkerFinishes, Busy, Reported
  <1>7. CASE WorkerFatal(s, w) BY <1>1, <1>7 DEF WorkerFatal, Busy, Reported
  <1> QED BY <1>2, <1>3, <1>4, <1>5, <1>6, <1>7 DEF Work

\* What a worker reports is a message.
LEMMA ReportedIsMsg ==
    ASSUME Types, NEW s \in Sids, NEW w \in Workers, Busy(s, w), NEW m, Reported(s, w, m)
    PROVE  m \in Msg
  <1>1. worker[s][w].claim \in Range(fed[s]) BY DEF Types, RunTypes
  <1>2. worker[s][w].claim \in Claims /\ SeqOf(s, worker[s][w].claim) \in Nat \ {0} BY <1>1, Places
  <1>3. CASE m = [kind |-> "started", claim |-> worker[s][w].claim] BY <1>2, <1>3 DEF Msg
  <1>4. ASSUME NEW result \in {"ok", "failed", "cancelled"}, NEW begun \in BOOLEAN, NEW back \in BOOLEAN,
               m = TerminalMsg(s, worker[s][w].claim, result, begun, back)
        PROVE  m \in Msg
    <2>1. [claim |-> worker[s][w].claim, seq |-> SeqOf(s, worker[s][w].claim), result |-> result,
           started |-> begun, released |-> back] \in Terminal
      BY <1>2 DEF Terminal
    <2> QED BY <1>4, <2>1 DEF TerminalMsg, Msg
  <1> QED BY <1>3, <1>4 DEF Reported

\* A message has the shape its kind says.
LEMMA Kinds ==
    ASSUME NEW m \in Msg
    PROVE  /\ m.kind \in {"ready", "started"} => m.claim \in Claims
           /\ m.kind = "terminal" => m.term \in Terminal
           /\ m.kind \in {"ready", "started", "terminal", "exit"}
  BY DEF Msg

\* Types of the reporters.
LEMMA ReporterKept ==
    ASSUME Types, Next
    PROVE  RepTypes'
  <1>1. RepTypes BY DEF Types
  <1>2. Cases BY Steps
  <1> USE DEF Finishing
  <1>3. CASE Controls BY <1>1, <1>3, ControlsLeave DEF RepTypes, ReporterTypes, repVars
  <1>4. CASE Ops BY <1>1, <1>4, OpsLeave DEF RepTypes, ReporterTypes, repVars
  <1>5. CASE Benches BY <1>1, <1>5, BenchesLeave DEF RepTypes, ReporterTypes, repVars
  <1>6. ASSUME msgs' \in [Sids -> Seq(Msg)], UNCHANGED <<pending, nextSeq, reporter>> PROVE RepTypes'
    BY <1>1, <1>6 DEF RepTypes, ReporterTypes
  <1>7. ASSUME NEW s \in Sids, NEW m \in Msg, Report(s, m) PROVE msgs' \in [Sids -> Seq(Msg)]
    BY <1>1, <1>7 DEF RepTypes, Report
  <1>a. ASSUME NEW s \in Sids, NEW at \in ReporterPlaces, NEW t \in Terminal \cup {NoTerminal},
               at \in {"counted", "delivering", "telling"} => t \in Terminal, ReporterAt(s, at, t)
        PROVE  ReporterTypes'
    BY <1>1, <1>a DEF RepTypes, ReporterTypes, ReporterPlaces, ReporterAt
  <1>b. ASSUME NEW s \in Sids, NEW P \in SUBSET Terminal, pending' = [pending EXCEPT ![s] = P]
        PROVE  pending' \in [Sids -> SUBSET Terminal]
    BY <1>1, <1>b DEF RepTypes
  <1>8. ASSUME NEW s \in Sids, Feed(s) PROVE RepTypes'
    <2>1. msgs' = msgs \/ \E c \in Claims : Report(s, [kind |-> "ready", claim |-> c])
      <3>1. CASE HandOver(s) BY <3>1 DEF HandOver, Report, Types, FeedTypes
      <3>2. CASE ~HandOver(s)
        BY <1>8, <3>2 DEF Feed, FeedTake, FetchStarts, FetchCancelled, FetchLost, FetchEnds, GiveBackReads,
           GiveBackSettles, GiveBackSays, HandOverTests, repVars
      <3> QED BY <3>1, <3>2
    <2>2. \A c \in Claims : [kind |-> "ready", claim |-> c] \in Msg BY DEF Msg
    <2>3. msgs' \in [Sids -> Seq(Msg)] BY <1>1, <1>7, <2>1, <2>2 DEF RepTypes
    <2> QED BY <1>6, <1>8, <2>3, FeedLeaves
  <1>9. ASSUME NEW s \in Sids, Run(s) PROVE RepTypes'
    <2>1. msgs' = msgs \/ Report(s, ExitMsg)
      BY <1>9 DEF Run, RunnerStops, RunnerReady, RunnerEnds, repVars
    <2>2. ExitMsg \in Msg BY DEF Msg, ExitMsg
    <2>3. msgs' \in [Sids -> Seq(Msg)] BY <1>1, <1>7, <2>1, <2>2 DEF RepTypes
    <2> QED BY <1>6, <1>9, <2>3, RunLeaves
  <1>10. ASSUME NEW s \in Sids, NEW w \in Workers, Work(s, w) PROVE RepTypes'
    <2>1. msgs' \in [Sids -> Seq(Msg)] BY <1>1, <1>7, <1>10, WorkersReport, ReportedIsMsg DEF RepTypes
    <2> QED BY <1>6, <1>10, <2>1, WorkLeaves
  <1>11. ASSUME NEW s \in Sids, Reports(s) PROVE RepTypes'
    <2>1. CASE ReporterTakes(s)
      <3>1. /\ msgs[s] \in Seq(Msg) /\ msgs[s] # <<>> /\ msgs' = [msgs EXCEPT ![s] = Tail(msgs[s])]
            /\ nextSeq' = nextSeq
        BY <1>1, <2>1 DEF RepTypes, ReporterTakes
      <3>2. Tail(msgs[s]) \in Seq(Msg) /\ Head(msgs[s]) \in Msg BY <3>1, Taking
      <3>3. msgs' \in [Sids -> Seq(Msg)] BY <1>1, <3>1, <3>2 DEF RepTypes
      <3>4. \/ pending' = pending
            \/ Head(msgs[s]).term \in Terminal /\ pending' = [pending EXCEPT ![s] = pending[s] \cup {Head(msgs[s]).term}]
        BY <2>1, <3>2, Kinds DEF ReporterTakes
      <3>p. pending[s] \subseteq Terminal BY <1>1 DEF RepTypes
      <3>5. pending' \in [Sids -> SUBSET Terminal]
        <4>1. CASE pending' = pending BY <1>1, <4>1 DEF RepTypes
        <4>2. CASE pending' # pending BY <1>b, <3>4, <3>p, <4>2
        <4> QED BY <4>1, <4>2
      <3>6. reporter' = reporter \/ \E at \in {"drain", "exiting"} : ReporterAt(s, at, NoTerminal)
        BY <2>1 DEF ReporterTakes
      <3>7. ReporterTypes'
        <4>1. CASE reporter' = reporter BY <1>1, <4>1 DEF RepTypes, ReporterTypes
        <4>2. CASE reporter' # reporter BY <1>a, <3>6, <4>2 DEF ReporterPlaces
        <4> QED BY <4>1, <4>2
      <3> QED BY <1>1, <3>1, <3>3, <3>5, <3>7 DEF RepTypes
    <2>2. CASE ReporterPicks(s)
      <3>1. /\ \/ pending' = pending /\ nextSeq' = nextSeq /\ ReporterAt(s, "idle", NoTerminal)
               \/ \E t \in pending[s] : /\ pending' = [pending EXCEPT ![s] = @ \ {t}]
                                        /\ nextSeq' = [nextSeq EXCEPT ![s] = @ + 1]
                                        /\ ReporterAt(s, "counted", t)
            /\ msgs' = msgs
        BY <2>2 DEF ReporterPicks
      <3>2. pending[s] \subseteq Terminal BY <1>1 DEF RepTypes
      <3>3. pending' \in [Sids -> SUBSET Terminal] BY <1>1, <1>b, <3>1, <3>2 DEF RepTypes
      <3>4. nextSeq' \in [Sids -> Nat] BY <1>1, <3>1 DEF RepTypes
      <3>5. ReporterTypes' BY <1>a, <3>1, <3>2 DEF ReporterPlaces
      <3> QED BY <1>1, <3>1, <3>3, <3>4, <3>5 DEF RepTypes
    <2>3. CASE ~ReporterTakes(s) /\ ~ReporterPicks(s)
      <3>1. UNCHANGED <<msgs, pending, nextSeq>>
        BY <1>11, <2>3 DEF Reports, FinishSettles, FinishDelivers, FinishTells, SessionExits
      <3>2. \/ \E at \in {"drain", "gone"} : ReporterAt(s, at, NoTerminal)
            \/ \E at \in {"delivering", "telling"} : Finishing(s) /\ ReporterAt(s, at, reporter[s].term)
            \/ \E r \in {"ok", "failed"} : /\ Finishing(s)
                                           /\ ReporterAt(s, "telling", [reporter[s].term EXCEPT !.result = r])
        BY <1>11, <2>3 DEF Reports, FinishSettles, FinishDelivers, FinishTells, SessionExits
      <3>3. Finishing(s) => \A r \in {"ok", "failed"} : [reporter[s].term EXCEPT !.result = r] \in Terminal
        BY <1>1 DEF RepTypes, ReporterTypes, Terminal
      <3>4. ReporterTypes'
        <4>1. ASSUME NEW r \in {"ok", "failed"}, Finishing(s),
                     ReporterAt(s, "telling", [reporter[s].term EXCEPT !.result = r])
              PROVE  ReporterTypes'
          BY <1>a, <3>3, <4>1 DEF ReporterPlaces
        <4>2. CASE \E at \in {"drain", "gone"} : ReporterAt(s, at, NoTerminal) BY <1>a, <4>2 DEF ReporterPlaces
        <4>3. ASSUME NEW at \in {"delivering", "telling"}, Finishing(s), ReporterAt(s, at, reporter[s].term)
              PROVE  ReporterTypes'
          BY <1>1, <1>a, <4>3 DEF RepTypes, ReporterTypes, ReporterPlaces
        <4> QED BY <3>2, <4>1, <4>2, <4>3
      <3> QED BY <1>1, <3>1, <3>4 DEF RepTypes
    <2> QED BY <2>1, <2>2, <2>3
  <1>12. scene.workers \subseteq Workers BY ConstantsAssumption DEF Types, HubTypes, Scene
  <1> QED BY <1>2, <1>3, <1>4, <1>5, <1>8, <1>9, <1>10, <1>11, <1>12 DEF Cases

Events == {"ready", "started", "done", "failed", "returned", "released"}

\* Types of what is said.
LEMMA SaidKept ==
    ASSUME Types, Next
    PROVE  SaidTypes'
  <1>1. SaidTypes /\ FeedTypes /\ RepTypes BY DEF Types
  <1>2. Cases BY Steps
  <1> USE DEF Events
  <1>a. ASSUME NEW c \in Claims, NEW e \in Events, Say(c, e) PROVE heard' \in [Claims -> Seq(Events)]
    <2>1. heard[c] \in Seq(Events) BY <1>1 DEF SaidTypes
    <2>2. Append(heard[c], e) \in Seq(Events) BY <2>1
    <2> QED BY <1>1, <1>a, <2>2 DEF SaidTypes, Say
  <1>b. ASSUME NEW C, SayReleased(C) PROVE heard' \in [Claims -> Seq(Events)]
    <2>1. \A c \in Claims : heard[c] \in Seq(Events) BY <1>1 DEF SaidTypes
    <2>2. \A c \in Claims : Append(heard[c], "released") \in Seq(Events) BY <2>1
    <2> QED BY <1>1, <1>b, <2>1, <2>2 DEF SaidTypes, SayReleased
  <1>c. ASSUME heard' \in [Claims -> Seq(Events)], ends' = ends PROVE SaidTypes'
    BY <1>1, <1>c DEF SaidTypes
  <1>3. CASE Controls
    <2>1. heard' = heard \/ SayReleased(apply.given)
      BY <1>3 DEF Controls, OwnerPauses, OwnerResumes, Owner, InstallChanges, Leave, Update,
         DrainForUpdate, DrainTests, DrainApplies, CountStarts, CountFinishing, CountEnds, CountBook,
         InstallFails, EndDrainReads, EndDrainApplies, ConnOnly, Pausing, WatcherReads, WatcherTests,
         WatcherApplies, TellReleased, CancelBenches, Release, AbandonOne, saidVars
    <2>2. heard' \in [Claims -> Seq(Events)] BY <1>1, <1>b, <2>1 DEF SaidTypes
    <2> QED BY <1>3, <1>c, <2>2, ControlsLeave
  <1>4. CASE Ops
    <2>1. heard' = heard \/ \E c \in Claims : SayReleased({c}) \/ Say(c, "returned")
      BY <1>4 DEF Ops, OpenSession, CloseSession, CancelSession, Volume, Bench, CancelBench, saidVars
    <2>2. heard' \in [Claims -> Seq(Events)] BY <1>1, <1>a, <1>b, <2>1 DEF SaidTypes
    <2> QED BY <1>4, <1>c, <2>2, OpsLeave
  <1>5. CASE Benches BY <1>1, <1>5, BenchesLeave DEF SaidTypes
  <1>6. ASSUME NEW s \in Sids, Feed(s) PROVE SaidTypes'
    <2>1. heard' = heard \/ \E c \in Claims : Say(c, "returned")
      <3>1. CASE GiveBackSays(s) BY <1>1, <3>1 DEF GiveBackSays, FeedTypes
      <3>2. CASE ~GiveBackSays(s)
        BY <1>6, <3>2 DEF Feed, FeedTake, FetchStarts, FetchCancelled, FetchLost, FetchEnds, GiveBackReads,
           GiveBackSettles, HandOverTests, HandOver, saidVars
      <3> QED BY <3>1, <3>2
    <2>2. heard' \in [Claims -> Seq(Events)] BY <1>1, <1>a, <2>1 DEF SaidTypes
    <2> QED BY <1>6, <1>c, <2>2, FeedLeaves
  <1>7. ASSUME NEW s \in Sids, Run(s) PROVE SaidTypes' BY <1>1, <1>7, RunLeaves DEF SaidTypes, saidVars
  <1>8. ASSUME NEW s \in Sids, Reports(s) PROVE SaidTypes'
    <2>1. CASE ReporterTakes(s)
      <3>1. msgs[s] \in Seq(Msg) /\ msgs[s] # <<>> BY <1>1, <2>1 DEF RepTypes, ReporterTakes
      <3>2. Head(msgs[s]) \in Msg BY <3>1, Taking
      <3>3. heard' = heard \/ (Head(msgs[s]).kind \in {"ready", "started"}
                               /\ Say(Head(msgs[s]).claim, Head(msgs[s]).kind))
        BY <2>1 DEF ReporterTakes
      <3>4. heard' \in [Claims -> Seq(Events)] BY <1>1, <1>a, <3>2, <3>3, Kinds DEF SaidTypes
      <3> QED BY <1>c, <2>1, <3>4 DEF ReporterTakes
    <2>2. CASE ReporterPicks(s) \/ SessionExits(s) \/ \E r \in {"ok", "failed"} : FinishDelivers(s, r)
      BY <1>1, <2>2 DEF SaidTypes, ReporterPicks, SessionExits, FinishDelivers, saidVars
    <2>3. Finishing(s) => reporter[s].term.claim \in Claims BY <1>1 DEF RepTypes, ReporterTypes, Terminal
    <2>4. CASE FinishSettles(s)
      <3>1. /\ ends' = ends
            /\ heard' = heard \/ (Finishing(s) /\ Say(reporter[s].term.claim, "started"))
        BY <2>4 DEF FinishSettles, Finishing
      <3> QED BY <1>1, <1>a, <1>c, <2>3, <3>1 DEF SaidTypes
    <2>5. CASE FinishTells(s)
      <3>1. /\ Finishing(s)
            /\ \E e \in {"done", "failed"} : Say(reporter[s].term.claim, e)
            /\ ends' = ends \/ ends' = [ends EXCEPT ![s] = Append(ends[s], reporter[s].term.claim)]
        BY <2>5 DEF FinishTells, Finishing
      <3>2. ends[s] \in Seq(Claims) BY <1>1 DEF SaidTypes
      <3>3. Append(ends[s], reporter[s].term.claim) \in Seq(Claims) BY <2>3, <3>1, <3>2
      <3>4. heard' \in [Claims -> Seq(Events)] BY <1>a, <2>3, <3>1
      <3> QED BY <1>1, <3>1, <3>3, <3>4 DEF SaidTypes
    <2> QED BY <1>8, <2>1, <2>2, <2>4, <2>5 DEF Reports
  <1>9. ASSUME NEW s \in Sids, NEW w, Work(s, w) PROVE SaidTypes' BY <1>1, <1>9, WorkLeaves DEF SaidTypes, saidVars
  <1> QED BY <1>2, <1>3, <1>4, <1>5, <1>6, <1>7, <1>8, <1>9 DEF Cases

\* Every step keeps the types.
LEMMA TypesKept ==
    ASSUME Types, [Next]_vars
    PROVE  Types'
  <1>1. CASE Next
    BY <1>1, HubKept, SessionKept, BookKept, FeedKept, RunKept, ReporterKept, SaidKept DEF Types
  <1>2. CASE UNCHANGED vars
    BY <1>2 DEF vars, hubVars, bookVars, feedVars, runVars, repVars, saidVars, Types, HubTypes, FlagTypes,
       PauseTypes, ConnTypes, ApplyTypes, SessionTypes, BookTypes, FeedTypes, RunTypes, Busy, RepTypes,
       ReporterTypes, Finishing, SaidTypes
  <1> QED BY <1>1, <1>2

-----------------------------------------------------------------------------
(* The invariants of the hub.                                              *)

\* Without updates only the watcher applies a pause; what it read is what the owner asks for,
\* and what it applied last is in force, unless there is a change it has not seen.
WatchOK ==
    ~scene.updates =>
        /\ conn.at \in {"serving", "left"} /\ ~draining
        /\ apply.at # "free" => apply.by = "watcher" /\ watcher.at = "busy"
        /\ watcher.at \in {"read", "apply"} /\ ~unseen => watcher.mode = owner
        /\ watcher.at \in {"idle", "busy"} /\ ~unseen /\ ~leaving /\ owner # "no" => paused # "no"

\* Under a pause, a claim the hub answers for was started or given back, or the pause has yet
\* to come to its session.
CoveredOK ==
    /\ \A c \in outstanding : ses[SidOf[c]].state # "none"
    /\ paused # "no" =>
          \A c \in Answered : c \in started \cup released \/ (apply.at = "release" /\ SidOf[c] \in apply.left)

Told(c, e) == Said(c, e) # {}

\* Positions in what was said that are at most one.
AtMostOne(S) == \A i, j \in S : i = j

\* What is given back is marked while it is in the book, and is said once: at once by a refusal,
\* or by the pause that has it on its list.
ReleaseOK ==
    /\ outstanding \subseteq seen
    /\ apply.given \subseteq seen
    /\ \A c \in Claims :
          /\ Told(c, "released") => c \in seen
          /\ Told(c, "released") \/ c \in apply.given => (c \in outstanding => c \in released)
          /\ apply.at = "release" /\ c \in apply.given => ~Told(c, "released")
          /\ AtMostOne(Said(c, "released"))

\* A claim marked as given back is on the pause's list or was said.
BackOK ==
    \A c \in released : leaving \/ Told(c, "released") \/ (apply.at = "release" /\ c \in apply.given)

\* A session's exit: said when its reporter goes, or when it was refused.
ExitOK ==
    \A s \in Sids :
        /\ ses[s].state = "none" => runner[s] = "none"
        /\ ses[s].state = "open" => runner[s] # "none"
        /\ ses[s].intake => runner[s] # "none"
        /\ runner[s] = "none" => msgs[s] = <<>> /\ reporter[s].at = "idle"
        /\ exits[s] \in {0, 1}
        /\ exits[s] = 1 => ses[s].state = "gone" /\ (reporter[s].at = "gone" \/ runner[s] = "none")
        /\ reporter[s].at \in {"exiting", "gone"} => ses[s].state = "gone"
        /\ ~leaving /\ (reporter[s].at = "gone" \/ (ses[s].state = "gone" /\ runner[s] = "none"))
              => exits[s] = 1

\* Only the workers of a runner that works are busy.
WorkersOK ==
    \A s \in Sids : \A w \in Workers :
        /\ Busy(s, w) => runner[s] = "working"
        /\ w \notin scene.workers => worker[s][w].at = "idle"

BenchOK ==
    \A b \in Bids :
        /\ exits[b] \in {0, 1}
        /\ exits[b] = 1 => bench[b] \in {"exited", "gone"}
        /\ ~leaving /\ bench[b] \in {"exited", "gone"} => exits[b] = 1

-----------------------------------------------------------------------------
(* What saying an event changes.                                           *)

\* Positions of events lie in what was said so far.
LEMMA SaidBefore ==
    ASSUME Types, NEW c \in Claims, NEW e
    PROVE  /\ heard[c] \in Seq(Events)
           /\ \A i \in Said(c, e) : i \in 1 .. Len(heard[c])
  BY DEF Types, SaidTypes, Said, Events

\* Session::say adds the event behind everything said of that claim, or nothing.
LEMMA Saying ==
    ASSUME Types, NEW c \in Claims, NEW e \in Events, Say(c, e)
    PROVE  \A d \in Claims : \A f :
              \/ Said(d, f)' = Said(d, f) /\ (d = c /\ f = e => ~Talking(SidOf[c]))
              \/ /\ d = c /\ f = e /\ Talking(SidOf[c])
                 /\ Said(d, f)' = Said(d, f) \cup {Len(heard[d]) + 1}
  <1> SUFFICES ASSUME NEW d \in Claims, NEW f
               PROVE  \/ Said(d, f)' = Said(d, f) /\ (d = c /\ f = e => ~Talking(SidOf[c]))
                      \/ /\ d = c /\ f = e /\ Talking(SidOf[c])
                         /\ Said(d, f)' = Said(d, f) \cup {Len(heard[d]) + 1}
    OBVIOUS
  <1>1. heard \in [Claims -> Seq(Events)] BY DEF Types, SaidTypes, Events
  <1>2. CASE ~Talking(SidOf[c]) BY <1>2 DEF Say, Said
  <1>3. CASE Talking(SidOf[c]) /\ d # c BY <1>1, <1>3 DEF Say, Said
  <1>4. CASE Talking(SidOf[c]) /\ d = c
    <2>1. heard'[d] = Append(heard[d], e) /\ heard[d] \in Seq(Events) BY <1>1, <1>4 DEF Say
    <2>2. /\ DOMAIN heard'[d] = DOMAIN heard[d] \cup {Len(heard[d]) + 1}
          /\ heard'[d][Len(heard[d]) + 1] = e
          /\ \A i \in DOMAIN heard[d] : heard'[d][i] = heard[d][i]
      BY <2>1
    <2>3. Len(heard[d]) + 1 \notin DOMAIN heard[d] BY <2>1
    <2>4. CASE f = e BY <1>4, <2>2, <2>3, <2>4 DEF Said
    <2>5. CASE f # e BY <1>4, <2>2, <2>3, <2>5 DEF Said
    <2> QED BY <2>4, <2>5
  <1> QED BY <1>2, <1>3, <1>4

\* Hub::say of `released` adds one event for each claim on the list, or nothing.
LEMMA SayingReleased ==
    ASSUME Types, NEW C \in SUBSET Claims, SayReleased(C)
    PROVE  \A d \in Claims : \A f :
              \/ Said(d, f)' = Said(d, f) /\ (d \in C /\ f = "released" => leaving)
              \/ /\ d \in C /\ f = "released" /\ ~leaving
                 /\ Said(d, f)' = Said(d, f) \cup {Len(heard[d]) + 1}
  <1> SUFFICES ASSUME NEW d \in Claims, NEW f
               PROVE  \/ Said(d, f)' = Said(d, f) /\ (d \in C /\ f = "released" => leaving)
                      \/ /\ d \in C /\ f = "released" /\ ~leaving
                         /\ Said(d, f)' = Said(d, f) \cup {Len(heard[d]) + 1}
    OBVIOUS
  <1>1. heard \in [Claims -> Seq(Events)] BY DEF Types, SaidTypes, Events
  <1>2. CASE leaving BY <1>2 DEF SayReleased, Said
  <1>3. CASE ~leaving /\ d \notin C BY <1>1, <1>3 DEF SayReleased, Said
  <1>4. CASE ~leaving /\ d \in C
    <2>1. heard'[d] = Append(heard[d], "released") /\ heard[d] \in Seq(Events) BY <1>1, <1>4 DEF SayReleased
    <2>2. /\ DOMAIN heard'[d] = DOMAIN heard[d] \cup {Len(heard[d]) + 1}
          /\ heard'[d][Len(heard[d]) + 1] = "released"
          /\ \A i \in DOMAIN heard[d] : heard'[d][i] = heard[d][i]
      BY <2>1
    <2>3. Len(heard[d]) + 1 \notin DOMAIN heard[d] BY <2>1
    <2>4. CASE f = "released" BY <1>4, <2>2, <2>3, <2>4 DEF Said
    <2>5. CASE f # "released" BY <1>4, <2>2, <2>3, <2>5 DEF Said
    <2> QED BY <2>4, <2>5
  <1> QED BY <1>2, <1>3, <1>4

-----------------------------------------------------------------------------
(* The owner's pause.                                                      *)

\* The watcher's invariant is inductive.
LEMMA WatchKept ==
    ASSUME Types, WatchOK, Next
    PROVE  WatchOK'
  <1> SUFFICES ASSUME ~scene.updates
               PROVE  WatchOK'
    BY Steps DEF WatchOK
  <1>1. /\ conn.at \in {"serving", "left"} /\ ~draining
        /\ apply.at # "free" => apply.by = "watcher" /\ watcher.at = "busy"
        /\ watcher.at \in {"read", "apply"} /\ ~unseen => watcher.mode = owner
        /\ watcher.at \in {"idle", "busy"} /\ ~unseen /\ ~leaving /\ owner # "no" => paused # "no"
    BY DEF WatchOK
  <1>2. Cases BY Steps
  <1>3. watcher \in WatchRecord /\ apply \in ApplyRecord /\ conn \in ConnRecord
    BY DEF Types, HubTypes, PauseTypes, ApplyTypes, ConnTypes
  <1> USE DEF WatchOK
  <1>4. CASE \/ \E mode \in {"after", "now"} : OwnerPauses(mode)
             \/ OwnerResumes \/ InstallChanges
    BY <1>1, <1>4 DEF OwnerPauses, OwnerResumes, Owner, InstallChanges
  <1>5. CASE WatcherReads BY <1>1, <1>5 DEF WatcherReads
  <1>6. CASE WatcherTests BY <1>1, <1>3, <1>6 DEF WatcherTests, IdleWatcher, WatchRecord
  <1>7. CASE WatcherApplies
    <2>1. /\ paused' = watcher.mode /\ watcher'.at \in {"idle", "busy"}
          /\ UNCHANGED <<conn, draining, owner, unseen, leaving>>
          /\ \/ apply' = apply /\ apply.at = "free"
             \/ apply'.by = "watcher" /\ watcher'.at = "busy"
      <3>1. IdleWatcher.at = "idle" /\ [IdleWatcher EXCEPT !.at = "busy"].at = "busy" BY DEF IdleWatcher
      <3>2. apply.at = "free" /\ (apply' = apply \/ apply'.by = "watcher")
        BY <1>7 DEF WatcherApplies, Applies
      <3>3. /\ paused' = watcher.mode /\ UNCHANGED <<conn, draining, owner, unseen, leaving>>
            /\ watcher' = IF apply' = apply THEN IdleWatcher ELSE [IdleWatcher EXCEPT !.at = "busy"]
        BY <1>7 DEF WatcherApplies, Applies
      <3> QED BY <3>1, <3>2, <3>3
    <2> QED BY <1>1, <1>7, <2>1 DEF WatcherApplies
  <1>8. CASE TellReleased \/ CancelBenches
    <2>1. apply.by = "watcher" /\ watcher.at = "busy" BY <1>1, <1>8 DEF TellReleased, CancelBenches
    <2>2. /\ UNCHANGED <<conn, draining, owner, unseen, leaving, paused>>
          /\ \/ watcher' = watcher /\ apply'.by = apply.by
             \/ watcher' = IdleWatcher /\ apply' = IdleApply
      BY <1>3, <1>8, <2>1 DEF TellReleased, CancelBenches, ReturnTo, ApplyRecord
    <2> QED BY <1>1, <2>1, <2>2 DEF IdleWatcher, IdleApply
  <1>9. CASE \E s \in Sids : Release(s) \/ AbandonOne(s)
    <2>1. /\ UNCHANGED <<conn, draining, owner, unseen, leaving, paused, watcher>>
          /\ apply.at # "free" /\ apply'.by = apply.by
      BY <1>3, <1>9 DEF Release, AbandonOne, ApplyRecord
    <2> QED BY <1>1, <2>1
  <1>10. CASE Update
    BY <1>1, <1>10 DEF Update, DrainForUpdate, DrainTests, DrainApplies, CountStarts, CountFinishing, CountEnds,
       CountBook, InstallFails, EndDrainReads, EndDrainApplies
  <1>11. CASE Leave BY <1>1, <1>3, <1>11 DEF Leave, At, ConnRecord
  <1>12. CASE Ops BY <1>1, <1>12, OpsLeave DEF hubVars
  <1>13. CASE Benches BY <1>1, <1>13, BenchesLeave DEF hubVars
  <1>14. ASSUME NEW s \in Sids, Feed(s) PROVE WatchOK'
    <2>1. leaving => leaving'
      BY <1>14 DEF Feed, FeedTake, FetchStarts, FetchCancelled, FetchLost, FetchEnds, GiveBackReads,
         GiveBackSettles, GiveBackSays, HandOverTests, HandOver, hubVars
    <2> QED BY <1>1, <1>14, <2>1, FeedLeaves
  <1>15. ASSUME NEW s \in Sids, Run(s) PROVE WatchOK' BY <1>1, <1>15, RunLeaves DEF hubVars
  <1>16. ASSUME NEW s \in Sids, Reports(s) PROVE WatchOK' BY <1>1, <1>16, ReportsLeave DEF hubVars
  <1>17. ASSUME NEW s \in Sids, NEW w, Work(s, w) PROVE WatchOK' BY <1>1, <1>17, WorkLeaves DEF hubVars
  <1> QED
    BY <1>2, <1>4, <1>5, <1>6, <1>7, <1>8, <1>9, <1>10, <1>11, <1>12, <1>13, <1>14, <1>15, <1>16, <1>17
    DEF Cases, Controls, Pausing

\* The books keep being covered when a claim only leaves them or gains a mark.
LEMMA Coverage ==
    ASSUME Types, CoveredOK, UNCHANGED <<paused, apply>>, outstanding' \subseteq outstanding,
           \A c \in outstanding' : c \in started \cup released => c \in (started \cup released)',
           \A s \in Sids : ses'[s].state = ses[s].state \/ ses'[s].state = "gone"
    PROVE  CoveredOK'
  <1>1. \A c \in Claims : SidOf[c] \in Sids BY ConstantsAssumption
  <1>2. outstanding \subseteq Claims BY DEF Types, BookTypes
  <1> QED BY <1>1, <1>2 DEF CoveredOK, Answered

\* Who leaves the book leaves every part of it.
LEMMA Settled ==
    ASSUME NEW c, Settle(c)
    PROVE  /\ outstanding' = outstanding \ {c} /\ seen' = seen
           /\ \A d \in outstanding' : /\ d \in started <=> d \in started'
                                      /\ d \in released <=> d \in released'
  BY DEF Settle

\* A feeder settles a claim or leaves the books alone.
LEMMA FeedSettles ==
    ASSUME NEW s \in Sids, Feed(s)
    PROVE  \/ \E c : Settle(c)
           \/ UNCHANGED <<outstanding, seen, started, released>>
  BY DEF Feed, FeedTake, FetchStarts, FetchCancelled, FetchLost, FetchEnds, GiveBackReads,
     GiveBackSettles, GiveBackSays, HandOverTests, HandOver, bookVars

\* A reporter settles a claim only as it ends the volume.
LEMMA ReportsSettle ==
    ASSUME NEW s \in Sids, Reports(s)
    PROVE  \/ Settle(reporter[s].term.claim) /\ FinishSettles(s)
           \/ UNCHANGED bookVars
  BY DEF Reports, ReporterTakes, ReporterPicks, FinishSettles, FinishDelivers, FinishTells, SessionExits

\* A session's tokens are only ever cancelled, and its intake only closes.
Falls(r, q) ==
    /\ q.state = r.state /\ (q.intake => r.intake) /\ (r.stopping => q.stopping)
    /\ (r.quiet => q.quiet) /\ (r.abandon => q.abandon)

\* What a step does to a session's flags never reopens it.
LEMMA Falling ==
    ASSUME NEW r \in SesRecord
    PROVE  /\ Falls(r, r) /\ Falls(r, Stopped(r)) /\ Falls(r, Abandoned(r)) /\ Falls(r, [r EXCEPT !.intake = FALSE])
           /\ [Stopped(r) EXCEPT !.state = "gone"].state = "gone"
           /\ ~[Stopped(r) EXCEPT !.state = "gone"].intake
           /\ [Stopped(r) EXCEPT !.state = "gone"].quiet = r.quiet
  BY DEF SesRecord, Falls, Stopped, Abandoned

\* Else it opens, or is gone when its reporter takes the runner's last message.
LEMMA SessionMoves ==
    ASSUME Types, Next
    PROVE  \A s \in Sids :
              \/ Falls(ses[s], ses'[s])
              \/ ses[s].state = "none" /\ OpenSession(s) /\ ses'[s].quiet = ses[s].quiet
              \/ /\ ses'[s].state = "gone" /\ ~ses'[s].intake /\ ses'[s].quiet = ses[s].quiet
                 /\ ReporterTakes(s) /\ reporter'[s].at = "exiting"
  <1> SUFFICES ASSUME NEW t \in Sids
               PROVE  \/ Falls(ses[t], ses'[t])
                      \/ ses[t].state = "none" /\ OpenSession(t) /\ ses'[t].quiet = ses[t].quiet
                      \/ /\ ses'[t].state = "gone" /\ ~ses'[t].intake /\ ses'[t].quiet = ses[t].quiet
                         /\ ReporterTakes(t) /\ reporter'[t].at = "exiting"
    OBVIOUS
  <1>1. ses \in [Sids -> SesRecord] /\ reporter \in [Sids -> [at : ReporterPlaces, term : Terminal \cup {NoTerminal}]]
    BY DEF Types, SessionTypes, RepTypes, ReporterTypes
  <1>2. Cases BY Steps
  <1>f. /\ Falls(ses[t], ses[t]) /\ Falls(ses[t], Stopped(ses[t])) /\ Falls(ses[t], Abandoned(ses[t]))
        /\ Falls(ses[t], [ses[t] EXCEPT !.intake = FALSE])
    BY <1>1, Falling
  <1>s. ASSUME NEW s \in Sids, \/ ses' = [ses EXCEPT ![s] = Stopped(ses[s])]
                               \/ ses' = [ses EXCEPT ![s] = Abandoned(ses[s])]
                               \/ ses' = [ses EXCEPT ![s] = [ses[s] EXCEPT !.intake = FALSE]]
        PROVE  Falls(ses[t], ses'[t])
    <2>1. CASE t = s
      <3>1. ses'[t] \in {Stopped(ses[t]), Abandoned(ses[t]), [ses[t] EXCEPT !.intake = FALSE]}
        BY <1>1, <1>s, <2>1
      <3> QED BY <1>f, <3>1
    <2>2. CASE t # s
      <3>1. ses'[t] = ses[t] BY <1>1, <1>s, <2>2
      <3> QED BY <1>f, <3>1
    <2> QED BY <2>1, <2>2
  <1>3. CASE ses' = ses BY <1>3, <1>f
  <1>5. CASE Leave
    <2>1. ses'[t] \in {Abandoned(ses[t]), ses[t]} BY <1>1, <1>5 DEF Leave
    <2> QED BY <1>f, <2>1
  <1>6. CASE Controls
    <2>1. ses' = ses \/ Leave \/ \E s \in Sids : AbandonOne(s)
      BY <1>6 DEF Controls, OwnerPauses, OwnerResumes, Owner, InstallChanges, Update,
         DrainForUpdate, DrainTests, DrainApplies, CountStarts, CountFinishing, CountEnds, CountBook,
         InstallFails, EndDrainReads, EndDrainApplies, ConnOnly, Pausing, WatcherReads, WatcherTests,
         WatcherApplies, TellReleased, CancelBenches, Release
    <2>2. ASSUME NEW s \in Sids, AbandonOne(s) PROVE Falls(ses[t], ses'[t]) BY <1>s, <2>2 DEF AbandonOne
    <2> QED BY <1>3, <1>5, <2>1, <2>2
  <1>7. ASSUME NEW s \in Sids, OpenSession(s)
        PROVE  \/ Falls(ses[t], ses'[t])
               \/ t = s /\ ses[t].state = "none" /\ ses'[t].quiet = ses[t].quiet
    <2>1. \A u \in Sids \ {s} : ses'[u] = ses[u] BY <1>1, <1>7 DEF OpenSession
    <2>2. ses[s].state = "none" BY <1>7 DEF OpenSession
    <2>3. ses'[s].quiet = ses[s].quiet
      <3>1. \A r \in SesRecord : /\ [r EXCEPT !.state = "gone"].quiet = r.quiet
                                 /\ [r EXCEPT !.state = "open", !.intake = TRUE].quiet = r.quiet
        BY DEF SesRecord
      <3>2. ses[s] \in SesRecord BY <1>1
      <3>3. \/ ses' = [ses EXCEPT ![s] = [ses[s] EXCEPT !.state = "gone"]]
            \/ ses' = [ses EXCEPT ![s] = [ses[s] EXCEPT !.state = "open", !.intake = TRUE]]
        BY <1>1, <1>7 DEF OpenSession
      <3>4. \/ ses'[s] = [ses[s] EXCEPT !.state = "gone"]
            \/ ses'[s] = [ses[s] EXCEPT !.state = "open", !.intake = TRUE]
        BY <1>1, <3>3
      <3>5. /\ [ses[s] EXCEPT !.state = "gone"].quiet = ses[s].quiet
            /\ [ses[s] EXCEPT !.state = "open", !.intake = TRUE].quiet = ses[s].quiet
        BY <3>1, <3>2
      <3> QED BY <3>4, <3>5
    <2> QED BY <1>f, <2>1, <2>2, <2>3
  <1>8. ASSUME NEW s \in Sids, CloseSession(s) \/ CancelSession(s) PROVE Falls(ses[t], ses'[t])
    BY <1>s, <1>8 DEF CloseSession, CancelSession
  <1>9. CASE Ops
    <2>1. CASE \E c \in Claims : Volume(c) BY <1>3, <2>1 DEF Volume
    <2>2. CASE \E b \in Bids : Bench(b) \/ CancelBench(b) BY <1>3, <2>2 DEF Bench, CancelBench
    <2> QED BY <1>7, <1>8, <1>9, <2>1, <2>2 DEF Ops
  <1>10. CASE Benches BY <1>3, <1>10, BenchesLeave
  <1>11. ASSUME NEW s \in Sids, Feed(s) PROVE ses' = ses BY <1>11, FeedLeaves
  <1>12. ASSUME NEW s \in Sids, Run(s) PROVE Falls(ses[t], ses'[t])
    <2>1. \/ ses' = ses \/ ses' = [ses EXCEPT ![s] = Stopped(ses[s])]
          \/ ses' = [ses EXCEPT ![s] = [ses[s] EXCEPT !.intake = FALSE]]
      BY <1>1, <1>12 DEF Run, RunnerStops, RunnerReady, RunnerEnds
    <2> QED BY <1>f, <1>s, <2>1
  <1>13. ASSUME NEW s \in Sids, Reports(s)
         PROVE  \/ Falls(ses[t], ses'[t])
                \/ /\ t = s /\ ses'[t].state = "gone" /\ ~ses'[t].intake /\ ses'[t].quiet = ses[t].quiet
                   /\ ReporterTakes(t) /\ reporter'[t].at = "exiting"
    <2>1. \/ ses' = ses
          \/ /\ ReporterTakes(s) /\ ReporterAt(s, "exiting", NoTerminal)
             /\ ses' = [ses EXCEPT ![s] = [Stopped(ses[s]) EXCEPT !.state = "gone"]]
      BY <1>1, <1>13 DEF Reports, ReporterTakes, ReporterPicks, FinishSettles, FinishDelivers, FinishTells,
         SessionExits
    <2>2. CASE ReporterTakes(s) /\ ReporterAt(s, "exiting", NoTerminal)
               /\ ses' = [ses EXCEPT ![s] = [Stopped(ses[s]) EXCEPT !.state = "gone"]]
      <3>1. reporter'[s].at = "exiting" BY <1>1, <2>2 DEF ReporterAt
      <3>2. ses'[s] = [Stopped(ses[s]) EXCEPT !.state = "gone"] /\ \A u \in Sids \ {s} : ses'[u] = ses[u]
        BY <1>1, <2>2
      <3>3. ses[s] \in SesRecord BY <1>1
      <3>a. /\ [Stopped(ses[s]) EXCEPT !.state = "gone"].state = "gone"
            /\ ~[Stopped(ses[s]) EXCEPT !.state = "gone"].intake
            /\ [Stopped(ses[s]) EXCEPT !.state = "gone"].quiet = ses[s].quiet
        BY <3>3, Falling
      <3>4. CASE t = s BY <2>2, <3>1, <3>2, <3>a, <3>4
      <3>5. CASE t # s BY <1>f, <3>2, <3>5
      <3> QED BY <3>4, <3>5
    <2> QED BY <1>3, <1>f, <2>1, <2>2
  <1>14. ASSUME NEW s \in Sids, NEW w, Work(s, w) PROVE Falls(ses[t], ses'[t])
    <2>1. ses' = ses \/ ses' = [ses EXCEPT ![s] = Stopped(ses[s])]
      BY <1>14 DEF Work, WorkerTakes, WorkerMarks, WorkerBegins, WorkerProgress, WorkerFinishes, WorkerFatal,
         WorkerEnds
    <2> QED BY <1>f, <1>s, <2>1
  <1> QED BY <1>2, <1>3, <1>6, <1>7, <1>9, <1>10, <1>11, <1>12, <1>13, <1>14 DEF Cases, Ops

\* A session opens once and is gone once, by the steps named.
LEMMA StatesStay ==
    ASSUME Types, Next
    PROVE  \A s \in Sids : \/ ses'[s].state = ses[s].state
                           \/ ses[s].state = "none" /\ OpenSession(s)
                           \/ ses'[s].state = "gone" /\ ReporterTakes(s) /\ reporter'[s].at = "exiting"
  BY SessionMoves DEF Falls

\* A processor that leaves does not come back.
LEMMA LeavingStays ==
    ASSUME Types, Next
    PROVE  leaving => leaving'
  <1>1. Cases BY Steps
  <1>2. CASE Controls
    BY <1>2 DEF Controls, OwnerPauses, OwnerResumes, Owner, InstallChanges, Leave, Update,
       DrainForUpdate, DrainTests, DrainApplies, CountStarts, CountFinishing, CountEnds, CountBook,
       InstallFails, EndDrainReads, EndDrainApplies, ConnOnly, Pausing, WatcherReads, WatcherTests,
       WatcherApplies, TellReleased, CancelBenches, Release, AbandonOne
  <1>3. CASE Ops BY <1>3, OpsLeave DEF hubVars
  <1>4. CASE Benches BY <1>4, BenchesLeave DEF hubVars
  <1>5. ASSUME NEW s \in Sids, Feed(s) PROVE leaving => leaving'
    BY <1>5 DEF Feed, FeedTake, FetchStarts, FetchCancelled, FetchLost, FetchEnds, GiveBackReads,
       GiveBackSettles, GiveBackSays, HandOverTests, HandOver, hubVars
  <1>6. ASSUME NEW s \in Sids, Run(s) PROVE leaving => leaving' BY <1>6, RunLeaves DEF hubVars
  <1>7. ASSUME NEW s \in Sids, Reports(s) PROVE leaving => leaving' BY <1>7, ReportsLeave DEF hubVars
  <1>8. ASSUME NEW s \in Sids, NEW w, Work(s, w) PROVE leaving => leaving' BY <1>8, WorkLeaves DEF hubVars
  <1> QED BY <1>1, <1>2, <1>3, <1>4, <1>5, <1>6, <1>7, <1>8 DEF Cases

\* Who is silent stays silent.
LEMMA SilenceStays ==
    ASSUME Types, Next, NEW s \in Sids
    PROVE  Talking(s)' => Talking(s)
  BY LeavingStays, SessionMoves DEF Talking, Falls

\* Every step keeps the books covered under a pause.
LEMMA CoveredKept ==
    ASSUME Types, CoveredOK, Next
    PROVE  CoveredOK'
  <1>1. Cases BY Steps
  <1>2. \A c \in Claims : SidOf[c] \in Sids BY ConstantsAssumption
  <1>3. outstanding \subseteq Claims BY DEF Types, BookTypes
  <1>4. apply \in ApplyRecord BY DEF Types, HubTypes, ApplyTypes
  <1>5. CASE UNCHANGED <<paused, apply, outstanding, started, released>>
    <2>1. CASE \E s \in Sids : ses[s].state = "none" /\ OpenSession(s)
      <3>1. PICK s \in Sids : ses[s].state = "none" /\ OpenSession(s) BY <2>1
      <3>2. \A t \in Sids : t # s => ses'[t] = ses[t]
        BY <3>1 DEF OpenSession, Types, SessionTypes
      <3>3. \A c \in outstanding : SidOf[c] # s BY <3>1 DEF CoveredOK
      <3> QED BY <1>2, <1>3, <1>5, <3>2, <3>3 DEF CoveredOK, Answered
    <2>2. CASE ~\E s \in Sids : ses[s].state = "none" /\ OpenSession(s)
      BY <1>5, <2>2, StatesStay, Coverage
    <2> QED BY <2>1, <2>2
  <1>6. CASE Controls
    <2>1. UNCHANGED <<outstanding, started>> BY <1>6, ControlsLeave
    <2>2. ASSUME NEW by, NEW mode, Applies(by, mode), UNCHANGED <<ses, outstanding, started, released>>
          PROVE  CoveredOK'
      <3>1. CASE mode = "no" BY <2>2, <3>1 DEF CoveredOK, Applies
      <3>2. CASE mode # "no" /\ apply' = apply
        <4>1. paused # "no" /\ apply.at = "free" BY <2>2, <3>2 DEF Applies
        <4> QED BY <2>2, <3>2, <4>1 DEF CoveredOK, Answered
      <3>3. CASE apply' # apply
        <4>1. apply'.at = "release" /\ apply'.left = OpenSids BY <2>2, <3>3 DEF Applies
        <4> QED BY <1>2, <1>3, <2>2, <4>1 DEF CoveredOK, Answered, OpenSids
      <3> QED BY <3>1, <3>2, <3>3
    <2>3. CASE WatcherApplies BY <2>1, <2>2, <2>3 DEF WatcherApplies, bookVars
    <2>4. CASE DrainApplies \/ EndDrainApplies BY <2>1, <2>2, <2>4 DEF DrainApplies, EndDrainApplies, bookVars
    <2>5. ASSUME NEW s \in Sids, Release(s) PROVE CoveredOK'
      <3>1. /\ apply.at = "release" /\ apply'.at = "release" /\ apply'.left = apply.left \ {s}
            /\ released' = released \cup ReleasedBy(s, apply.now) /\ UNCHANGED <<paused, ses>>
        BY <1>4, <2>5 DEF Release, ApplyRecord
      <3>2. \A c \in outstanding : SidOf[c] = s => c \in started \cup released'
        BY <3>1 DEF ReleasedBy
      <3> QED BY <2>1, <3>1, <3>2 DEF CoveredOK, Answered
    <2>6. CASE TellReleased \/ CancelBenches \/ \E s \in Sids : AbandonOne(s)
      <3>1. /\ UNCHANGED <<paused, released>> /\ (apply.at = "release" => apply.left = {})
            /\ \A t \in Sids : ses'[t].state = ses[t].state \/ ses'[t].state = "gone"
        <4>1. \A t \in Sids : ~OpenSession(t)
          BY <1>4, <2>6 DEF TellReleased, CancelBenches, AbandonOne, OpenSession, Serving
        <4>2. UNCHANGED <<paused, released>> /\ (apply.at = "release" => apply.left = {})
          BY <2>6 DEF TellReleased, CancelBenches, AbandonOne, bookVars
        <4> QED BY <4>1, <4>2, StatesStay
      <3>2. \A c \in Answered : paused # "no" => c \in started \cup released BY <3>1 DEF CoveredOK
      <3> QED BY <1>2, <1>3, <2>1, <3>1, <3>2 DEF CoveredOK, Answered
    <2>7. CASE ~WatcherApplies /\ ~DrainApplies /\ ~EndDrainApplies /\ ~TellReleased /\ ~CancelBenches
               /\ ~\E s \in Sids : Release(s) \/ AbandonOne(s)
      <3>1. UNCHANGED <<paused, apply, released>>
        BY <1>6, <2>7 DEF Controls, OwnerPauses, OwnerResumes, Owner, InstallChanges, Leave, Update,
           DrainForUpdate, DrainTests, CountStarts, CountFinishing, CountEnds, CountBook,
           InstallFails, EndDrainReads, ConnOnly, Pausing, WatcherReads, WatcherTests, bookVars
      <3> QED BY <1>5, <2>1, <3>1
    <2> QED BY <2>3, <2>4, <2>5, <2>6, <2>7
  <1>7. CASE Ops
    <2>1. UNCHANGED <<paused, apply, started, released>> BY <1>7, OpsLeave DEF hubVars
    <2>2. CASE outstanding' = outstanding BY <1>5, <2>1, <2>2
    <2>3. CASE outstanding' # outstanding
      <3>1. PICK c \in Claims : Volume(c)
        BY <1>7, <2>3 DEF Ops, OpenSession, CloseSession, CancelSession, Bench, CancelBench, bookVars
      <3>2. /\ paused = "no" /\ ses[SidOf[c]].state # "none" /\ outstanding' = outstanding \cup {c} /\ ses' = ses
        BY <2>3, <3>1 DEF Volume, Refusing
      <3> QED BY <2>1, <3>2 DEF CoveredOK
    <2> QED BY <2>2, <2>3
  <1>8. CASE Benches BY <1>5, <1>8, BenchesLeave DEF hubVars, bookVars
  <1>9. ASSUME NEW s \in Sids, Feed(s) PROVE CoveredOK'
    <2>1. UNCHANGED <<paused, apply, ses>> BY <1>9, FeedLeaves
    <2>2. CASE UNCHANGED <<outstanding, seen, started, released>> BY <1>5, <2>1, <2>2
    <2>3. ASSUME NEW c, Settle(c) PROVE CoveredOK' BY <2>1, <2>3, Settled, Coverage
    <2> QED BY <1>9, <2>2, <2>3, FeedSettles
  <1>10. ASSUME NEW s \in Sids, Run(s) PROVE CoveredOK' BY <1>5, <1>10, RunLeaves DEF hubVars, bookVars
  <1>11. ASSUME NEW s \in Sids, Reports(s) PROVE CoveredOK'
    <2>1. UNCHANGED <<paused, apply>> BY <1>11, ReportsLeave DEF hubVars
    <2>2. CASE UNCHANGED bookVars BY <1>5, <2>1, <2>2 DEF bookVars
    <2>3. CASE FinishSettles(s) /\ Settle(reporter[s].term.claim)
      <3>1. ses' = ses BY <2>3 DEF FinishSettles
      <3> QED BY <2>1, <2>3, <3>1, Settled, Coverage
    <2> QED BY <1>11, <2>2, <2>3, ReportsSettle
  <1>12. ASSUME NEW s \in Sids, NEW w, Work(s, w) PROVE CoveredOK'
    <2>1. UNCHANGED <<paused, apply, outstanding, released>> BY <1>12, WorkLeaves DEF hubVars
    <2>2. started \subseteq started'
      BY <1>12 DEF Work, WorkerTakes, WorkerMarks, WorkerBegins, WorkerProgress, WorkerFinishes, WorkerFatal,
         WorkerEnds, bookVars
    <2>3. \A t \in Sids : ~OpenSession(t) \/ ses[t].state # "none" \/ ses'[t].state = ses[t].state
      <3>1. runner' = runner BY <1>12, WorkLeaves
      <3>2. ses' = ses \/ ses' = [ses EXCEPT ![s] = Stopped(ses[s])]
        BY <1>12 DEF Work, WorkerTakes, WorkerMarks, WorkerBegins, WorkerProgress, WorkerFinishes, WorkerFatal,
           WorkerEnds
      <3>3. \A r \in SesRecord : Stopped(r).state = r.state BY DEF SesRecord, Stopped
      <3>4. ses \in [Sids -> SesRecord] BY DEF Types, SessionTypes
      <3> QED BY <3>2, <3>3, <3>4
    <2> QED BY <2>1, <2>2, <2>3, StatesStay, Coverage
  <1> QED BY <1>1, <1>6, <1>7, <1>8, <1>9, <1>10, <1>11, <1>12 DEF Cases

\* What a session's own tasks say of a claim.
Speaks == heard' = heard \/ \E c \in Claims, e \in Events \ {"released"} : Say(c, e)

\* An event of a session's line is never `released`.
LEMMA SpeakingReleasesNone ==
    ASSUME Types, Speaks
    PROVE  \A d \in Claims : (Said(d, "released")' = Said(d, "released"))
  <1>1. CASE heard' = heard BY <1>1 DEF Said
  <1>2. ASSUME NEW c \in Claims, NEW e \in Events \ {"released"}, Say(c, e)
        PROVE  \A d \in Claims : (Said(d, "released")' = Said(d, "released"))
    BY <1>2, Saying
  <1> QED BY <1>1, <1>2 DEF Speaks

\* A feeder says at most an event about its claim.
LEMMA FeedSpeaks ==
    ASSUME Types, NEW s \in Sids, Feed(s)
    PROVE  Speaks
  <1>1. CASE GiveBackSays(s) BY <1>1 DEF GiveBackSays, Types, FeedTypes, Speaks, Events
  <1>2. CASE ~GiveBackSays(s)
    BY <1>2 DEF Speaks, Feed, FeedTake, FetchStarts, FetchCancelled, FetchLost, FetchEnds, GiveBackReads,
       GiveBackSettles, HandOverTests, HandOver, saidVars
  <1> QED BY <1>1, <1>2

\* A reporter says at most an event about a claim handed to its runner.
LEMMA ReportsSpeak ==
    ASSUME Types, NEW s \in Sids, Reports(s)
    PROVE  Speaks
  <1>1. RepTypes BY DEF Types
  <1> USE DEF Speaks, Events
  <1>2. CASE ReporterTakes(s)
    <2>1. msgs[s] \in Seq(Msg) /\ msgs[s] # <<>> BY <1>1, <1>2 DEF RepTypes, ReporterTakes
    <2>2. Head(msgs[s]) \in Msg BY <2>1, Taking
    <2>3. heard' = heard \/ (Head(msgs[s]).kind \in {"ready", "started"}
                             /\ Say(Head(msgs[s]).claim, Head(msgs[s]).kind))
      BY <1>2 DEF ReporterTakes
    <2> QED BY <2>2, <2>3, Kinds
  <1>3. Finishing(s) => reporter[s].term.claim \in Claims BY <1>1 DEF RepTypes, ReporterTypes, Terminal
  <1>4. CASE ~ReporterTakes(s)
    <2>1. heard' = heard \/ (Finishing(s) /\ \E e \in {"started", "done", "failed"} : Say(reporter[s].term.claim, e))
      BY <1>4 DEF Reports, ReporterPicks, FinishSettles, FinishDelivers, FinishTells, SessionExits,
         Finishing, saidVars
    <2> QED BY <1>3, <2>1
  <1> QED BY <1>2, <1>4

\* The release books hold when no claim is given back and none enters.
LEMMA ReleaseStays ==
    ASSUME Types, ReleaseOK, outstanding' \subseteq outstanding, seen' = seen, apply' = apply,
           \A d \in Claims : Said(d, "released")' = Said(d, "released"),
           \A d \in outstanding' : d \in released => d \in released'
    PROVE  ReleaseOK'
  BY DEF ReleaseOK, Told

\* Every step keeps the release books.
LEMMA ReleaseKept ==
    ASSUME Types, ReleaseOK, Next
    PROVE  ReleaseOK'
  <1>1. Cases BY Steps
  <1>3. apply \in ApplyRecord BY DEF Types, HubTypes, ApplyTypes
  <1>4. outstanding \subseteq Claims /\ seen \subseteq Claims BY DEF Types, BookTypes
  <1>5. CASE Controls
    <2>1. UNCHANGED <<outstanding, seen>> BY <1>5, ControlsLeave
    <2>2. ASSUME NEW s \in Sids, Release(s) PROVE ReleaseOK'
      <3>1. /\ apply.at = "release" /\ apply'.at = "release" /\ apply'.given = apply.given \cup ReleasedBy(s, apply.now)
            /\ released' = released \cup ReleasedBy(s, apply.now) /\ heard' = heard
        BY <1>3, <2>2 DEF Release, ApplyRecord, saidVars
      <3>2. \A c \in ReleasedBy(s, apply.now) : c \in outstanding /\ c \notin released BY DEF ReleasedBy
      <3>3. \A c \in ReleasedBy(s, apply.now) : ~Told(c, "released") BY <1>4, <3>2 DEF ReleaseOK
      <3>4. \A c \in Claims : (Said(c, "released")' = Said(c, "released")) BY <3>1 DEF Said
      <3> QED BY <1>4, <2>1, <3>1, <3>2, <3>3, <3>4 DEF ReleaseOK, Told
    <2>3. CASE TellReleased
      <3>1. /\ apply.at = "release" /\ SayReleased(apply.given) /\ released' = released
            /\ apply' = IdleApply \/ (apply'.at = "abandon" /\ apply'.given = apply.given)
        BY <1>3, <2>3 DEF TellReleased, bookVars, ApplyRecord
      <3>2. apply'.at # "release" /\ apply'.given \subseteq apply.given BY <3>1 DEF IdleApply
      <3>3. apply.given \in SUBSET Claims BY <1>3 DEF ApplyRecord
      <3>4. \A d \in Claims :
               \/ Said(d, "released")' = Said(d, "released")
               \/ /\ d \in apply.given /\ Said(d, "released")' = Said(d, "released") \cup {Len(heard[d]) + 1}
        BY <3>1, <3>3, SayingReleased
      <3>5. \A d \in apply.given : Said(d, "released") = {} BY <3>1, <3>3 DEF ReleaseOK, Told
      <3> QED BY <1>4, <2>1, <3>1, <3>2, <3>3, <3>4, <3>5 DEF ReleaseOK, Told, AtMostOne
    <2>4. CASE ~TellReleased /\ ~\E s \in Sids : Release(s)
      <3>1. heard' = heard /\ released' = released
        BY <1>5, <2>4 DEF Controls, OwnerPauses, OwnerResumes, Owner, InstallChanges, Leave, Update,
           DrainForUpdate, DrainTests, DrainApplies, CountStarts, CountFinishing, CountEnds, CountBook,
           InstallFails, EndDrainReads, EndDrainApplies, ConnOnly, Pausing, WatcherReads, WatcherTests,
           WatcherApplies, CancelBenches, AbandonOne, saidVars, bookVars
      <3>2. \A c \in Claims : (Said(c, "released")' = Said(c, "released")) BY <3>1 DEF Said
      <3>3. apply' = apply \/ apply'.given = {} \/ (apply'.at # "release" /\ apply'.given = apply.given)
        <4>1. ASSUME NEW by, NEW mode, Applies(by, mode) PROVE apply' = apply \/ apply'.given = {}
          BY <4>1 DEF Applies
        <4>2. CASE CancelBenches \/ \E s \in Sids : AbandonOne(s)
          BY <1>3, <4>2 DEF CancelBenches, IdleApply, AbandonOne, ApplyRecord
        <4>3. CASE WatcherApplies \/ DrainApplies \/ EndDrainApplies
          BY <4>1, <4>3 DEF WatcherApplies, DrainApplies, EndDrainApplies
        <4>4. CASE ~CancelBenches /\ ~(\E s \in Sids : AbandonOne(s)) /\ ~WatcherApplies /\ ~DrainApplies
                   /\ ~EndDrainApplies
          BY <1>5, <2>4, <4>4 DEF Controls, OwnerPauses, OwnerResumes, Owner, InstallChanges, Leave, Update,
             DrainForUpdate, DrainTests, CountStarts, CountFinishing, CountEnds, CountBook,
             InstallFails, EndDrainReads, ConnOnly, Pausing, WatcherReads, WatcherTests
        <4> QED BY <4>2, <4>3, <4>4
      <3> QED BY <2>1, <3>1, <3>2, <3>3 DEF ReleaseOK, Told
    <2> QED BY <2>2, <2>3, <2>4
  <1>6. CASE Ops
    <2>1. UNCHANGED <<apply, released>> BY <1>6, OpsLeave DEF hubVars
    <2>2. ASSUME NEW c \in Claims, Volume(c) PROVE ReleaseOK'
      <3>1. /\ c \notin seen /\ seen' = seen \cup {c}
            /\ \/ outstanding' = outstanding /\ SayReleased({c})
               \/ /\ heard' = heard \/ Say(c, "returned")
                  /\ outstanding' = outstanding \/ outstanding' = outstanding \cup {c}
        BY <2>2 DEF Volume
      <3>2. Said(c, "released") = {} /\ c \notin apply.given /\ c \notin outstanding BY <3>1 DEF ReleaseOK, Told
      <3>3. CASE outstanding' = outstanding /\ SayReleased({c})
        <4>1. \A d \in Claims : \/ Said(d, "released")' = Said(d, "released")
                                \/ d = c /\ Said(d, "released")' = Said(d, "released") \cup {Len(heard[d]) + 1}
          BY <3>3, SayingReleased
        <4> QED BY <2>1, <3>1, <3>2, <3>3, <4>1 DEF ReleaseOK, Told, AtMostOne
      <3>4. CASE /\ heard' = heard \/ Say(c, "returned")
                 /\ outstanding' = outstanding \/ outstanding' = outstanding \cup {c}
        <4>1. \A d \in Claims : (Said(d, "released")' = Said(d, "released"))
          <5>1. CASE heard' = heard BY <5>1 DEF Said
          <5>2. CASE Say(c, "returned") BY <5>2, Saying DEF Events
          <5> QED BY <3>4, <5>1, <5>2
        <4> QED BY <2>1, <3>1, <3>2, <3>4, <4>1 DEF ReleaseOK, Told
      <3> QED BY <3>1, <3>3, <3>4
    <2>3. CASE ~\E c \in Claims : Volume(c)
      <3>1. UNCHANGED <<outstanding, seen, heard>>
        BY <1>6, <2>3 DEF Ops, OpenSession, CloseSession, CancelSession, Bench, CancelBench, bookVars, saidVars
      <3>2. \A c \in Claims : (Said(c, "released")' = Said(c, "released")) BY <3>1 DEF Said
      <3> QED BY <2>1, <3>1, <3>2, ReleaseStays
    <2> QED BY <2>2, <2>3
  <1>7. CASE Benches
    <2>1. UNCHANGED <<apply, outstanding, seen, released, heard>> BY <1>7, BenchesLeave DEF hubVars, bookVars
    <2>2. \A c \in Claims : (Said(c, "released")' = Said(c, "released")) BY <2>1 DEF Said
    <2> QED BY <2>1, <2>2, ReleaseStays
  <1>8. ASSUME NEW s \in Sids, Feed(s) PROVE ReleaseOK'
    <2>1. UNCHANGED <<apply, seen>> BY <1>8, FeedLeaves
    <2>3. \A c \in Claims : (Said(c, "released")' = Said(c, "released"))
      BY <1>8, FeedSpeaks, SpeakingReleasesNone
    <2>4. outstanding' \subseteq outstanding /\ \A d \in outstanding' : d \in released => d \in released'
      BY <1>8, FeedSettles, Settled
    <2> QED BY <2>1, <2>3, <2>4, ReleaseStays
  <1>9. ASSUME NEW s \in Sids, Run(s) PROVE ReleaseOK'
    <2>1. UNCHANGED <<apply, outstanding, seen, released, heard>> BY <1>9, RunLeaves DEF hubVars, bookVars, saidVars
    <2>2. \A c \in Claims : (Said(c, "released")' = Said(c, "released")) BY <2>1 DEF Said
    <2> QED BY <2>1, <2>2, ReleaseStays
  <1>10. ASSUME NEW s \in Sids, Reports(s) PROVE ReleaseOK'
    <2>1. UNCHANGED <<apply, seen>> BY <1>10, ReportsLeave DEF hubVars
    <2>2. \A c \in Claims : (Said(c, "released")' = Said(c, "released"))
      BY <1>10, ReportsSpeak, SpeakingReleasesNone
    <2>3. outstanding' \subseteq outstanding /\ \A d \in outstanding' : d \in released => d \in released'
      BY <1>10, ReportsSettle, Settled DEF bookVars
    <2> QED BY <2>1, <2>2, <2>3, ReleaseStays
  <1>11. ASSUME NEW s \in Sids, NEW w, Work(s, w) PROVE ReleaseOK'
    <2>1. UNCHANGED <<apply, outstanding, seen, released, heard>> BY <1>11, WorkLeaves DEF hubVars, saidVars
    <2>2. \A c \in Claims : (Said(c, "released")' = Said(c, "released")) BY <2>1 DEF Said
    <2> QED BY <2>1, <2>2, ReleaseStays
  <1> QED BY <1>1, <1>5, <1>6, <1>7, <1>8, <1>9, <1>10, <1>11 DEF Cases

Hears == Speaks \/ \E C \in SUBSET Claims : SayReleased(C)

\* What a step says: nothing, one event, or the pause's list.
LEMMA Hearing ==
    ASSUME Types, Next
    PROVE  Hears
  <1>1. Cases BY Steps
  <1>2. CASE heard' = heard BY <1>2 DEF Hears, Speaks
  <1>3. CASE Controls
    <2>1. apply.given \in SUBSET Claims BY DEF Types, HubTypes, ApplyTypes, ApplyRecord
    <2>2. heard' = heard \/ SayReleased(apply.given)
      BY <1>3 DEF Controls, OwnerPauses, OwnerResumes, Owner, InstallChanges, Leave, Update,
         DrainForUpdate, DrainTests, DrainApplies, CountStarts, CountFinishing, CountEnds, CountBook,
         InstallFails, EndDrainReads, EndDrainApplies, ConnOnly, Pausing, WatcherReads, WatcherTests,
         WatcherApplies, TellReleased, CancelBenches, Release, AbandonOne, saidVars
    <2> QED BY <1>2, <2>1, <2>2 DEF Hears
  <1>4. CASE Ops
    <2>1. heard' = heard \/ \E c \in Claims : SayReleased({c}) \/ Say(c, "returned")
      BY <1>4 DEF Ops, OpenSession, CloseSession, CancelSession, Volume, Bench, CancelBench, saidVars
    <2>2. ASSUME NEW c \in Claims, SayReleased({c}) PROVE Hears BY <2>2 DEF Hears
    <2> QED BY <1>2, <2>1, <2>2 DEF Hears, Speaks, Events
  <1>5. CASE Benches BY <1>2, <1>5, BenchesLeave
  <1>6. ASSUME NEW s \in Sids, Feed(s) PROVE Hears BY <1>6, FeedSpeaks DEF Hears
  <1>7. ASSUME NEW s \in Sids, Run(s) PROVE Hears BY <1>2, <1>7, RunLeaves DEF saidVars
  <1>8. ASSUME NEW s \in Sids, Reports(s) PROVE Hears BY <1>8, ReportsSpeak DEF Hears
  <1>9. ASSUME NEW s \in Sids, NEW w, Work(s, w) PROVE Hears BY <1>2, <1>9, WorkLeaves DEF saidVars
  <1> QED BY <1>1, <1>3, <1>4, <1>5, <1>6, <1>7, <1>8, <1>9 DEF Cases

\* Nothing that was said is unsaid.
LEMMA SaidStays ==
    ASSUME Types, Hears
    PROVE  \A c \in Claims : \A e : Said(c, e) \subseteq Said(c, e)'
  <1>1. CASE heard' = heard BY <1>1 DEF Said
  <1>2. ASSUME NEW C \in SUBSET Claims, SayReleased(C) PROVE \A c \in Claims : \A e : Said(c, e) \subseteq Said(c, e)'
    BY <1>2, SayingReleased
  <1>3. ASSUME NEW d \in Claims, NEW f \in Events, Say(d, f)
        PROVE  \A c \in Claims : \A e : Said(c, e) \subseteq Said(c, e)'
    BY <1>3, Saying
  <1> QED BY <1>1, <1>2, <1>3 DEF Hears, Speaks

\* What was told stays told.
LEMMA ToldStays ==
    ASSUME Types, Next, NEW c \in Claims, NEW e, Told(c, e)
    PROVE  Told(c, e)'
  BY Hearing, SaidStays DEF Told

\* Marks stay accounted for when no claim is marked and the list stays.
LEMMA BackStays ==
    ASSUME Types, BackOK, Next, released' \subseteq released,
           apply' = apply \/ apply.at # "release"
    PROVE  BackOK'
  BY ToldStays, LeavingStays DEF BackOK, Types, BookTypes

\* Every step keeps the marks accounted for.
LEMMA BackKept ==
    ASSUME Types, BackOK, Next
    PROVE  BackOK'
  <1>1. Cases BY Steps
  <1>2. apply \in ApplyRecord BY DEF Types, HubTypes, ApplyTypes
  <1>3. CASE Controls
    <2>1. ASSUME NEW s \in Sids, Release(s) PROVE BackOK'
      <3>1. /\ apply'.at = "release" /\ apply'.given = apply.given \cup ReleasedBy(s, apply.now)
            /\ released' = released \cup ReleasedBy(s, apply.now)
        BY <1>2, <2>1 DEF Release, ApplyRecord
      <3> QED BY <3>1, ToldStays, LeavingStays DEF BackOK, Types, BookTypes
    <2>2. CASE TellReleased
      <3>1. SayReleased(apply.given) /\ released' = released BY <2>2 DEF TellReleased, bookVars
      <3>2. apply.given \in SUBSET Claims BY <1>2 DEF ApplyRecord
      <3>3. \A d \in apply.given : leaving \/ Told(d, "released")'
        <4>1. \A d \in Claims : \/ leaving \/ d \notin apply.given
                                \/ Said(d, "released")' = Said(d, "released") \cup {Len(heard[d]) + 1}
          BY <3>1, <3>2, SayingReleased
        <4> QED BY <3>2, <4>1 DEF Told
      <3> QED BY <3>1, <3>3, ToldStays, LeavingStays DEF BackOK, Types, BookTypes
    <2>3. CASE ~TellReleased /\ ~\E s \in Sids : Release(s)
      <3>1. released' = released
        BY <1>3, <2>3 DEF Controls, OwnerPauses, OwnerResumes, Owner, InstallChanges, Leave, Update,
           DrainForUpdate, DrainTests, DrainApplies, CountStarts, CountFinishing, CountEnds, CountBook,
           InstallFails, EndDrainReads, EndDrainApplies, ConnOnly, Pausing, WatcherReads, WatcherTests,
           WatcherApplies, CancelBenches, AbandonOne, bookVars
      <3>2. apply' = apply \/ apply.at # "release"
        BY <1>3, <2>3 DEF Controls, OwnerPauses, OwnerResumes, Owner, InstallChanges, Leave, Update,
           DrainForUpdate, DrainTests, DrainApplies, CountStarts, CountFinishing, CountEnds, CountBook,
           InstallFails, EndDrainReads, EndDrainApplies, ConnOnly, Pausing, WatcherReads, WatcherTests,
           WatcherApplies, CancelBenches, AbandonOne, Applies
      <3> QED BY <3>1, <3>2, BackStays
    <2> QED BY <2>1, <2>2, <2>3
  <1>4. CASE Ops BY <1>4, OpsLeave, BackStays DEF hubVars
  <1>5. CASE Benches BY <1>5, BenchesLeave, BackStays DEF hubVars, bookVars
  <1>6. ASSUME NEW s \in Sids, Feed(s) PROVE BackOK'
    <2>1. apply' = apply BY <1>6, FeedLeaves
    <2>2. released' \subseteq released BY <1>6, FeedSettles DEF Settle
    <2> QED BY <2>1, <2>2, BackStays
  <1>7. ASSUME NEW s \in Sids, Run(s) PROVE BackOK' BY <1>7, RunLeaves, BackStays DEF hubVars, bookVars
  <1>8. ASSUME NEW s \in Sids, Reports(s) PROVE BackOK'
    <2>1. apply' = apply BY <1>8, ReportsLeave DEF hubVars
    <2>2. released' \subseteq released BY <1>8, ReportsSettle DEF Settle, bookVars
    <2> QED BY <2>1, <2>2, BackStays
  <1>9. ASSUME NEW s \in Sids, NEW w, Work(s, w) PROVE BackOK' BY <1>9, WorkLeaves, BackStays DEF hubVars
  <1> QED BY <1>1, <1>3, <1>4, <1>5, <1>6, <1>7, <1>8, <1>9 DEF Cases

-----------------------------------------------------------------------------
(* Exits.                                                                  *)

\* Only workers of a working runner stay busy.
LEMMA WorkersKept ==
    ASSUME Types, ExitOK, WorkersOK, Next
    PROVE  WorkersOK'
  <1>1. scene' = scene /\ Cases BY Steps
  <1>2. /\ runner \in [Sids -> {"none", "loading", "working", "unloaded", "done"}]
        /\ worker \in [Sids -> [Workers -> WorkerRecord]]
    BY DEF Types, SessionTypes, RunTypes
  <1> USE DEF WorkersOK, Busy
  <1>3. CASE Controls BY <1>1, <1>3, ControlsLeave DEF runVars
  <1>4. CASE Ops
    <2>1. worker' = worker BY <1>4, OpsLeave
    <2>2. CASE runner' = runner BY <1>1, <2>1, <2>2
    <2>3. CASE runner' # runner
      <3>1. PICK s \in Sids : OpenSession(s)
        BY <1>4, <2>3 DEF Ops, CloseSession, CancelSession, Volume, Bench, CancelBench, runVars
      <3>2. runner' = [runner EXCEPT ![s] = "loading"] BY <2>3, <3>1 DEF OpenSession
      <3>3. runner[s] = "none" BY <3>1 DEF OpenSession, ExitOK
      <3> QED BY <1>1, <1>2, <2>1, <3>2, <3>3
    <2> QED BY <2>2, <2>3
  <1>5. CASE Benches BY <1>1, <1>5, BenchesLeave DEF runVars
  <1>6. ASSUME NEW s \in Sids, Feed(s) PROVE WorkersOK' BY <1>1, <1>6, FeedLeaves
  <1>7. ASSUME NEW s \in Sids, Run(s) PROVE WorkersOK'
    <2>1. worker' = worker BY <1>7, RunLeaves
    <2>2. \/ runner[s] = "loading" /\ \E r \in {"unloaded", "working"} : runner' = [runner EXCEPT ![s] = r]
          \/ /\ runner' = [runner EXCEPT ![s] = "done"]
             /\ \A w \in scene.workers : worker[s][w].at = "ended"
      BY <1>7 DEF Run, RunnerStops, RunnerReady, RunnerEnds
    <2>3. \A w \in Workers : ~Busy(s, w) \/ runner'[s] = "working" BY <1>2, <2>2
    <2> QED BY <1>1, <1>2, <2>1, <2>2, <2>3
  <1>8. ASSUME NEW s \in Sids, Reports(s) PROVE WorkersOK' BY <1>1, <1>8, ReportsLeave DEF runVars
  <1>9. ASSUME NEW s \in Sids, NEW w \in scene.workers, Work(s, w) PROVE WorkersOK'
    <2>1. runner' = runner BY <1>9, WorkLeaves
    <2>2. \E r : worker' = [worker EXCEPT ![s][w] = r]
      BY <1>9 DEF Work, WorkerTakes, WorkerMarks, WorkerBegins, WorkerProgress, WorkerFinishes, WorkerFatal,
         WorkerEnds, WorkerAt
    <2>3. runner[s] = "working"
      <3>1. w \in Workers BY ConstantsAssumption DEF Types, HubTypes, Scene
      <3>2. runner[s] = "working" \/ Busy(s, w)
        BY <1>9 DEF Work, WorkerTakes, WorkerMarks, WorkerBegins, WorkerProgress, WorkerFinishes, WorkerFatal,
           WorkerEnds
      <3> QED BY <3>1, <3>2
    <2> QED BY <1>1, <1>2, <2>1, <2>2, <2>3
  <1> QED BY <1>1, <1>3, <1>4, <1>5, <1>6, <1>7, <1>8, <1>9 DEF Cases

\* A benchmark's exit is counted once.
LEMMA BenchKept ==
    ASSUME Types, BenchOK, Next
    PROVE  BenchOK'
  <1>1. Cases BY Steps
  <1>2. /\ bench \in [Bids -> {"none", "waiting", "running", "cancelled", "exited", "gone"}]
        /\ exits \in [Sids \cup Bids -> Nat] /\ leaving \in BOOLEAN
    BY DEF Types, SessionTypes, HubTypes, FlagTypes
  <1>3. leaving => leaving' BY LeavingStays
  <1>4. Sids \cap Bids = {} BY ConstantsAssumption
  <1> USE DEF BenchOK
  <1>a. ASSUME bench' = bench, \E s \in Sids : \/ exits' = exits
                                               \/ exits' = [exits EXCEPT ![s] = @ + 1]
        PROVE  BenchOK'
    BY <1>2, <1>3, <1>4, <1>a
  <1>5. CASE Controls
    <2>1. exits' = exits BY <1>5, ControlsLeave
    <2>2. bench' = bench \/ bench' = [b \in Bids |-> IF bench[b] \in {"waiting", "running"} THEN "cancelled" ELSE bench[b]]
      BY <1>5 DEF Controls, OwnerPauses, OwnerResumes, Owner, InstallChanges, Leave, Update,
         DrainForUpdate, DrainTests, DrainApplies, CountStarts, CountFinishing, CountEnds, CountBook,
         InstallFails, EndDrainReads, EndDrainApplies, ConnOnly, Pausing, WatcherReads, WatcherTests,
         WatcherApplies, TellReleased, CancelBenches, Release, AbandonOne
    <2> QED BY <1>2, <1>3, <2>1, <2>2
  <1>6. CASE Ops
    <2>1. ASSUME NEW s \in Sids, OpenSession(s) PROVE BenchOK'
      <3>1. bench' = bench /\ (exits' = exits \/ exits' = [exits EXCEPT ![s] = @ + 1])
        BY <2>1 DEF OpenSession, SayExit
      <3> QED BY <1>a, <3>1
    <2>2. ASSUME NEW b \in Bids, Bench(b) PROVE BenchOK'
      <3>1. bench[b] = "none" /\ ~leaving /\ leaving' = leaving BY <2>2 DEF Bench, hubVars
      <3>2. CASE Refusing
        <4>1. bench' = [bench EXCEPT ![b] = "gone"] /\ exits' = [exits EXCEPT ![b] = @ + 1]
          BY <2>2, <3>1, <3>2 DEF Bench, SayExit
        <4>2. exits[b] = 0 BY <3>1
        <4> QED BY <1>2, <3>1, <4>1, <4>2
      <3>3. CASE ~Refusing
        <4>1. bench' = [bench EXCEPT ![b] = "waiting"] /\ exits' = exits BY <2>2, <3>3 DEF Bench
        <4> QED BY <1>2, <3>1, <4>1
      <3> QED BY <3>2, <3>3
    <2>3. ASSUME NEW b \in Bids, CancelBench(b) PROVE BenchOK'
      <3>1. /\ bench[b] \in {"waiting", "running"} /\ bench' = [bench EXCEPT ![b] = "cancelled"]
            /\ exits' = exits
        BY <2>3 DEF CancelBench, saidVars
      <3> QED BY <1>2, <1>3, <3>1
    <2>4. CASE ~(\E s \in Sids : OpenSession(s)) /\ ~(\E b \in Bids : Bench(b) \/ CancelBench(b))
      BY <1>2, <1>3, <1>6, <2>4 DEF Ops, CloseSession, CancelSession, Volume, saidVars
    <2> QED BY <2>1, <2>2, <2>3, <2>4
  <1>7. CASE Benches
    <2>0. leaving' = leaving BY <1>7, BenchesLeave DEF hubVars
    <2>1. ASSUME NEW b \in Bids, BenchRuns(b) PROVE BenchOK'
      BY <1>2, <2>0, <2>1 DEF BenchRuns, saidVars
    <2>2. ASSUME NEW b \in Bids, BenchExits(b) PROVE BenchOK'
      <3>1. /\ bench[b] \in {"waiting", "running", "cancelled"} /\ bench' = [bench EXCEPT ![b] = "exited"]
            /\ (exits' = exits /\ leaving) \/ exits' = [exits EXCEPT ![b] = @ + 1]
        BY <2>2 DEF BenchExits, SayExit
      <3>2. exits[b] = 0 BY <3>1
      <3> QED BY <1>2, <2>0, <3>1, <3>2
    <2>3. ASSUME NEW b \in Bids, BenchGone(b) PROVE BenchOK'
      BY <1>2, <2>0, <2>3 DEF BenchGone, saidVars
    <2> QED BY <1>7, <2>1, <2>2, <2>3 DEF Benches
  <1>8. ASSUME NEW s \in Sids, Feed(s) PROVE BenchOK' BY <1>a, <1>8, FeedLeaves
  <1>9. ASSUME NEW s \in Sids, Run(s) PROVE BenchOK' BY <1>a, <1>9, RunLeaves DEF saidVars
  <1>10. ASSUME NEW s \in Sids, Reports(s) PROVE BenchOK'
    <2>1. bench' = bench BY <1>10, ReportsLeave
    <2>2. exits' = exits \/ exits' = [exits EXCEPT ![s] = @ + 1]
      BY <1>10 DEF Reports, ReporterTakes, ReporterPicks, FinishSettles, FinishDelivers, FinishTells, SessionExits,
         SayExit, saidVars
    <2> QED BY <1>a, <2>1, <2>2
  <1>11. ASSUME NEW s \in Sids, NEW w, Work(s, w) PROVE BenchOK' BY <1>a, <1>11, WorkLeaves DEF saidVars
  <1> QED BY <1>1, <1>5, <1>6, <1>7, <1>8, <1>9, <1>10, <1>11 DEF Cases

\* A session's exit stays counted when neither runner nor reporter moves towards it.
LEMMA ExitStays ==
    ASSUME Types, ExitOK, NEW s \in Sids, leaving => leaving', Falls(ses[s], ses'[s]),
           \/ runner'[s] = runner[s]
           \/ runner[s] # "none" /\ runner'[s] # "none",
           msgs'[s] = msgs[s] \/ runner[s] # "none",
           reporter'[s].at = reporter[s].at
              \/ (reporter[s].at \notin {"exiting", "gone"} /\ reporter'[s].at \notin {"exiting", "gone"}
                  /\ runner[s] # "none"),
           exits'[s] = exits[s]
    PROVE  /\ ses'[s].state = "none" => runner'[s] = "none"
           /\ ses'[s].state = "open" => runner'[s] # "none"
           /\ ses'[s].intake => runner'[s] # "none"
           /\ runner'[s] = "none" => msgs'[s] = <<>> /\ reporter'[s].at = "idle"
           /\ exits'[s] \in {0, 1}
           /\ exits'[s] = 1 => ses'[s].state = "gone" /\ (reporter'[s].at = "gone" \/ runner'[s] = "none")
           /\ reporter'[s].at \in {"exiting", "gone"} => ses'[s].state = "gone"
           /\ ~leaving' /\ (reporter'[s].at = "gone" \/ (ses'[s].state = "gone" /\ runner'[s] = "none"))
                 => exits'[s] = 1
  BY DEF ExitOK, Falls

ExitsAsIs(s) ==
    /\ Falls(ses[s], ses'[s])
    /\ runner'[s] = runner[s] \/ (runner[s] # "none" /\ runner'[s] # "none")
    /\ msgs'[s] = msgs[s] \/ runner[s] # "none"
    /\ \/ reporter'[s].at = reporter[s].at
       \/ /\ reporter[s].at \notin {"exiting", "gone"} /\ reporter'[s].at \notin {"exiting", "gone"}
          /\ runner[s] # "none"
    /\ exits'[s] = exits[s]

\* The same for every session.
LEMMA ExitsStay ==
    ASSUME Types, ExitOK, Next, \A s \in Sids : ExitsAsIs(s)
    PROVE  ExitOK'
  <1>1. leaving => leaving' BY LeavingStays
  <1> SUFFICES ASSUME NEW s \in Sids
               PROVE  (/\ ses[s].state = "none" => runner[s] = "none"
                       /\ ses[s].state = "open" => runner[s] # "none"
                       /\ ses[s].intake => runner[s] # "none"
                       /\ runner[s] = "none" => msgs[s] = <<>> /\ reporter[s].at = "idle"
                       /\ exits[s] \in {0, 1}
                       /\ exits[s] = 1 => ses[s].state = "gone" /\ (reporter[s].at = "gone" \/ runner[s] = "none")
                       /\ reporter[s].at \in {"exiting", "gone"} => ses[s].state = "gone"
                       /\ ~leaving /\ (reporter[s].at = "gone" \/ (ses[s].state = "gone" /\ runner[s] = "none"))
                             => exits[s] = 1)'
    BY DEF ExitOK
  <1> QED BY <1>1, ExitStays DEF ExitsAsIs

\* A session that is left alone stays as it is.
LEMMA FallsItself == ASSUME Types, NEW s \in Sids PROVE Falls(ses[s], ses[s])
  BY Falling DEF Types, SessionTypes

\* Every step counts exits once.
LEMMA ExitKept ==
    ASSUME Types, ExitOK, WorkersOK, Next
    PROVE  ExitOK'
  <1>1. Cases BY Steps
  <1>2. /\ ses \in [Sids -> SesRecord]
        /\ runner \in [Sids -> {"none", "loading", "working", "unloaded", "done"}]
        /\ exits \in [Sids \cup Bids -> Nat] /\ leaving \in BOOLEAN
        /\ msgs \in [Sids -> Seq(Msg)]
        /\ reporter \in [Sids -> [at : ReporterPlaces, term : Terminal \cup {NoTerminal}]]
    BY DEF Types, SessionTypes, HubTypes, FlagTypes, RepTypes, ReporterTypes
  <1>3. Sids \cap Bids = {} BY ConstantsAssumption
  <1>m. ASSUME NEW s \in Sids, ~OpenSession(s), ~(ReporterTakes(s) /\ reporter'[s].at = "exiting")
        PROVE  Falls(ses[s], ses'[s])
    BY <1>m, SessionMoves
  <1>4. CASE Controls
    <2>1. UNCHANGED <<runner, msgs, reporter, exits>> BY <1>4, ControlsLeave DEF runVars, repVars
    <2>2. ASSUME NEW s \in Sids PROVE Falls(ses[s], ses'[s])
      <3>1. CASE ~OpenSession(s)
        <4>1. ~ReporterTakes(s) \/ ses' = ses \/ reporter'[s].at = reporter[s].at
          BY <2>1
        <4>2. ~(ReporterTakes(s) /\ reporter'[s].at = "exiting") BY <2>1 DEF ReporterTakes
        <4> QED BY <1>m, <3>1, <4>2
      <3>2. CASE OpenSession(s)
        <4>1. ses[s].state = "none" /\ runner[s] = "none" BY <3>2 DEF OpenSession, ExitOK
        <4>2. ~Refusing => runner'[s] = "loading" BY <1>2, <3>2 DEF OpenSession
        <4>3. Refusing BY <2>1, <4>1, <4>2
        <4>4. exits' # exits
          <5>1. exits' = [exits EXCEPT ![s] = @ + 1] BY <3>2, <4>3 DEF OpenSession, SayExit
          <5>2. exits[s] \in Nat /\ exits'[s] = exits[s] + 1 BY <1>2, <5>1
          <5> QED BY <5>2
        <4> QED BY <2>1, <4>4
      <3> QED BY <3>1, <3>2
    <2> QED BY <2>1, <2>2, ExitsStay DEF ExitsAsIs
  <1>5. CASE Ops
    <2>1. UNCHANGED <<msgs, reporter, leaving>> BY <1>5, OpsLeave DEF repVars, hubVars
    <2>2. ASSUME NEW s \in Sids, OpenSession(s) PROVE ExitOK'
      <3>1. /\ ses[s].state = "none" /\ runner[s] = "none" /\ exits[s] = 0 /\ ~leaving
            /\ reporter[s].at = "idle" /\ msgs[s] = <<>>
        BY <2>2 DEF OpenSession, ExitOK
      <3>2. \A t \in Sids \ {s} : ses'[t] = ses[t] /\ runner'[t] = runner[t] /\ exits'[t] = exits[t]
        BY <1>2, <2>2 DEF OpenSession, SayExit
      <3>3. CASE Refusing
        <4>1. ses'[s].state = "gone" /\ ses'[s].intake = ses[s].intake
          <5>1. ses[s] \in SesRecord BY <1>2
          <5>2. ses'[s] = [ses[s] EXCEPT !.state = "gone"] BY <1>2, <2>2, <3>3 DEF OpenSession
          <5> QED BY <5>1, <5>2 DEF SesRecord
        <4>2. runner'[s] = "none" /\ exits'[s] = 1 BY <1>2, <2>2, <3>1, <3>3 DEF OpenSession, SayExit
        <4>3. ~ses[s].intake BY <3>1 DEF ExitOK
        <4> QED BY <2>1, <3>1, <3>2, <4>1, <4>2, <4>3 DEF ExitOK
      <3>4. CASE ~Refusing
        <4>1. ses'[s].state = "open"
          <5>1. ses[s] \in SesRecord BY <1>2
          <5>2. ses'[s] = [ses[s] EXCEPT !.state = "open", !.intake = TRUE] BY <1>2, <2>2, <3>4 DEF OpenSession
          <5> QED BY <5>1, <5>2 DEF SesRecord
        <4>2. runner'[s] = "loading" /\ exits'[s] = 0 BY <1>2, <2>2, <3>1, <3>4 DEF OpenSession
        <4> QED BY <2>1, <3>1, <3>2, <4>1, <4>2 DEF ExitOK
      <3> QED BY <3>3, <3>4
    <2>3. CASE ~\E s \in Sids : OpenSession(s)
      <3>1. runner' = runner
        BY <1>5, <2>3 DEF Ops, CloseSession, CancelSession, Volume, Bench, CancelBench, runVars
      <3>2. \A s \in Sids : exits'[s] = exits[s]
        BY <1>2, <1>3, <1>5, <2>3 DEF Ops, CloseSession, CancelSession, Volume, Bench, CancelBench, SayExit, saidVars
      <3>3. \A s \in Sids : Falls(ses[s], ses'[s]) BY <1>m, <2>1, <2>3 DEF ReporterTakes
      <3> QED BY <2>1, <3>1, <3>2, <3>3, ExitsStay DEF ExitsAsIs
    <2> QED BY <2>2, <2>3
  <1>6. CASE Benches
    <2>1. UNCHANGED <<ses, runner, msgs, reporter>> BY <1>6, BenchesLeave DEF runVars, repVars
    <2>2. \A s \in Sids : exits'[s] = exits[s]
      BY <1>2, <1>3, <1>6 DEF Benches, BenchRuns, BenchExits, BenchGone, SayExit, saidVars
    <2> QED BY <2>1, <2>2, ExitsStay, FallsItself DEF ExitsAsIs
  <1>7. ASSUME NEW s \in Sids, Feed(s) PROVE ExitOK'
    <2>1. UNCHANGED <<ses, runner, reporter, exits>> BY <1>7, FeedLeaves
    <2>2. \A t \in Sids : msgs'[t] = msgs[t] \/ runner[t] # "none"
      <3>1. CASE msgs' = msgs BY <3>1
      <3>2. CASE msgs' # msgs
        <4>1. HandOver(s) /\ ses[s].intake
          BY <1>7, <3>2 DEF Feed, FeedTake, FetchStarts, FetchCancelled, FetchLost, FetchEnds, GiveBackReads,
             GiveBackSettles, GiveBackSays, HandOverTests, HandOver, repVars
        <4>2. \A t \in Sids \ {s} : msgs'[t] = msgs[t] BY <1>2, <4>1 DEF HandOver
        <4> QED BY <4>1, <4>2 DEF ExitOK
      <3> QED BY <3>1, <3>2
    <2> QED BY <2>1, <2>2, ExitsStay, FallsItself DEF ExitsAsIs
  <1>8. ASSUME NEW s \in Sids, Run(s) PROVE ExitOK'
    <2>1. UNCHANGED <<reporter, exits>> BY <1>8, RunLeaves DEF saidVars
    <2>2. /\ runner[s] # "none" /\ \E r \in {"unloaded", "working", "done"} : runner' = [runner EXCEPT ![s] = r]
          /\ msgs' = msgs \/ Report(s, ExitMsg)
      BY <1>8 DEF Run, RunnerStops, RunnerReady, RunnerEnds, repVars
    <2>3. \A t \in Sids : Falls(ses[t], ses'[t])
      <3>1. ASSUME NEW t \in Sids PROVE ~OpenSession(t)
        <4>1. CASE ses[t].state = "none"
          <5>1. runner[t] = "none" /\ t # s BY <2>2, <4>1 DEF ExitOK
          <5>2. CASE OpenSession(t) /\ ~Refusing
            <6>1. runner'[t] = "loading" BY <1>2, <5>2 DEF OpenSession
            <6> QED BY <1>2, <2>2, <5>1, <6>1
          <5>3. CASE OpenSession(t) /\ Refusing
            <6>1. runner' = runner BY <5>3 DEF OpenSession
            <6>2. runner'[s] # runner[s] BY <1>2, <1>8 DEF Run, RunnerStops, RunnerReady, RunnerEnds
            <6> QED BY <6>1, <6>2
          <5> QED BY <5>2, <5>3
        <4>2. CASE ses[t].state # "none" BY <4>2 DEF OpenSession
        <4> QED BY <4>1, <4>2
      <3> QED BY <1>m, <2>1, <3>1 DEF ReporterTakes
    <2> QED BY <1>2, <2>1, <2>2, <2>3, ExitsStay DEF ExitsAsIs, Report
  <1>9. ASSUME NEW s \in Sids, Reports(s) PROVE ExitOK'
    <2>1. UNCHANGED <<runner, leaving>> BY <1>9, ReportsLeave DEF runVars, hubVars
    <2>2. runner[s] # "none"
      BY <1>9 DEF Reports, ReporterTakes, ReporterPicks, FinishSettles, FinishDelivers, FinishTells, SessionExits,
         ExitOK
    <2>3. \A t \in Sids : t # s => ses'[t] = ses[t] /\ msgs'[t] = msgs[t] /\ reporter'[t] = reporter[t]
             /\ exits'[t] = exits[t]
      BY <1>2, <1>9 DEF Reports, ReporterTakes, ReporterPicks, FinishSettles, FinishDelivers, FinishTells,
         SessionExits, ReporterAt, SayExit, saidVars
    <2>4. CASE SessionExits(s)
      <3>1. /\ ses' = ses /\ msgs' = msgs /\ reporter[s].at = "exiting" /\ reporter'[s].at = "gone"
            /\ exits'[s] = IF leaving THEN exits[s] ELSE exits[s] + 1
        BY <1>2, <2>4 DEF SessionExits, SayExit, ReporterAt
      <3>2. ses[s].state = "gone" /\ exits[s] = 0 BY <2>2, <3>1 DEF ExitOK
      <3> QED BY <2>1, <2>2, <2>3, <3>1, <3>2 DEF ExitOK
    <2>5. CASE ReporterTakes(s) /\ reporter'[s].at = "exiting"
      <3>1. /\ ses'[s].state = "gone" /\ ~ses'[s].intake /\ exits' = exits /\ reporter[s].at = "idle"
        <4>1. ses' = [ses EXCEPT ![s] = [Stopped(ses[s]) EXCEPT !.state = "gone"]]
          BY <1>2, <2>5 DEF ReporterTakes, ReporterAt
        <4>2. ses[s] \in SesRecord /\ ses'[s] = [Stopped(ses[s]) EXCEPT !.state = "gone"] BY <1>2, <4>1
        <4>3. ses'[s].state = "gone" /\ ~ses'[s].intake BY <4>2, Falling
        <4> QED BY <2>5, <4>3 DEF ReporterTakes
      <3>2. exits[s] = 0 BY <2>2, <3>1 DEF ExitOK
      <3> QED BY <2>1, <2>2, <2>3, <2>5, <3>1, <3>2 DEF ExitOK
    <2>6. CASE ~SessionExits(s) /\ ~(ReporterTakes(s) /\ reporter'[s].at = "exiting")
      <3>1. exits' = exits /\ reporter[s].at \notin {"exiting", "gone"} /\ reporter'[s].at \notin {"exiting", "gone"}
        BY <1>2, <1>9, <2>6 DEF Reports, ReporterTakes, ReporterPicks, FinishSettles, FinishDelivers, FinishTells,
           ReporterAt, saidVars
      <3>2. Falls(ses[s], ses'[s])
        <4>1. ~OpenSession(s)
          BY <2>2 DEF OpenSession, ExitOK
        <4> QED BY <1>m, <2>6, <4>1
      <3> QED BY <2>1, <2>2, <2>3, <3>1, <3>2, ExitsStay, FallsItself DEF ExitsAsIs
    <2> QED BY <2>4, <2>5, <2>6
  <1>10. ASSUME NEW s \in Sids, NEW w \in scene.workers, Work(s, w) PROVE ExitOK'
    <2>1. UNCHANGED <<runner, reporter, exits>> BY <1>10, WorkLeaves DEF saidVars
    <2>w. w \in Workers BY ConstantsAssumption DEF Types, HubTypes, Scene
    <2>2. runner[s] = "working"
      BY <1>10, <2>w DEF WorkersOK, Busy, Work, WorkerTakes, WorkerMarks, WorkerBegins, WorkerProgress,
         WorkerFinishes, WorkerFatal, WorkerEnds
    <2>3. \A t \in Sids : t # s => msgs'[t] = msgs[t]
      BY <1>2, <1>10, <2>w, WorkersReport DEF Report
    <2>4. \A t \in Sids : Falls(ses[t], ses'[t])
      <3>1. ses' = ses \/ ses' = [ses EXCEPT ![s] = Stopped(ses[s])]
        BY <1>10 DEF Work, WorkerTakes, WorkerMarks, WorkerBegins, WorkerProgress, WorkerFinishes, WorkerFatal,
           WorkerEnds
      <3>2. \A t \in Sids : ses'[t] = ses[t] \/ ses'[t] = Stopped(ses[t]) BY <1>2, <3>1
      <3>3. ASSUME NEW t \in Sids PROVE Falls(ses[t], ses[t]) /\ Falls(ses[t], Stopped(ses[t]))
        <4>1. ses[t] \in SesRecord BY <1>2
        <4> QED BY <4>1, Falling
      <3>4. ASSUME NEW t \in Sids PROVE Falls(ses[t], ses'[t])
        <4>1. ses'[t] = ses[t] \/ ses'[t] = Stopped(ses[t]) BY <3>2
        <4>2. CASE ses'[t] = ses[t] BY <3>3, <4>2
        <4>3. CASE ses'[t] = Stopped(ses[t]) BY <3>3, <4>3
        <4> QED BY <4>1, <4>2, <4>3
      <3> QED BY <3>4
    <2> QED BY <2>1, <2>2, <2>3, <2>4, ExitsStay DEF ExitsAsIs
  <1> QED BY <1>1, <1>4, <1>5, <1>6, <1>7, <1>8, <1>9, <1>10 DEF Cases

-----------------------------------------------------------------------------
(* The invariant of the hub, the exits and the books.                      *)

HubInv ==
    /\ Types /\ WatchOK /\ CoveredOK /\ ReleaseOK /\ BackOK
    /\ ExitOK /\ WorkersOK /\ BenchOK

\* The hub's invariant holds at the start.
LEMMA InitHub == ASSUME Init PROVE HubInv
  <1> USE ConstantsAssumption DEF Init
  <1>1. Types BY InitTypes
  <1>2. \A c \in Claims : \A e : Said(c, e) = {} BY DEF Said
  <1>3. WatchOK BY DEF WatchOK, IdleApply, IdleWatcher
  <1>4. CoveredOK BY DEF CoveredOK
  <1>5. ReleaseOK BY <1>2 DEF ReleaseOK, IdleApply, Told, AtMostOne
  <1>6. BackOK BY DEF BackOK
  <1>7. ExitOK BY DEF ExitOK, Fresh
  <1>8. WorkersOK BY DEF WorkersOK, Busy, IdleWorker
  <1>9. BenchOK BY DEF BenchOK
  <1> QED BY <1>1, <1>3, <1>4, <1>5, <1>6, <1>7, <1>8, <1>9 DEF HubInv

\* The hub's invariant survives a stutter.
LEMMA HubKeptAsIs == ASSUME HubInv, UNCHANGED vars PROVE HubInv'
  <1> USE DEF vars, hubVars, bookVars, feedVars, runVars, repVars, saidVars
  <1>0. HubInv BY DEF HubInv
  <1>1. Types' BY TypesKept DEF HubInv
  <1>3. WatchOK' BY DEF HubInv, WatchOK
  <1>4. CoveredOK' BY DEF HubInv, CoveredOK, Answered
  <1>5. ReleaseOK' BY DEF HubInv, ReleaseOK, Told, Said, AtMostOne
  <1>6. BackOK' BY DEF HubInv, BackOK, Told, Said
  <1>7. ExitOK' BY DEF HubInv, ExitOK
  <1>8. WorkersOK' BY DEF HubInv, WorkersOK, Busy
  <1>9. BenchOK' BY DEF HubInv, BenchOK
  <1> QED BY <1>1, <1>3, <1>4, <1>5, <1>6, <1>7, <1>8, <1>9 DEF HubInv

\* Every step keeps the hub's invariant.
LEMMA HubStep == ASSUME HubInv, [Next]_vars PROVE HubInv'
  <1>1. CASE Next
    <2> USE <1>1 DEF HubInv
    <2>1. Types' BY TypesKept
    <2>2. WatchOK' BY WatchKept
    <2>3. CoveredOK' BY CoveredKept
    <2>4. ReleaseOK' BY ReleaseKept
    <2>5. BackOK' BY BackKept
    <2>6. ExitOK' BY ExitKept
    <2>7. WorkersOK' BY WorkersKept
    <2>8. BenchOK' BY BenchKept
    <2> QED BY <2>1, <2>2, <2>3, <2>4, <2>5, <2>6, <2>7, <2>8
  <1>2. CASE UNCHANGED vars BY <1>2, HubKeptAsIs
  <1> QED BY <1>1, <1>2

\* The invariant of the hub alone: its books, the pause, the exits and the benchmarks, whatever
\* the sessions' lines do.
THEOREM HubInductive == Spec => []HubInv
  <1>1. Init => HubInv BY InitHub
  <1>2. HubInv /\ [Next]_vars => HubInv' BY HubStep
  <1> QED BY <1>1, <1>2, PTL DEF Spec

\* Every variable has its type in every reachable state.
THEOREM TypeCorrect == Spec => []TypeOK
  <1>1. HubInv => TypeOK BY TypesSuffice DEF HubInv
  <1> QED BY <1>1, HubInductive, PTL

\* Once a pause is applied, every claim of an open session the hub still answers for was started
\* before it or given back by it (apply_pause, Session::release).
THEOREM PauseCovers == Spec => []PauseMissesNoClaim
  <1>1. HubInv => PauseMissesNoClaim BY DEF HubInv, CoveredOK, PauseMissesNoClaim
  <1> QED BY <1>1, HubInductive, PTL

\* On a processor without automatic updates, a pause the owner asked for is in force once the
\* watcher rests (watch_pause).
THEOREM OwnerIsObeyed == Spec => []OwnerObeyed
  <1>1. HubInv => OwnerObeyed BY DEF HubInv, WatchOK, OwnerObeyed
  <1> QED BY <1>1, HubInductive, PTL

\* A set of at most one position has at most one element.
LEMMA Single ==
    ASSUME NEW S, AtMostOne(S)
    PROVE  IsFiniteSet(S) /\ Cardinality(S) <= 1
  <1>1. CASE S = {} BY <1>1, FS_EmptySet
  <1>2. CASE S # {}
    <2>1. PICK x \in S : TRUE BY <1>2
    <2>2. S = {x} BY <2>1 DEF AtMostOne
    <2>3. IsFiniteSet({x}) /\ Cardinality({x}) = 1 BY FS_Singleton
    <2> QED BY <2>2, <2>3
  <1> QED BY <1>1, <1>2

\* A claim is said to be given back at most once, by a refusal or by one pause.
THEOREM ReleasesOnce == Spec => []ReleasedOnce
  <1>1. HubInv => ReleasedOnce
    <2> SUFFICES ASSUME HubInv, NEW c \in Claims PROVE Cardinality(Said(c, "released")) <= 1
      BY DEF ReleasedOnce
    <2>1. AtMostOne(Said(c, "released")) BY DEF HubInv, ReleaseOK
    <2> QED BY <2>1, Single
  <1> QED BY <1>1, HubInductive, PTL

\* A session or a benchmark says one exit, when it ends or is refused.
THEOREM ExitsOnce == Spec => []ExitOnce
  <1>1. HubInv => ExitOnce BY DEF HubInv, ExitOK, BenchOK, ExitOnce
  <1> QED BY <1>1, HubInductive, PTL

-----------------------------------------------------------------------------
(* The invariants of a session's line: feeder, runner, workers, reporter.  *)

\* No member of a sequence comes twice.
Distinct(q) == \A i, j \in DOMAIN q : q[i] = q[j] => i = j

\* The feeder has a claim.
Holding(s) == feeder[s].at # "idle"

\* A claim waits, is with the feeder, or was handed over; a returned one is nowhere.
FedOK(s) ==
    /\ Distinct(queue[s]) /\ Distinct(fed[s])
    /\ Range(queue[s]) \cap Range(fed[s]) = {}
    /\ \A c \in Range(queue[s]) \cup Range(fed[s]) : SidOf[c] = s /\ c \in seen
    /\ Holding(s) =>
          /\ SidOf[feeder[s].claim] = s /\ feeder[s].claim \in seen
          /\ feeder[s].claim \notin Range(queue[s]) \cup Range(fed[s])
    /\ \A c \in Claims : SidOf[c] = s /\ Told(c, "returned") =>
          /\ c \in seen /\ c \notin Range(queue[s]) \cup Range(fed[s])
          /\ ~(Holding(s) /\ feeder[s].claim = c)
    /\ \A c \in Claims : SidOf[c] = s => AtMostOne(Said(c, "returned"))

IsTerm(m) == m.kind = "terminal"
IsAbout(m, kind, c) == m.kind = kind /\ m.claim = c

\* A terminal carries the place its claim was handed over at.
Fits(s, t) == t.claim \in Range(fed[s]) /\ t.seq = SeqOf(s, t.claim)

\* A message is about a claim that was handed over.
Posted(s, m) ==
    /\ m.kind \in {"ready", "started"} => m.claim \in Range(fed[s])
    /\ IsTerm(m) => Fits(s, m.term)

\* Messages and events are about claims that were handed over.
MailOK(s) ==
    /\ \A i \in DOMAIN msgs[s] : Posted(s, msgs[s][i])
    /\ \A t \in pending[s] : Fits(s, t)
    /\ Finishing(s) => Fits(s, reporter[s].term)
    /\ \A c \in Claims : \A e \in {"ready", "started", "done", "failed"} :
          SidOf[c] = s /\ Told(c, e) => c \in Range(fed[s])

InJobs(s, c)    == \E i \in DOMAIN jobs[s] : jobs[s][i] = c
InWork(s, c)    == \E w \in Workers : Busy(s, w) /\ worker[s][w].claim = c
InMail(s, c)    == \E i \in DOMAIN msgs[s] : IsTerm(msgs[s][i]) /\ msgs[s][i].term.claim = c
InPending(s, c) == \E t \in pending[s] : t.claim = c
InHand(s, c)    == Finishing(s) /\ reporter[s].term.claim = c
Placed(s, c)    == InJobs(s, c) \/ InWork(s, c) \/ InMail(s, c) \/ InPending(s, c)

\* No two terminals, workers or waiting results are about the same claim.
OneTerminal(s) ==
    \A i, j \in DOMAIN msgs[s] :
        IsTerm(msgs[s][i]) /\ IsTerm(msgs[s][j]) /\ msgs[s][i].term.claim = msgs[s][j].term.claim => i = j
OneWorker(s) ==
    \A v, w \in Workers : Busy(s, v) /\ Busy(s, w) /\ worker[s][v].claim = worker[s][w].claim => v = w
OnePending(s) == \A t, u \in pending[s] : t.claim = u.claim => t = u

\* A claim that was handed over is in one place, until its turn has come.
PlaceOK(s) ==
    /\ Distinct(jobs[s])
    /\ OneWorker(s)
    /\ OneTerminal(s) /\ OnePending(s)
    /\ \A c \in Claims :
          /\ InJobs(s, c) => ~InWork(s, c) /\ ~InMail(s, c) /\ ~InPending(s, c)
          /\ InWork(s, c) => ~InMail(s, c) /\ ~InPending(s, c)
          /\ InMail(s, c) => ~InPending(s, c)
          /\ Placed(s, c) => SeqOf(s, c) >= nextSeq[s]
    /\ Finishing(s) => reporter[s].term.seq + 1 = nextSeq[s]
    /\ nextSeq[s] \in 1 .. Len(fed[s]) + 1

\* No volume_started about the claim was sent to the reporter ...
UnWork(s, c)    == \E w \in Workers : Busy(s, w) /\ worker[s][w].claim = c /\ ~worker[s][w].started
UnMail(s, c)    == \E i \in DOMAIN msgs[s] :
                      IsTerm(msgs[s][i]) /\ msgs[s][i].term.claim = c /\ ~msgs[s][i].term.started
UnPending(s, c) == \E t \in pending[s] : t.claim = c /\ ~t.started
UnHand(s, c)    == reporter[s].at = "counted" /\ reporter[s].term.claim = c /\ ~reporter[s].term.started
Unstarted(s, c) == InJobs(s, c) \/ UnWork(s, c) \/ UnMail(s, c) \/ UnPending(s, c) \/ UnHand(s, c)

\* ... or one was.
BeWork(s, c)    == \E w \in Workers : Busy(s, w) /\ worker[s][w].claim = c /\ worker[s][w].started
BeMail(s, c)    == \E i \in DOMAIN msgs[s] :
                      IsTerm(msgs[s][i]) /\ msgs[s][i].term.claim = c /\ msgs[s][i].term.started
BePending(s, c) == \E t \in pending[s] : t.claim = c /\ t.started
BeHand(s, c)    == InHand(s, c) /\ (reporter[s].term.started \/ reporter[s].at # "counted")
Begun(s, c)     == BeWork(s, c) \/ BeMail(s, c) \/ BePending(s, c) \/ BeHand(s, c)

\* What has to come after the message about the claim.
After(m, kind, c) ==
    \/ IsTerm(m) /\ m.term.claim = c
    \/ kind = "ready" /\ IsAbout(m, "started", c)

\* The message is before the reporter, and what has to come after it is behind it.
Waits(s, c, kind) ==
    /\ ~InPending(s, c) /\ ~InHand(s, c)
    /\ \E i \in DOMAIN msgs[s] :
          /\ IsAbout(msgs[s][i], kind, c)
          /\ \A j \in DOMAIN msgs[s] : After(msgs[s][j], kind, c) => i < j

\* The event was said, will be, or the session is silent.
Due(s, c, kind) == Told(c, kind) \/ ~Talking(s) \/ Waits(s, c, kind)

\* No volume_started was said or posted.
Unspoken(s, c) == ~Told(c, "started") /\ \A i \in DOMAIN msgs[s] : ~IsAbout(msgs[s][i], "started", c)

\* A volume_started is posted once, and before it is said.
StartOnce(s, c) ==
    \A i, j \in DOMAIN msgs[s] :
        IsAbout(msgs[s][i], "started", c) => ~Told(c, "started") /\ (IsAbout(msgs[s][j], "started", c) => i = j)

\* What was said of a claim, in order.
Story(c) ==
    /\ AtMostOne(Said(c, "started"))
    /\ \A i \in Said(c, "started") : \E j \in Said(c, "ready") : j < i
    /\ \A i \in Said(c, "done") \cup Said(c, "failed") : \E j \in Said(c, "started") : j < i

StartOK(s) ==
    /\ \A w \in Workers : worker[s][w].at \in {"took", "marked"} => ~worker[s][w].started
    /\ \A c \in Claims : /\ Unstarted(s, c) => Unspoken(s, c)
                         /\ StartOnce(s, c)
                         /\ Begun(s, c) => Due(s, c, "started")
    /\ \A c \in Range(fed[s]) : Due(s, c, "ready")
    /\ \A c \in Claims : SidOf[c] = s => Story(c)

\* The turns that are over.
Turn(s) == IF Finishing(s) THEN nextSeq[s] - 1 ELSE nextSeq[s]

OrderOK(s) ==
    /\ \A c \in Claims : SidOf[c] = s =>
          /\ Told(c, "done") \/ Told(c, "failed") => SeqOf(s, c) < Turn(s)
          /\ AtMostOne(Said(c, "done") \cup Said(c, "failed"))
    /\ \A i \in DOMAIN ends[s] : ends[s][i] \in Range(fed[s]) /\ SeqOf(s, ends[s][i]) < Turn(s)
    /\ \A i, j \in DOMAIN ends[s] : i < j => SeqOf(s, ends[s][i]) < SeqOf(s, ends[s][j])

\* Given back: said, about to be, or nobody hears.
GivenBack(c) == leaving \/ Told(c, "released") \/ (apply.at = "release" /\ c \in apply.given)

\* Nothing is lost between the runner and the reporter.
WholeOK(s) ==
    /\ runner[s] # "unloaded" => \A c \in Range(fed[s]) :
          SeqOf(s, c) >= nextSeq[s] => Placed(s, c)
    /\ \A w \in Workers : worker[s][w].at = "ended" =>
          runner[s] \in {"working", "done"} /\ ~ses[s].intake /\ jobs[s] = <<>>
    /\ runner[s] \in {"done", "unloaded"} => ~ses[s].intake /\ jobs[s] = <<>>
    /\ \A i \in DOMAIN msgs[s] : msgs[s][i].kind = "exit" => i = Len(msgs[s]) /\ runner[s] \in {"done", "unloaded"}
    /\ reporter[s].at \in {"exiting", "gone"} => msgs[s] = <<>> /\ runner[s] \in {"done", "unloaded"}
    /\ reporter[s].at \in {"idle", "exiting", "gone"} => \A t \in pending[s] : t.seq # nextSeq[s]
    /\ \A i \in DOMAIN msgs[s] : IsTerm(msgs[s][i]) /\ msgs[s][i].term.released => GivenBack(msgs[s][i].term.claim)
    /\ \A t \in pending[s] : t.released => GivenBack(t.claim)
    /\ Finishing(s) /\ reporter[s].term.released => GivenBack(reporter[s].term.claim)
    /\ \A c \in Range(fed[s]) : SeqOf(s, c) < Turn(s) =>
          ~Talking(s) \/ Told(c, "done") \/ Told(c, "failed") \/ GivenBack(c)

LineOK == \A s \in Sids : FedOK(s) /\ MailOK(s) /\ PlaceOK(s) /\ StartOK(s) /\ OrderOK(s) /\ WholeOK(s)

-----------------------------------------------------------------------------
(* What a step does to the line of one session.                            *)

LineEvents == Events \ {"released"}
Of(s) == {c \in Claims : SidOf[c] = s}

\* Nothing is said of the session's claims (that they were given back aside).
Hushed(s) == \A c \in Of(s) : \A e \in LineEvents : (Said(c, e)' = Said(c, e))

FrontStays(s) == queue'[s] = queue[s] /\ feeder'[s] = feeder[s]
CrewStays(s) == jobs'[s] = jobs[s] /\ worker'[s] = worker[s] /\ runner'[s] = runner[s]
DeskStays(s) == pending'[s] = pending[s] /\ nextSeq'[s] = nextSeq[s] /\ reporter'[s] = reporter[s] /\ ends'[s] = ends[s]

Idles(s) ==
    /\ FrontStays(s) /\ DeskStays(s) /\ Hushed(s)
    /\ fed'[s] = fed[s] /\ msgs'[s] = msgs[s] /\ jobs'[s] = jobs[s] /\ worker'[s] = worker[s]
    /\ runner'[s] = runner[s] \/ (runner[s] = "none" /\ runner'[s] = "loading")

Offers(s) ==
    /\ CrewStays(s) /\ DeskStays(s) /\ fed'[s] = fed[s] /\ msgs'[s] = msgs[s] /\ feeder'[s] = feeder[s]
    /\ \E c \in Of(s) \ seen :
          /\ c \in seen'
          /\ \/ queue'[s] = queue[s] /\ (Hushed(s) \/ Say(c, "returned"))
             \/ queue'[s] = Append(queue[s], c) /\ c \in outstanding' /\ Hushed(s)

FeedMoves(s) ==
    /\ CrewStays(s) /\ DeskStays(s) /\ fed'[s] = fed[s] /\ msgs'[s] = msgs[s]
    /\ \/ /\ queue'[s] = queue[s] /\ Holding(s)
          /\ \/ /\ Hushed(s)
                /\ \/ feeder'[s].at = "idle"
                   \/ feeder'[s].claim = feeder[s].claim /\ feeder[s].at # "settled"
             \/ Say(feeder[s].claim, "returned") /\ feeder'[s].at = "idle"
       \/ /\ queue[s] # <<>> /\ ~Holding(s) /\ queue'[s] = Tail(queue[s]) /\ Hushed(s)
          /\ feeder'[s] = feeder[s] \/ feeder'[s].claim = Head(queue[s])

Hands(s) ==
    LET c == feeder[s].claim
    IN /\ feeder[s].at = "handing" /\ Holding(s) /\ feeder'[s].at = "idle" /\ queue'[s] = queue[s] /\ ses[s].intake
       /\ jobs'[s] = Append(jobs[s], c) /\ fed'[s] = Append(fed[s], c)
       /\ msgs'[s] = Append(msgs[s], [kind |-> "ready", claim |-> c])
       /\ worker'[s] = worker[s] /\ runner'[s] = runner[s] /\ DeskStays(s) /\ Hushed(s)

Feeds(s) == FeedMoves(s) \/ Hands(s)

RunStops(s) ==
    /\ runner[s] = "loading" /\ runner'[s] = "unloaded" /\ jobs'[s] = <<>> /\ ~ses'[s].intake
    /\ worker'[s] = worker[s] /\ msgs'[s] = Append(msgs[s], ExitMsg)
RunReadies(s) ==
    /\ runner[s] = "loading" /\ runner'[s] = "working" /\ jobs'[s] = jobs[s] /\ worker'[s] = worker[s]
    /\ msgs'[s] = msgs[s]
RunEnds(s) ==
    /\ runner[s] = "working" /\ runner'[s] = "done" /\ jobs'[s] = jobs[s] /\ worker'[s] = worker[s]
    /\ \A w \in scene.workers : worker[s][w].at = "ended"
    /\ msgs'[s] = Append(msgs[s], ExitMsg)
Runs(s) ==
    /\ RunStops(s) \/ RunReadies(s) \/ RunEnds(s)
    /\ FrontStays(s) /\ DeskStays(s) /\ Hushed(s) /\ fed'[s] = fed[s]

\* Only w's record changes.
Becomes(s, w, r) == r \in WorkerRecord /\ worker'[s] = [worker[s] EXCEPT ![w] = r]

WorkTakes(s, w) ==
    /\ ~Busy(s, w) /\ jobs[s] # <<>> /\ jobs'[s] = Tail(jobs[s]) /\ msgs'[s] = msgs[s]
    /\ \E r : Becomes(s, w, r) /\ r.at = "took" /\ r.claim = Head(jobs[s]) /\ ~r.started
WorkHolds(s, w) ==
    /\ Busy(s, w) /\ jobs'[s] = jobs[s] /\ msgs'[s] = msgs[s]
    /\ \E r : /\ Becomes(s, w, r) /\ r.at \in {"marked", "running"} /\ r.claim = worker[s][w].claim
              /\ r.started = worker[s][w].started /\ (r.at = "marked" => worker[s][w].at = "took")
WorkStarts(s, w) ==
    /\ Busy(s, w) /\ ~worker[s][w].started /\ jobs'[s] = jobs[s]
    /\ msgs'[s] = Append(msgs[s], [kind |-> "started", claim |-> worker[s][w].claim])
    /\ \E r : Becomes(s, w, r) /\ r.at = "running" /\ r.claim = worker[s][w].claim /\ r.started
WorkReports(s, w) ==
    /\ Busy(s, w) /\ jobs'[s] = jobs[s]
    /\ \E r : Becomes(s, w, r) /\ r.at = "idle"
    /\ \E t \in Terminal :
          /\ t.claim = worker[s][w].claim /\ t.seq = SeqOf(s, t.claim)
          /\ t.started = (worker[s][w].at = "running" /\ worker[s][w].started)
          /\ t.released => t.claim \in released
          /\ msgs'[s] = Append(msgs[s], [kind |-> "terminal", term |-> t])
WorkEnds(s, w) ==
    /\ ~Busy(s, w) /\ jobs[s] = <<>> /\ jobs'[s] = jobs[s] /\ msgs'[s] = msgs[s] /\ ~ses[s].intake
    /\ \E r : Becomes(s, w, r) /\ r.at = "ended"
Works(s, w) ==
    /\ WorkTakes(s, w) \/ WorkHolds(s, w) \/ WorkStarts(s, w) \/ WorkReports(s, w) \/ WorkEnds(s, w)
    /\ runner[s] = "working" /\ runner'[s] = "working"
    /\ FrontStays(s) /\ DeskStays(s) /\ Hushed(s) /\ fed'[s] = fed[s]

TakesAny(s) ==
    /\ reporter[s].at = "idle" /\ msgs[s] # <<>> /\ msgs'[s] = Tail(msgs[s])
    /\ nextSeq'[s] = nextSeq[s] /\ ends'[s] = ends[s]
TakesEvent(s) ==
    LET m == Head(msgs[s])
    IN /\ TakesAny(s) /\ m.kind \in {"ready", "started"} /\ Say(m.claim, m.kind)
       /\ pending'[s] = pending[s] /\ reporter'[s] = reporter[s]
TakesTerm(s) ==
    LET m == Head(msgs[s])
    IN /\ TakesAny(s) /\ IsTerm(m) /\ Hushed(s)
       /\ pending'[s] = pending[s] \cup {m.term} /\ reporter'[s].at = "drain"
TakesExit(s) ==
    /\ TakesAny(s) /\ Head(msgs[s]).kind = "exit" /\ Hushed(s)
    /\ pending'[s] = pending[s] /\ reporter'[s].at = "exiting"
Picks(s) ==
    /\ reporter[s].at = "drain" /\ msgs'[s] = msgs[s] /\ ends'[s] = ends[s] /\ Hushed(s)
    /\ \/ \E t \in pending[s] :
             /\ t.seq = nextSeq[s] /\ pending'[s] = pending[s] \ {t} /\ nextSeq'[s] = nextSeq[s] + 1
             /\ reporter'[s] = [at |-> "counted", term |-> t]
       \/ /\ \A t \in pending[s] : t.seq # nextSeq[s]
          /\ pending'[s] = pending[s] /\ nextSeq'[s] = nextSeq[s] /\ reporter'[s].at = "idle"
Settles(s) ==
    LET t == reporter[s].term
    IN /\ reporter[s].at = "counted" /\ msgs'[s] = msgs[s] /\ ends'[s] = ends[s]
       /\ pending'[s] = pending[s] /\ nextSeq'[s] = nextSeq[s]
       /\ \/ (t.released \/ ~Talking(s)) /\ Hushed(s) /\ reporter'[s].at = "drain"
          \/ /\ \/ t.started /\ Hushed(s)
                \/ ~t.started /\ Talking(s) /\ Say(t.claim, "started")
             /\ reporter'[s].at \in {"delivering", "telling"} /\ reporter'[s].term = t
Delivers(s) ==
    /\ reporter[s].at = "delivering" /\ reporter'[s].at = "telling"
    /\ reporter'[s].term.claim = reporter[s].term.claim /\ reporter'[s].term.seq = reporter[s].term.seq
    /\ reporter'[s].term.started = reporter[s].term.started
    /\ reporter'[s].term.released = reporter[s].term.released
    /\ msgs'[s] = msgs[s] /\ ends'[s] = ends[s] /\ Hushed(s)
    /\ pending'[s] = pending[s] /\ nextSeq'[s] = nextSeq[s]
Tells(s) ==
    LET t == reporter[s].term
    IN /\ reporter[s].at = "telling" /\ reporter'[s].at = "drain"
       /\ \E e \in {"done", "failed"} : Say(t.claim, e)
       /\ ends'[s] = IF Talking(s) THEN Append(ends[s], t.claim) ELSE ends[s]
       /\ msgs'[s] = msgs[s] /\ pending'[s] = pending[s] /\ nextSeq'[s] = nextSeq[s]
Leaves(s) ==
    /\ reporter[s].at = "exiting" /\ reporter'[s].at = "gone" /\ msgs'[s] = msgs[s] /\ ends'[s] = ends[s]
    /\ pending'[s] = pending[s] /\ nextSeq'[s] = nextSeq[s] /\ Hushed(s)
Tidies(s) ==
    /\ \/ TakesEvent(s) \/ TakesTerm(s) \/ TakesExit(s) \/ Picks(s) \/ Settles(s) \/ Delivers(s)
       \/ Tells(s) \/ Leaves(s)
    /\ FrontStays(s) /\ CrewStays(s) /\ fed'[s] = fed[s]

Moves(s) ==
    \/ Idles(s) \/ Offers(s) \/ Feeds(s) \/ Runs(s) \/ Tidies(s)
    \/ \E w \in Workers : Works(s, w)

\* Nothing said at all is nothing said of the session's claims.
LEMMA SameHeard ==
    ASSUME heard' = heard, NEW s
    PROVE  Hushed(s)
  BY DEF Hushed, Said

\* What a feeder's step does to its line.
LEMMA FeedDoes ==
    ASSUME Types, NEW s \in Sids, Feed(s)
    PROVE  Feeds(s)
  <1>1. /\ queue \in [Sids -> Seq(Claims)] /\ jobs \in [Sids -> Seq(Claims)] /\ fed \in [Sids -> Seq(Claims)]
        /\ msgs \in [Sids -> Seq(Msg)]
        /\ feeder \in [Sids -> [at : {"idle", "checked", "fetching", "fetched", "handing", "fault",
                                      "drop", "return", "settled"},
                                claim : Claims \cup {None}]]
    BY DEF Types, FeedTypes, RunTypes, RepTypes
  <1>2. /\ runner' = runner /\ worker' = worker /\ UNCHANGED <<ses, pending, nextSeq, reporter, ends>> BY FeedLeaves
  <1>3. CASE HandOver(s) /\ fed' # fed
    <2>1. heard' = heard /\ Hushed(s) BY <1>3, SameHeard DEF HandOver, saidVars
    <2> QED BY <1>1, <1>2, <1>3, <2>1 DEF HandOver, Feeds, Hands, Holding, FeederAt, DeskStays
  <1>4. CASE ~(HandOver(s) /\ fed' # fed)
    <2>1. jobs' = jobs /\ fed' = fed /\ msgs' = msgs
      <3>1. CASE HandOver(s)
        <4>1. fed' = fed BY <1>4, <3>1
        <4>2. ~(fed' = [fed EXCEPT ![s] = Append(@, feeder[s].claim)])
          <5>1. Append(fed[s], feeder[s].claim) # fed[s]
            <6>1. feeder[s].claim \in Claims BY <3>1 DEF HandOver, Types, FeedTypes
            <6>2. Len(Append(fed[s], feeder[s].claim)) = Len(fed[s]) + 1 /\ Len(fed[s]) \in Nat BY <1>1, <6>1
            <6> QED BY <6>2
          <5> QED BY <1>1, <4>1, <5>1
        <4> QED BY <3>1, <4>2 DEF HandOver
      <3>2. CASE ~HandOver(s)
        BY <3>2 DEF Feed, FeedTake, FetchStarts, FetchCancelled, FetchLost, FetchEnds, GiveBackReads,
           GiveBackSettles, GiveBackSays, HandOverTests, runVars, repVars
      <3> QED BY <3>1, <3>2
    <2>2. CASE FeedTake(s)
      <3>1. heard' = heard /\ Hushed(s) BY <2>2, SameHeard DEF FeedTake, saidVars
      <3> QED BY <1>1, <1>2, <2>1, <2>2, <3>1 DEF FeedTake, Feeds, FeedMoves, Holding, FeederAt, DeskStays, CrewStays
    <2>3. CASE GiveBackSays(s)
      <3>1. \/ heard' = heard /\ Hushed(s)
            \/ Say(feeder[s].claim, "returned")
        BY <2>3, SameHeard DEF GiveBackSays
      <3> QED BY <1>1, <1>2, <2>1, <2>3, <3>1 DEF GiveBackSays, Feeds, FeedMoves, Holding, FeederAt, DeskStays, CrewStays
    <2>4. CASE ~FeedTake(s) /\ ~GiveBackSays(s)
      <3>1. heard' = heard /\ Hushed(s)
        BY <2>4, SameHeard DEF Feed, FetchStarts, FetchCancelled, FetchLost, FetchEnds, GiveBackReads,
           GiveBackSettles, HandOverTests, HandOver, saidVars
      <3>2. /\ feeder[s].at \notin {"idle", "settled"} /\ queue' = queue
            /\ \E at \in {"idle", "checked", "fetching", "fetched", "handing", "fault", "drop", "return", "settled"} :
                  FeederAt(s, at, feeder[s].claim) \/ FeederAt(s, "idle", None)
        BY <2>4 DEF Feed, FetchStarts, FetchCancelled, FetchLost, FetchEnds, GiveBackReads,
           GiveBackSettles, HandOverTests, HandOver
      <3> QED BY <1>1, <1>2, <2>1, <3>1, <3>2 DEF Feeds, FeedMoves, Holding, FeederAt, DeskStays, CrewStays
    <2> QED BY <2>2, <2>3, <2>4
  <1> QED BY <1>3, <1>4

\* What a runner's step does to its line.
LEMMA RunDoes ==
    ASSUME Types, NEW s \in Sids, Run(s)
    PROVE  Runs(s)
  <1>1. /\ jobs \in [Sids -> Seq(Claims)] /\ msgs \in [Sids -> Seq(Msg)] /\ ses \in [Sids -> SesRecord]
        /\ runner \in [Sids -> {"none", "loading", "working", "unloaded", "done"}]
    BY DEF Types, RunTypes, RepTypes, SessionTypes
  <1>2. /\ UNCHANGED <<queue, feeder, fed, worker, pending, nextSeq, reporter, ends, heard>>
    BY RunLeaves DEF feedVars, saidVars
  <1>3. FrontStays(s) /\ DeskStays(s) /\ Hushed(s) /\ fed'[s] = fed[s] /\ worker'[s] = worker[s]
    BY <1>2, SameHeard DEF FrontStays, DeskStays
  <1>4. CASE RunnerStops(s)
    <2>1. ses[s] \in SesRecord BY <1>1
    <2>2. ~Stopped(ses[s]).intake /\ ~[ses[s] EXCEPT !.intake = FALSE].intake BY <2>1 DEF Stopped, SesRecord
    <2>3. ~ses'[s].intake BY <1>1, <1>4, <2>2 DEF RunnerStops
    <2> QED BY <1>1, <1>3, <1>4, <2>3 DEF RunnerStops, Runs, RunStops, Report
  <1>5. CASE RunnerReady(s) BY <1>1, <1>3, <1>5 DEF RunnerReady, Runs, RunReadies, repVars
  <1>6. CASE RunnerEnds(s) BY <1>1, <1>3, <1>6 DEF RunnerEnds, Runs, RunEnds, Report
  <1> QED BY <1>4, <1>5, <1>6 DEF Run

\* Types of one worker.
LEMMA WorkerIsRecord ==
    ASSUME Types, NEW s \in Sids, NEW w \in Workers
    PROVE  worker[s][w] \in WorkerRecord /\ fatal[s] \in BOOLEAN
  BY DEF Types, RunTypes, SessionTypes

\* A worker's step changes its own record only.
LEMMA WorkerBecomes ==
    ASSUME Types, NEW s \in Sids, NEW w \in Workers, NEW r \in WorkerRecord, WorkerAt(s, w, r)
    PROVE  Becomes(s, w, r)
  BY DEF Types, RunTypes, WorkerAt, Becomes

\* What a worker's step does to its line.
LEMMA WorkDoes ==
    ASSUME Types, NEW s \in Sids, NEW w \in Workers, Work(s, w), WorkersOK
    PROVE  Works(s, w)
  <1> DEFINE r == worker[s][w]
             c == r.claim
  <1>1. /\ jobs \in [Sids -> Seq(Claims)] /\ msgs \in [Sids -> Seq(Msg)]
        /\ jobs[s] \in Seq(Claims) /\ msgs[s] \in Seq(Msg)
    BY DEF Types, RunTypes, RepTypes
  <1>r. r \in WorkerRecord /\ fatal[s] \in BOOLEAN BY WorkerIsRecord
  <1>2. UNCHANGED <<queue, feeder, fed, runner, pending, nextSeq, reporter, ends, heard>>
    BY WorkLeaves DEF feedVars, saidVars
  <1>3. FrontStays(s) /\ DeskStays(s) /\ Hushed(s) /\ fed'[s] = fed[s] /\ runner'[s] = runner[s]
    BY <1>2, SameHeard DEF FrontStays, DeskStays
  <1>4. runner[s] = "working"
    BY DEF Work, WorkerTakes, WorkerMarks, WorkerBegins, WorkerProgress, WorkerFinishes, WorkerFatal, WorkerEnds,
       WorkersOK, Busy
  <1>b. Busy(s, w) => c \in Claims /\ SeqOf(s, c) \in Nat \ {0}
    <2>1. Busy(s, w) => c \in Range(fed[s]) BY DEF Types, RunTypes
    <2> QED BY <2>1, Places
  <1>i. IdleWorker \in WorkerRecord /\ IdleWorker.at = "idle" BY DEF IdleWorker, WorkerRecord
  <1>t. ASSUME Busy(s, w), NEW result \in {"ok", "failed", "cancelled"}, NEW begun \in BOOLEAN, NEW back \in BOOLEAN,
               begun = (r.at = "running" /\ r.started), back => c \in released,
               Report(s, TerminalMsg(s, c, result, begun, back)), WorkerAt(s, w, IdleWorker), jobs' = jobs
        PROVE  WorkReports(s, w)
    <2> DEFINE t == [claim |-> c, seq |-> SeqOf(s, c), result |-> result, started |-> begun, released |-> back]
    <2>1. t \in Terminal BY <1>b, <1>t DEF Terminal
    <2>2. t.claim = c /\ t.seq = SeqOf(s, c) /\ t.started = begun /\ t.released = back OBVIOUS
    <2>3. msgs'[s] = Append(msgs[s], [kind |-> "terminal", term |-> t]) BY <1>1, <1>t DEF Report, TerminalMsg
    <2>4. Becomes(s, w, IdleWorker) BY <1>t, <1>i, WorkerBecomes
    <2>5. t.claim = worker[s][w].claim /\ t.seq = SeqOf(s, t.claim) BY <2>2
    <2>6. /\ t.started = (worker[s][w].at = "running" /\ worker[s][w].started)
          /\ t.released => t.claim \in released
      BY <1>t, <2>2
    <2> HIDE DEF t
    <2> QED BY <1>t, <1>i, <2>1, <2>3, <2>4, <2>5, <2>6 DEF WorkReports
  <1>5. CASE WorkerTakes(s, w)
    <2> DEFINE q == [at |-> "took", claim |-> Head(jobs[s]), fatal |-> fatal[s], started |-> FALSE]
    <2>1. jobs[s] # <<>> /\ Head(jobs[s]) \in Claims BY <1>1, <1>5 DEF WorkerTakes
    <2>2. q \in WorkerRecord BY <1>r, <2>1 DEF WorkerRecord
    <2>3. Becomes(s, w, q) BY <1>5, <2>2, WorkerBecomes DEF WorkerTakes
    <2>4. q.at = "took" /\ q.claim = Head(jobs[s]) /\ ~q.started OBVIOUS
    <2>5. ~Busy(s, w) /\ jobs'[s] = Tail(jobs[s]) /\ msgs'[s] = msgs[s]
      BY <1>1, <1>5 DEF WorkerTakes, Busy, repVars
    <2> HIDE DEF q
    <2> QED BY <1>3, <1>4, <2>1, <2>3, <2>4, <2>5 DEF Works, WorkTakes
  <1>6. CASE WorkerMarks(s, w)
    <2>1. Busy(s, w) /\ r.at = "took" /\ jobs' = jobs BY <1>6 DEF WorkerMarks, Busy
    <2>2. CASE c \in released
      <3>1. WorkReports(s, w) BY <1>6, <1>t, <2>1, <2>2 DEF WorkerMarks
      <3> QED BY <1>3, <1>4, <3>1 DEF Works
    <2>3. CASE c \notin released
      <3> DEFINE q == [r EXCEPT !.at = "marked"]
      <3>1. q \in WorkerRecord BY <1>r DEF WorkerRecord
      <3>2. q.at = "marked" /\ q.claim = c /\ q.started = r.started BY <1>r DEF WorkerRecord
      <3>3. WorkerAt(s, w, q) /\ msgs' = msgs BY <1>6, <2>3 DEF WorkerMarks
      <3> HIDE DEF q
      <3>4. Becomes(s, w, q) BY <3>1, <3>3, WorkerBecomes
      <3>5. WorkHolds(s, w) BY <2>1, <3>2, <3>3, <3>4 DEF WorkHolds
      <3> QED BY <1>3, <1>4, <3>5 DEF Works
    <2> QED BY <2>2, <2>3
  <1>7. CASE WorkerBegins(s, w)
    <2>1. Busy(s, w) /\ r.at = "marked" /\ jobs' = jobs BY <1>7 DEF WorkerBegins, Busy, runVars
    <2>2. CASE r.fatal \/ RunCancelled(s)
      <3>1. WorkReports(s, w) BY <1>7, <1>t, <2>1, <2>2 DEF WorkerBegins
      <3> QED BY <1>3, <1>4, <3>1 DEF Works
    <2>3. CASE ~(r.fatal \/ RunCancelled(s))
      <3> DEFINE q == [r EXCEPT !.at = "running"]
      <3>1. q \in WorkerRecord BY <1>r DEF WorkerRecord
      <3>2. q.at = "running" /\ q.claim = c /\ q.started = r.started BY <1>r DEF WorkerRecord
      <3>3. WorkerAt(s, w, q) /\ msgs' = msgs BY <1>7, <2>3 DEF WorkerBegins
      <3> HIDE DEF q
      <3>4. Becomes(s, w, q) BY <3>1, <3>3, WorkerBecomes
      <3>5. WorkHolds(s, w) BY <2>1, <3>2, <3>3, <3>4 DEF WorkHolds
      <3> QED BY <1>3, <1>4, <3>5 DEF Works
    <2> QED BY <2>2, <2>3
  <1>8. CASE WorkerProgress(s, w)
    <2> DEFINE q == [r EXCEPT !.started = TRUE]
    <2>1. Busy(s, w) /\ r.at = "running" /\ ~r.started /\ jobs' = jobs BY <1>8 DEF WorkerProgress, Busy
    <2>2. q \in WorkerRecord BY <1>r DEF WorkerRecord
    <2>3. q.at = "running" /\ q.claim = c /\ q.started BY <1>r, <2>1 DEF WorkerRecord
    <2>4. WorkerAt(s, w, q) /\ msgs'[s] = Append(msgs[s], [kind |-> "started", claim |-> c])
      BY <1>1, <1>8 DEF WorkerProgress, Report
    <2> HIDE DEF q
    <2>5. Becomes(s, w, q) BY <2>2, <2>4, WorkerBecomes
    <2>6. WorkStarts(s, w) BY <2>1, <2>3, <2>4, <2>5 DEF WorkStarts
    <2> QED BY <1>3, <1>4, <2>6 DEF Works
  <1>9. ASSUME NEW result \in {"ok", "failed", "cancelled"}, WorkerFinishes(s, w, result) PROVE Works(s, w)
    <2>1. Busy(s, w) /\ r.at = "running" /\ r.started \in BOOLEAN /\ jobs' = jobs
      BY <1>9, <1>r DEF WorkerFinishes, Busy, WorkerRecord
    <2>2. WorkReports(s, w) BY <1>9, <1>t, <2>1 DEF WorkerFinishes
    <2> QED BY <1>3, <1>4, <2>2 DEF Works
  <1>10. CASE WorkerFatal(s, w)
    <2>1. Busy(s, w) /\ r.at = "running" /\ r.started \in BOOLEAN /\ jobs' = jobs
      BY <1>10, <1>r DEF WorkerFatal, Busy, WorkerRecord
    <2>2. WorkReports(s, w) BY <1>10, <1>t, <2>1 DEF WorkerFatal
    <2> QED BY <1>3, <1>4, <2>2 DEF Works
  <1>11. CASE WorkerEnds(s, w)
    <2> DEFINE q == [IdleWorker EXCEPT !.at = "ended"]
    <2>1. q \in WorkerRecord /\ q.at = "ended" BY DEF IdleWorker, WorkerRecord
    <2>2. /\ ~Busy(s, w) /\ jobs[s] = <<>> /\ jobs' = jobs /\ msgs' = msgs /\ ~ses[s].intake
          /\ WorkerAt(s, w, q)
      BY <1>11 DEF WorkerEnds, Busy, repVars
    <2> HIDE DEF q
    <2>3. Becomes(s, w, q) BY <2>1, <2>2, WorkerBecomes
    <2>4. WorkEnds(s, w) BY <2>1, <2>2, <2>3 DEF WorkEnds
    <2> QED BY <1>3, <1>4, <2>4 DEF Works
  <1> QED BY <1>5, <1>6, <1>7, <1>8, <1>9, <1>10, <1>11 DEF Work

\* What a reporter's step does to its line.
LEMMA ReportsDo ==
    ASSUME Types, NEW s \in Sids, Reports(s)
    PROVE  Tidies(s)
  <1>1. /\ msgs \in [Sids -> Seq(Msg)] /\ pending \in [Sids -> SUBSET Terminal] /\ nextSeq \in [Sids -> Nat]
        /\ reporter \in [Sids -> [at : ReporterPlaces, term : Terminal \cup {NoTerminal}]]
        /\ ends \in [Sids -> Seq(Claims)] /\ msgs[s] \in Seq(Msg)
    BY DEF Types, RepTypes, ReporterTypes, SaidTypes
  <1>2. UNCHANGED <<queue, feeder, fed, jobs, worker, runner>> BY ReportsLeave DEF feedVars, runVars
  <1>3. FrontStays(s) /\ CrewStays(s) /\ fed'[s] = fed[s] BY <1>2 DEF FrontStays, CrewStays
  <1>a. ASSUME NEW at, NEW t, ReporterAt(s, at, t)
        PROVE  reporter'[s] = [at |-> at, term |-> t] /\ reporter'[s].at = at /\ reporter'[s].term = t
    BY <1>1, <1>a DEF ReporterAt
  <1>4. CASE ReporterTakes(s)
    <2>1. TakesAny(s) BY <1>1, <1>4 DEF ReporterTakes, TakesAny
    <2>2. CASE Head(msgs[s]).kind \in {"ready", "started"}
      <3>1. Say(Head(msgs[s]).claim, Head(msgs[s]).kind) /\ pending' = pending /\ reporter' = reporter
        BY <1>4, <2>2 DEF ReporterTakes
      <3>2. TakesEvent(s) BY <2>1, <2>2, <3>1 DEF TakesEvent
      <3> QED BY <1>3, <3>2 DEF Tidies
    <2>3. CASE Head(msgs[s]).kind = "terminal"
      <3>1. /\ pending' = [pending EXCEPT ![s] = @ \cup {Head(msgs[s]).term}]
            /\ ReporterAt(s, "drain", NoTerminal) /\ heard' = heard
        BY <1>4, <2>3 DEF ReporterTakes
      <3>2. pending'[s] = pending[s] \cup {Head(msgs[s]).term} /\ reporter'[s].at = "drain" /\ Hushed(s)
        BY <1>1, <1>a, <3>1, SameHeard
      <3>3. TakesTerm(s) BY <2>1, <2>3, <3>2 DEF TakesTerm, IsTerm
      <3> QED BY <1>3, <3>3 DEF Tidies
    <2>4. CASE Head(msgs[s]).kind = "exit"
      <3>1. pending' = pending /\ ReporterAt(s, "exiting", NoTerminal) /\ heard' = heard
        BY <1>4, <2>4 DEF ReporterTakes
      <3>2. reporter'[s].at = "exiting" /\ Hushed(s) BY <1>a, <3>1, SameHeard
      <3>3. TakesExit(s) BY <2>1, <2>4, <3>1, <3>2 DEF TakesExit
      <3> QED BY <1>3, <3>3 DEF Tidies
    <2> QED BY <1>4, <2>2, <2>3, <2>4 DEF ReporterTakes
  <1>5. CASE ReporterPicks(s)
    <2>1. msgs' = msgs /\ ends' = ends /\ heard' = heard /\ Hushed(s) /\ reporter[s].at = "drain"
      BY <1>5, SameHeard DEF ReporterPicks, saidVars
    <2>2. CASE \E t \in pending[s] : t.seq = nextSeq[s]
      <3>1. PICK t \in pending[s] : /\ t.seq = nextSeq[s] /\ pending' = [pending EXCEPT ![s] = @ \ {t}]
                                    /\ nextSeq' = [nextSeq EXCEPT ![s] = @ + 1] /\ ReporterAt(s, "counted", t)
        BY <1>5, <2>2 DEF ReporterPicks
      <3>2. pending'[s] = pending[s] \ {t} /\ nextSeq'[s] = nextSeq[s] + 1 BY <1>1, <3>1
      <3>3. reporter'[s] = [at |-> "counted", term |-> t] BY <1>a, <3>1
      <3>4. Picks(s) BY <2>1, <3>1, <3>2, <3>3 DEF Picks
      <3> QED BY <1>3, <3>4 DEF Tidies
    <2>3. CASE ~\E t \in pending[s] : t.seq = nextSeq[s]
      <3>1. ReporterAt(s, "idle", NoTerminal) /\ pending' = pending /\ nextSeq' = nextSeq BY <1>5, <2>3 DEF ReporterPicks
      <3>2. reporter'[s].at = "idle" BY <1>a, <3>1
      <3>3. Picks(s) BY <2>1, <2>3, <3>1, <3>2 DEF Picks
      <3> QED BY <1>3, <3>3 DEF Tidies
    <2> QED BY <2>2, <2>3
  <1>6. CASE FinishSettles(s)
    <2>1. reporter[s].at = "counted" /\ UNCHANGED <<msgs, pending, nextSeq, ends>> BY <1>6 DEF FinishSettles
    <2>2. CASE reporter[s].term.released \/ ~Talking(s)
      <3>1. ReporterAt(s, "drain", NoTerminal) /\ heard' = heard BY <1>6, <2>2 DEF FinishSettles
      <3>2. reporter'[s].at = "drain" /\ Hushed(s) BY <1>a, <3>1, SameHeard
      <3>3. Settles(s) BY <2>1, <2>2, <3>2 DEF Settles
      <3> QED BY <1>3, <3>3 DEF Tidies
    <2>3. CASE ~(reporter[s].term.released \/ ~Talking(s))
      <3>1. /\ IF reporter[s].term.started THEN heard' = heard ELSE Say(reporter[s].term.claim, "started")
            /\ \E at \in {"delivering", "telling"} : ReporterAt(s, at, reporter[s].term)
        BY <1>6, <2>3 DEF FinishSettles
      <3>2. /\ reporter'[s].at \in {"delivering", "telling"} /\ reporter'[s].term = reporter[s].term
            /\ heard' = heard => Hushed(s)
        BY <1>a, <3>1, SameHeard
      <3>3. Settles(s) BY <2>1, <2>3, <3>1, <3>2 DEF Settles
      <3> QED BY <1>3, <3>3 DEF Tidies
    <2> QED BY <2>2, <2>3
  <1>7. ASSUME NEW r \in {"ok", "failed"}, FinishDelivers(s, r) PROVE Tidies(s)
    <2>1. reporter[s].at = "delivering" /\ UNCHANGED <<msgs, pending, nextSeq, ends, heard>> /\ Hushed(s)
      BY <1>7, SameHeard DEF FinishDelivers, saidVars
    <2>2. ReporterAt(s, "telling", [reporter[s].term EXCEPT !.result = r]) BY <1>7 DEF FinishDelivers
    <2>3. reporter'[s].at = "telling" /\ reporter'[s].term = [reporter[s].term EXCEPT !.result = r] BY <1>a, <2>2
    <2>4. reporter[s].term \in Terminal BY <2>1 DEF Types, RepTypes, ReporterTypes, Finishing
    <2>5. /\ reporter'[s].term.claim = reporter[s].term.claim /\ reporter'[s].term.seq = reporter[s].term.seq
          /\ reporter'[s].term.started = reporter[s].term.started
          /\ reporter'[s].term.released = reporter[s].term.released
      BY <2>3, <2>4 DEF Terminal
    <2>6. Delivers(s) BY <2>1, <2>3, <2>5 DEF Delivers
    <2> QED BY <1>3, <2>6 DEF Tidies
  <1>8. CASE FinishTells(s)
    <2>1. reporter[s].at = "telling" /\ UNCHANGED <<msgs, pending, nextSeq>> /\ ReporterAt(s, "drain", NoTerminal)
          /\ \E e \in {"done", "failed"} : Say(reporter[s].term.claim, e)
      BY <1>8 DEF FinishTells
    <2>2. ends'[s] = IF Talking(s) THEN Append(ends[s], reporter[s].term.claim) ELSE ends[s]
      BY <1>1, <1>8 DEF FinishTells
    <2>3. reporter'[s].at = "drain" BY <1>a, <2>1
    <2>4. Tells(s) BY <2>1, <2>2, <2>3 DEF Tells
    <2> QED BY <1>3, <2>4 DEF Tidies
  <1>9. CASE SessionExits(s)
    <2>1. reporter[s].at = "exiting" /\ UNCHANGED <<msgs, pending, nextSeq, ends, heard>> /\ Hushed(s)
      BY <1>9, SameHeard DEF SessionExits
    <2>2. reporter'[s].at = "gone" BY <1>9, <1>a DEF SessionExits
    <2>3. Leaves(s) BY <2>1, <2>2 DEF Leaves
    <2> QED BY <1>3, <2>3 DEF Tidies
  <1> QED BY <1>4, <1>5, <1>6, <1>7, <1>8, <1>9 DEF Reports

\* Saying something of another session's claim, or that claims were given back.
LEMMA SaidElsewhere ==
    ASSUME Types, NEW s \in Sids,
           \/ heard' = heard
           \/ \E C \in SUBSET Claims : SayReleased(C)
           \/ \E c \in Claims, e \in Events : SidOf[c] # s /\ Say(c, e)
    PROVE  Hushed(s)
  <1>1. CASE heard' = heard BY <1>1, SameHeard
  <1>2. ASSUME NEW C \in SUBSET Claims, SayReleased(C) PROVE Hushed(s)
    <2>1. \A d \in Claims : \A f \in LineEvents : (Said(d, f)' = Said(d, f))
      BY <1>2, SayingReleased DEF LineEvents
    <2> QED BY <2>1 DEF Hushed, Of
  <1>3. ASSUME NEW c \in Claims, NEW e \in Events, SidOf[c] # s, Say(c, e) PROVE Hushed(s)
    <2>1. \A d \in Claims : \A f : d # c => (Said(d, f)' = Said(d, f)) BY <1>3, Saying
    <2> QED BY <1>3, <2>1 DEF Hushed, Of
  <1> QED BY <1>1, <1>2, <1>3

\* What a session's tasks do leaves the line of another as it is.
LEMMA FeedElse ==
    ASSUME Types, \A t \in Sids : FedOK(t), NEW s \in Sids, NEW t \in Sids, t # s, Feed(t)
    PROVE  Idles(s)
  <1>1. /\ queue \in [Sids -> Seq(Claims)] /\ jobs \in [Sids -> Seq(Claims)] /\ fed \in [Sids -> Seq(Claims)]
        /\ msgs \in [Sids -> Seq(Msg)]
        /\ feeder \in [Sids -> [at : {"idle", "checked", "fetching", "fetched", "handing", "fault",
                                      "drop", "return", "settled"},
                                claim : Claims \cup {None}]]
    BY DEF Types, FeedTypes, RunTypes, RepTypes
  <1>2. UNCHANGED <<runner, worker, pending, nextSeq, reporter, ends>> BY FeedLeaves
  <1>3. queue'[s] = queue[s] /\ feeder'[s] = feeder[s]
    BY <1>1, t # s DEF Feed, FeedTake, FetchStarts, FetchCancelled, FetchLost, FetchEnds, GiveBackReads,
       GiveBackSettles, GiveBackSays, HandOverTests, HandOver, FeederAt
  <1>4. jobs'[s] = jobs[s] /\ fed'[s] = fed[s] /\ msgs'[s] = msgs[s]
    <2>1. CASE HandOver(t) BY <1>1, <2>1, t # s DEF HandOver
    <2>2. CASE ~HandOver(t)
      BY <2>2 DEF Feed, FeedTake, FetchStarts, FetchCancelled, FetchLost, FetchEnds, GiveBackReads,
         GiveBackSettles, GiveBackSays, HandOverTests, runVars, repVars
    <2> QED BY <2>1, <2>2
  <1>5. Hushed(s)
    <2>1. CASE GiveBackSays(t)
      <3>1. feeder[t].claim \in Claims /\ SidOf[feeder[t].claim] = t
        BY <2>1 DEF GiveBackSays, FedOK, Holding, Types, FeedTypes
      <3>2. heard' = heard \/ Say(feeder[t].claim, "returned") BY <2>1 DEF GiveBackSays
      <3> QED BY <3>1, <3>2, SaidElsewhere DEF Events
    <2>2. CASE ~GiveBackSays(t)
      <3>1. heard' = heard
        BY <2>2 DEF Feed, FeedTake, FetchStarts, FetchCancelled, FetchLost, FetchEnds, GiveBackReads,
           GiveBackSettles, HandOverTests, HandOver, saidVars
      <3> QED BY <3>1, SameHeard
    <2> QED BY <2>1, <2>2
  <1> QED BY <1>2, <1>3, <1>4, <1>5 DEF Idles, FrontStays, DeskStays

\* Another session's runner leaves the line alone.
LEMMA RunElse ==
    ASSUME Types, NEW s \in Sids, NEW t \in Sids, t # s, Run(t)
    PROVE  Idles(s)
  <1>1. /\ jobs \in [Sids -> Seq(Claims)] /\ msgs \in [Sids -> Seq(Msg)]
        /\ runner \in [Sids -> {"none", "loading", "working", "unloaded", "done"}]
    BY DEF Types, RunTypes, RepTypes, SessionTypes
  <1>2. UNCHANGED <<queue, feeder, fed, worker, pending, nextSeq, reporter, ends, heard>>
    BY RunLeaves DEF feedVars, saidVars
  <1>3. runner'[s] = runner[s] /\ jobs'[s] = jobs[s] /\ msgs'[s] = msgs[s]
    BY <1>1, t # s DEF Run, RunnerStops, RunnerReady, RunnerEnds, Report, repVars
  <1> QED BY <1>2, <1>3, SameHeard DEF Idles, FrontStays, DeskStays

\* Another session's worker leaves the line alone.
LEMMA WorkElse ==
    ASSUME Types, NEW s \in Sids, NEW t \in Sids, t # s, NEW w \in Workers, Work(t, w)
    PROVE  Idles(s)
  <1>1. /\ jobs \in [Sids -> Seq(Claims)] /\ msgs \in [Sids -> Seq(Msg)]
        /\ worker \in [Sids -> [Workers -> WorkerRecord]]
    BY DEF Types, RunTypes, RepTypes
  <1>2. UNCHANGED <<queue, feeder, fed, runner, pending, nextSeq, reporter, ends, heard>>
    BY WorkLeaves DEF feedVars, saidVars
  <1>3. jobs'[s] = jobs[s]
    BY <1>1, t # s DEF Work, WorkerTakes, WorkerMarks, WorkerBegins, WorkerProgress, WorkerFinishes, WorkerFatal,
       WorkerEnds, runVars
  <1>4. worker'[s] = worker[s]
    BY <1>1, t # s DEF Work, WorkerTakes, WorkerMarks, WorkerBegins, WorkerProgress, WorkerFinishes, WorkerFatal,
       WorkerEnds, WorkerAt
  <1>5. msgs'[s] = msgs[s] BY <1>1, t # s, WorkersReport DEF Report
  <1> QED BY <1>2, <1>3, <1>4, <1>5, SameHeard DEF Idles, FrontStays, DeskStays

\* Another session's reporter leaves the line alone: its claims are its own.
LEMMA ReportsElse ==
    ASSUME Types, \A t \in Sids : FedOK(t) /\ MailOK(t), NEW s \in Sids, NEW t \in Sids, t # s, Reports(t)
    PROVE  Idles(s)
  <1>1. /\ msgs \in [Sids -> Seq(Msg)] /\ pending \in [Sids -> SUBSET Terminal] /\ nextSeq \in [Sids -> Nat]
        /\ reporter \in [Sids -> [at : ReporterPlaces, term : Terminal \cup {NoTerminal}]]
        /\ ends \in [Sids -> Seq(Claims)] /\ msgs[t] \in Seq(Msg)
    BY DEF Types, RepTypes, ReporterTypes, SaidTypes
  <1>2. UNCHANGED <<queue, feeder, fed, jobs, worker, runner>> BY ReportsLeave DEF feedVars, runVars
  <1>3. UNCHANGED <<msgs[s], pending[s], nextSeq[s], reporter[s], ends[s]>>
    BY <1>1, t # s DEF Reports, ReporterTakes, ReporterPicks, FinishSettles, FinishDelivers, FinishTells, SessionExits,
       ReporterAt, saidVars
  <1>4. Hushed(s)
    <2>1. ASSUME NEW c \in Range(fed[t]) PROVE c \in Claims /\ SidOf[c] = t
      BY <2>1, Places DEF FedOK
    <2>2. CASE ReporterTakes(t)
      <3>1. 1 \in DOMAIN msgs[t] /\ Head(msgs[t]) = msgs[t][1] BY <1>1, <2>2, Taking DEF ReporterTakes
      <3>2. heard' = heard \/ (Head(msgs[t]).kind \in {"ready", "started"}
                               /\ Say(Head(msgs[t]).claim, Head(msgs[t]).kind))
        BY <2>2 DEF ReporterTakes
      <3>3. Head(msgs[t]).kind \in {"ready", "started"} => Head(msgs[t]).claim \in Range(fed[t])
        BY <3>1 DEF MailOK, Posted
      <3> QED BY <2>1, <3>2, <3>3, SaidElsewhere, t # s DEF Events
    <2>3. CASE ~ReporterTakes(t)
      <3>1. heard' = heard \/ (Finishing(t) /\ \E e \in {"started", "done", "failed"} : Say(reporter[t].term.claim, e))
        BY <2>3 DEF Reports, ReporterPicks, FinishSettles, FinishDelivers, FinishTells, SessionExits,
           Finishing, saidVars
      <3>2. Finishing(t) => reporter[t].term.claim \in Range(fed[t]) BY DEF MailOK, Fits
      <3> QED BY <2>1, <3>1, <3>2, SaidElsewhere, t # s DEF Events
    <2> QED BY <2>2, <2>3
  <1> QED BY <1>2, <1>3, <1>4 DEF Idles, FrontStays, DeskStays

\* Every step moves the line of every session in one of the ways named.
LEMMA LineMoves ==
    ASSUME Types, ExitOK, WorkersOK, \A t \in Sids : FedOK(t) /\ MailOK(t), Next, NEW s \in Sids
    PROVE  Moves(s)
  <1>1. Cases BY Steps
  <1> USE DEF Moves
  <1>2. CASE Controls
    <2>1. UNCHANGED <<feedVars, runVars, repVars, ends>> BY <1>2, ControlsLeave
    <2>2. apply.given \in SUBSET Claims BY DEF Types, HubTypes, ApplyTypes, ApplyRecord
    <2>3. heard' = heard \/ SayReleased(apply.given)
      BY <1>2 DEF Controls, OwnerPauses, OwnerResumes, Owner, InstallChanges, Leave, Update,
         DrainForUpdate, DrainTests, DrainApplies, CountStarts, CountFinishing, CountEnds, CountBook,
         InstallFails, EndDrainReads, EndDrainApplies, ConnOnly, Pausing, WatcherReads, WatcherTests,
         WatcherApplies, TellReleased, CancelBenches, Release, AbandonOne, saidVars
    <2>4. Hushed(s) BY <2>2, <2>3, SaidElsewhere
    <2>5. Idles(s) BY <2>1, <2>4 DEF Idles, FrontStays, DeskStays, feedVars, runVars, repVars
    <2> QED BY <2>5
  <1>3. CASE Ops
    <2>1. UNCHANGED <<feeder, jobs, fed, worker, repVars, ends>> BY <1>3, OpsLeave
    <2>2. ASSUME NEW c \in Claims, Volume(c) PROVE Moves(s)
      <3>1. runner' = runner BY <2>2 DEF Volume, runVars
      <3>2. queue \in [Sids -> Seq(Claims)] /\ SidOf[c] \in Sids BY ConstantsAssumption DEF Types, FeedTypes
      <3>3. CASE SidOf[c] = s
        <4>1. c \in Of(s) \ seen /\ c \in seen' BY <2>2, <3>3 DEF Volume, Of
        <4>2. \/ queue'[s] = queue[s] /\ (heard' = heard \/ SayReleased({c}) \/ Say(c, "returned"))
              \/ queue'[s] = Append(queue[s], c) /\ c \in outstanding' /\ heard' = heard
          BY <2>2, <3>2, <3>3 DEF Volume
        <4>3. heard' = heard \/ SayReleased({c}) => Hushed(s) BY SaidElsewhere
        <4>4. Offers(s)
          BY <2>1, <3>1, <4>1, <4>2, <4>3 DEF Offers, CrewStays, DeskStays, repVars
        <4> QED BY <4>4
      <3>4. CASE SidOf[c] # s
        <4>1. queue'[s] = queue[s] BY <2>2, <3>2, <3>4 DEF Volume
        <4>2. heard' = heard \/ SayReleased({c}) \/ Say(c, "returned") BY <2>2 DEF Volume
        <4>3. Hushed(s) BY <3>4, <4>2, SaidElsewhere DEF Events
        <4>4. Idles(s) BY <2>1, <3>1, <4>1, <4>3 DEF Idles, FrontStays, DeskStays, repVars
        <4> QED BY <4>4
      <3> QED BY <3>3, <3>4
    <2>3. CASE ~\E c \in Claims : Volume(c)
      <3>1. heard' = heard /\ queue' = queue
        BY <1>3, <2>3 DEF Ops, OpenSession, CloseSession, CancelSession, Bench, CancelBench, saidVars, feedVars
      <3>2. runner'[s] = runner[s] \/ (runner[s] = "none" /\ runner'[s] = "loading")
        BY <1>3, <2>3 DEF Ops, OpenSession, CloseSession, CancelSession, Bench, CancelBench, runVars, ExitOK,
           Types, SessionTypes
      <3>3. Idles(s) BY <2>1, <3>1, <3>2, SameHeard DEF Idles, FrontStays, DeskStays, repVars
      <3> QED BY <3>3
    <2> QED BY <2>2, <2>3
  <1>4. CASE Benches
    <2>1. UNCHANGED <<feedVars, runVars, repVars, heard, ends>> BY <1>4, BenchesLeave
    <2>2. Idles(s) BY <2>1, SameHeard DEF Idles, FrontStays, DeskStays, feedVars, runVars, repVars
    <2> QED BY <2>2
  <1>5. ASSUME NEW t \in Sids, Feed(t) PROVE Moves(s) BY <1>5, FeedDoes, FeedElse
  <1>6. ASSUME NEW t \in Sids, Run(t) PROVE Moves(s) BY <1>6, RunDoes, RunElse
  <1>7. ASSUME NEW t \in Sids, Reports(t) PROVE Moves(s) BY <1>7, ReportsDo, ReportsElse
  <1>8. ASSUME NEW t \in Sids, NEW w \in Workers, Work(t, w) PROVE Moves(s)
    BY <1>8, WorkDoes, WorkElse
  <1>9. scene.workers \subseteq Workers BY ConstantsAssumption DEF Types, HubTypes, Scene
  <1> QED BY <1>1, <1>2, <1>3, <1>4, <1>5, <1>6, <1>7, <1>8, <1>9 DEF Cases

-----------------------------------------------------------------------------
(* A claim has one way through the feeder.                                 *)

\* A new member at the end keeps members distinct.
LEMMA DistinctAppend ==
    ASSUME NEW S, NEW q \in Seq(S), NEW x \in S, Distinct(q), x \notin Range(q)
    PROVE  Distinct(Append(q, x))
  <1>1. /\ DOMAIN Append(q, x) = 1 .. Len(q) + 1 /\ Append(q, x)[Len(q) + 1] = x
        /\ \A i \in DOMAIN q : Append(q, x)[i] = q[i] /\ q[i] # x
    BY Appending DEF Range
  <1>2. \A i \in DOMAIN Append(q, x) : i = Len(q) + 1 \/ i \in DOMAIN q BY <1>1
  <1> QED BY <1>1, <1>2 DEF Distinct

\* Taking the first member keeps members distinct, and it is not among the rest.
LEMMA DistinctTail ==
    ASSUME NEW S, NEW q \in Seq(S), q # <<>>, Distinct(q)
    PROVE  Distinct(Tail(q)) /\ Head(q) \notin Range(Tail(q)) /\ Range(Tail(q)) \subseteq Range(q)
           /\ Head(q) \in Range(q)
  <1>1. /\ Head(q) = q[1] /\ 1 \in DOMAIN q
        /\ \A i \in DOMAIN Tail(q) : i \in Nat \ {0} /\ i + 1 \in DOMAIN q /\ Tail(q)[i] = q[i + 1]
        /\ Range(Tail(q)) \subseteq Range(q) /\ Head(q) \in Range(q)
    BY Taking
  <1>2. Distinct(Tail(q)) BY <1>1 DEF Distinct
  <1>3. \A i \in DOMAIN Tail(q) : Tail(q)[i] # Head(q) BY <1>1 DEF Distinct
  <1> QED BY <1>1, <1>2, <1>3 DEF Range

\* Places stay when nothing is handed over.
LEMMA SeqStays ==
    ASSUME NEW s, fed'[s] = fed[s]
    PROVE  \A c : (SeqOf(s, c)' = SeqOf(s, c))
  BY DEF SeqOf

\* A claim that is handed over gets the next place; the others keep theirs.
LEMMA SeqGrows ==
    ASSUME Types, NEW s \in Sids, Distinct(fed[s]), NEW c \in Claims, c \notin Range(fed[s]),
           fed'[s] = Append(fed[s], c)
    PROVE  /\ Range(fed'[s]) = Range(fed[s]) \cup {c} /\ Len(fed'[s]) = Len(fed[s]) + 1
           /\ \A d \in Range(fed[s]) : (SeqOf(s, d)' = SeqOf(s, d))
           /\ SeqOf(s, c)' = Len(fed[s]) + 1
  <1>1. fed[s] \in Seq(Claims) BY DEF Types, RunTypes
  <1>2. /\ Range(fed'[s]) = Range(fed[s]) \cup {c} /\ DOMAIN fed'[s] = 1 .. Len(fed[s]) + 1
        /\ fed'[s][Len(fed[s]) + 1] = c /\ Len(fed'[s]) = Len(fed[s]) + 1
        /\ \A i \in DOMAIN fed[s] : i \in DOMAIN fed'[s] /\ fed'[s][i] = fed[s][i]
    BY <1>1, Appending
  <1>3. Distinct(fed'[s]) BY <1>1, DistinctAppend
  <1>4. \A d : \A i \in DOMAIN fed'[s] : fed'[s][i] = d => (SeqOf(s, d)' = i)
    <2> SUFFICES ASSUME NEW d, NEW i \in DOMAIN fed'[s], fed'[s][i] = d PROVE (SeqOf(s, d)' = i)
      OBVIOUS
    <2>1. SeqOf(s, d)' = CHOOSE j \in DOMAIN fed'[s] : fed'[s][j] = d BY DEF SeqOf
    <2>2. SeqOf(s, d)' \in DOMAIN fed'[s] /\ fed'[s][SeqOf(s, d)'] = d BY <2>1
    <2> QED BY <1>3, <2>2 DEF Distinct
  <1>5. ASSUME NEW d \in Range(fed[s]) PROVE (SeqOf(s, d)' = SeqOf(s, d))
    <2>1. SeqOf(s, d) \in DOMAIN fed[s] /\ fed[s][SeqOf(s, d)] = d BY Places
    <2> QED BY <1>2, <1>4, <2>1
  <1>6. Len(fed[s]) + 1 \in DOMAIN fed'[s] BY <1>1, <1>2
  <1> QED BY <1>2, <1>4, <1>5, <1>6

\* Whoever was handed over has its place for good.
LEMMA SeqKept ==
    ASSUME Types, NEW s \in Sids, FedOK(s), Moves(s)
    PROVE  /\ Range(fed[s]) \subseteq Range(fed'[s])
           /\ \A c \in Range(fed[s]) : (SeqOf(s, c)' = SeqOf(s, c))
  <1>1. CASE Hands(s)
    <2>1. feeder[s].claim \in Claims /\ feeder[s].claim \notin Range(fed[s]) /\ Distinct(fed[s])
      BY <1>1 DEF Hands, Holding, Types, FeedTypes, FedOK
    <2> QED BY <1>1, <2>1, SeqGrows DEF Hands
  <1>2. CASE ~Hands(s)
    <2>1. fed'[s] = fed[s] BY <1>2 DEF Moves, Idles, Offers, Feeds, FeedMoves, Runs, Works, Tidies
    <2> QED BY <2>1, SeqStays
  <1> QED BY <1>1, <1>2

\* A claim once seen stays seen.
LEMMA SeenGrows ==
    ASSUME Types, Next
    PROVE  seen \subseteq seen'
  <1>1. Cases BY Steps
  <1>2. CASE Controls BY <1>2, ControlsLeave
  <1>3. CASE Ops
    BY <1>3 DEF Ops, OpenSession, CloseSession, CancelSession, Volume, Bench, CancelBench, bookVars
  <1>4. CASE Benches BY <1>4, BenchesLeave DEF bookVars
  <1>5. ASSUME NEW t \in Sids, Feed(t) PROVE seen \subseteq seen' BY <1>5, FeedLeaves
  <1>6. ASSUME NEW t \in Sids, Run(t) PROVE seen \subseteq seen' BY <1>6, RunLeaves DEF bookVars
  <1>7. ASSUME NEW t \in Sids, Reports(t) PROVE seen \subseteq seen' BY <1>7, ReportsLeave
  <1>8. ASSUME NEW t \in Sids, NEW w, Work(t, w) PROVE seen \subseteq seen' BY <1>8, WorkLeaves
  <1> QED BY <1>1, <1>2, <1>3, <1>4, <1>5, <1>6, <1>7, <1>8 DEF Cases

\* What the reporter says is never that a claim was returned.
LEMMA TidiesReturnNone ==
    ASSUME Types, NEW s \in Sids, MailOK(s), Tidies(s)
    PROVE  \A c \in Claims : SidOf[c] = s => (Said(c, "returned")' = Said(c, "returned"))
  <1>1. CASE Hushed(s) BY <1>1 DEF Hushed, Of, LineEvents, Events
  <1>2. ASSUME NEW d \in Claims, NEW e \in {"ready", "started", "done", "failed"}, Say(d, e)
        PROVE  \A c \in Claims : SidOf[c] = s => (Said(c, "returned")' = Said(c, "returned"))
    BY <1>2, Saying DEF Events
  <1>3. CASE TakesEvent(s)
    <2>1. msgs[s] \in Seq(Msg) /\ msgs[s] # <<>> BY <1>3 DEF Types, RepTypes, TakesEvent, TakesAny
    <2>2. Head(msgs[s]) \in Msg BY <2>1, Taking
    <2> QED BY <1>2, <1>3, <2>2, Kinds DEF TakesEvent
  <1>4. CASE Settles(s) \/ Tells(s)
    <2>1. reporter[s].term.claim \in Claims
      BY <1>4 DEF Settles, Tells, Finishing, Types, RepTypes, ReporterTypes, Terminal
    <2> QED BY <1>1, <1>2, <1>4, <2>1 DEF Settles, Tells
  <1> QED BY <1>1, <1>3, <1>4 DEF Tidies, TakesTerm, TakesExit, Picks, Delivers, Leaves

\* A front that is left alone stays in order.
LEMMA FrontHolds ==
    ASSUME NEW s \in Sids, FedOK(s), FrontStays(s), fed'[s] = fed[s], seen \subseteq seen',
           \A c \in Claims : SidOf[c] = s => (Said(c, "returned")' = Said(c, "returned"))
    PROVE  FedOK(s)'
  BY DEF FedOK, FrontStays, Holding, Told

\* Every step keeps claims distinct from queue to runner, and returned ones out of it.
LEMMA FedKept ==
    ASSUME Types, NEW s \in Sids, FedOK(s), MailOK(s), Next, Moves(s)
    PROVE  FedOK(s)'
  <1>0. seen \subseteq seen' BY SeenGrows
  <1>q. queue[s] \in Seq(Claims) /\ fed[s] \in Seq(Claims) BY DEF Types, FeedTypes, RunTypes
  <1>h. Hushed(s) => \A c \in Claims : SidOf[c] = s => (Said(c, "returned")' = Said(c, "returned"))
    BY DEF Hushed, Of, LineEvents, Events
  <1>1. CASE Idles(s) BY <1>0, <1>1, <1>h, FrontHolds DEF Idles
  <1>2. CASE Offers(s)
    <2>1. PICK c \in Of(s) \ seen :
             /\ c \in seen'
             /\ \/ queue'[s] = queue[s] /\ (Hushed(s) \/ Say(c, "returned"))
                \/ queue'[s] = Append(queue[s], c) /\ Hushed(s)
      BY <1>2 DEF Offers
    <2>2. /\ c \in Claims /\ SidOf[c] = s /\ c \notin Range(queue[s]) \cup Range(fed[s])
          /\ ~(Holding(s) /\ feeder[s].claim = c) /\ ~Told(c, "returned")
      BY <2>1 DEF FedOK, Of
    <2>3. feeder'[s] = feeder[s] /\ fed'[s] = fed[s] BY <1>2 DEF Offers
    <2>4. CASE queue'[s] = queue[s] /\ Hushed(s) BY <1>0, <1>h, <2>3, <2>4, FrontHolds DEF FrontStays
    <2>5. CASE queue'[s] = queue[s] /\ Say(c, "returned")
      <3>1. \A d \in Claims : d # c => (Said(d, "returned")' = Said(d, "returned"))
        BY <2>2, <2>5, Saying DEF Events
      <3>2. \E i : Said(c, "returned")' \subseteq {i}
        <4>1. Said(c, "returned") = {} BY <2>2 DEF Told
        <4>2. \/ Said(c, "returned")' = Said(c, "returned")
              \/ Said(c, "returned")' = Said(c, "returned") \cup {Len(heard[c]) + 1}
          BY <2>2, <2>5, Saying DEF Events
        <4> QED BY <4>1, <4>2
      <3> QED BY <1>0, <2>1, <2>2, <2>3, <2>5, <3>1, <3>2 DEF FedOK, Holding, Told, AtMostOne
    <2>6. CASE queue'[s] = Append(queue[s], c) /\ Hushed(s)
      <3>1. Range(queue'[s]) = Range(queue[s]) \cup {c} BY <1>q, <2>2, <2>6, Appending
      <3>2. Distinct(queue'[s])
        <4>1. Distinct(Append(queue[s], c)) BY <1>q, <2>2, DistinctAppend DEF FedOK
        <4> QED BY <2>6, <4>1
      <3>3. Distinct(queue[s])' BY <3>2 DEF Distinct
      <3> QED BY <1>0, <1>h, <2>1, <2>2, <2>3, <2>6, <3>1, <3>3 DEF FedOK, Holding, Told
    <2> QED BY <2>1, <2>4, <2>5, <2>6
  <1>3. CASE FeedMoves(s)
    <2>1. fed'[s] = fed[s] BY <1>3 DEF FeedMoves
    <2>2. CASE queue'[s] = queue[s] /\ Holding(s)
      <3>1. CASE Hushed(s) /\ (feeder'[s].at = "idle" \/ feeder'[s].claim = feeder[s].claim)
        BY <1>0, <1>h, <2>1, <2>2, <3>1 DEF FedOK, Holding, Told
      <3>2. CASE Say(feeder[s].claim, "returned") /\ feeder'[s].at = "idle"
        <4>0. PICK c \in Claims : c = feeder[s].claim BY <2>2 DEF Holding, Types, FeedTypes
        <4>1. /\ SidOf[c] = s /\ c \in seen /\ c \notin Range(queue[s]) \cup Range(fed[s])
              /\ Said(c, "returned") = {} /\ Say(c, "returned")
          BY <2>2, <3>2, <4>0 DEF FedOK, Told, Holding
        <4>2. \A d \in Claims : d # c => (Said(d, "returned")' = Said(d, "returned"))
          BY <4>1, Saying DEF Events
        <4>3. \E i : Said(c, "returned")' \subseteq {i}
          <5>1. \/ Said(c, "returned")' = Said(c, "returned")
                \/ Said(c, "returned")' = Said(c, "returned") \cup {Len(heard[c]) + 1}
            BY <4>1, Saying DEF Events
          <5> QED BY <4>1, <5>1
        <4>4. \A d \in Claims : SidOf[d] = s /\ d # c => (Told(d, "returned")' <=> Told(d, "returned"))
          BY <4>2 DEF Told
        <4>5. \A d \in Claims : SidOf[d] = s => (AtMostOne(Said(d, "returned"))')
          BY <4>2, <4>3 DEF FedOK, AtMostOne
        <4> QED BY <1>0, <2>1, <2>2, <3>2, <4>0, <4>1, <4>4, <4>5 DEF FedOK, Holding
      <3> QED BY <1>3, <2>2, <3>1, <3>2 DEF FeedMoves
    <2>3. CASE ~Holding(s)
      <3>1. /\ queue[s] # <<>> /\ queue'[s] = Tail(queue[s]) /\ Hushed(s)
            /\ feeder'[s] = feeder[s] \/ feeder'[s].claim = Head(queue[s])
        BY <1>3, <2>3 DEF FeedMoves
      <3>2. /\ Distinct(Tail(queue[s])) /\ Head(queue[s]) \notin Range(Tail(queue[s]))
            /\ Range(Tail(queue[s])) \subseteq Range(queue[s]) /\ Head(queue[s]) \in Range(queue[s])
        BY <1>q, <3>1, DistinctTail DEF FedOK
      <3>3. Distinct(queue[s])' BY <3>1, <3>2
      <3>4. /\ Range(queue'[s]) \subseteq Range(queue[s]) /\ Head(queue[s]) \notin Range(queue'[s])
        BY <3>1, <3>2
      <3> QED BY <1>0, <1>h, <2>1, <2>3, <3>1, <3>2, <3>3, <3>4 DEF FedOK, Holding, Told
    <2> QED BY <1>3, <2>2, <2>3 DEF FeedMoves
  <1>4. CASE Hands(s)
    <2> DEFINE c == feeder[s].claim
    <2>1. /\ c \in Claims /\ SidOf[c] = s /\ c \in seen /\ c \notin Range(queue[s]) \cup Range(fed[s])
          /\ ~Told(c, "returned") /\ Holding(s)
      BY <1>4 DEF Hands, FedOK, Types, FeedTypes, Holding
    <2>2. /\ queue'[s] = queue[s] /\ fed'[s] = Append(fed[s], c) /\ feeder'[s].at = "idle" /\ Hushed(s)
      BY <1>4 DEF Hands
    <2>3. Range(fed'[s]) = Range(fed[s]) \cup {c} BY <1>q, <2>1, <2>2, Appending
    <2>4. Distinct(fed[s])'
      <3>1. Distinct(Append(fed[s], c)) BY <1>q, <2>1, DistinctAppend DEF FedOK
      <3> QED BY <2>2, <3>1
    <2> HIDE DEF c
    <2> QED BY <1>0, <1>h, <2>1, <2>2, <2>3, <2>4 DEF FedOK, Holding, Told
  <1>5. CASE Runs(s) BY <1>0, <1>5, <1>h, FrontHolds DEF Runs
  <1>6. CASE \E w \in Workers : Works(s, w) BY <1>0, <1>6, <1>h, FrontHolds DEF Works
  <1>7. CASE Tidies(s) BY <1>0, <1>7, TidiesReturnNone, FrontHolds DEF Tidies
  <1> QED BY <1>1, <1>2, <1>3, <1>4, <1>5, <1>6, <1>7 DEF Moves, Feeds

-----------------------------------------------------------------------------
(* What is posted, and what was said, is about claims that were handed over. *)

\* A message that fits goes on fitting.
LEMMA PostedKept ==
    ASSUME Types, NEW s \in Sids, FedOK(s), Moves(s)
    PROVE  /\ \A t : Fits(s, t) => (Fits(s, t)')
           /\ \A m : Posted(s, m) => (Posted(s, m)')
  <1>1. \A t : Fits(s, t) => (Fits(s, t)') BY SeqKept DEF Fits
  <1> QED BY <1>1, SeqKept DEF Posted

Tales == {"ready", "started", "done", "failed"}

\* The mail is in order when what is new in it fits.
LEMMA MailHolds ==
    ASSUME Types, NEW s \in Sids, FedOK(s), Moves(s), MailOK(s),
           \A i \in DOMAIN msgs'[s] : \/ \E j \in DOMAIN msgs[s] : msgs'[s][i] = msgs[s][j]
                                      \/ (Posted(s, msgs[s][i])'),
           \A t \in pending'[s] : Fits(s, t),
           Finishing(s)' => Fits(s, reporter'[s].term),
           \A c \in Claims : \A e \in Tales : SidOf[c] = s /\ (Told(c, e)') => Told(c, e) \/ c \in Range(fed[s])
    PROVE  MailOK(s)'
  <1>1. /\ \A t : Fits(s, t) => (Fits(s, t)')
        /\ \A m : Posted(s, m) => (Posted(s, m)')
    BY PostedKept
  <1>2. \A i \in DOMAIN msgs'[s] : (Posted(s, msgs[s][i])')
    <2> SUFFICES ASSUME NEW i \in DOMAIN msgs'[s], NEW j \in DOMAIN msgs[s], msgs'[s][i] = msgs[s][j]
                 PROVE  (Posted(s, msgs[s][i])')
      OBVIOUS
    <2>1. PICK m : m = msgs[s][j] OBVIOUS
    <2>2. Posted(s, m)' BY <1>1, <2>1 DEF MailOK
    <2> QED BY <2>1, <2>2 DEF Posted, IsTerm, Fits
  <1>3. \A t \in pending'[s] : (Fits(s, t)') BY <1>1
  <1>4. Finishing(s)' => (Fits(s, reporter[s].term)')
    <2> SUFFICES ASSUME Finishing(s)' PROVE (Fits(s, reporter[s].term)')
      OBVIOUS
    <2>1. PICK t : t = reporter'[s].term OBVIOUS
    <2>2. Fits(s, t)' BY <1>1, <2>1
    <2> QED BY <2>1, <2>2 DEF Fits
  <1>5. \A c \in Claims : \A e \in Tales : SidOf[c] = s /\ (Told(c, e)') => c \in Range(fed'[s])
    BY SeqKept DEF MailOK, Tales
  <1> QED BY <1>2, <1>3, <1>4, <1>5 DEF MailOK, Tales

\* Where a message is after one was put behind or taken from the front.
LEMMA MailMoves ==
    ASSUME Types, NEW s \in Sids
    PROVE  /\ msgs[s] \in Seq(Msg) /\ Len(msgs[s]) \in Nat /\ DOMAIN msgs[s] = 1 .. Len(msgs[s])
           /\ \A m \in Msg : msgs'[s] = Append(msgs[s], m) =>
                 /\ DOMAIN msgs'[s] = 1 .. Len(msgs[s]) + 1 /\ msgs'[s][Len(msgs[s]) + 1] = m
                 /\ \A i \in DOMAIN msgs[s] : i \in DOMAIN msgs'[s] /\ msgs'[s][i] = msgs[s][i]
           /\ msgs[s] # <<>> /\ msgs'[s] = Tail(msgs[s]) =>
                 /\ 1 \in DOMAIN msgs[s] /\ Head(msgs[s]) = msgs[s][1] /\ Head(msgs[s]) \in Msg
                 /\ DOMAIN msgs'[s] = 1 .. Len(msgs[s]) - 1
                 /\ \A i \in DOMAIN msgs'[s] : i + 1 \in DOMAIN msgs[s] /\ msgs'[s][i] = msgs[s][i + 1]
  <1>1. msgs[s] \in Seq(Msg) BY DEF Types, RepTypes
  <1>2. ASSUME NEW m \in Msg, msgs'[s] = Append(msgs[s], m)
        PROVE  /\ DOMAIN msgs'[s] = 1 .. Len(msgs[s]) + 1 /\ msgs'[s][Len(msgs[s]) + 1] = m
               /\ \A i \in DOMAIN msgs[s] : i \in DOMAIN msgs'[s] /\ msgs'[s][i] = msgs[s][i]
    BY <1>1, <1>2, Appending
  <1>3. ASSUME msgs[s] # <<>>, msgs'[s] = Tail(msgs[s])
        PROVE  /\ 1 \in DOMAIN msgs[s] /\ Head(msgs[s]) = msgs[s][1] /\ Head(msgs[s]) \in Msg
               /\ DOMAIN msgs'[s] = 1 .. Len(msgs[s]) - 1
               /\ \A i \in DOMAIN msgs'[s] : i + 1 \in DOMAIN msgs[s] /\ msgs'[s][i] = msgs[s][i + 1]
    <2>1. Tail(msgs[s]) \in Seq(Msg) /\ Len(Tail(msgs[s])) = Len(msgs[s]) - 1 BY <1>1, <1>3, Taking
    <2>2. DOMAIN msgs'[s] = 1 .. Len(msgs[s]) - 1 BY <1>1, <1>3, <2>1
    <2> QED BY <1>1, <1>3, <2>2, Taking
  <1>4. Len(msgs[s]) \in Nat /\ DOMAIN msgs[s] = 1 .. Len(msgs[s]) BY <1>1
  <1> QED BY <1>1, <1>2, <1>3, <1>4

\* The mail stays in order when a message that fits is posted.
LEMMA MailGrows ==
    ASSUME Types, NEW s \in Sids, FedOK(s), Moves(s), MailOK(s), DeskStays(s), Hushed(s),
           NEW m \in Msg, msgs'[s] = Append(msgs[s], m), Posted(s, m)'
    PROVE  MailOK(s)'
  <1>1. \A i \in DOMAIN msgs'[s] : msgs'[s][i] = m \/ \E j \in DOMAIN msgs[s] : msgs'[s][i] = msgs[s][j]
    <2>1. \A i \in 1 .. Len(msgs[s]) + 1 : i = Len(msgs[s]) + 1 \/ i \in 1 .. Len(msgs[s]) BY MailMoves
    <2> QED BY <2>1, MailMoves
  <1>2. \A i \in DOMAIN msgs'[s] : msgs'[s][i] = m => (Posted(s, msgs[s][i])')
    BY DEF Posted, IsTerm, Fits
  <1>3. \A c \in Claims : \A e \in Tales : SidOf[c] = s => (Told(c, e)' <=> Told(c, e))
    BY DEF Hushed, Of, LineEvents, Events, Tales, Told
  <1> QED BY <1>1, <1>2, <1>3, MailHolds DEF DeskStays, MailOK, Finishing

\* The mail stays in order when no message moves.
LEMMA MailStays ==
    ASSUME Types, NEW s \in Sids, FedOK(s), Moves(s), MailOK(s), DeskStays(s), msgs'[s] = msgs[s],
           Hushed(s) \/ \E c \in Claims : Say(c, "returned")
    PROVE  MailOK(s)'
  <1>1. CASE Hushed(s)
    <2>1. \A c \in Claims : \A e \in Tales : SidOf[c] = s => (Told(c, e)' <=> Told(c, e))
      BY <1>1 DEF Hushed, Of, LineEvents, Events, Tales, Told
    <2> QED BY <2>1, MailHolds DEF DeskStays, MailOK, Finishing
  <1>2. ASSUME NEW d \in Claims, Say(d, "returned") PROVE MailOK(s)'
    <2>1. \A c \in Claims : \A e \in Tales : (Told(c, e)' <=> Told(c, e))
      BY <1>2, Saying DEF Events, Tales, Told
    <2> QED BY <2>1, MailHolds DEF DeskStays, MailOK, Finishing
  <1> QED BY <1>1, <1>2

\* The mail stays in order when the reporter takes or tells.
LEMMA MailTidied ==
    ASSUME Types, NEW s \in Sids, FedOK(s), Moves(s), MailOK(s), Tidies(s)
    PROVE  MailOK(s)'
  <1>h. Hushed(s) => \A c \in Claims : \A e \in Tales : SidOf[c] = s => (Told(c, e)' <=> Told(c, e))
    BY DEF Hushed, Of, LineEvents, Events, Tales, Told
  <1>s. ASSUME NEW d \in Claims, NEW f \in Tales, Say(d, f)
        PROVE  \A c \in Claims : \A e \in Tales : (Told(c, e)') => Told(c, e) \/ c = d
    BY <1>s, Saying DEF Events, Tales, Told
  <1>0. ASSUME NEW d \in Range(fed[s]) PROVE d \in Claims BY Places
  <1>t. TakesAny(s) => \A i \in DOMAIN msgs'[s] : \E j \in DOMAIN msgs[s] : msgs'[s][i] = msgs[s][j]
    BY MailMoves DEF TakesAny
  <1>u. TakesAny(s) => Head(msgs[s]) \in Msg /\ Posted(s, Head(msgs[s]))
    BY MailMoves DEF TakesAny, MailOK
  <1>1. CASE TakesEvent(s)
    <2>1. TakesAny(s) /\ Head(msgs[s]).claim \in Range(fed[s]) BY <1>1, <1>u DEF TakesEvent, Posted
    <2>2. \A c \in Claims : \A e \in Tales : (Told(c, e)') => Told(c, e) \/ c = Head(msgs[s]).claim
      <3>1. PICK d, f : d = Head(msgs[s]).claim /\ f = Head(msgs[s]).kind OBVIOUS
      <3>2. d \in Claims /\ f \in Tales /\ Say(d, f) BY <1>0, <1>1, <2>1, <3>1 DEF TakesEvent, Tales
      <3> QED BY <1>s, <3>1, <3>2
    <2>3. pending'[s] = pending[s] /\ reporter'[s] = reporter[s] BY <1>1 DEF TakesEvent
    <2> QED BY <1>t, <2>1, <2>2, <2>3, MailHolds DEF MailOK, Finishing
  <1>2. CASE TakesTerm(s)
    <2>1. TakesAny(s) /\ Fits(s, Head(msgs[s]).term) /\ Hushed(s) BY <1>2, <1>u DEF TakesTerm, Posted
    <2>2. pending'[s] = pending[s] \cup {Head(msgs[s]).term} /\ reporter'[s].at = "drain" BY <1>2 DEF TakesTerm
    <2> QED BY <1>h, <1>t, <2>1, <2>2, MailHolds DEF MailOK, Finishing
  <1>3. CASE TakesExit(s)
    BY <1>3, <1>h, <1>t, MailHolds DEF TakesExit, MailOK, Finishing
  <1>4. CASE Picks(s)
    <2>1. /\ msgs'[s] = msgs[s] /\ Hushed(s) /\ pending'[s] \subseteq pending[s]
          /\ \/ reporter'[s].at = "idle"
             \/ \E t \in pending[s] : reporter'[s] = [at |-> "counted", term |-> t]
      BY <1>4 DEF Picks
    <2>2. \A t \in pending'[s] : Fits(s, t) BY <2>1 DEF MailOK
    <2>3. Finishing(s)' => Fits(s, reporter'[s].term)
      <3>1. CASE reporter'[s].at = "idle" BY <3>1 DEF Finishing
      <3>2. ASSUME NEW t \in pending[s], reporter'[s] = [at |-> "counted", term |-> t]
            PROVE  Fits(s, reporter'[s].term)
        <4>1. reporter'[s].term = t BY <3>2
        <4> QED BY <4>1 DEF MailOK
      <3> QED BY <2>1, <3>1, <3>2
    <2> QED BY <1>h, <2>1, <2>2, <2>3, MailHolds
  <1>5. CASE Settles(s)
    <2>1. /\ Finishing(s) /\ msgs'[s] = msgs[s] /\ pending'[s] = pending[s]
          /\ Finishing(s)' => reporter'[s].term = reporter[s].term
          /\ Hushed(s) \/ Say(reporter[s].term.claim, "started")
      BY <1>5 DEF Settles, Finishing
    <2>2. reporter[s].term.claim \in Range(fed[s]) BY <2>1 DEF MailOK, Fits
    <2>3. \A c \in Claims : \A e \in Tales :
             SidOf[c] = s /\ (Told(c, e)') => Told(c, e) \/ c = reporter[s].term.claim
      <3>1. PICK d : d = reporter[s].term.claim OBVIOUS
      <3>2. d \in Claims /\ (Hushed(s) \/ Say(d, "started")) BY <1>0, <2>1, <2>2, <3>1
      <3> QED BY <1>h, <1>s, <3>1, <3>2 DEF Tales
    <2> QED BY <2>1, <2>2, <2>3, MailHolds DEF MailOK
  <1>6. CASE Delivers(s)
    <2>1. /\ Finishing(s) /\ msgs'[s] = msgs[s] /\ pending'[s] = pending[s] /\ Hushed(s)
          /\ reporter'[s].term.claim = reporter[s].term.claim /\ reporter'[s].term.seq = reporter[s].term.seq
      BY <1>6 DEF Delivers, Finishing
    <2>2. Fits(s, reporter'[s].term) BY <2>1 DEF MailOK, Fits
    <2> QED BY <1>h, <2>1, <2>2, MailHolds DEF MailOK
  <1>7. CASE Tells(s)
    <2>1. /\ Finishing(s) /\ msgs'[s] = msgs[s] /\ pending'[s] = pending[s] /\ ~(Finishing(s)')
          /\ \E e \in {"done", "failed"} : Say(reporter[s].term.claim, e)
      BY <1>7 DEF Tells, Finishing
    <2>2. reporter[s].term.claim \in Range(fed[s]) BY <2>1 DEF MailOK, Fits
    <2>3. \A c \in Claims : \A e \in Tales :
             SidOf[c] = s /\ (Told(c, e)') => Told(c, e) \/ c = reporter[s].term.claim
      <3>1. PICK d : d = reporter[s].term.claim OBVIOUS
      <3>2. d \in Claims /\ \E e \in {"done", "failed"} : Say(d, e) BY <1>0, <2>1, <2>2, <3>1
      <3> QED BY <1>s, <3>1, <3>2 DEF Tales
    <2> QED BY <2>1, <2>2, <2>3, MailHolds DEF MailOK
  <1>8. CASE Leaves(s)
    BY <1>8, <1>h, MailHolds DEF Leaves, MailOK, Finishing
  <1> QED BY <1>1, <1>2, <1>3, <1>4, <1>5, <1>6, <1>7, <1>8 DEF Tidies

\* Every step keeps mail and events about claims that were handed over.
LEMMA MailKept ==
    ASSUME Types, NEW s \in Sids, FedOK(s), Moves(s), MailOK(s)
    PROVE  MailOK(s)'
  <1>1. CASE Idles(s) BY <1>1, MailStays DEF Idles
  <1>2. CASE Offers(s) BY <1>2, MailStays DEF Offers, Of
  <1>3. CASE FeedMoves(s)
    <2>1. Hushed(s) \/ (Holding(s) /\ Say(feeder[s].claim, "returned")) BY <1>3 DEF FeedMoves
    <2>2. Holding(s) => feeder[s].claim \in Claims BY DEF Holding, Types, FeedTypes
    <2> QED BY <1>3, <2>1, <2>2, MailStays DEF FeedMoves
  <1>4. CASE Hands(s)
    <2>1. PICK c \in Claims : c = feeder[s].claim BY <1>4 DEF Hands, Holding, Types, FeedTypes
    <2>2. fed'[s] = Append(fed[s], c) /\ fed[s] \in Seq(Claims) BY <1>4, <2>1 DEF Hands, Types, RunTypes
    <2>3. c \in Range(fed'[s]) BY <2>2, Appending
    <2> DEFINE m == [kind |-> "ready", claim |-> c]
    <2>4. m \in Msg /\ m.kind = "ready" /\ m.claim = c BY DEF Msg
    <2>5. msgs'[s] = Append(msgs[s], m) /\ DeskStays(s) /\ Hushed(s) BY <1>4, <2>1 DEF Hands
    <2> HIDE DEF m
    <2>6. PICK n \in Msg : n.kind = "ready" /\ n.claim = c /\ msgs'[s] = Append(msgs[s], n) BY <2>4, <2>5
    <2>7. Posted(s, n)' BY <2>3, <2>6 DEF Posted, IsTerm
    <2> QED BY <2>5, <2>6, <2>7, MailGrows
  <1>5. CASE Runs(s)
    <2>1. DeskStays(s) /\ Hushed(s) /\ (msgs'[s] = msgs[s] \/ msgs'[s] = Append(msgs[s], ExitMsg))
      BY <1>5 DEF Runs, RunStops, RunReadies, RunEnds
    <2>2. ExitMsg \in Msg /\ ExitMsg.kind = "exit" BY DEF Msg, ExitMsg
    <2>3. Posted(s, ExitMsg)' BY <2>2 DEF Posted, IsTerm
    <2> QED BY <2>1, <2>2, <2>3, MailStays, MailGrows
  <1>6. ASSUME NEW w \in Workers, Works(s, w) PROVE MailOK(s)'
    <2>1. DeskStays(s) /\ Hushed(s) /\ fed'[s] = fed[s] BY <1>6 DEF Works
    <2>2. CASE msgs'[s] = msgs[s] BY <2>1, <2>2, MailStays
    <2>3. CASE WorkStarts(s, w)
      <3>1. PICK c : c = worker[s][w].claim OBVIOUS
      <3>2. c \in Range(fed[s]) BY <2>3, <3>1 DEF WorkStarts, Types, RunTypes
      <3>3. c \in Claims BY <3>2, Places
      <3>4. [kind |-> "started", claim |-> c] \in Msg BY <3>3 DEF Msg
      <3>5. PICK n \in Msg : n.kind = "started" /\ n.claim = c /\ msgs'[s] = Append(msgs[s], n)
        BY <2>3, <3>1, <3>4 DEF WorkStarts
      <3>6. Posted(s, n)' BY <2>1, <3>2, <3>5 DEF Posted, IsTerm
      <3> QED BY <2>1, <3>5, <3>6, MailGrows
    <2>4. CASE WorkReports(s, w)
      <3>1. PICK t \in Terminal : /\ t.claim = worker[s][w].claim /\ t.seq = SeqOf(s, t.claim)
                                  /\ msgs'[s] = Append(msgs[s], [kind |-> "terminal", term |-> t])
        BY <2>4 DEF WorkReports
      <3>2. t.claim \in Range(fed[s]) BY <2>4, <3>1 DEF WorkReports, Types, RunTypes
      <3>3. Fits(s, t)' BY <2>1, <3>1, <3>2 DEF Fits, SeqOf
      <3>4. [kind |-> "terminal", term |-> t] \in Msg BY DEF Msg
      <3>5. PICK n \in Msg : n.kind = "terminal" /\ n.term = t /\ msgs'[s] = Append(msgs[s], n)
        BY <3>1, <3>4
      <3>6. Posted(s, n)' BY <3>3, <3>5 DEF Posted, IsTerm
      <3> QED BY <2>1, <3>5, <3>6, MailGrows
    <2> QED BY <1>6, <2>2, <2>3, <2>4 DEF Works, WorkTakes, WorkHolds, WorkEnds
  <1>7. CASE Tidies(s) BY <1>7, MailTidied
  <1> QED BY <1>1, <1>2, <1>3, <1>4, <1>5, <1>6, <1>7 DEF Moves, Feeds

-----------------------------------------------------------------------------
(* Where a claim that was handed over is.                                  *)

MailSame(s) == OneTerminal(s)' /\ \A c : (InMail(s, c)' <=> InMail(s, c))

\* A message that is no terminal, posted or taken, moves no terminal.
LEMMA MailSameOther ==
    ASSUME Types, NEW s \in Sids, OneTerminal(s),
           \/ msgs'[s] = msgs[s]
           \/ \E m \in Msg : ~IsTerm(m) /\ msgs'[s] = Append(msgs[s], m)
           \/ msgs[s] # <<>> /\ msgs'[s] = Tail(msgs[s]) /\ ~IsTerm(Head(msgs[s]))
    PROVE  MailSame(s)
  <1>1. CASE msgs'[s] = msgs[s] BY <1>1 DEF MailSame, OneTerminal, InMail
  <1>2. ASSUME NEW m \in Msg, ~IsTerm(m), msgs'[s] = Append(msgs[s], m) PROVE MailSame(s)
    <2>1. \A i \in 1 .. Len(msgs[s]) + 1 : i = Len(msgs[s]) + 1 \/ i \in 1 .. Len(msgs[s]) BY MailMoves
    <2>2. \A i \in DOMAIN msgs'[s] : \/ i \in DOMAIN msgs[s] /\ msgs'[s][i] = msgs[s][i]
                                     \/ msgs'[s][i] = m
      BY <1>2, <2>1, MailMoves
    <2>3. \A i \in DOMAIN msgs'[s] : IsTerm(msgs'[s][i]) => i \in DOMAIN msgs[s] /\ msgs'[s][i] = msgs[s][i]
      BY <1>2, <2>2
    <2>4. \A i \in DOMAIN msgs[s] : i \in DOMAIN msgs'[s] /\ msgs'[s][i] = msgs[s][i] BY <1>2, MailMoves
    <2> QED BY <2>3, <2>4 DEF MailSame, OneTerminal, InMail, IsTerm
  <1>3. CASE msgs[s] # <<>> /\ msgs'[s] = Tail(msgs[s]) /\ ~IsTerm(Head(msgs[s]))
    <2>1. /\ Head(msgs[s]) = msgs[s][1] /\ Len(msgs[s]) \in Nat
          /\ DOMAIN msgs'[s] = 1 .. Len(msgs[s]) - 1 /\ DOMAIN msgs[s] = 1 .. Len(msgs[s])
          /\ \A i \in DOMAIN msgs'[s] : i + 1 \in DOMAIN msgs[s] /\ msgs'[s][i] = msgs[s][i + 1]
      BY <1>3, MailMoves
    <2>2. \A i \in DOMAIN msgs[s] : IsTerm(msgs[s][i]) => i - 1 \in DOMAIN msgs'[s] /\ msgs'[s][i - 1] = msgs[s][i]
      <3> SUFFICES ASSUME NEW i \in DOMAIN msgs[s], IsTerm(msgs[s][i])
                   PROVE  i - 1 \in DOMAIN msgs'[s] /\ msgs'[s][i - 1] = msgs[s][i]
        OBVIOUS
      <3>1. i # 1 BY <1>3, <2>1
      <3>2. i - 1 \in DOMAIN msgs'[s] /\ (i - 1) + 1 = i BY <2>1, <3>1
      <3> QED BY <2>1, <3>2
    <2>3. OneTerminal(s)'
      <3> SUFFICES ASSUME NEW i \in DOMAIN msgs'[s], NEW j \in DOMAIN msgs'[s], IsTerm(msgs'[s][i]), IsTerm(msgs'[s][j]),
                          msgs'[s][i].term.claim = msgs'[s][j].term.claim
                   PROVE  i = j
        BY DEF OneTerminal, IsTerm
      <3>1. /\ i + 1 \in DOMAIN msgs[s] /\ msgs'[s][i] = msgs[s][i + 1]
            /\ j + 1 \in DOMAIN msgs[s] /\ msgs'[s][j] = msgs[s][j + 1]
        BY <2>1
      <3>2. \A k, l \in DOMAIN msgs[s] :
               IsTerm(msgs[s][k]) /\ IsTerm(msgs[s][l]) /\ msgs[s][k].term.claim = msgs[s][l].term.claim => k = l
        BY DEF OneTerminal
      <3>3. i + 1 = j + 1 BY <3>1, <3>2
      <3> QED BY <2>1, <3>3
    <2>4. \A c : InMail(s, c)' <=> InMail(s, c)
      <3> SUFFICES ASSUME NEW c PROVE InMail(s, c)' <=> InMail(s, c)
        OBVIOUS
      <3>1. InMail(s, c)' => InMail(s, c) BY <2>1 DEF InMail, IsTerm
      <3>2. InMail(s, c) => InMail(s, c)' BY <2>2 DEF InMail, IsTerm
      <3> QED BY <3>1, <3>2
    <2> QED BY <2>3, <2>4 DEF MailSame
  <1> QED BY <1>1, <1>2, <1>3

\* A terminal that is posted is the only one of its claim.
LEMMA MailGets ==
    ASSUME Types, NEW s \in Sids, OneTerminal(s), NEW m \in Msg, IsTerm(m), ~InMail(s, m.term.claim),
           msgs'[s] = Append(msgs[s], m)
    PROVE  OneTerminal(s)' /\ \A c : (InMail(s, c)' <=> InMail(s, c) \/ c = m.term.claim)
  <1>1. \A i \in 1 .. Len(msgs[s]) + 1 : i = Len(msgs[s]) + 1 \/ i \in 1 .. Len(msgs[s]) BY MailMoves
  <1>2. \A i \in DOMAIN msgs'[s] : \/ i \in DOMAIN msgs[s] /\ msgs'[s][i] = msgs[s][i]
                                   \/ i = Len(msgs[s]) + 1
    BY <1>1, MailMoves
  <1>3. \A i \in DOMAIN msgs[s] : i \in DOMAIN msgs'[s] /\ msgs'[s][i] = msgs[s][i] BY MailMoves
  <1>4. Len(msgs[s]) + 1 \in DOMAIN msgs'[s] /\ msgs'[s][Len(msgs[s]) + 1] = m BY MailMoves
  <1>5. \A i \in DOMAIN msgs[s] : IsTerm(msgs[s][i]) => msgs[s][i].term.claim # m.term.claim BY DEF InMail
  <1>6. OneTerminal(s)' BY <1>2, <1>4, <1>5 DEF OneTerminal, IsTerm
  <1>7. \A c : (InMail(s, c)' <=> InMail(s, c) \/ c = m.term.claim)
    <2> SUFFICES ASSUME NEW c PROVE InMail(s, c)' <=> InMail(s, c) \/ c = m.term.claim
      OBVIOUS
    <2>1. InMail(s, c)' => InMail(s, c) \/ c = m.term.claim BY <1>2, <1>4 DEF InMail, IsTerm
    <2>2. InMail(s, c) => InMail(s, c)' BY <1>3 DEF InMail, IsTerm
    <2>3. c = m.term.claim => InMail(s, c)' BY <1>4 DEF InMail, IsTerm
    <2> QED BY <2>1, <2>2, <2>3
  <1> QED BY <1>6, <1>7

\* A terminal that is taken was the only one of its claim.
LEMMA MailGives ==
    ASSUME Types, NEW s \in Sids, OneTerminal(s), msgs[s] # <<>>, msgs'[s] = Tail(msgs[s]), IsTerm(Head(msgs[s]))
    PROVE  /\ OneTerminal(s)' /\ InMail(s, Head(msgs[s]).term.claim)
           /\ \A c : (InMail(s, c)' <=> InMail(s, c) /\ c # Head(msgs[s]).term.claim)
  <1>1. /\ Head(msgs[s]) = msgs[s][1] /\ Len(msgs[s]) \in Nat /\ 1 \in DOMAIN msgs[s]
        /\ DOMAIN msgs'[s] = 1 .. Len(msgs[s]) - 1 /\ DOMAIN msgs[s] = 1 .. Len(msgs[s])
        /\ \A i \in DOMAIN msgs'[s] : i + 1 \in DOMAIN msgs[s] /\ msgs'[s][i] = msgs[s][i + 1]
    BY MailMoves
  <1>2. \A i \in DOMAIN msgs[s] : i # 1 => i - 1 \in DOMAIN msgs'[s] /\ msgs'[s][i - 1] = msgs[s][i]
    <2> SUFFICES ASSUME NEW i \in DOMAIN msgs[s], i # 1
                 PROVE  i - 1 \in DOMAIN msgs'[s] /\ msgs'[s][i - 1] = msgs[s][i]
      OBVIOUS
    <2>1. i - 1 \in DOMAIN msgs'[s] /\ (i - 1) + 1 = i BY <1>1
    <2> QED BY <1>1, <2>1
  <1>3. OneTerminal(s)' BY <1>1 DEF OneTerminal, IsTerm
  <1>4. InMail(s, Head(msgs[s]).term.claim) BY <1>1 DEF InMail
  <1>5. ASSUME NEW c PROVE InMail(s, c)' <=> InMail(s, c) /\ c # Head(msgs[s]).term.claim
    <2>1. InMail(s, c)' => InMail(s, c)
      BY <1>1 DEF InMail, IsTerm
    <2>2. InMail(s, c)' => c # Head(msgs[s]).term.claim
      <3>1. ASSUME NEW i \in DOMAIN msgs'[s], IsTerm(msgs'[s][i]) PROVE msgs'[s][i].term.claim # Head(msgs[s]).term.claim
        <4>1. i + 1 # 1 /\ i + 1 \in DOMAIN msgs[s] /\ msgs'[s][i] = msgs[s][i + 1] BY <1>1, <3>1
        <4> QED BY <1>1, <3>1, <4>1 DEF OneTerminal
      <3> QED BY <3>1 DEF InMail, IsTerm
    <2>3. InMail(s, c) /\ c # Head(msgs[s]).term.claim => InMail(s, c)'
      BY <1>1, <1>2 DEF InMail, IsTerm
    <2> QED BY <2>1, <2>2, <2>3
  <1> QED BY <1>3, <1>4, <1>5

\* A worker that takes a claim no other has is the only one at it.
LEMMA WorkBecomes ==
    ASSUME Types, NEW s \in Sids, NEW w \in Workers, NEW r, Becomes(s, w, r), OneWorker(s),
           \A c : r.at \in {"took", "marked", "running"} /\ c = r.claim =>
              ~InWork(s, c) \/ (Busy(s, w) /\ worker[s][w].claim = c)
    PROVE  /\ OneWorker(s)'
           /\ \A c : (InWork(s, c)' <=> \/ InWork(s, c) /\ ~(Busy(s, w) /\ worker[s][w].claim = c)
                                        \/ r.at \in {"took", "marked", "running"} /\ c = r.claim)
  <1>1. worker[s] \in [Workers -> WorkerRecord] BY DEF Types, RunTypes
  <1>2. worker'[s][w] = r /\ \A v \in Workers : v # w => worker'[s][v] = worker[s][v] BY <1>1 DEF Becomes
  <1>3. /\ Busy(s, w)' <=> r.at \in {"took", "marked", "running"}
        /\ \A v \in Workers : v # w => (Busy(s, v)' <=> Busy(s, v))
    BY <1>2 DEF Busy
  <1>4. \A v \in Workers : r.at \in {"took", "marked", "running"} /\ v # w /\ Busy(s, v) => worker[s][v].claim # r.claim
    BY DEF InWork, OneWorker
  <1>5. OneWorker(s)' BY <1>2, <1>3, <1>4 DEF OneWorker
  <1>6. ASSUME NEW c
        PROVE  InWork(s, c)' <=> \/ InWork(s, c) /\ ~(Busy(s, w) /\ worker[s][w].claim = c)
                                 \/ r.at \in {"took", "marked", "running"} /\ c = r.claim
    <2>1. InWork(s, c)' <=> \E v \in Workers : Busy(s, v)' /\ worker'[s][v].claim = c BY DEF InWork
    <2>2. InWork(s, c) /\ ~(Busy(s, w) /\ worker[s][w].claim = c)
             <=> \E v \in Workers : v # w /\ Busy(s, v) /\ worker[s][v].claim = c
      BY DEF InWork, OneWorker
    <2> QED BY <1>2, <1>3, <2>1, <2>2
  <1> QED BY <1>5, <1>6

\* A job that is added is the only one of its claim.
LEMMA JobsGet ==
    ASSUME Types, NEW s \in Sids, Distinct(jobs[s]), NEW c \in Claims, ~InJobs(s, c), jobs'[s] = Append(jobs[s], c)
    PROVE  Distinct(jobs[s])' /\ \A d : (InJobs(s, d)' <=> InJobs(s, d) \/ d = c)
  <1>1. jobs[s] \in Seq(Claims) BY DEF Types, RunTypes
  <1>2. \A d : InJobs(s, d) <=> d \in Range(jobs[s]) BY DEF InJobs, Range
  <1>3. \A d : InJobs(s, d)' <=> d \in Range(jobs'[s]) BY DEF InJobs, Range
  <1>4. Range(jobs'[s]) = Range(jobs[s]) \cup {c} BY <1>1, Appending
  <1>5. Distinct(jobs'[s]) BY <1>1, <1>2, DistinctAppend
  <1> QED BY <1>2, <1>3, <1>4, <1>5 DEF Distinct

\* A job that is taken was the only one of its claim.
LEMMA JobsGive ==
    ASSUME Types, NEW s \in Sids, Distinct(jobs[s]), jobs[s] # <<>>, jobs'[s] = Tail(jobs[s])
    PROVE  /\ Distinct(jobs[s])' /\ InJobs(s, Head(jobs[s]))
           /\ \A d : (InJobs(s, d)' <=> InJobs(s, d) /\ d # Head(jobs[s]))
  <1>1. jobs[s] \in Seq(Claims) BY DEF Types, RunTypes
  <1>2. \A d : InJobs(s, d) <=> d \in Range(jobs[s]) BY DEF InJobs, Range
  <1>3. \A d : InJobs(s, d)' <=> d \in Range(jobs'[s]) BY DEF InJobs, Range
  <1>4. /\ Distinct(jobs'[s]) /\ Head(jobs[s]) \notin Range(jobs'[s]) /\ Range(jobs'[s]) \subseteq Range(jobs[s])
        /\ Head(jobs[s]) \in Range(jobs[s])
    BY <1>1, DistinctTail
  <1>5. \A d \in Range(jobs[s]) : d # Head(jobs[s]) => d \in Range(jobs'[s])
    <2> SUFFICES ASSUME NEW i \in DOMAIN jobs[s], jobs[s][i] # Head(jobs[s]) PROVE jobs[s][i] \in Range(jobs'[s])
      BY DEF Range
    <2>1. i \in 1 .. Len(jobs[s]) /\ i # 1 /\ Len(jobs[s]) \in Nat BY <1>1
    <2>2. i - 1 \in DOMAIN Tail(jobs[s]) /\ Tail(jobs[s])[i - 1] = jobs[s][i]
      <3>1. Len(Tail(jobs[s])) = Len(jobs[s]) - 1 /\ Tail(jobs[s]) \in Seq(Claims) BY <1>1, Taking
      <3>2. i - 1 \in 1 .. Len(Tail(jobs[s])) /\ (i - 1) + 1 = i BY <2>1, <3>1
      <3> QED BY <1>1, <3>1, <3>2, Taking
    <2> QED BY <2>2 DEF Range
  <1> QED BY <1>2, <1>3, <1>4, <1>5 DEF Distinct

\* A claim with a place was handed over.
LEMMA InFed ==
    ASSUME Types, NEW s \in Sids, MailOK(s)
    PROVE  \A c : Placed(s, c) \/ InHand(s, c) => c \in Range(fed[s])
  <1>1. \A c : InJobs(s, c) \/ InWork(s, c) => c \in Range(fed[s]) BY DEF Types, RunTypes, InJobs, InWork
  <1>2. \A c : InMail(s, c) \/ InPending(s, c) \/ InHand(s, c) => c \in Range(fed[s])
    BY DEF MailOK, Posted, Fits, InMail, InPending, InHand
  <1> QED BY <1>1, <1>2 DEF Placed

JobsSame(s) == Distinct(jobs[s])' /\ \A c : (InJobs(s, c)' <=> InJobs(s, c))
WorkSame(s) == OneWorker(s)' /\ \A c : (InWork(s, c)' <=> InWork(s, c))
PendingSame(s) == OnePending(s)' /\ \A c : (InPending(s, c)' <=> InPending(s, c))

\* What a step leaves alone keeps its claims.
LEMMA SamePlaces ==
    ASSUME Types, NEW s \in Sids, PlaceOK(s)
    PROVE  /\ jobs'[s] = jobs[s] => JobsSame(s)
           /\ worker'[s] = worker[s] => WorkSame(s)
           /\ pending'[s] = pending[s] => PendingSame(s)
           /\ \/ msgs'[s] = msgs[s]
              \/ \E m \in Msg : ~IsTerm(m) /\ msgs'[s] = Append(msgs[s], m)
              \/ msgs[s] # <<>> /\ msgs'[s] = Tail(msgs[s]) /\ ~IsTerm(Head(msgs[s]))
              => MailSame(s)
  <1>1. jobs'[s] = jobs[s] => JobsSame(s) BY DEF PlaceOK, JobsSame, Distinct, InJobs
  <1>2. worker'[s] = worker[s] => WorkSame(s) BY DEF PlaceOK, WorkSame, OneWorker, InWork, Busy
  <1>3. pending'[s] = pending[s] => PendingSame(s) BY DEF PlaceOK, PendingSame, OnePending, InPending
  <1>4. OneTerminal(s) BY DEF PlaceOK
  <1> QED BY <1>1, <1>2, <1>3, <1>4, MailSameOther

\* Everything is where it was.
LEMMA PlaceHolds ==
    ASSUME Types, NEW s \in Sids, FedOK(s), PlaceOK(s), JobsSame(s), WorkSame(s), MailSame(s), PendingSame(s),
           fed'[s] = fed[s], nextSeq'[s] = nextSeq[s],
           Finishing(s)' => Finishing(s) /\ reporter'[s].term.seq = reporter[s].term.seq
    PROVE  PlaceOK(s)' /\ \A c : (Placed(s, c)' <=> Placed(s, c))
  <1>1. \A c : (SeqOf(s, c)' = SeqOf(s, c)) BY SeqStays
  <1>2. \A c : (Placed(s, c)' <=> Placed(s, c))
    BY DEF JobsSame, WorkSame, MailSame, PendingSame, Placed
  <1>3. /\ Distinct(jobs[s])' /\ OneWorker(s)' /\ OneTerminal(s)' /\ OnePending(s)'
        /\ \A c \in Claims :
              /\ (InJobs(s, c)' => ~InWork(s, c)' /\ ~InMail(s, c)' /\ ~InPending(s, c)')
              /\ (InWork(s, c)' => ~InMail(s, c)' /\ ~InPending(s, c)')
              /\ (InMail(s, c)' => ~InPending(s, c)')
    BY DEF JobsSame, WorkSame, MailSame, PendingSame, PlaceOK
  <1>4. \A c \in Claims : Placed(s, c)' => (SeqOf(s, c)' >= nextSeq'[s]) BY <1>1, <1>2 DEF PlaceOK
  <1>5. Finishing(s)' => reporter'[s].term.seq + 1 = nextSeq'[s] BY DEF PlaceOK
  <1>6. nextSeq'[s] \in 1 .. Len(fed'[s]) + 1 BY DEF PlaceOK
  <1> QED BY <1>2, <1>3, <1>4, <1>5, <1>6 DEF PlaceOK

\* What a step does to the places: a claim that has one keeps one, until its turn or the end.
PlacesKept(s) ==
    /\ PlaceOK(s)'
    /\ \A c \in Range(fed[s]) : Placed(s, c) =>
          (Placed(s, c)' \/ SeqOf(s, c) < nextSeq'[s] \/ runner'[s] = "unloaded")
    /\ \A c \in Range(fed'[s]) : c \notin Range(fed[s]) => (Placed(s, c)')

\* Places hold when queue, workers and terminals stay.
LEMMA PlacesHold ==
    ASSUME Types, NEW s \in Sids, FedOK(s), PlaceOK(s), jobs'[s] = jobs[s], worker'[s] = worker[s],
           \/ msgs'[s] = msgs[s]
           \/ \E m \in Msg : ~IsTerm(m) /\ msgs'[s] = Append(msgs[s], m)
           \/ msgs[s] # <<>> /\ msgs'[s] = Tail(msgs[s]) /\ ~IsTerm(Head(msgs[s])),
           pending'[s] = pending[s], fed'[s] = fed[s], nextSeq'[s] = nextSeq[s],
           Finishing(s)' => Finishing(s) /\ reporter'[s].term.seq = reporter[s].term.seq
    PROVE  PlacesKept(s)
  <1>1. JobsSame(s) /\ WorkSame(s) /\ PendingSame(s) /\ MailSame(s) BY SamePlaces
  <1>2. PlaceOK(s)' /\ \A c : (Placed(s, c)' <=> Placed(s, c)) BY <1>1, PlaceHolds
  <1> QED BY <1>2 DEF PlacesKept

\* A claim that is handed over has its first place.
LEMMA HandsPlaces ==
    ASSUME Types, NEW s \in Sids, FedOK(s), MailOK(s), PlaceOK(s), Hands(s)
    PROVE  PlacesKept(s)
  <1>1. PICK c \in Claims : c = feeder[s].claim BY DEF Hands, Holding, Types, FeedTypes
  <1>2. /\ jobs'[s] = Append(jobs[s], c) /\ fed'[s] = Append(fed[s], c) /\ c \notin Range(fed[s])
        /\ worker'[s] = worker[s] /\ pending'[s] = pending[s] /\ nextSeq'[s] = nextSeq[s]
        /\ reporter'[s] = reporter[s] /\ Distinct(fed[s])
    BY <1>1 DEF Hands, DeskStays, FedOK
  <1>3. \E m \in Msg : ~IsTerm(m) /\ msgs'[s] = Append(msgs[s], m)
    <2>1. [kind |-> "ready", claim |-> c] \in Msg BY DEF Msg
    <2> QED BY <1>1, <2>1 DEF Hands, IsTerm
  <1>4. WorkSame(s) /\ PendingSame(s) /\ MailSame(s) BY <1>2, <1>3, SamePlaces
  <1>5. ~Placed(s, c) BY <1>2, InFed
  <1>6. Distinct(jobs[s])' /\ \A d : (InJobs(s, d)' <=> InJobs(s, d) \/ d = c)
    BY <1>2, <1>5, JobsGet DEF PlaceOK, Placed
  <1>7. /\ Range(fed'[s]) = Range(fed[s]) \cup {c} /\ Len(fed'[s]) = Len(fed[s]) + 1
        /\ \A d \in Range(fed[s]) : (SeqOf(s, d)' = SeqOf(s, d))
        /\ (SeqOf(s, c)' = Len(fed[s]) + 1)
    BY <1>2, SeqGrows
  <1>8. \A d : (Placed(s, d)' <=> Placed(s, d) \/ d = c)
    BY <1>4, <1>6 DEF Placed, WorkSame, MailSame, PendingSame
  <1>9. \A d \in Claims :
           /\ (InJobs(s, d)' => ~InWork(s, d)' /\ ~InMail(s, d)' /\ ~InPending(s, d)')
           /\ (InWork(s, d)' => ~InMail(s, d)' /\ ~InPending(s, d)')
           /\ (InMail(s, d)' => ~InPending(s, d)')
    BY <1>4, <1>5, <1>6 DEF Placed, WorkSame, MailSame, PendingSame, PlaceOK
  <1>10. nextSeq[s] \in 1 .. Len(fed[s]) + 1 /\ Len(fed[s]) \in Nat BY DEF PlaceOK, Types, RunTypes
  <1>11. \A d \in Claims : Placed(s, d)' => (SeqOf(s, d)' >= nextSeq'[s])
    <2> SUFFICES ASSUME NEW d \in Claims, Placed(s, d)' PROVE (SeqOf(s, d)' >= nextSeq'[s])
      OBVIOUS
    <2>1. CASE d = c BY <1>2, <1>7, <1>10, <2>1
    <2>2. CASE d # c
      <3>1. Placed(s, d) BY <1>8, <2>2
      <3>2. d \in Range(fed[s]) BY <3>1, InFed
      <3> QED BY <1>2, <1>7, <3>1, <3>2 DEF PlaceOK
    <2> QED BY <2>1, <2>2
  <1>12. Finishing(s)' => reporter'[s].term.seq + 1 = nextSeq'[s] BY <1>2 DEF PlaceOK, Finishing
  <1>13. nextSeq'[s] \in 1 .. Len(fed'[s]) + 1 BY <1>2, <1>7, <1>10
  <1>14. PlaceOK(s)'
    BY <1>4, <1>6, <1>9, <1>11, <1>12, <1>13 DEF PlaceOK, WorkSame, MailSame, PendingSame
  <1> QED BY <1>7, <1>8, <1>14 DEF PlacesKept

\* What only moves a claim from one place to the next keeps it placed.
LEMMA PlacesMove ==
    ASSUME Types, NEW s \in Sids, FedOK(s), MailOK(s), PlaceOK(s),
           Distinct(jobs[s])', OneWorker(s)', OneTerminal(s)', OnePending(s)',
           \A c \in Claims : /\ (InJobs(s, c)' => ~InWork(s, c)' /\ ~InMail(s, c)' /\ ~InPending(s, c)')
                             /\ (InWork(s, c)' => ~InMail(s, c)' /\ ~InPending(s, c)')
                             /\ (InMail(s, c)' => ~InPending(s, c)'),
           \A c : (Placed(s, c)' <=> Placed(s, c)),
           fed'[s] = fed[s], nextSeq'[s] = nextSeq[s], reporter'[s] = reporter[s] \/ ~(Finishing(s)')
    PROVE  PlacesKept(s)
  <1>1. \A c : (SeqOf(s, c)' = SeqOf(s, c)) BY SeqStays
  <1>2. \A c \in Claims : Placed(s, c)' => (SeqOf(s, c)' >= nextSeq'[s]) BY <1>1 DEF PlaceOK
  <1>3. Finishing(s)' => reporter'[s].term.seq + 1 = nextSeq'[s] BY DEF PlaceOK, Finishing
  <1>4. nextSeq'[s] \in 1 .. Len(fed'[s]) + 1 BY DEF PlaceOK
  <1>5. PlaceOK(s)' BY <1>2, <1>3, <1>4 DEF PlaceOK
  <1> QED BY <1>5 DEF PlacesKept

\* A runner's step keeps places, or drops the queue of a runner that never loaded.
LEMMA RunPlaces ==
    ASSUME Types, NEW s \in Sids, FedOK(s), MailOK(s), PlaceOK(s), Runs(s)
    PROVE  PlacesKept(s)
  <1>0. ExitMsg \in Msg /\ ~IsTerm(ExitMsg) BY DEF Msg, ExitMsg, IsTerm
  <1>1. /\ worker'[s] = worker[s] /\ pending'[s] = pending[s] /\ fed'[s] = fed[s] /\ nextSeq'[s] = nextSeq[s]
        /\ reporter'[s] = reporter[s]
        /\ msgs'[s] = msgs[s] \/ msgs'[s] = Append(msgs[s], ExitMsg)
    BY DEF Runs, RunStops, RunReadies, RunEnds, DeskStays
  <1>2. CASE jobs'[s] = jobs[s] BY <1>0, <1>1, <1>2, PlacesHold DEF Finishing
  <1>3. CASE jobs'[s] = <<>> /\ runner'[s] = "unloaded"
    <2>1. WorkSame(s) /\ PendingSame(s) /\ MailSame(s) BY <1>0, <1>1, SamePlaces
    <2>2. DOMAIN jobs'[s] = {} BY <1>3, Empty
    <2>3. Distinct(jobs[s])' /\ \A c : ~(InJobs(s, c)') BY <2>2 DEF Distinct, InJobs
    <2>4. \A c : (SeqOf(s, c)' = SeqOf(s, c)) BY <1>1, SeqStays
    <2>5. \A c : Placed(s, c)' => Placed(s, c)
      BY <2>1, <2>3 DEF WorkSame, MailSame, PendingSame, Placed
    <2>6. /\ OneWorker(s)' /\ OneTerminal(s)' /\ OnePending(s)'
          /\ \A c \in Claims :
                /\ (InJobs(s, c)' => ~InWork(s, c)' /\ ~InMail(s, c)' /\ ~InPending(s, c)')
                /\ (InWork(s, c)' => ~InMail(s, c)' /\ ~InPending(s, c)')
                /\ (InMail(s, c)' => ~InPending(s, c)')
      BY <2>1, <2>3 DEF WorkSame, MailSame, PendingSame, PlaceOK
    <2>7. \A c \in Claims : Placed(s, c)' => (SeqOf(s, c)' >= nextSeq'[s]) BY <1>1, <2>4, <2>5 DEF PlaceOK
    <2>8. Finishing(s)' => reporter'[s].term.seq + 1 = nextSeq'[s] BY <1>1 DEF PlaceOK, Finishing
    <2>9. nextSeq'[s] \in 1 .. Len(fed'[s]) + 1 BY <1>1 DEF PlaceOK
    <2>10. PlaceOK(s)' BY <2>3, <2>6, <2>7, <2>8, <2>9 DEF PlaceOK
    <2> QED BY <1>1, <1>3, <2>10 DEF PlacesKept
  <1> QED BY <1>2, <1>3 DEF Runs, RunStops, RunReadies, RunEnds

\* A worker's step moves a claim from queue to worker to mail.
LEMMA WorkPlaces ==
    ASSUME Types, NEW s \in Sids, FedOK(s), MailOK(s), PlaceOK(s), NEW w \in Workers, Works(s, w)
    PROVE  PlacesKept(s)
  <1>1. /\ pending'[s] = pending[s] /\ fed'[s] = fed[s] /\ nextSeq'[s] = nextSeq[s] /\ reporter'[s] = reporter[s]
    BY DEF Works, DeskStays
  <1>2. PendingSame(s) /\ OneWorker(s) /\ OneTerminal(s) /\ Distinct(jobs[s]) BY <1>1, SamePlaces DEF PlaceOK
  <1>3. CASE WorkTakes(s, w)
    <2>1. PICK r : Becomes(s, w, r) /\ r.at = "took" /\ r.claim = Head(jobs[s]) BY <1>3 DEF WorkTakes
    <2>2. jobs[s] # <<>> /\ jobs'[s] = Tail(jobs[s]) /\ msgs'[s] = msgs[s] /\ ~Busy(s, w) BY <1>3 DEF WorkTakes
    <2>3. /\ Distinct(jobs[s])' /\ InJobs(s, Head(jobs[s]))
          /\ \A d : (InJobs(s, d)' <=> InJobs(s, d) /\ d # Head(jobs[s]))
      BY <1>2, <2>2, JobsGive
    <2>4. Head(jobs[s]) \in Claims BY <2>2 DEF Types, RunTypes
    <2>5. ~InWork(s, Head(jobs[s])) BY <2>3, <2>4 DEF PlaceOK
    <2>6. /\ OneWorker(s)'
          /\ \A c : (InWork(s, c)' <=> InWork(s, c) \/ c = Head(jobs[s]))
      BY <1>2, <2>1, <2>2, <2>5, WorkBecomes
    <2>7. MailSame(s) BY <2>2, SamePlaces
    <2>8. \A c : (Placed(s, c)' <=> Placed(s, c))
      BY <1>2, <2>3, <2>6, <2>7 DEF MailSame, PendingSame, Placed
    <2>9. \A c \in Claims : /\ (InJobs(s, c)' => ~InWork(s, c)' /\ ~InMail(s, c)' /\ ~InPending(s, c)')
                            /\ (InWork(s, c)' => ~InMail(s, c)' /\ ~InPending(s, c)')
                            /\ (InMail(s, c)' => ~InPending(s, c)')
      BY <1>2, <2>3, <2>4, <2>6, <2>7 DEF MailSame, PendingSame, PlaceOK
    <2> QED BY <1>1, <1>2, <2>3, <2>6, <2>7, <2>8, <2>9, PlacesMove DEF PendingSame, MailSame
  <1>4. CASE WorkHolds(s, w) \/ WorkStarts(s, w)
    <2>1. PICK r : /\ Becomes(s, w, r) /\ r.at \in {"marked", "running"} /\ r.claim = worker[s][w].claim
      BY <1>4 DEF WorkHolds, WorkStarts
    <2>2. Busy(s, w) /\ jobs'[s] = jobs[s] BY <1>4 DEF WorkHolds, WorkStarts
    <2>3. /\ OneWorker(s)'
          /\ \A c : (InWork(s, c)' <=> \/ InWork(s, c) /\ ~(worker[s][w].claim = c)
                                       \/ c = worker[s][w].claim)
      BY <1>2, <2>1, <2>2, WorkBecomes
    <2>4. InWork(s, worker[s][w].claim) BY <2>2 DEF InWork
    <2>5. WorkSame(s) BY <2>3, <2>4 DEF WorkSame
    <2>6. MailSame(s)
      <3>1. CASE msgs'[s] = msgs[s] BY <3>1, SamePlaces
      <3>2. CASE WorkStarts(s, w)
        <4>1. worker[s][w].claim \in Range(fed[s]) BY <2>2 DEF Types, RunTypes
        <4>2. worker[s][w].claim \in Claims BY <4>1, Places
        <4>3. [kind |-> "started", claim |-> worker[s][w].claim] \in Msg BY <4>2 DEF Msg
        <4>4. \E m \in Msg : ~IsTerm(m) /\ msgs'[s] = Append(msgs[s], m) BY <3>2, <4>3 DEF WorkStarts, IsTerm
        <4> QED BY <4>4, SamePlaces
      <3> QED BY <1>4, <3>1, <3>2 DEF WorkHolds
    <2>7. JobsSame(s) BY <2>2, SamePlaces
    <2>8. PlaceOK(s)' /\ \A c : (Placed(s, c)' <=> Placed(s, c))
      BY <1>1, <1>2, <2>5, <2>6, <2>7, PlaceHolds DEF Finishing
    <2> QED BY <1>1, <2>8 DEF PlacesKept
  <1>5. CASE WorkReports(s, w)
    <2>1. PICK r : Becomes(s, w, r) /\ r.at = "idle" BY <1>5 DEF WorkReports
    <2>2. Busy(s, w) /\ jobs'[s] = jobs[s] BY <1>5 DEF WorkReports
    <2>3. PICK c : c = worker[s][w].claim OBVIOUS
    <2>4. c \in Claims /\ InWork(s, c)
      <3>1. c \in Range(fed[s]) BY <2>2, <2>3 DEF Types, RunTypes
      <3> QED BY <2>2, <2>3, <3>1, Places DEF InWork
    <2>5. /\ OneWorker(s)' /\ \A d : (InWork(s, d)' <=> InWork(s, d) /\ d # c)
      BY <1>2, <2>1, <2>2, <2>3, WorkBecomes
    <2>6. PICK m \in Msg : IsTerm(m) /\ m.term.claim = c /\ msgs'[s] = Append(msgs[s], m)
      <3>1. PICK t \in Terminal : t.claim = c /\ msgs'[s] = Append(msgs[s], [kind |-> "terminal", term |-> t])
        BY <1>5, <2>3 DEF WorkReports
      <3>2. [kind |-> "terminal", term |-> t] \in Msg BY DEF Msg
      <3> QED BY <3>1, <3>2 DEF IsTerm
    <2>7. ~InMail(s, c) BY <2>4 DEF PlaceOK
    <2>8. OneTerminal(s)' /\ \A d : (InMail(s, d)' <=> InMail(s, d) \/ d = c)
      BY <1>2, <2>6, <2>7, MailGets
    <2>9. JobsSame(s) BY <2>2, SamePlaces
    <2>10. \A d : (Placed(s, d)' <=> Placed(s, d))
      BY <1>2, <2>4, <2>5, <2>8, <2>9 DEF JobsSame, PendingSame, Placed
    <2>11. \A d \in Claims : /\ (InJobs(s, d)' => ~InWork(s, d)' /\ ~InMail(s, d)' /\ ~InPending(s, d)')
                             /\ (InWork(s, d)' => ~InMail(s, d)' /\ ~InPending(s, d)')
                             /\ (InMail(s, d)' => ~InPending(s, d)')
      BY <1>2, <2>4, <2>5, <2>8, <2>9 DEF JobsSame, PendingSame, PlaceOK
    <2> QED BY <1>1, <1>2, <2>5, <2>8, <2>9, <2>10, <2>11, PlacesMove DEF PendingSame, JobsSame
  <1>6. CASE WorkEnds(s, w)
    <2>1. PICK r : Becomes(s, w, r) /\ r.at = "ended" BY <1>6 DEF WorkEnds
    <2>2. ~Busy(s, w) /\ jobs'[s] = jobs[s] /\ msgs'[s] = msgs[s] BY <1>6 DEF WorkEnds
    <2>3. WorkSame(s) BY <1>2, <2>1, <2>2, WorkBecomes DEF WorkSame
    <2>4. JobsSame(s) /\ MailSame(s) BY <2>2, SamePlaces
    <2>5. PlaceOK(s)' /\ \A c : (Placed(s, c)' <=> Placed(s, c))
      BY <1>1, <1>2, <2>3, <2>4, PlaceHolds DEF Finishing
    <2> QED BY <1>1, <2>5 DEF PlacesKept
  <1> QED BY <1>3, <1>4, <1>5, <1>6 DEF Works

\* A reporter's step moves a claim from mail to the map, and out of it at its turn.
LEMMA TidyPlaces ==
    ASSUME Types, NEW s \in Sids, FedOK(s), MailOK(s), PlaceOK(s), Tidies(s)
    PROVE  PlacesKept(s)
  <1>1. fed'[s] = fed[s] /\ jobs'[s] = jobs[s] /\ worker'[s] = worker[s] BY DEF Tidies, CrewStays
  <1>2. JobsSame(s) /\ WorkSame(s) /\ OneTerminal(s) /\ OnePending(s) BY <1>1, SamePlaces DEF PlaceOK
  <1>3. CASE TakesEvent(s) \/ TakesExit(s)
    <2>1. /\ msgs[s] # <<>> /\ msgs'[s] = Tail(msgs[s]) /\ ~IsTerm(Head(msgs[s])) /\ pending'[s] = pending[s]
          /\ nextSeq'[s] = nextSeq[s] /\ ~(Finishing(s)')
      BY <1>3 DEF TakesEvent, TakesExit, TakesAny, IsTerm, Finishing
    <2> QED BY <1>1, <2>1, PlacesHold
  <1>4. CASE TakesTerm(s)
    <2>1. /\ msgs[s] # <<>> /\ msgs'[s] = Tail(msgs[s]) /\ IsTerm(Head(msgs[s]))
          /\ pending'[s] = pending[s] \cup {Head(msgs[s]).term}
          /\ nextSeq'[s] = nextSeq[s] /\ ~(Finishing(s)')
      BY <1>4 DEF TakesTerm, TakesAny, Finishing
    <2>2. PICK t : t = Head(msgs[s]).term OBVIOUS
    <2>3. OneTerminal(s)' /\ InMail(s, t.claim) /\ \A d : (InMail(s, d)' <=> InMail(s, d) /\ d # t.claim)
      BY <1>2, <2>1, <2>2, MailGives
    <2>4. t.claim \in Claims
      <3>1. t.claim \in Range(fed[s]) BY <2>3, InFed DEF Placed
      <3> QED BY <3>1, Places
    <2>5. ~InPending(s, t.claim) /\ ~InJobs(s, t.claim) /\ ~InWork(s, t.claim) BY <2>3, <2>4 DEF PlaceOK
    <2>6. OnePending(s)' /\ \A d : (InPending(s, d)' <=> InPending(s, d) \/ d = t.claim)
      BY <1>2, <2>1, <2>2, <2>5 DEF OnePending, InPending
    <2>7. \A d : (Placed(s, d)' <=> Placed(s, d))
      BY <1>2, <2>3, <2>6 DEF JobsSame, WorkSame, Placed
    <2>8. \A d \in Claims : /\ (InJobs(s, d)' => ~InWork(s, d)' /\ ~InMail(s, d)' /\ ~InPending(s, d)')
                            /\ (InWork(s, d)' => ~InMail(s, d)' /\ ~InPending(s, d)')
                            /\ (InMail(s, d)' => ~InPending(s, d)')
      BY <1>2, <2>3, <2>5, <2>6 DEF JobsSame, WorkSame, PlaceOK
    <2> QED BY <1>1, <1>2, <2>1, <2>3, <2>6, <2>7, <2>8, PlacesMove DEF WorkSame, JobsSame
  <1>5. CASE Picks(s) /\ \E t \in pending[s] : t.seq = nextSeq[s]
    <2>1. PICK t \in pending[s] :
             /\ t.seq = nextSeq[s] /\ pending'[s] = pending[s] \ {t} /\ nextSeq'[s] = nextSeq[s] + 1
             /\ reporter'[s] = [at |-> "counted", term |-> t] /\ msgs'[s] = msgs[s]
      BY <1>5 DEF Picks
    <2>2. MailSame(s) BY <2>1, SamePlaces
    <2>3. InPending(s, t.claim) /\ t.claim \in Range(fed[s]) /\ t.seq = SeqOf(s, t.claim)
      BY <2>1 DEF InPending, MailOK, Fits
    <2>4. t.claim \in Claims /\ fed[s][SeqOf(s, t.claim)] = t.claim /\ SeqOf(s, t.claim) \in DOMAIN fed[s]
      BY <2>3, Places
    <2>5. OnePending(s)' /\ \A d : (InPending(s, d)' <=> InPending(s, d) /\ d # t.claim)
      BY <1>2, <2>1 DEF OnePending, InPending
    <2>6. \A d : (Placed(s, d)' <=> Placed(s, d) /\ d # t.claim)
      <3>1. ~InJobs(s, t.claim) /\ ~InWork(s, t.claim) /\ ~InMail(s, t.claim) BY <2>3, <2>4 DEF PlaceOK
      <3> QED BY <1>2, <2>2, <2>5, <3>1 DEF JobsSame, WorkSame, MailSame, Placed
    <2>7. \A c : (SeqOf(s, c)' = SeqOf(s, c)) BY <1>1, SeqStays
    <2>8. nextSeq[s] \in Nat /\ Len(fed[s]) \in Nat /\ DOMAIN fed[s] = 1 .. Len(fed[s])
      BY DEF Types, RepTypes, RunTypes
    <2>9. \A d \in Claims : Placed(s, d)' => (SeqOf(s, d)' >= nextSeq'[s])
      <3> SUFFICES ASSUME NEW d \in Claims, Placed(s, d)' PROVE SeqOf(s, d) >= nextSeq[s] + 1
        BY <2>1, <2>7
      <3>1. Placed(s, d) /\ d # t.claim BY <2>6
      <3>2. d \in Range(fed[s]) BY <3>1, InFed
      <3>3. SeqOf(s, d) \in Nat /\ fed[s][SeqOf(s, d)] = d BY <3>2, Places
      <3>4. SeqOf(s, d) # SeqOf(s, t.claim) BY <2>4, <3>1, <3>3
      <3>5. SeqOf(s, d) >= nextSeq[s] BY <3>1 DEF PlaceOK
      <3> QED BY <2>1, <2>3, <2>8, <3>3, <3>4, <3>5
    <2>10. \A d \in Claims : /\ (InJobs(s, d)' => ~InWork(s, d)' /\ ~InMail(s, d)' /\ ~InPending(s, d)')
                             /\ (InWork(s, d)' => ~InMail(s, d)' /\ ~InPending(s, d)')
                             /\ (InMail(s, d)' => ~InPending(s, d)')
      BY <1>2, <2>2, <2>5 DEF JobsSame, WorkSame, MailSame, PlaceOK
    <2>11. reporter'[s].term.seq + 1 = nextSeq'[s]
      <3>1. reporter'[s].term = t BY <2>1
      <3> QED BY <2>1, <3>1
    <2>12. nextSeq'[s] \in 1 .. Len(fed'[s]) + 1 BY <1>1, <2>1, <2>3, <2>4, <2>8
    <2>13. PlaceOK(s)'
      BY <1>2, <2>2, <2>5, <2>9, <2>10, <2>11, <2>12 DEF PlaceOK, JobsSame, WorkSame, MailSame
    <2>14. SeqOf(s, t.claim) < nextSeq'[s] BY <2>1, <2>3, <2>8
    <2> QED BY <1>1, <2>6, <2>13, <2>14 DEF PlacesKept
  <1>6. CASE \/ Settles(s) \/ Delivers(s) \/ Tells(s) \/ Leaves(s)
             \/ Picks(s) /\ ~\E t \in pending[s] : t.seq = nextSeq[s]
    <2>1. /\ msgs'[s] = msgs[s] /\ pending'[s] = pending[s] /\ nextSeq'[s] = nextSeq[s]
          /\ Finishing(s)' => Finishing(s) /\ reporter'[s].term.seq = reporter[s].term.seq
      BY <1>6 DEF Settles, Delivers, Tells, Leaves, Picks, Finishing
    <2> QED BY <1>1, <2>1, PlacesHold
  <1> QED BY <1>3, <1>4, <1>5, <1>6 DEF Tidies

\* Every step keeps each claim in one place until its turn.
LEMMA PlaceKept ==
    ASSUME Types, NEW s \in Sids, FedOK(s), MailOK(s), PlaceOK(s), Moves(s)
    PROVE  PlacesKept(s)
  <1>1. CASE Idles(s) \/ Offers(s) \/ FeedMoves(s)
    BY <1>1, PlacesHold DEF Idles, Offers, FeedMoves, CrewStays, DeskStays, Finishing
  <1>2. CASE Hands(s) BY <1>2, HandsPlaces
  <1>3. CASE Runs(s) BY <1>3, RunPlaces
  <1>4. ASSUME NEW w \in Workers, Works(s, w) PROVE PlacesKept(s) BY <1>4, WorkPlaces
  <1>5. CASE Tidies(s) BY <1>5, TidyPlaces
  <1> QED BY <1>1, <1>2, <1>3, <1>4, <1>5 DEF Moves, Feeds

-----------------------------------------------------------------------------
(* volume_started goes out once, after `ready` and before the claim's end. *)

\* What is put before the reporter.
LEMMA Posting ==
    ASSUME Types, NEW s \in Sids, Moves(s), ~Tidies(s)
    PROVE  /\ DeskStays(s)
           /\ \/ msgs'[s] = msgs[s]
              \/ \E m \in Msg :
                    /\ msgs'[s] = Append(msgs[s], m)
                    /\ \/ Hands(s) /\ IsAbout(m, "ready", feeder[s].claim)
                       \/ (RunStops(s) \/ RunEnds(s)) /\ m.kind = "exit"
                       \/ \E w \in Workers : WorkStarts(s, w) /\ IsAbout(m, "started", worker[s][w].claim)
                       \/ \E w \in Workers :
                             /\ WorkReports(s, w) /\ IsTerm(m) /\ m.term.claim = worker[s][w].claim
                             /\ m.term.started = (worker[s][w].at = "running" /\ worker[s][w].started)
                             /\ m.term.released => m.term.claim \in released
  <1>1. DeskStays(s) BY DEF Moves, Idles, Offers, Feeds, FeedMoves, Hands, Runs, Works
  <1>2. CASE Idles(s) \/ Offers(s) \/ FeedMoves(s) BY <1>1, <1>2 DEF Idles, Offers, FeedMoves
  <1>3. CASE Hands(s)
    <2>1. feeder[s].claim \in Claims BY <1>3 DEF Hands, Holding, Types, FeedTypes
    <2>2. [kind |-> "ready", claim |-> feeder[s].claim] \in Msg BY <2>1 DEF Msg
    <2>3. \E m \in Msg : msgs'[s] = Append(msgs[s], m) /\ IsAbout(m, "ready", feeder[s].claim)
      BY <1>3, <2>2 DEF Hands, IsAbout
    <2> QED BY <1>1, <1>3, <2>3
  <1>4. CASE Runs(s)
    <2>1. ExitMsg \in Msg /\ ExitMsg.kind = "exit" BY DEF Msg, ExitMsg
    <2> QED BY <1>1, <1>4, <2>1 DEF Runs, RunStops, RunReadies, RunEnds
  <1>5. ASSUME NEW w \in Workers, WorkStarts(s, w)
        PROVE  \E m \in Msg : msgs'[s] = Append(msgs[s], m) /\ IsAbout(m, "started", worker[s][w].claim)
    <2>1. worker[s][w].claim \in Range(fed[s]) BY <1>5 DEF WorkStarts, Types, RunTypes
    <2>2. worker[s][w].claim \in Claims BY <2>1, Places
    <2>3. [kind |-> "started", claim |-> worker[s][w].claim] \in Msg BY <2>2 DEF Msg
    <2> QED BY <1>5, <2>3 DEF WorkStarts, IsAbout
  <1>6. ASSUME NEW w \in Workers, WorkReports(s, w)
        PROVE  \E m \in Msg :
                  /\ msgs'[s] = Append(msgs[s], m) /\ IsTerm(m) /\ m.term.claim = worker[s][w].claim
                  /\ m.term.started = (worker[s][w].at = "running" /\ worker[s][w].started)
                  /\ m.term.released => m.term.claim \in released
    <2>1. PICK t \in Terminal :
             /\ t.claim = worker[s][w].claim /\ msgs'[s] = Append(msgs[s], [kind |-> "terminal", term |-> t])
             /\ t.started = (worker[s][w].at = "running" /\ worker[s][w].started)
             /\ t.released => t.claim \in released
      BY <1>6 DEF WorkReports
    <2>2. PICK m : m = [kind |-> "terminal", term |-> t] OBVIOUS
    <2>3. m \in Msg BY <2>2 DEF Msg
    <2>4. m.term = t /\ IsTerm(m) BY <2>2 DEF IsTerm
    <2> QED BY <2>1, <2>2, <2>3, <2>4
  <1>7. ASSUME NEW w \in Workers, Works(s, w), ~WorkStarts(s, w), ~WorkReports(s, w) PROVE msgs'[s] = msgs[s]
    BY <1>7 DEF Works, WorkTakes, WorkHolds, WorkEnds
  <1>8. ASSUME NEW w \in Workers, Works(s, w)
        PROVE  \/ msgs'[s] = msgs[s]
               \/ \E m \in Msg :
                     /\ msgs'[s] = Append(msgs[s], m)
                     /\ \/ WorkStarts(s, w) /\ IsAbout(m, "started", worker[s][w].claim)
                        \/ /\ WorkReports(s, w) /\ IsTerm(m) /\ m.term.claim = worker[s][w].claim
                           /\ m.term.started = (worker[s][w].at = "running" /\ worker[s][w].started)
                           /\ m.term.released => m.term.claim \in released
    <2>1. CASE WorkStarts(s, w) BY <1>5, <2>1
    <2>2. CASE WorkReports(s, w) BY <1>6, <2>2
    <2> QED BY <1>7, <1>8, <2>1, <2>2
  <1> QED BY <1>1, <1>2, <1>3, <1>4, <1>8 DEF Moves, Feeds

\* What the reporter does with the front message.
LEMMA TakingFront ==
    ASSUME Types, NEW s \in Sids, MailOK(s), TakesAny(s)
    PROVE  /\ Head(msgs[s]) \in Msg /\ Head(msgs[s]) = msgs[s][1] /\ 1 \in DOMAIN msgs[s]
           /\ TakesEvent(s) => /\ Head(msgs[s]).claim \in Range(fed[s]) /\ Head(msgs[s]).claim \in Claims
                               /\ SidOf[Head(msgs[s]).claim] = s \/ ~FedOK(s)
                               /\ ~(Finishing(s)') /\ Say(Head(msgs[s]).claim, Head(msgs[s]).kind)
  <1>1. Head(msgs[s]) \in Msg /\ Head(msgs[s]) = msgs[s][1] /\ 1 \in DOMAIN msgs[s] BY MailMoves DEF TakesAny
  <1>2. CASE TakesEvent(s)
    <2>1. Head(msgs[s]).claim \in Range(fed[s]) BY <1>1, <1>2 DEF MailOK, Posted, TakesEvent
    <2>2. Head(msgs[s]).claim \in Claims BY <2>1, Places
    <2>3. ~(Finishing(s)') /\ Say(Head(msgs[s]).claim, Head(msgs[s]).kind)
      BY <1>2 DEF TakesEvent, TakesAny, Finishing
    <2> QED BY <1>1, <2>1, <2>2, <2>3 DEF FedOK
  <1> QED BY <1>1, <1>2

\* What is due stays due until it is said.
LEMMA DueStays ==
    ASSUME Types, Next, NEW s \in Sids, FedOK(s), MailOK(s), PlaceOK(s), Moves(s),
           NEW c \in Claims, SidOf[c] = s, NEW kind \in {"ready", "started"}, Due(s, c, kind)
    PROVE  Due(s, c, kind)'
  <1>1. CASE Told(c, kind) BY <1>1, ToldStays DEF Due
  <1>2. CASE ~Talking(s) BY <1>2, SilenceStays DEF Due
  <1>3. CASE Waits(s, c, kind)
    <2>1. PICK i \in DOMAIN msgs[s] : /\ IsAbout(msgs[s][i], kind, c)
                                      /\ \A j \in DOMAIN msgs[s] : After(msgs[s][j], kind, c) => i < j
      BY <1>3 DEF Waits
    <2>2. ~InPending(s, c) /\ ~InHand(s, c) BY <1>3 DEF Waits
    <2>3. ASSUME msgs'[s] = msgs[s], ~(InPending(s, c)'), ~(InHand(s, c)') PROVE Due(s, c, kind)'
      BY <2>1, <2>3 DEF Due, Waits
    <2>4. ASSUME NEW m \in Msg, msgs'[s] = Append(msgs[s], m), ~(InPending(s, c)'), ~(InHand(s, c)')
          PROVE  Due(s, c, kind)'
      <3>1. /\ DOMAIN msgs'[s] = 1 .. Len(msgs[s]) + 1 /\ DOMAIN msgs[s] = 1 .. Len(msgs[s]) /\ Len(msgs[s]) \in Nat
            /\ \A j \in DOMAIN msgs[s] : j \in DOMAIN msgs'[s] /\ msgs'[s][j] = msgs[s][j]
        BY <2>4, MailMoves
      <3>2. i \in DOMAIN msgs'[s] /\ IsAbout(msgs'[s][i], kind, c) BY <2>1, <3>1
      <3>3. ASSUME NEW j \in DOMAIN msgs'[s], After(msgs'[s][j], kind, c) PROVE i < j
        <4>1. CASE j \in DOMAIN msgs[s] BY <2>1, <3>1, <3>3, <4>1
        <4>2. CASE j \notin DOMAIN msgs[s] BY <3>1, <4>2
        <4> QED BY <4>1, <4>2
      <3>4. Waits(s, c, kind)' BY <2>4, <3>2, <3>3 DEF Waits
      <3> QED BY <3>4 DEF Due
    <2>5. ASSUME msgs[s] # <<>>, msgs'[s] = Tail(msgs[s]), ~(InPending(s, c)'), ~(InHand(s, c)'), i # 1
          PROVE  Due(s, c, kind)'
      <3>1. /\ DOMAIN msgs'[s] = 1 .. Len(msgs[s]) - 1 /\ DOMAIN msgs[s] = 1 .. Len(msgs[s]) /\ Len(msgs[s]) \in Nat
            /\ \A j \in DOMAIN msgs'[s] : j + 1 \in DOMAIN msgs[s] /\ msgs'[s][j] = msgs[s][j + 1]
        BY <2>5, MailMoves
      <3>2. i - 1 \in DOMAIN msgs'[s] /\ (i - 1) + 1 = i BY <2>5, <3>1
      <3>3. IsAbout(msgs'[s][i - 1], kind, c) BY <2>1, <3>1, <3>2
      <3>4. ASSUME NEW j \in DOMAIN msgs'[s], After(msgs'[s][j], kind, c) PROVE i - 1 < j
        <4>1. j + 1 \in DOMAIN msgs[s] /\ After(msgs[s][j + 1], kind, c) BY <3>1, <3>4
        <4>2. i < j + 1 BY <2>1, <4>1
        <4> QED BY <3>1, <4>2
      <3>5. Waits(s, c, kind)' BY <2>5, <3>2, <3>3, <3>4 DEF Waits
      <3> QED BY <3>5 DEF Due
    <2>6. CASE ~Tidies(s)
      <3>1. DeskStays(s) /\ (msgs'[s] = msgs[s] \/ \E m \in Msg : msgs'[s] = Append(msgs[s], m))
        BY <2>6, Posting
      <3>2. ~(InPending(s, c)') /\ ~(InHand(s, c)') BY <2>2, <3>1 DEF DeskStays, InPending, InHand, Finishing
      <3> QED BY <2>3, <2>4, <3>1, <3>2
    <2>7. CASE TakesEvent(s)
      <3>0. TakesAny(s) /\ pending'[s] = pending[s] /\ reporter'[s] = reporter[s] BY <2>7 DEF TakesEvent
      <3>1. ~(InPending(s, c)') /\ ~(InHand(s, c)') BY <2>2, <3>0 DEF InPending, InHand, Finishing
      <3>2. CASE i = 1
        <4>1. Head(msgs[s]).claim = c /\ Head(msgs[s]).kind = kind BY <2>1, <3>0, <3>2, TakingFront DEF IsAbout
        <4>2. Say(c, kind) BY <2>7, <3>0, <4>1, TakingFront
        <4>3. \/ ~Talking(s)
              \/ Said(c, kind)' = Said(c, kind) \cup {Len(heard[c]) + 1}
          BY <4>2, Saying DEF Events
        <4> QED BY <4>3, SilenceStays DEF Due, Told
      <3> QED BY <2>5, <3>0, <3>1, <3>2 DEF TakesAny
    <2>8. CASE TakesTerm(s)
      <3>0. TakesAny(s) /\ IsTerm(Head(msgs[s])) /\ pending'[s] = pending[s] \cup {Head(msgs[s]).term}
            /\ ~(Finishing(s)')
        BY <2>8 DEF TakesTerm, Finishing
      <3>1. i # 1 BY <2>1, <3>0, TakingFront DEF IsAbout, IsTerm
      <3>2. Head(msgs[s]).term.claim # c
        <4>1. Head(msgs[s]).term.claim = c => After(msgs[s][1], kind, c) BY <3>0, TakingFront DEF After
        <4>2. DOMAIN msgs[s] = 1 .. Len(msgs[s]) /\ Len(msgs[s]) \in Nat BY MailMoves
        <4>3. ~(i < 1) BY <4>2
        <4> QED BY <2>1, <3>0, <4>1, <4>3, TakingFront
      <3>3. ~(InPending(s, c)') /\ ~(InHand(s, c)') BY <2>2, <3>0, <3>2 DEF InPending, InHand
      <3> QED BY <2>5, <3>0, <3>1, <3>3 DEF TakesAny
    <2>9. CASE TakesExit(s)
      <3>0. TakesAny(s) /\ Head(msgs[s]).kind = "exit" /\ pending'[s] = pending[s] /\ ~(Finishing(s)')
        BY <2>9 DEF TakesExit, Finishing
      <3>1. i # 1 BY <2>1, <3>0, TakingFront DEF IsAbout
      <3>2. ~(InPending(s, c)') /\ ~(InHand(s, c)') BY <2>2, <3>0 DEF InPending, InHand
      <3> QED BY <2>5, <3>0, <3>1, <3>2 DEF TakesAny
    <2>10. CASE Picks(s)
      <3>1. msgs'[s] = msgs[s] /\ pending'[s] \subseteq pending[s]
            /\ (reporter'[s].at = "idle" \/ \E t \in pending[s] : reporter'[s] = [at |-> "counted", term |-> t])
        BY <2>10 DEF Picks
      <3>2. ~(InPending(s, c)') BY <2>2, <3>1 DEF InPending
      <3>3. ~(InHand(s, c)')
        <4>1. CASE reporter'[s].at = "idle" BY <4>1 DEF InHand, Finishing
        <4>2. ASSUME NEW t \in pending[s], reporter'[s] = [at |-> "counted", term |-> t] PROVE ~(InHand(s, c)')
          <5>1. reporter'[s].term = t /\ t.claim # c BY <2>2, <4>2 DEF InPending
          <5> QED BY <5>1 DEF InHand
        <4> QED BY <3>1, <4>1, <4>2
      <3> QED BY <2>3, <3>1, <3>2, <3>3
    <2>11. CASE Settles(s) \/ Delivers(s) \/ Tells(s) \/ Leaves(s)
      <3>1. /\ msgs'[s] = msgs[s] /\ pending'[s] = pending[s]
            /\ Finishing(s)' => Finishing(s) /\ reporter'[s].term.claim = reporter[s].term.claim
        BY <2>11 DEF Settles, Delivers, Tells, Leaves, Finishing
      <3>2. ~(InPending(s, c)') /\ ~(InHand(s, c)') BY <2>2, <3>1 DEF InPending, InHand
      <3> QED BY <2>3, <3>1, <3>2
    <2> QED BY <2>6, <2>7, <2>8, <2>9, <2>10, <2>11 DEF Tidies
  <1> QED BY <1>1, <1>2, <1>3 DEF Due

\* Fresh workers have said nothing.
FreshOK(s) == \A w \in Workers : worker[s][w].at \in {"took", "marked"} => ~worker[s][w].started

\* What was posted carries its mark from place to place.
LEMMA MarksInMail ==
    ASSUME Types, NEW s \in Sids, NEW c
    PROVE  /\ msgs'[s] = msgs[s] => (UnMail(s, c)' => UnMail(s, c)) /\ (BeMail(s, c)' => BeMail(s, c))
           /\ \A m \in Msg : msgs'[s] = Append(msgs[s], m) =>
                 /\ UnMail(s, c)' => UnMail(s, c) \/ (IsTerm(m) /\ m.term.claim = c /\ ~m.term.started)
                 /\ BeMail(s, c)' => BeMail(s, c) \/ (IsTerm(m) /\ m.term.claim = c /\ m.term.started)
           /\ msgs[s] # <<>> /\ msgs'[s] = Tail(msgs[s]) =>
                 (UnMail(s, c)' => UnMail(s, c)) /\ (BeMail(s, c)' => BeMail(s, c))
  <1>1. ASSUME msgs'[s] = msgs[s] PROVE (UnMail(s, c)' => UnMail(s, c)) /\ (BeMail(s, c)' => BeMail(s, c))
    BY <1>1 DEF UnMail, BeMail
  <1>2. ASSUME NEW m \in Msg, msgs'[s] = Append(msgs[s], m)
        PROVE  /\ UnMail(s, c)' => UnMail(s, c) \/ (IsTerm(m) /\ m.term.claim = c /\ ~m.term.started)
               /\ BeMail(s, c)' => BeMail(s, c) \/ (IsTerm(m) /\ m.term.claim = c /\ m.term.started)
    <2>1. \A i \in 1 .. Len(msgs[s]) + 1 : i = Len(msgs[s]) + 1 \/ i \in 1 .. Len(msgs[s]) BY MailMoves
    <2>2. \A i \in DOMAIN msgs'[s] : \/ i \in DOMAIN msgs[s] /\ msgs'[s][i] = msgs[s][i]
                                     \/ msgs'[s][i] = m
      BY <1>2, <2>1, MailMoves
    <2> QED BY <2>2 DEF UnMail, BeMail, IsTerm
  <1>3. ASSUME msgs[s] # <<>>, msgs'[s] = Tail(msgs[s])
        PROVE  (UnMail(s, c)' => UnMail(s, c)) /\ (BeMail(s, c)' => BeMail(s, c))
    <2>1. \A i \in DOMAIN msgs'[s] : \E j \in DOMAIN msgs[s] : msgs'[s][i] = msgs[s][j] BY <1>3, MailMoves
    <2> QED BY <2>1 DEF UnMail, BeMail, IsTerm
  <1> QED BY <1>1, <1>2, <1>3

\* The marks of workers after one of them changed.
LEMMA MarksInWork ==
    ASSUME Types, NEW s \in Sids, NEW w \in Workers, NEW r, Becomes(s, w, r), NEW c
    PROVE  /\ UnWork(s, c)' => \/ \E v \in Workers \ {w} : Busy(s, v) /\ worker[s][v].claim = c /\ ~worker[s][v].started
                               \/ r.at \in {"took", "marked", "running"} /\ r.claim = c /\ ~r.started
           /\ BeWork(s, c)' => \/ \E v \in Workers \ {w} : Busy(s, v) /\ worker[s][v].claim = c /\ worker[s][v].started
                               \/ r.at \in {"took", "marked", "running"} /\ r.claim = c /\ r.started
           /\ (FreshOK(s) /\ (r.at \in {"took", "marked"} => ~r.started) => FreshOK(s)')
  <1>1. worker[s] \in [Workers -> WorkerRecord] BY DEF Types, RunTypes
  <1>2. worker'[s][w] = r /\ \A v \in Workers : v # w => worker'[s][v] = worker[s][v] BY <1>1 DEF Becomes
  <1> QED BY <1>2 DEF UnWork, BeWork, Busy, FreshOK

\* Every mark is right: nothing was said of the unstarted, and what started is due.
Marked(s) ==
    \A c \in Claims : /\ Unstarted(s, c) => Unspoken(s, c)
                      /\ Begun(s, c) => Due(s, c, "started")

\* A claim with a mark is of this session and was handed over.
LEMMA MarksInLine ==
    ASSUME Types, NEW s \in Sids, FedOK(s), MailOK(s)
    PROVE  \A c : Unstarted(s, c) \/ Begun(s, c) => c \in Range(fed[s]) /\ c \in Claims /\ SidOf[c] = s
  <1>1. \A c : InJobs(s, c) => Placed(s, c) BY DEF Placed
  <1>2. \A c : UnWork(s, c) \/ BeWork(s, c) => Placed(s, c) BY DEF UnWork, BeWork, InWork, Placed
  <1>3. \A c : UnMail(s, c) \/ BeMail(s, c) => Placed(s, c) BY DEF UnMail, BeMail, InMail, Placed
  <1>4. \A c : UnPending(s, c) \/ BePending(s, c) => Placed(s, c) BY DEF UnPending, BePending, InPending, Placed
  <1>5. \A c : UnHand(s, c) \/ BeHand(s, c) => InHand(s, c) BY DEF UnHand, BeHand, InHand, Finishing
  <1>6. \A c : Unstarted(s, c) \/ Begun(s, c) => Placed(s, c) \/ InHand(s, c)
    BY <1>1, <1>2, <1>3, <1>4, <1>5 DEF Unstarted, Begun
  <1>7. \A c : Unstarted(s, c) \/ Begun(s, c) => c \in Range(fed[s]) BY <1>6, InFed
  <1> QED BY <1>7, Places DEF FedOK

\* A claim nothing was said of stays so while no message about it is posted or taken.
LEMMA UnspokenStays ==
    ASSUME Types, NEW s \in Sids, NEW c \in Claims, Unspoken(s, c),
           Said(c, "started")' = Said(c, "started"),
           \/ msgs'[s] = msgs[s]
           \/ \E m \in Msg : ~IsAbout(m, "started", c) /\ msgs'[s] = Append(msgs[s], m)
           \/ msgs[s] # <<>> /\ msgs'[s] = Tail(msgs[s])
    PROVE  Unspoken(s, c)'
  <1>1. ~(Told(c, "started")') BY DEF Unspoken, Told
  <1>2. ASSUME NEW i \in DOMAIN msgs'[s] PROVE ~IsAbout(msgs'[s][i], "started", c)
    <2>1. CASE msgs'[s] = msgs[s] BY <1>2, <2>1 DEF Unspoken
    <2>2. ASSUME NEW m \in Msg, ~IsAbout(m, "started", c), msgs'[s] = Append(msgs[s], m)
          PROVE  ~IsAbout(msgs'[s][i], "started", c)
      <3>1. i = Len(msgs[s]) + 1 \/ i \in DOMAIN msgs[s] BY <1>2, <2>2, MailMoves
      <3> QED BY <2>2, <3>1, MailMoves DEF Unspoken
    <2>3. CASE msgs[s] # <<>> /\ msgs'[s] = Tail(msgs[s])
      <3>1. \E j \in DOMAIN msgs[s] : msgs'[s][i] = msgs[s][j] BY <1>2, <2>3, MailMoves
      <3> QED BY <3>1 DEF Unspoken
    <2> QED BY <2>1, <2>2, <2>3
  <1> QED BY <1>1, <1>2 DEF Unspoken

\* Marks hold when a step only drops them and says nothing that matters.
LEMMA MarkedStays ==
    ASSUME Types, Next, NEW s \in Sids, FedOK(s), MailOK(s), PlaceOK(s), Moves(s), Marked(s),
           \A c \in Claims : Unstarted(s, c)' =>
              Unstarted(s, c) /\ (c \in Of(s) => Said(c, "started")' = Said(c, "started")),
           \A c \in Claims : Begun(s, c)' => Begun(s, c),
           \/ msgs'[s] = msgs[s]
           \/ \E m \in Msg : m.kind # "started" /\ msgs'[s] = Append(msgs[s], m)
           \/ msgs[s] # <<>> /\ msgs'[s] = Tail(msgs[s])
    PROVE  Marked(s)'
  <1>1. ASSUME NEW c \in Claims, Unstarted(s, c)' PROVE Unspoken(s, c)'
    <2>1. Unstarted(s, c) /\ Unspoken(s, c) BY <1>1 DEF Marked
    <2>2. Said(c, "started")' = Said(c, "started") BY <1>1, <2>1, MarksInLine DEF Of
    <2>3. \A m : m.kind # "started" => ~IsAbout(m, "started", c) BY DEF IsAbout
    <2> QED BY <2>1, <2>2, <2>3, UnspokenStays
  <1>2. ASSUME NEW c \in Claims, Begun(s, c)' PROVE Due(s, c, "started")'
    <2>1. Begun(s, c) /\ Due(s, c, "started") BY <1>2 DEF Marked
    <2>2. SidOf[c] = s BY <2>1, MarksInLine
    <2> QED BY <2>1, <2>2, DueStays
  <1> QED BY <1>1, <1>2 DEF Marked

\* The marks stay when the claims stay where they are.
LEMMA MarksStay ==
    ASSUME Types, NEW s \in Sids, worker'[s] = worker[s], pending'[s] = pending[s], reporter'[s] = reporter[s],
           NEW c \in Claims, (UnMail(s, c)') => UnMail(s, c), (BeMail(s, c)') => BeMail(s, c)
    PROVE  /\ Unstarted(s, c)' => Unstarted(s, c) \/ (InJobs(s, c)')
           /\ Begun(s, c)' => Begun(s, c)
           /\ FreshOK(s) => (FreshOK(s)')
  <1>1. UnWork(s, c)' => UnWork(s, c) BY DEF UnWork, Busy
  <1>2. UnPending(s, c)' => UnPending(s, c) BY DEF UnPending
  <1>3. UnHand(s, c)' => UnHand(s, c) BY DEF UnHand
  <1>4. BeWork(s, c)' => BeWork(s, c) BY DEF BeWork, Busy
  <1>5. BePending(s, c)' => BePending(s, c) BY DEF BePending
  <1>6. BeHand(s, c)' => BeHand(s, c) BY DEF BeHand, InHand, Finishing
  <1>7. FreshOK(s) => (FreshOK(s)') BY DEF FreshOK
  <1>8. Unstarted(s, c)' => Unstarted(s, c) \/ (InJobs(s, c)') BY <1>1, <1>2, <1>3 DEF Unstarted
  <1>9. Begun(s, c)' => Begun(s, c) BY <1>4, <1>5, <1>6 DEF Begun
  <1> QED BY <1>7, <1>8, <1>9

\* The marks when nothing moves past the desk.
LEMMA MarkedFeeds ==
    ASSUME Types, Next, NEW s \in Sids, FedOK(s), MailOK(s), PlaceOK(s), Moves(s), Marked(s), FreshOK(s),
           Idles(s) \/ Offers(s) \/ FeedMoves(s) \/ Runs(s)
    PROVE  Marked(s)' /\ FreshOK(s)'
  <1>0. ExitMsg \in Msg /\ ~IsTerm(ExitMsg) /\ ExitMsg.kind # "started" BY DEF Msg, ExitMsg, IsTerm
  <1>1. /\ worker'[s] = worker[s] /\ pending'[s] = pending[s] /\ reporter'[s] = reporter[s]
        /\ msgs'[s] = msgs[s] \/ msgs'[s] = Append(msgs[s], ExitMsg)
        /\ jobs'[s] = jobs[s] \/ jobs'[s] = <<>>
    BY DEF Idles, Offers, FeedMoves, Runs, RunStops, RunReadies, RunEnds, DeskStays, CrewStays
  <1>2. \A c \in Of(s) : Said(c, "started")' = Said(c, "started")
    <2>1. Hushed(s) \/ \E c \in Claims : Say(c, "returned")
      BY DEF Idles, Offers, FeedMoves, Runs, Holding, Types, FeedTypes, Of
    <2>2. CASE Hushed(s) BY <2>2 DEF Hushed, LineEvents, Events
    <2>3. ASSUME NEW d \in Claims, Say(d, "returned") PROVE \A c \in Of(s) : Said(c, "started")' = Said(c, "started")
      BY <2>3, Saying DEF Events, Of
    <2> QED BY <2>1, <2>2, <2>3
  <1>3. \A c : InJobs(s, c)' => InJobs(s, c)
    <2>1. CASE jobs'[s] = jobs[s] BY <2>1 DEF InJobs
    <2>2. CASE jobs'[s] = <<>> BY <2>2, Empty DEF InJobs
    <2> QED BY <1>1, <2>1, <2>2
  <1>4. \A c : (UnMail(s, c)' => UnMail(s, c)) /\ (BeMail(s, c)' => BeMail(s, c))
    BY <1>0, <1>1, MarksInMail
  <1>5. \A c \in Claims : /\ Unstarted(s, c)' => Unstarted(s, c) \/ (InJobs(s, c)')
                          /\ Begun(s, c)' => Begun(s, c)
    BY <1>1, <1>4, MarksStay
  <1>6. \A c \in Claims : Unstarted(s, c)' => Unstarted(s, c) BY <1>3, <1>5 DEF Unstarted
  <1>7. FreshOK(s)' BY <1>1 DEF FreshOK
  <1>8. Marked(s)' BY <1>0, <1>1, <1>2, <1>5, <1>6, MarkedStays
  <1> QED BY <1>7, <1>8

\* A claim that is handed over is not begun.
LEMMA MarkedHands ==
    ASSUME Types, Next, NEW s \in Sids, FedOK(s), MailOK(s), PlaceOK(s), Moves(s), Marked(s), FreshOK(s), Hands(s)
    PROVE  Marked(s)' /\ FreshOK(s)'
  <1>1. PICK c : c = feeder[s].claim OBVIOUS
  <1>2. c \in Claims /\ c \notin Range(fed[s]) /\ SidOf[c] = s BY <1>1 DEF Hands, FedOK, Holding, Types, FeedTypes
  <1>3. PICK m \in Msg : m = [kind |-> "ready", claim |-> c] BY <1>2 DEF Msg
  <1>4. m.kind = "ready" /\ ~IsTerm(m) /\ m.kind # "started" BY <1>3 DEF IsTerm
  <1>5. /\ worker'[s] = worker[s] /\ pending'[s] = pending[s] /\ reporter'[s] = reporter[s]
        /\ msgs'[s] = Append(msgs[s], m) /\ jobs'[s] = Append(jobs[s], c) /\ Hushed(s)
    BY <1>1, <1>3 DEF Hands, DeskStays
  <1>6. \A d \in Of(s) : Said(d, "started")' = Said(d, "started") BY <1>5 DEF Hushed, LineEvents, Events
  <1>7. \A d : InJobs(s, d)' => InJobs(s, d) \/ d = c
    <2>1. jobs[s] \in Seq(Claims) BY DEF Types, RunTypes
    <2> QED BY <1>2, <1>5, <2>1 DEF InJobs
  <1>8. \A d : (UnMail(s, d)' => UnMail(s, d)) /\ (BeMail(s, d)' => BeMail(s, d))
    BY <1>4, <1>5, MarksInMail
  <1>9. \A d \in Claims : /\ Unstarted(s, d)' => Unstarted(s, d) \/ (InJobs(s, d)')
                          /\ Begun(s, d)' => Begun(s, d)
    BY <1>5, <1>8, MarksStay
  <1>10. \A d \in Claims : Unstarted(s, d)' => Unstarted(s, d) \/ d = c BY <1>7, <1>9 DEF Unstarted
  <1>11. FreshOK(s)' BY <1>5 DEF FreshOK
  <1>12. Unspoken(s, c)
    <2>1. ~Told(c, "started") BY <1>2 DEF MailOK
    <2>2. ASSUME NEW i \in DOMAIN msgs[s], IsAbout(msgs[s][i], "started", c) PROVE FALSE
      <3>1. Posted(s, msgs[s][i]) BY DEF MailOK
      <3> QED BY <1>2, <2>2, <3>1 DEF Posted, IsAbout
    <2> QED BY <2>1, <2>2 DEF Unspoken
  <1>13. ASSUME NEW d \in Claims, Unstarted(s, d)' PROVE Unspoken(s, d)'
    <2>1. Unspoken(s, d) BY <1>10, <1>12, <1>13 DEF Marked
    <2>2. d \in Of(s) BY <1>2, <1>10, <1>13, MarksInLine DEF Of
    <2>3. ~IsAbout(m, "started", d) BY <1>4 DEF IsAbout
    <2> QED BY <1>5, <1>6, <2>1, <2>2, <2>3, UnspokenStays
  <1>14. ASSUME NEW d \in Claims, Begun(s, d)' PROVE Due(s, d, "started")'
    <2>1. Begun(s, d) /\ Due(s, d, "started") BY <1>9, <1>14 DEF Marked
    <2>2. SidOf[d] = s BY <2>1, MarksInLine
    <2> QED BY <2>1, <2>2, DueStays
  <1> QED BY <1>11, <1>13, <1>14 DEF Marked

\* What a worker's step leaves to its own record, the queue and the messages.
LEMMA WorkLine ==
    ASSUME Types, NEW s \in Sids, NEW w \in Workers, Works(s, w)
    PROVE  /\ pending'[s] = pending[s] /\ reporter'[s] = reporter[s]
           /\ \A c \in Of(s) : \A e \in LineEvents : (Said(c, e)' = Said(c, e))
           /\ \A c : /\ (UnPending(s, c)' <=> UnPending(s, c)) /\ (UnHand(s, c)' <=> UnHand(s, c))
                     /\ (BePending(s, c)' <=> BePending(s, c)) /\ (BeHand(s, c)' <=> BeHand(s, c))
  <1>1. pending'[s] = pending[s] /\ reporter'[s] = reporter[s] BY DEF Works, DeskStays
  <1>2. \A c \in Of(s) : \A e \in LineEvents : (Said(c, e)' = Said(c, e)) BY DEF Works, Hushed
  <1>3. \A c : /\ (UnPending(s, c)' <=> UnPending(s, c)) /\ (UnHand(s, c)' <=> UnHand(s, c))
               /\ (BePending(s, c)' <=> BePending(s, c)) /\ (BeHand(s, c)' <=> BeHand(s, c))
    BY <1>1 DEF UnPending, UnHand, BePending, BeHand, InHand, Finishing
  <1> QED BY <1>1, <1>2, <1>3

\* A worker that takes, holds or ends starts nothing.
LEMMA MarkedWorks ==
    ASSUME Types, Next, NEW s \in Sids, FedOK(s), MailOK(s), PlaceOK(s), Moves(s), Marked(s), FreshOK(s),
           NEW w \in Workers, Works(s, w), WorkTakes(s, w) \/ WorkHolds(s, w) \/ WorkEnds(s, w)
    PROVE  Marked(s)' /\ FreshOK(s)'
  <1>1. msgs'[s] = msgs[s] BY DEF WorkTakes, WorkHolds, WorkEnds
  <1>2. \A c \in Of(s) : Said(c, "started")' = Said(c, "started") BY WorkLine DEF LineEvents, Events
  <1>3. \A c : (UnMail(s, c)' => UnMail(s, c)) /\ (BeMail(s, c)' => BeMail(s, c)) BY <1>1, MarksInMail
  <1>4. jobs[s] \in Seq(Claims) /\ worker[s] \in [Workers -> WorkerRecord] BY DEF Types, RunTypes
  <1>5. PICK r : /\ Becomes(s, w, r)
                 /\ \/ /\ r.at = "took" /\ ~r.started /\ jobs[s] # <<>> /\ r.claim = Head(jobs[s])
                       /\ jobs'[s] = Tail(jobs[s])
                    \/ /\ Busy(s, w) /\ r.at \in {"marked", "running"} /\ r.claim = worker[s][w].claim
                       /\ r.started = worker[s][w].started /\ (r.at = "marked" => worker[s][w].at = "took")
                       /\ jobs'[s] = jobs[s]
                    \/ r.at = "ended" /\ jobs'[s] = jobs[s]
    BY DEF WorkTakes, WorkHolds, WorkEnds
  <1>6. \A c : InJobs(s, c)' => InJobs(s, c)
    <2>1. CASE jobs'[s] = jobs[s] BY <2>1 DEF InJobs
    <2>2. CASE jobs[s] # <<>> /\ jobs'[s] = Tail(jobs[s]) BY <1>4, <2>2, Taking DEF InJobs
    <2> QED BY <1>5, <2>1, <2>2
  <1>7. \A c : UnWork(s, c)' => UnWork(s, c) \/ InJobs(s, c)
    <2> TAKE c
    <2>1. CASE r.at = "took" /\ jobs[s] # <<>> /\ r.claim = Head(jobs[s])
      <3>1. r.claim = c => InJobs(s, c) BY <1>4, <2>1, Taking DEF InJobs
      <3> QED BY <1>5, <3>1, MarksInWork DEF UnWork
    <2>2. CASE Busy(s, w) /\ r.claim = worker[s][w].claim /\ r.started = worker[s][w].started
      BY <1>5, <2>2, MarksInWork DEF UnWork
    <2>3. CASE r.at = "ended" BY <1>5, <2>3, MarksInWork DEF UnWork
    <2> QED BY <1>5, <2>1, <2>2, <2>3
  <1>8. \A c : BeWork(s, c)' => BeWork(s, c)
    <2> TAKE c
    <2>1. CASE r.at = "took" /\ ~r.started BY <1>5, <2>1, MarksInWork DEF BeWork
    <2>2. CASE Busy(s, w) /\ r.claim = worker[s][w].claim /\ r.started = worker[s][w].started
      BY <1>5, <2>2, MarksInWork DEF BeWork
    <2>3. CASE r.at = "ended" BY <1>5, <2>3, MarksInWork DEF BeWork
    <2> QED BY <1>5, <2>1, <2>2, <2>3
  <1>9. FreshOK(s)'
    <2>1. r.at \in {"took", "marked"} => ~r.started BY <1>5 DEF FreshOK
    <2> QED BY <1>5, <2>1, MarksInWork
  <1>10. \A c \in Claims : Unstarted(s, c)' => Unstarted(s, c) BY <1>3, <1>6, <1>7, WorkLine DEF Unstarted
  <1>11. \A c \in Claims : Begun(s, c)' => Begun(s, c) BY <1>3, <1>8, WorkLine DEF Begun
  <1>12. Marked(s)' BY <1>1, <1>2, <1>10, <1>11, MarkedStays
  <1> QED BY <1>9, <1>12

\* A worker that reports hands its mark on with the terminal.
LEMMA MarkedReports ==
    ASSUME Types, Next, NEW s \in Sids, FedOK(s), MailOK(s), PlaceOK(s), Moves(s), Marked(s), FreshOK(s),
           NEW w \in Workers, Works(s, w), WorkReports(s, w)
    PROVE  Marked(s)' /\ FreshOK(s)'
  <1>1. PICK t \in Terminal :
           /\ t.claim = worker[s][w].claim
           /\ t.started = (worker[s][w].at = "running" /\ worker[s][w].started)
           /\ msgs'[s] = Append(msgs[s], [kind |-> "terminal", term |-> t])
    BY DEF WorkReports
  <1>2. PICK m \in Msg : m = [kind |-> "terminal", term |-> t] BY DEF Msg
  <1>3. IsTerm(m) /\ m.term = t /\ m.kind # "started" BY <1>2 DEF IsTerm
  <1>4. PICK r : Becomes(s, w, r) /\ r.at = "idle" BY DEF WorkReports
  <1>5. \A c \in Of(s) : Said(c, "started")' = Said(c, "started") BY WorkLine DEF LineEvents, Events
  <1>6. \A c : InJobs(s, c)' => InJobs(s, c) BY DEF WorkReports, InJobs
  <1>7. \A c : (UnWork(s, c)' => UnWork(s, c)) /\ (BeWork(s, c)' => BeWork(s, c))
    BY <1>4, MarksInWork DEF UnWork, BeWork
  <1>8. Busy(s, w) BY DEF WorkReports
  <1>9. /\ ~t.started => UnWork(s, t.claim)
        /\ t.started => BeWork(s, t.claim)
    <2>1. ~t.started => ~worker[s][w].started BY <1>1, <1>8 DEF FreshOK, Busy
    <2> QED BY <1>1, <1>8, <2>1 DEF UnWork, BeWork
  <1>10. \A c : /\ UnMail(s, c)' => UnMail(s, c) \/ UnWork(s, c)
                /\ BeMail(s, c)' => BeMail(s, c) \/ BeWork(s, c)
    BY <1>1, <1>2, <1>3, <1>9, MarksInMail
  <1>11. FreshOK(s)' BY <1>4, MarksInWork
  <1>12. \A c \in Claims : Unstarted(s, c)' => Unstarted(s, c) BY <1>6, <1>7, <1>10, WorkLine DEF Unstarted
  <1>13. \A c \in Claims : Begun(s, c)' => Begun(s, c) BY <1>7, <1>10, WorkLine DEF Begun
  <1>14. Marked(s)' BY <1>1, <1>2, <1>3, <1>5, <1>12, <1>13, MarkedStays
  <1> QED BY <1>11, <1>14

\* Where a worker's claim is, it is nowhere else.
LEMMA WorkedAlone ==
    ASSUME Types, NEW s \in Sids, FedOK(s), MailOK(s), PlaceOK(s), NEW w \in Workers, Busy(s, w),
           NEW c, c = worker[s][w].claim
    PROVE  /\ c \in Claims /\ c \in Range(fed[s]) /\ SidOf[c] = s
           /\ ~InJobs(s, c) /\ ~InMail(s, c) /\ ~InPending(s, c) /\ ~InHand(s, c)
           /\ \A v \in Workers : Busy(s, v) /\ worker[s][v].claim = c => v = w
  <1>1. c \in Range(fed[s]) BY DEF Types, RunTypes
  <1>2. c \in Claims /\ SidOf[c] = s /\ SeqOf(s, c) \in Nat BY <1>1, Places DEF FedOK
  <1>3. InWork(s, c) /\ Placed(s, c) BY DEF InWork, Placed
  <1>4. ~InJobs(s, c) /\ ~InMail(s, c) /\ ~InPending(s, c) BY <1>2, <1>3 DEF PlaceOK
  <1>5. ~InHand(s, c)
    <2>1. SeqOf(s, c) >= nextSeq[s] /\ nextSeq[s] \in Nat BY <1>2, <1>3 DEF PlaceOK, Types, RepTypes
    <2>2. InHand(s, c) => reporter[s].term.seq = SeqOf(s, c) /\ reporter[s].term.seq + 1 = nextSeq[s]
      BY DEF InHand, PlaceOK, MailOK, Fits
    <2> QED BY <1>2, <2>1, <2>2
  <1>6. \A v \in Workers : Busy(s, v) /\ worker[s][v].claim = c => v = w BY DEF PlaceOK, OneWorker
  <1> QED BY <1>1, <1>2, <1>4, <1>5, <1>6

\* A worker's first progress posts volume_started; nothing later about the claim is before it.
LEMMA MarkedStarts ==
    ASSUME Types, Next, NEW s \in Sids, FedOK(s), MailOK(s), PlaceOK(s), Moves(s), Marked(s), FreshOK(s),
           NEW w \in Workers, Works(s, w), WorkStarts(s, w)
    PROVE  Marked(s)' /\ FreshOK(s)'
  <1>1. PICK c : c = worker[s][w].claim OBVIOUS
  <1>2. Busy(s, w) BY DEF WorkStarts
  <1>3. PICK r : Becomes(s, w, r) /\ r.at = "running" /\ r.claim = c /\ r.started BY <1>1 DEF WorkStarts
  <1>4. /\ c \in Claims /\ c \in Range(fed[s]) /\ SidOf[c] = s
        /\ ~InJobs(s, c) /\ ~InMail(s, c) /\ ~InPending(s, c) /\ ~InHand(s, c)
        /\ \A v \in Workers : Busy(s, v) /\ worker[s][v].claim = c => v = w
    BY <1>1, <1>2, WorkedAlone
  <1>5. PICK m \in Msg : m = [kind |-> "started", claim |-> c] BY <1>4 DEF Msg
  <1>6. ~IsTerm(m) /\ m.kind = "started" /\ m.claim = c BY <1>5 DEF IsTerm
  <1>7. msgs'[s] = Append(msgs[s], m) /\ jobs'[s] = jobs[s] BY <1>1, <1>5 DEF WorkStarts
  <1>8. \A d \in Of(s) : Said(d, "started")' = Said(d, "started") BY WorkLine DEF LineEvents, Events
  <1>9. \A d : (UnMail(s, d)' => UnMail(s, d)) /\ (BeMail(s, d)' => BeMail(s, d)) BY <1>6, <1>7, MarksInMail
  <1>10. \A d : /\ UnWork(s, d)' => UnWork(s, d) /\ d # c
                /\ BeWork(s, d)' => BeWork(s, d) \/ d = c
    BY <1>3, <1>4, MarksInWork DEF UnWork, BeWork
  <1>11. FreshOK(s)' BY <1>3, MarksInWork
  <1>12. \A d : InJobs(s, d)' => InJobs(s, d) BY <1>7 DEF InJobs
  <1>13. \A d \in Claims : Unstarted(s, d)' => Unstarted(s, d) /\ d # c
    <2>1. ~UnMail(s, c) /\ ~UnPending(s, c) /\ ~UnHand(s, c)
      BY <1>4 DEF UnMail, UnPending, UnHand, InMail, InPending, InHand, Finishing
    <2> QED BY <1>4, <1>9, <1>10, <1>12, <2>1, WorkLine DEF Unstarted
  <1>14. \A d \in Claims : Begun(s, d)' => Begun(s, d) \/ d = c BY <1>9, <1>10, WorkLine DEF Begun
  <1>15. ASSUME NEW d \in Claims, Unstarted(s, d)' PROVE Unspoken(s, d)'
    <2>1. Unspoken(s, d) /\ d \in Of(s) /\ d # c BY <1>13, <1>15, MarksInLine DEF Marked, Of
    <2>2. ~IsAbout(m, "started", d) BY <1>6, <2>1 DEF IsAbout
    <2> QED BY <1>7, <1>8, <2>1, <2>2, UnspokenStays
  <1>16. Due(s, c, "started")'
    <2>1. ~(InPending(s, c)') /\ ~(InHand(s, c)') BY <1>4, WorkLine DEF InPending, InHand, Finishing
    <2>2. PICK n : n = Len(msgs[s]) + 1 OBVIOUS
    <2>3. n \in DOMAIN msgs'[s] /\ msgs'[s][n] = m BY <1>7, <2>2, MailMoves
    <2>4. ASSUME NEW j \in DOMAIN msgs'[s], After(msgs'[s][j], "started", c) PROVE FALSE
      <3>1. IsTerm(msgs'[s][j]) /\ msgs'[s][j].term.claim = c BY <2>4 DEF After
      <3>2. j = n \/ j \in DOMAIN msgs[s] BY <1>7, <2>2, MailMoves
      <3>3. j # n BY <1>6, <2>3, <3>1
      <3>4. j \in DOMAIN msgs[s] /\ msgs'[s][j] = msgs[s][j] BY <1>7, <3>2, <3>3, MailMoves
      <3>5. InMail(s, c) BY <3>1, <3>4 DEF InMail
      <3> QED BY <1>4, <3>5
    <2>5. IsAbout(msgs'[s][n], "started", c) BY <1>6, <2>3 DEF IsAbout
    <2>6. Waits(s, c, "started")' BY <2>1, <2>3, <2>4, <2>5 DEF Waits
    <2> QED BY <2>6 DEF Due
  <1>17. ASSUME NEW d \in Claims, Begun(s, d)' PROVE Due(s, d, "started")'
    <2>1. CASE d = c BY <1>16, <2>1
    <2>2. CASE d # c
      <3>1. Begun(s, d) /\ Due(s, d, "started") BY <1>14, <1>17, <2>2 DEF Marked
      <3>2. SidOf[d] = s BY <3>1, MarksInLine
      <3> QED BY <3>1, <3>2, DueStays
    <2> QED BY <2>1, <2>2
  <1> QED BY <1>11, <1>15, <1>17 DEF Marked

\* The reporter takes a message, or the next terminal in its turn: the mark goes with it.
LEMMA MarkedTakes ==
    ASSUME Types, Next, NEW s \in Sids, FedOK(s), MailOK(s), PlaceOK(s), Moves(s), Marked(s), FreshOK(s),
           CrewStays(s), TakesEvent(s) \/ TakesTerm(s) \/ TakesExit(s)
    PROVE  Marked(s)' /\ FreshOK(s)'
  <1>1. TakesAny(s) BY DEF TakesEvent, TakesTerm, TakesExit
  <1>2. msgs[s] # <<>> /\ msgs'[s] = Tail(msgs[s]) /\ worker'[s] = worker[s] /\ jobs'[s] = jobs[s]
    BY <1>1 DEF TakesAny, CrewStays
  <1>3. Head(msgs[s]) = msgs[s][1] /\ 1 \in DOMAIN msgs[s] BY <1>1, TakingFront
  <1>4. \A c : (UnMail(s, c)' => UnMail(s, c)) /\ (BeMail(s, c)' => BeMail(s, c)) BY <1>2, MarksInMail
  <1>5. FreshOK(s)' BY <1>2 DEF FreshOK
  <1>6. \A c \in Claims : /\ Unstarted(s, c)' => Unstarted(s, c)
                          /\ Begun(s, c)' => Begun(s, c)
    <2>1. \A c : /\ (InJobs(s, c)' <=> InJobs(s, c)) /\ (UnWork(s, c)' <=> UnWork(s, c))
                 /\ (BeWork(s, c)' <=> BeWork(s, c))
      BY <1>2 DEF InJobs, UnWork, BeWork, Busy
    <2>2. CASE TakesTerm(s)
      <3>1. IsTerm(msgs[s][1]) /\ pending'[s] = pending[s] \cup {msgs[s][1].term} /\ reporter'[s].at = "drain"
        BY <1>3, <2>2 DEF TakesTerm
      <3>2. \A c : /\ UnPending(s, c)' => UnPending(s, c) \/ UnMail(s, c)
                   /\ BePending(s, c)' => BePending(s, c) \/ BeMail(s, c)
        BY <1>3, <3>1 DEF UnPending, BePending, UnMail, BeMail
      <3>3. \A c : ~(UnHand(s, c)') /\ ~(BeHand(s, c)') BY <3>1 DEF UnHand, BeHand, InHand, Finishing
      <3> QED BY <1>4, <2>1, <3>2, <3>3 DEF Unstarted, Begun
    <2>3. CASE TakesEvent(s) \/ TakesExit(s)
      <3>1. pending'[s] = pending[s] /\ (reporter'[s] = reporter[s] \/ reporter'[s].at = "exiting")
        BY <2>3 DEF TakesEvent, TakesExit
      <3>2. \A c : /\ UnPending(s, c)' => UnPending(s, c)
                   /\ BePending(s, c)' => BePending(s, c)
        BY <3>1 DEF UnPending, BePending
      <3>3. \A c : (UnHand(s, c)' => UnHand(s, c)) /\ (BeHand(s, c)' => BeHand(s, c))
        BY <3>1 DEF UnHand, BeHand, InHand, Finishing
      <3> QED BY <1>4, <2>1, <3>2, <3>3 DEF Unstarted, Begun
    <2> QED BY <2>2, <2>3
  <1>7. ASSUME NEW c \in Claims, Unstarted(s, c), c \in Of(s) PROVE Said(c, "started")' = Said(c, "started")
    <2>1. CASE TakesEvent(s)
      <3>1. ~IsAbout(msgs[s][1], "started", c) BY <1>3, <1>7 DEF Marked, Unspoken
      <3>2. /\ Head(msgs[s]).claim \in Claims /\ Say(Head(msgs[s]).claim, Head(msgs[s]).kind)
            /\ Head(msgs[s]).kind \in {"ready", "started"}
        BY <1>1, <2>1, TakingFront DEF TakesEvent
      <3>3. ~(Head(msgs[s]).claim = c /\ Head(msgs[s]).kind = "started") BY <1>3, <3>1 DEF IsAbout
      <3> QED BY <3>2, <3>3, Saying DEF Events
    <2>2. CASE TakesTerm(s) \/ TakesExit(s)
      <3>1. Hushed(s) BY <2>2 DEF TakesTerm, TakesExit
      <3> QED BY <1>7, <3>1 DEF Hushed, LineEvents, Events
    <2> QED BY <2>1, <2>2
  <1>8. Marked(s)' BY <1>2, <1>6, <1>7, MarkedStays
  <1> QED BY <1>5, <1>8

\* A terminal that is picked keeps its mark.
LEMMA MarkedPicks ==
    ASSUME Types, Next, NEW s \in Sids, FedOK(s), MailOK(s), PlaceOK(s), Moves(s), Marked(s), FreshOK(s),
           CrewStays(s), Picks(s)
    PROVE  Marked(s)' /\ FreshOK(s)'
  <1>1. msgs'[s] = msgs[s] /\ worker'[s] = worker[s] /\ jobs'[s] = jobs[s] /\ Hushed(s) BY DEF Picks, CrewStays
  <1>2. \A c : /\ (UnMail(s, c)' => UnMail(s, c)) /\ (BeMail(s, c)' => BeMail(s, c))
               /\ (InJobs(s, c)' => InJobs(s, c)) /\ (UnWork(s, c)' => UnWork(s, c))
               /\ (BeWork(s, c)' => BeWork(s, c))
    BY <1>1 DEF UnMail, BeMail, InJobs, UnWork, BeWork, Busy
  <1>3. FreshOK(s)' BY <1>1 DEF FreshOK
  <1>4. pending'[s] \subseteq pending[s] BY DEF Picks
  <1>5. \A c : (UnPending(s, c)' => UnPending(s, c)) /\ (BePending(s, c)' => BePending(s, c))
    BY <1>4 DEF UnPending, BePending
  <1>6. \A c : (UnHand(s, c)' => UnPending(s, c)) /\ (BeHand(s, c)' => BePending(s, c))
    <2>1. CASE reporter'[s].at = "idle" BY <2>1 DEF UnHand, BeHand, InHand, Finishing
    <2>2. ASSUME NEW t \in pending[s], reporter'[s] = [at |-> "counted", term |-> t]
          PROVE  \A c : (UnHand(s, c)' => UnPending(s, c)) /\ (BeHand(s, c)' => BePending(s, c))
      <3>1. reporter'[s].at = "counted" /\ reporter'[s].term = t BY <2>2
      <3>2. \A c : UnHand(s, c)' => UnPending(s, c) BY <3>1 DEF UnHand, UnPending
      <3>3. \A c : BeHand(s, c)' => BePending(s, c) BY <3>1 DEF BeHand, InHand, BePending
      <3> QED BY <3>2, <3>3
    <2> QED BY <2>1, <2>2 DEF Picks
  <1>7. \A c \in Claims : Unstarted(s, c)' => Unstarted(s, c) BY <1>2, <1>5, <1>6 DEF Unstarted
  <1>8. \A c \in Claims : Begun(s, c)' => Begun(s, c) BY <1>2, <1>5, <1>6 DEF Begun
  <1>9. \A c \in Of(s) : Said(c, "started")' = Said(c, "started") BY <1>1 DEF Hushed, LineEvents, Events
  <1>10. Marked(s)' BY <1>1, <1>7, <1>8, <1>9, MarkedStays
  <1> QED BY <1>3, <1>10

\* In the reporter's hand a claim is in no place any more.
LEMMA InHandAlone ==
    ASSUME Types, NEW s \in Sids, FedOK(s), MailOK(s), PlaceOK(s), Finishing(s), NEW c, c = reporter[s].term.claim
    PROVE  c \in Claims /\ c \in Range(fed[s]) /\ SidOf[c] = s /\ ~Placed(s, c) /\ InHand(s, c)
  <1>1. InHand(s, c) /\ c \in Range(fed[s]) BY InFed DEF InHand
  <1>2. c \in Claims /\ SidOf[c] = s /\ SeqOf(s, c) \in Nat BY <1>1, Places DEF FedOK
  <1>3. SeqOf(s, c) + 1 = nextSeq[s] BY DEF PlaceOK, MailOK, Fits
  <1>4. Placed(s, c) => SeqOf(s, c) >= nextSeq[s] BY <1>2 DEF PlaceOK
  <1> QED BY <1>1, <1>2, <1>3, <1>4

\* The reporter settles a claim: what was not started is said to be, or nothing is.
LEMMA MarkedSettles ==
    ASSUME Types, Next, NEW s \in Sids, FedOK(s), MailOK(s), PlaceOK(s), Moves(s), Marked(s), FreshOK(s),
           CrewStays(s), Settles(s) \/ Delivers(s) \/ Tells(s) \/ Leaves(s)
    PROVE  Marked(s)' /\ FreshOK(s)'
  <1>1. msgs'[s] = msgs[s] /\ worker'[s] = worker[s] /\ jobs'[s] = jobs[s] /\ pending'[s] = pending[s]
    BY DEF Settles, Delivers, Tells, Leaves, CrewStays
  <1>2. \A c : /\ (UnMail(s, c)' => UnMail(s, c)) /\ (BeMail(s, c)' => BeMail(s, c))
               /\ (InJobs(s, c)' => InJobs(s, c)) /\ (UnWork(s, c)' => UnWork(s, c))
               /\ (BeWork(s, c)' => BeWork(s, c))
               /\ (UnPending(s, c)' => UnPending(s, c)) /\ (BePending(s, c)' => BePending(s, c))
    BY <1>1 DEF UnMail, BeMail, InJobs, UnWork, BeWork, Busy, UnPending, BePending
  <1>3. FreshOK(s)' BY <1>1 DEF FreshOK
  <1>4. \A c : ~(UnHand(s, c)') BY DEF Settles, Delivers, Tells, Leaves, UnHand
  <1>5. \A c \in Claims : Unstarted(s, c)' => Unstarted(s, c) /\ (Placed(s, c) \/ InJobs(s, c))
    <2> TAKE c \in Claims
    <2>1. /\ UnWork(s, c) \/ UnMail(s, c) \/ UnPending(s, c) => Placed(s, c)
      BY DEF UnWork, UnMail, UnPending, InWork, InMail, InPending, Placed
    <2> QED BY <1>2, <1>4, <2>1 DEF Unstarted
  <1>6. CASE \A c \in Of(s) : Said(c, "started")' = Said(c, "started")
    <2>1. \A c : BeHand(s, c)' => BeHand(s, c)
      <3>1. CASE Settles(s)
        <4>1. CASE reporter'[s].at = "drain" BY <4>1 DEF BeHand, InHand, Finishing
        <4>2. CASE /\ reporter[s].term.started /\ reporter[s].at = "counted"
                   /\ reporter'[s].term = reporter[s].term
          BY <4>2 DEF BeHand, InHand, Finishing
        <4>3. CASE ~reporter[s].term.started /\ Talking(s) /\ Say(reporter[s].term.claim, "started")
          <5>1. Finishing(s) BY <3>1 DEF Settles, Finishing
          <5>2. PICK c : c = reporter[s].term.claim OBVIOUS
          <5>3. c \in Claims /\ SidOf[c] = s BY <5>1, <5>2, InHandAlone
          <5>4. Said(c, "started")' = Said(c, "started") \cup {Len(heard[c]) + 1}
            BY <4>3, <5>2, <5>3, Saying DEF Events
          <5>5. Said(c, "started")' = Said(c, "started") BY <1>6, <5>3 DEF Of
          <5>6. Len(heard[c]) + 1 \in Said(c, "started") BY <5>4, <5>5
          <5>7. Len(heard[c]) + 1 \in 1 .. Len(heard[c]) /\ Len(heard[c]) \in Nat
            BY <5>3, <5>6, SaidBefore
          <5> QED BY <5>7
        <4> QED BY <3>1, <4>1, <4>2, <4>3 DEF Settles
      <3>2. CASE Delivers(s) BY <3>2 DEF Delivers, BeHand, InHand, Finishing
      <3>3. CASE Tells(s) \/ Leaves(s) BY <3>3 DEF Tells, Leaves, BeHand, InHand, Finishing
      <3> QED BY <3>1, <3>2, <3>3
    <2>2. \A c \in Claims : Begun(s, c)' => Begun(s, c) BY <1>2, <2>1 DEF Begun
    <2>3. Marked(s)' BY <1>1, <1>5, <1>6, <2>2, MarkedStays
    <2> QED BY <1>3, <2>3
  <1>7. CASE Settles(s) /\ Talking(s) /\ Say(reporter[s].term.claim, "started")
    <2>1. PICK c : c = reporter[s].term.claim OBVIOUS
    <2>2. Finishing(s) BY <1>7 DEF Settles, Finishing
    <2>3. c \in Claims /\ SidOf[c] = s /\ ~Placed(s, c) BY <2>1, <2>2, InHandAlone
    <2>4. Said(c, "started")' = Said(c, "started") \cup {Len(heard[c]) + 1} BY <1>7, <2>1, <2>3, Saying DEF Events
    <2>5. Due(s, c, "started")' BY <2>4 DEF Due, Told
    <2>6. \A d \in Claims : d # c => Said(d, "started")' = Said(d, "started")
      BY <1>7, <2>1, <2>3, Saying DEF Events
    <2>7. ASSUME NEW d \in Claims, Unstarted(s, d)' PROVE Unspoken(s, d)'
      <3>1. d # c
        <4>1. Placed(s, d) BY <1>5, <2>7 DEF Placed
        <4> QED BY <2>3, <4>1
      <3>2. Unspoken(s, d) BY <1>5, <2>7 DEF Marked
      <3> QED BY <1>1, <2>6, <3>1, <3>2, UnspokenStays
    <2>8. ASSUME NEW d \in Claims, Begun(s, d)' PROVE Due(s, d, "started")'
      <3>1. CASE d = c BY <2>5, <3>1
      <3>2. CASE d # c
        <4>1. ~(BeHand(s, d)')
          <5>1. reporter'[s].at = "drain" \/ reporter'[s].term = reporter[s].term BY <1>7 DEF Settles
          <5> QED BY <2>1, <3>2, <5>1 DEF BeHand, InHand, Finishing
        <4>2. Begun(s, d) /\ Due(s, d, "started") BY <1>2, <2>8, <4>1 DEF Marked, Begun
        <4>3. SidOf[d] = s BY <4>2, MarksInLine
        <4> QED BY <4>2, <4>3, DueStays
      <3> QED BY <3>1, <3>2
    <2> QED BY <1>3, <2>7, <2>8 DEF Marked
  <1>8. \/ \A c \in Of(s) : Said(c, "started")' = Said(c, "started")
        \/ Settles(s) /\ Talking(s) /\ Say(reporter[s].term.claim, "started")
    <2>1. CASE Hushed(s) BY <2>1 DEF Hushed, LineEvents, Events
    <2>2. CASE Tells(s)
      <3>1. Finishing(s) BY <2>2 DEF Tells, Finishing
      <3>2. PICK e \in {"done", "failed"} : Say(reporter[s].term.claim, e) BY <2>2 DEF Tells
      <3>3. reporter[s].term.claim \in Claims BY <3>1, InHandAlone
      <3>4. \A c \in Claims : Said(c, "started")' = Said(c, "started") BY <3>2, <3>3, Saying DEF Events
      <3> QED BY <3>4 DEF Of
    <2> QED BY <2>1, <2>2 DEF Settles, Delivers, Leaves
  <1> QED BY <1>6, <1>7, <1>8

\* Every step keeps what the marks say of `started`.
LEMMA MarkedKept ==
    ASSUME Types, Next, NEW s \in Sids, FedOK(s), MailOK(s), PlaceOK(s), Moves(s), Marked(s), FreshOK(s)
    PROVE  Marked(s)' /\ FreshOK(s)'
  <1>1. CASE Idles(s) \/ Offers(s) \/ FeedMoves(s) \/ Runs(s) BY <1>1, MarkedFeeds
  <1>2. CASE Hands(s) BY <1>2, MarkedHands
  <1>3. ASSUME NEW w \in Workers, Works(s, w) PROVE Marked(s)' /\ FreshOK(s)'
    <2>1. CASE WorkTakes(s, w) \/ WorkHolds(s, w) \/ WorkEnds(s, w) BY <1>3, <2>1, MarkedWorks
    <2>2. CASE WorkStarts(s, w) BY <1>3, <2>2, MarkedStarts
    <2>3. CASE WorkReports(s, w) BY <1>3, <2>3, MarkedReports
    <2> QED BY <1>3, <2>1, <2>2, <2>3 DEF Works
  <1>4. CASE Tidies(s)
    <2>1. CrewStays(s) BY <1>4 DEF Tidies
    <2>2. CASE TakesEvent(s) \/ TakesTerm(s) \/ TakesExit(s) BY <2>1, <2>2, MarkedTakes
    <2>3. CASE Picks(s) BY <2>1, <2>3, MarkedPicks
    <2>4. CASE Settles(s) \/ Delivers(s) \/ Tells(s) \/ Leaves(s) BY <2>1, <2>4, MarkedSettles
    <2> QED BY <1>4, <2>2, <2>3, <2>4 DEF Tidies
  <1> QED BY <1>1, <1>2, <1>3, <1>4 DEF Moves, Feeds

\* volume_started is posted once.
LEMMA OnceStays ==
    ASSUME Types, NEW s \in Sids, NEW c \in Claims, StartOnce(s, c),
           \/ msgs'[s] = msgs[s]
           \/ \E m \in Msg : ~IsAbout(m, "started", c) /\ msgs'[s] = Append(msgs[s], m)
           \/ msgs[s] # <<>> /\ msgs'[s] = Tail(msgs[s]),
           Told(c, "started")' => Told(c, "started")
               \/ (\A i \in DOMAIN msgs'[s] : ~IsAbout(msgs'[s][i], "started", c))
    PROVE  StartOnce(s, c)'
  <1> SUFFICES ASSUME NEW i \in DOMAIN msgs'[s], NEW j \in DOMAIN msgs'[s], IsAbout(msgs'[s][i], "started", c)
               PROVE  ~(Told(c, "started")') /\ (IsAbout(msgs'[s][j], "started", c) => i = j)
    BY DEF StartOnce
  <1>1. CASE msgs'[s] = msgs[s] BY <1>1 DEF StartOnce
  <1>2. ASSUME NEW m \in Msg, ~IsAbout(m, "started", c), msgs'[s] = Append(msgs[s], m)
        PROVE  ~(Told(c, "started")') /\ (IsAbout(msgs'[s][j], "started", c) => i = j)
    <2>1. \A k \in DOMAIN msgs'[s] : k = Len(msgs[s]) + 1 \/ k \in DOMAIN msgs[s] BY <1>2, MailMoves
    <2>2. msgs'[s][Len(msgs[s]) + 1] = m /\ \A k \in DOMAIN msgs[s] : msgs'[s][k] = msgs[s][k] BY <1>2, MailMoves
    <2>3. \A k \in DOMAIN msgs'[s] : IsAbout(msgs'[s][k], "started", c) =>
             k \in DOMAIN msgs[s] /\ IsAbout(msgs[s][k], "started", c)
      BY <1>2, <2>1, <2>2
    <2> QED BY <2>3 DEF StartOnce
  <1>3. CASE msgs[s] # <<>> /\ msgs'[s] = Tail(msgs[s])
    <2>1. /\ DOMAIN msgs'[s] = 1 .. Len(msgs[s]) - 1 /\ Len(msgs[s]) \in Nat
          /\ \A k \in DOMAIN msgs'[s] : k + 1 \in DOMAIN msgs[s] /\ msgs'[s][k] = msgs[s][k + 1]
      BY <1>3, MailMoves
    <2>2. i + 1 \in DOMAIN msgs[s] /\ IsAbout(msgs[s][i + 1], "started", c) BY <2>1
    <2>3. j + 1 \in DOMAIN msgs[s] /\ msgs'[s][j] = msgs[s][j + 1] BY <2>1
    <2>4. ~Told(c, "started") /\ (IsAbout(msgs'[s][j], "started", c) => i + 1 = j + 1)
      BY <2>2, <2>3 DEF StartOnce
    <2>5. i + 1 = j + 1 => i = j BY <2>1
    <2> QED BY <2>4, <2>5
  <1> QED BY <1>1, <1>2, <1>3

\* What the step says of a claim's start: nothing, or the front message, or the reporter itself.
LEMMA StartSaid ==
    ASSUME Types, NEW s \in Sids, FedOK(s), MailOK(s), PlaceOK(s), Moves(s), NEW c \in Claims, SidOf[c] = s
    PROVE  \/ Said(c, "started")' = Said(c, "started")
           \/ /\ Said(c, "started")' = Said(c, "started") \cup {Len(heard[c]) + 1} /\ Talking(s)
              /\ \/ TakesEvent(s) /\ IsAbout(msgs[s][1], "started", c)
                 \/ /\ reporter[s].at = "counted" /\ reporter[s].term.claim = c /\ ~reporter[s].term.started
                    /\ msgs'[s] = msgs[s]
  <1>1. CASE Hushed(s) BY <1>1 DEF Hushed, LineEvents, Events, Of
  <1>2. ASSUME NEW d \in Claims, NEW e \in Events, Say(d, e), e # "started" PROVE Said(c, "started")' = Said(c, "started")
    BY <1>2, Saying
  <1>3. CASE Offers(s) \/ FeedMoves(s)
    <2>1. Hushed(s) \/ \E d \in Claims : Say(d, "returned")
      BY <1>3 DEF Offers, FeedMoves, Holding, Types, FeedTypes, Of
    <2> QED BY <1>1, <1>2, <2>1 DEF Events
  <1>4. CASE TakesEvent(s)
    <2>1. TakesAny(s) BY <1>4 DEF TakesEvent
    <2>2. PICK d : d = Head(msgs[s]).claim OBVIOUS
    <2>3. PICK e \in {"ready", "started"} : e = Head(msgs[s]).kind BY <1>4 DEF TakesEvent
    <2>4. d \in Claims /\ Say(d, e) /\ Head(msgs[s]) = msgs[s][1] BY <1>4, <2>1, <2>2, <2>3, TakingFront
    <2>5. \/ Said(c, "started")' = Said(c, "started")
          \/ c = d /\ e = "started" /\ Talking(s) /\ Said(c, "started")' = Said(c, "started") \cup {Len(heard[c]) + 1}
      BY <2>4, Saying DEF Events
    <2>6. c = d /\ e = "started" => IsAbout(msgs[s][1], "started", c) BY <2>2, <2>3, <2>4 DEF IsAbout
    <2> QED BY <1>4, <2>5, <2>6
  <1>5. CASE Settles(s) /\ ~Hushed(s)
    <2>1. /\ ~reporter[s].term.started /\ Say(reporter[s].term.claim, "started")
          /\ reporter[s].at = "counted" /\ msgs'[s] = msgs[s]
      BY <1>5 DEF Settles
    <2>2. reporter[s].term.claim \in Claims BY <2>1, InHandAlone DEF Finishing
    <2>3. \/ Said(c, "started")' = Said(c, "started")
          \/ /\ c = reporter[s].term.claim /\ Talking(s)
             /\ Said(c, "started")' = Said(c, "started") \cup {Len(heard[c]) + 1}
      BY <2>1, <2>2, Saying DEF Events
    <2> QED BY <2>1, <2>3
  <1>6. CASE Tells(s)
    <2>1. Finishing(s) BY <1>6 DEF Tells, Finishing
    <2>2. reporter[s].term.claim \in Claims BY <2>1, InHandAlone
    <2> QED BY <1>2, <1>6, <2>2 DEF Tells, Events
  <1>7. CASE Hands(s) \/ Idles(s) \/ Runs(s) \/ \E w \in Workers : Works(s, w)
    BY <1>1, <1>7 DEF Hands, Idles, Runs, Works
  <1>8. CASE TakesTerm(s) \/ TakesExit(s) \/ Picks(s) \/ Delivers(s) \/ Leaves(s)
    BY <1>1, <1>8 DEF TakesTerm, TakesExit, Picks, Delivers, Leaves
  <1> QED BY <1>1, <1>3, <1>4, <1>5, <1>6, <1>7, <1>8 DEF Moves, Feeds, Tidies

\* Every step keeps `started` posted once, and before it is said.
LEMMA OnceKept ==
    ASSUME Types, NEW s \in Sids, FedOK(s), MailOK(s), PlaceOK(s), Moves(s), Marked(s),
           \A c \in Claims : StartOnce(s, c)
    PROVE  \A c \in Claims : StartOnce(s, c)'
  <1> SUFFICES ASSUME NEW c \in Claims PROVE StartOnce(s, c)' OBVIOUS
  <1>1. CASE SidOf[c] # s
    <2>1. MailOK(s)' /\ FedOK(s)' => \A i \in DOMAIN msgs'[s] : ~IsAbout(msgs'[s][i], "started", c)
      BY <1>1 DEF MailOK, Posted, IsAbout, FedOK
    <2>2. MailOK(s)' BY MailKept
    <2>3. \A d \in Range(fed'[s]) : SidOf[d] = s
      <3>1. CASE fed'[s] = fed[s] BY <3>1 DEF FedOK
      <3>2. CASE Hands(s)
        <4>1. /\ feeder[s].claim \in Claims /\ SidOf[feeder[s].claim] = s
              /\ fed'[s] = Append(fed[s], feeder[s].claim) /\ fed[s] \in Seq(Claims)
          BY <3>2 DEF Hands, FedOK, Holding, Types, FeedTypes, RunTypes
        <4> QED BY <4>1, Appending DEF FedOK
      <3> QED BY <3>1, <3>2 DEF Moves, Idles, Offers, Feeds, FeedMoves, Runs, Works, Tidies
    <2>4. \A i \in DOMAIN msgs'[s] : ~IsAbout(msgs'[s][i], "started", c)
      BY <1>1, <2>2, <2>3 DEF MailOK, Posted, IsAbout
    <2> QED BY <2>4 DEF StartOnce
  <1>2. CASE SidOf[c] = s /\ \A w \in Workers : WorkStarts(s, w) => worker[s][w].claim # c
    <2>1. \/ msgs'[s] = msgs[s]
          \/ \E m \in Msg : ~IsAbout(m, "started", c) /\ msgs'[s] = Append(msgs[s], m)
          \/ msgs[s] # <<>> /\ msgs'[s] = Tail(msgs[s])
      <3>1. CASE Tidies(s)
        BY <3>1 DEF Tidies, TakesEvent, TakesTerm, TakesExit, TakesAny, Picks, Settles, Delivers, Tells, Leaves
      <3>2. CASE ~Tidies(s)
        <4>1. msgs'[s] = msgs[s] \/ \E m \in Msg :
                 /\ msgs'[s] = Append(msgs[s], m)
                 /\ \/ m.kind # "started"
                    \/ \E w \in Workers : WorkStarts(s, w) /\ m.claim = worker[s][w].claim
          BY <3>2, Posting DEF IsAbout, IsTerm
        <4> QED BY <1>2, <4>1 DEF IsAbout
      <3> QED BY <3>1, <3>2
    <2>2. ASSUME Told(c, "started")', ~Told(c, "started")
          PROVE  \A i \in DOMAIN msgs'[s] : ~IsAbout(msgs'[s][i], "started", c)
      <3>1. \/ TakesEvent(s) /\ IsAbout(msgs[s][1], "started", c)
            \/ /\ reporter[s].at = "counted" /\ reporter[s].term.claim = c /\ ~reporter[s].term.started
               /\ msgs'[s] = msgs[s]
        BY <1>2, <2>2, StartSaid DEF Told
      <3>2. CASE TakesEvent(s) /\ IsAbout(msgs[s][1], "started", c)
        <4>1. msgs[s] # <<>> /\ msgs'[s] = Tail(msgs[s]) BY <3>2 DEF TakesEvent, TakesAny
        <4>2. /\ 1 \in DOMAIN msgs[s] /\ DOMAIN msgs'[s] = 1 .. Len(msgs[s]) - 1 /\ Len(msgs[s]) \in Nat
              /\ \A k \in DOMAIN msgs'[s] : k + 1 \in DOMAIN msgs[s] /\ msgs'[s][k] = msgs[s][k + 1]
          BY <4>1, MailMoves
        <4>3. ASSUME NEW i \in DOMAIN msgs'[s], IsAbout(msgs'[s][i], "started", c) PROVE FALSE
          <5>1. i + 1 \in DOMAIN msgs[s] /\ IsAbout(msgs[s][i + 1], "started", c) BY <4>2, <4>3
          <5>2. 1 = i + 1 BY <3>2, <4>2, <5>1 DEF StartOnce
          <5> QED BY <4>2, <4>3, <5>2
        <4> QED BY <4>3
      <3>3. CASE /\ reporter[s].at = "counted" /\ reporter[s].term.claim = c /\ ~reporter[s].term.started
                 /\ msgs'[s] = msgs[s]
        <4>1. Unstarted(s, c) BY <3>3 DEF Unstarted, UnHand
        <4> QED BY <3>3, <4>1 DEF Marked, Unspoken
      <3> QED BY <3>1, <3>2, <3>3
    <2> QED BY <2>1, <2>2, OnceStays
  <1>3. ASSUME SidOf[c] = s, NEW w \in Workers, WorkStarts(s, w), worker[s][w].claim = c PROVE StartOnce(s, c)'
    <2>1. Unstarted(s, c) BY <1>3 DEF WorkStarts, Unstarted, UnWork
    <2>2. Unspoken(s, c) BY <2>1 DEF Marked
    <2>3. PICK m \in Msg : m = [kind |-> "started", claim |-> c] BY DEF Msg
    <2>4. msgs'[s] = Append(msgs[s], m) BY <1>3, <2>3 DEF WorkStarts
    <2>5. /\ msgs[s] \in Seq(Msg) /\ Len(msgs'[s]) = Len(msgs[s]) + 1 /\ Len(msgs[s]) \in Nat
      BY <2>4 DEF Types, RepTypes
    <2>6. ~(Told(c, "started")')
      <3>1. Said(c, "started")' = Said(c, "started")
        <4>1. ~TakesEvent(s)
          <5>1. ASSUME TakesEvent(s) PROVE FALSE
            <6>1. msgs[s] # <<>> /\ msgs'[s] = Tail(msgs[s]) BY <5>1 DEF TakesEvent, TakesAny
            <6>2. Len(msgs'[s]) = Len(msgs[s]) - 1 BY <2>5, <6>1, Taking
            <6> QED BY <2>5, <6>2
          <5> QED BY <5>1
        <4>2. msgs'[s] # msgs[s] BY <2>5
        <4> QED BY <1>3, <4>1, <4>2, StartSaid
      <3> QED BY <2>2, <3>1 DEF Unspoken, Told
    <2>7. \A i \in DOMAIN msgs'[s] : IsAbout(msgs'[s][i], "started", c) => i = Len(msgs[s]) + 1
      <3>1. \A k \in DOMAIN msgs'[s] : k = Len(msgs[s]) + 1 \/ (k \in DOMAIN msgs[s] /\ msgs'[s][k] = msgs[s][k])
        BY <2>4, MailMoves
      <3> QED BY <2>2, <3>1 DEF Unspoken
    <2> QED BY <2>6, <2>7 DEF StartOnce
  <1> QED BY <1>1, <1>2, <1>3

\* Whoever is handed over has its fetch ready posted before everything else about it.
LEMMA ReadyKept ==
    ASSUME Types, Next, NEW s \in Sids, FedOK(s), MailOK(s), PlaceOK(s), Moves(s),
           \A c \in Range(fed[s]) : Due(s, c, "ready")
    PROVE  \A c \in Range(fed'[s]) : Due(s, c, "ready")'
  <1>1. ASSUME NEW c \in Range(fed[s]) PROVE Due(s, c, "ready")'
    <2>1. c \in Claims /\ SidOf[c] = s BY Places DEF FedOK
    <2> QED BY <2>1, DueStays
  <1>2. CASE fed'[s] = fed[s] BY <1>1, <1>2
  <1>3. CASE Hands(s)
    <2>1. PICK c : c = feeder[s].claim OBVIOUS
    <2>2. c \in Claims /\ c \notin Range(fed[s]) BY <1>3, <2>1 DEF Hands, FedOK, Holding, Types, FeedTypes
    <2>3. PICK m \in Msg : m = [kind |-> "ready", claim |-> c] BY <2>2 DEF Msg
    <2>4. ~IsTerm(m) /\ m.kind = "ready" /\ m.claim = c BY <2>3 DEF IsTerm
    <2>5. /\ pending'[s] = pending[s] /\ reporter'[s] = reporter[s] /\ msgs'[s] = Append(msgs[s], m)
          /\ fed'[s] = Append(fed[s], c) /\ fed[s] \in Seq(Claims)
      BY <1>3, <2>1, <2>3 DEF Hands, DeskStays, Types, RunTypes
    <2>6. Range(fed'[s]) = Range(fed[s]) \cup {c} BY <2>2, <2>5, Appending
    <2>7. ~InPending(s, c) /\ ~InHand(s, c) BY <2>2, InFed DEF Placed
    <2>8. ~(InPending(s, c)') /\ ~(InHand(s, c)') BY <2>5, <2>7 DEF InPending, InHand, Finishing
    <2>9. PICK n : n = Len(msgs[s]) + 1 OBVIOUS
    <2>10. n \in DOMAIN msgs'[s] /\ msgs'[s][n] = m BY <2>5, <2>9, MailMoves
    <2>11. ASSUME NEW j \in DOMAIN msgs'[s], After(msgs'[s][j], "ready", c) PROVE FALSE
      <3>1. ~After(m, "ready", c) BY <2>4 DEF After, IsAbout
      <3>2. j \in DOMAIN msgs[s] /\ msgs'[s][j] = msgs[s][j] BY <2>5, <2>9, <2>10, <2>11, <3>1, MailMoves
      <3>3. Posted(s, msgs[s][j]) BY <3>2 DEF MailOK
      <3> QED BY <2>2, <2>11, <3>2, <3>3 DEF After, IsAbout, Posted, Fits, IsTerm
    <2>12. IsAbout(msgs'[s][n], "ready", c) BY <2>4, <2>10 DEF IsAbout
    <2>13. Waits(s, c, "ready")' BY <2>8, <2>10, <2>11, <2>12 DEF Waits
    <2>14. Due(s, c, "ready")' BY <2>13 DEF Due
    <2> QED BY <1>1, <2>6, <2>14
  <1> QED BY <1>2, <1>3 DEF Moves, Idles, Offers, Feeds, FeedMoves, Runs, Works, Tidies

\* What is said of a claim only grows at its end.
LEMMA StoryGrows ==
    ASSUME Types, NEW c \in Claims, Story(c), NEW e \in Tales,
           Said(c, e)' = Said(c, e) \cup {Len(heard[c]) + 1},
           \A f \in Tales : f # e => Said(c, f)' = Said(c, f),
           e = "started" => ~Told(c, "started") /\ Told(c, "ready"),
           e \in {"done", "failed"} => Told(c, "started")
    PROVE  Story(c)'
  <1>1. PICK n : n = Len(heard[c]) + 1 OBVIOUS
  <1>2. \A f : \A i \in Said(c, f) : i < n
    <2>1. \A f : \A i \in Said(c, f) : i \in 1 .. Len(heard[c]) BY SaidBefore
    <2>2. Len(heard[c]) \in Nat BY SaidBefore DEF Events
    <2> QED BY <1>1, <2>1, <2>2
  <1>3. Said(c, e)' = Said(c, e) \cup {n} BY <1>1
  <1>4. CASE e = "ready"
    <2>1. Said(c, "started")' = Said(c, "started") /\ Said(c, "done")' = Said(c, "done")
          /\ Said(c, "failed")' = Said(c, "failed") /\ Said(c, "ready")' = Said(c, "ready") \cup {n}
      BY <1>3, <1>4 DEF Tales
    <2> QED BY <2>1 DEF Story, AtMostOne
  <1>5. CASE e = "started"
    <2>1. Said(c, "started")' = {n} /\ Said(c, "done")' = Said(c, "done")
          /\ Said(c, "failed")' = Said(c, "failed") /\ Said(c, "ready")' = Said(c, "ready")
      BY <1>3, <1>5 DEF Tales, Told
    <2>2. Said(c, "done") \cup Said(c, "failed") = {} BY <1>5 DEF Story, Told
    <2>3. \E j \in Said(c, "ready") : j < n BY <1>2, <1>5 DEF Told
    <2> QED BY <2>1, <2>2, <2>3 DEF Story, AtMostOne
  <1>6. CASE e \in {"done", "failed"}
    <2>1. Said(c, "started")' = Said(c, "started") /\ Said(c, "ready")' = Said(c, "ready")
          /\ (Said(c, "done") \cup Said(c, "failed"))' = Said(c, "done") \cup Said(c, "failed") \cup {n}
      BY <1>3, <1>6 DEF Tales
    <2>2. \E j \in Said(c, "started") : j < n BY <1>2, <1>6 DEF Told
    <2> QED BY <2>1, <2>2 DEF Story, AtMostOne
  <1> QED BY <1>4, <1>5, <1>6 DEF Tales

\* What the reporter says, and of which claim.
LEMMA TaleSaid ==
    ASSUME Types, NEW s \in Sids, FedOK(s), MailOK(s), PlaceOK(s), Moves(s), NEW c \in Claims, SidOf[c] = s
    PROVE  \/ \A e \in Tales : Said(c, e)' = Said(c, e)
           \/ \E e \in Tales :
                 /\ Said(c, e)' = Said(c, e) \cup {Len(heard[c]) + 1} /\ Talking(s)
                 /\ \A f \in Tales : f # e => Said(c, f)' = Said(c, f)
                 /\ \/ e \in {"ready", "started"} /\ TakesEvent(s) /\ IsAbout(msgs[s][1], e, c)
                    \/ /\ e = "started" /\ InHand(s, c) /\ reporter[s].at = "counted"
                       /\ ~reporter[s].term.started
                    \/ e \in {"done", "failed"} /\ InHand(s, c) /\ Tells(s)
  <1>0. ASSUME NEW d \in Claims, NEW e \in Events, Say(d, e)
        PROVE  \/ \A f \in Tales : Said(c, f)' = Said(c, f)
               \/ /\ c = d /\ Talking(s) /\ Said(c, e)' = Said(c, e) \cup {Len(heard[c]) + 1}
                  /\ \A f \in Tales : f # e => Said(c, f)' = Said(c, f)
    <2>1. \A f : \/ Said(c, f)' = Said(c, f)
                 \/ /\ c = d /\ f = e /\ Talking(SidOf[d]) /\ Said(c, f)' = Said(c, f) \cup {Len(heard[c]) + 1}
      BY <1>0, Saying
    <2>2. \A f \in Tales : f # e => Said(c, f)' = Said(c, f) BY <2>1
    <2>3. \/ Said(c, e)' = Said(c, e)
          \/ /\ c = d /\ Talking(s) /\ Said(c, e)' = Said(c, e) \cup {Len(heard[c]) + 1}
      BY <2>1
    <2>4. CASE Said(c, e)' = Said(c, e) BY <2>2, <2>4
    <2>5. CASE c = d /\ Talking(s) /\ Said(c, e)' = Said(c, e) \cup {Len(heard[c]) + 1} BY <2>2, <2>5
    <2> QED BY <2>3, <2>4, <2>5
  <1>1. CASE Hushed(s) BY <1>1 DEF Hushed, LineEvents, Events, Of, Tales
  <1>2. ASSUME NEW d \in Claims, Say(d, "returned") PROVE \A e \in Tales : Said(c, e)' = Said(c, e)
    BY <1>2, Saying DEF Events, Tales
  <1>3. CASE Offers(s) \/ FeedMoves(s)
    <2>1. Hushed(s) \/ \E d \in Claims : Say(d, "returned")
      BY <1>3 DEF Offers, FeedMoves, Holding, Types, FeedTypes, Of
    <2> QED BY <1>1, <1>2, <2>1
  <1>4. CASE TakesEvent(s)
    <2>1. TakesAny(s) BY <1>4 DEF TakesEvent
    <2>2. PICK d : d = Head(msgs[s]).claim OBVIOUS
    <2>3. PICK e \in {"ready", "started"} : e = Head(msgs[s]).kind BY <1>4 DEF TakesEvent
    <2>4. d \in Claims /\ Say(d, e) /\ Head(msgs[s]) = msgs[s][1] BY <1>4, <2>1, <2>2, <2>3, TakingFront
    <2>5. c = d => IsAbout(msgs[s][1], e, c) BY <2>2, <2>3, <2>4 DEF IsAbout
    <2>6. e \in Events /\ e \in Tales BY DEF Events, Tales
    <2>7. \/ \A f \in Tales : Said(c, f)' = Said(c, f)
          \/ /\ c = d /\ Talking(s) /\ Said(c, e)' = Said(c, e) \cup {Len(heard[c]) + 1}
             /\ \A f \in Tales : f # e => Said(c, f)' = Said(c, f)
      BY <1>0, <2>4, <2>6
    <2> QED BY <1>4, <2>5, <2>6, <2>7
  <1>5. CASE Settles(s) /\ ~Hushed(s)
    <2>1. ~reporter[s].term.started /\ Say(reporter[s].term.claim, "started") /\ reporter[s].at = "counted"
      BY <1>5 DEF Settles
    <2>2. PICK d : d = reporter[s].term.claim OBVIOUS
    <2>3. d \in Claims /\ InHand(s, d) BY <2>1, <2>2, InHandAlone DEF Finishing
    <2>4. "started" \in Events /\ "started" \in Tales BY DEF Events, Tales
    <2>5. \/ \A f \in Tales : Said(c, f)' = Said(c, f)
          \/ /\ c = d /\ Talking(s) /\ Said(c, "started")' = Said(c, "started") \cup {Len(heard[c]) + 1}
             /\ \A f \in Tales : f # "started" => Said(c, f)' = Said(c, f)
      BY <1>0, <2>1, <2>2, <2>3, <2>4
    <2> QED BY <2>1, <2>3, <2>4, <2>5
  <1>6. CASE Tells(s)
    <2>1. Finishing(s) BY <1>6 DEF Tells, Finishing
    <2>2. PICK d : d = reporter[s].term.claim OBVIOUS
    <2>3. d \in Claims /\ InHand(s, d) BY <2>1, <2>2, InHandAlone
    <2>4. PICK e \in {"done", "failed"} : Say(d, e) BY <1>6, <2>2 DEF Tells
    <2>5. e \in Events /\ e \in Tales BY DEF Events, Tales
    <2>6. \/ \A f \in Tales : Said(c, f)' = Said(c, f)
          \/ /\ c = d /\ Talking(s) /\ Said(c, e)' = Said(c, e) \cup {Len(heard[c]) + 1}
             /\ \A f \in Tales : f # e => Said(c, f)' = Said(c, f)
      BY <1>0, <2>3, <2>4, <2>5
    <2> QED BY <1>6, <2>3, <2>4, <2>5, <2>6
  <1>7. CASE Hands(s) \/ Idles(s) \/ Runs(s) \/ \E w \in Workers : Works(s, w)
    BY <1>1, <1>7 DEF Hands, Idles, Runs, Works
  <1>8. CASE TakesTerm(s) \/ TakesExit(s) \/ Picks(s) \/ Delivers(s) \/ Leaves(s)
    BY <1>1, <1>8 DEF TakesTerm, TakesExit, Picks, Delivers, Leaves
  <1> QED BY <1>1, <1>3, <1>4, <1>5, <1>6, <1>7, <1>8 DEF Moves, Feeds, Tidies

\* Every step keeps the order of what is said of a claim.
LEMMA StoryKept ==
    ASSUME Types, NEW s \in Sids, FedOK(s), MailOK(s), PlaceOK(s), Moves(s), Marked(s), NEW c \in Claims, SidOf[c] = s,
           StartOnce(s, c), \A d \in Range(fed[s]) : Due(s, d, "ready"), Story(c)
    PROVE  Story(c)'
  <1>1. CASE \A e \in Tales : Said(c, e)' = Said(c, e) BY <1>1 DEF Tales, Story, AtMostOne
  <1>2. ASSUME NEW e \in Tales, Talking(s),
               Said(c, e)' = Said(c, e) \cup {Len(heard[c]) + 1},
               \A f \in Tales : f # e => Said(c, f)' = Said(c, f),
               e \in {"ready", "started"}, TakesEvent(s), IsAbout(msgs[s][1], e, c)
        PROVE  Story(c)'
    <2>1. 1 \in DOMAIN msgs[s] /\ DOMAIN msgs[s] = 1 .. Len(msgs[s]) BY <1>2, TakingFront, MailMoves DEF TakesEvent
    <2>2. e = "started" => ~Told(c, "started") BY <1>2, <2>1 DEF StartOnce
    <2>3. ASSUME e = "started" PROVE Told(c, "ready")
      <3>1. c \in Range(fed[s]) BY <1>2, <2>1 DEF MailOK, Posted, IsAbout
      <3>2. After(msgs[s][1], "ready", c) BY <1>2, <2>3 DEF After
      <3>3. \A i \in DOMAIN msgs[s] : ~(i < 1) BY <2>1
      <3>4. ~Waits(s, c, "ready") BY <2>1, <3>2, <3>3 DEF Waits
      <3> QED BY <1>2, <3>1, <3>4 DEF Due
    <2> QED BY <1>2, <2>2, <2>3, StoryGrows
  <1>3. ASSUME NEW e \in Tales, Talking(s),
               Said(c, e)' = Said(c, e) \cup {Len(heard[c]) + 1},
               \A f \in Tales : f # e => Said(c, f)' = Said(c, f),
               e = "started", InHand(s, c), reporter[s].at = "counted", ~reporter[s].term.started
        PROVE  Story(c)'
    <2>1. Unstarted(s, c) BY <1>3 DEF Unstarted, UnHand, InHand
    <2>2. ~Told(c, "started") BY <2>1 DEF Marked, Unspoken
    <2>3. c \in Range(fed[s]) BY <1>3, InFed
    <2>4. Told(c, "ready") BY <1>3, <2>3 DEF Due, Waits
    <2> QED BY <1>3, <2>2, <2>4, StoryGrows
  <1>4. ASSUME NEW e \in Tales, Talking(s),
               Said(c, e)' = Said(c, e) \cup {Len(heard[c]) + 1},
               \A f \in Tales : f # e => Said(c, f)' = Said(c, f),
               e \in {"done", "failed"}, InHand(s, c), Tells(s)
        PROVE  Story(c)'
    <2>1. Begun(s, c) BY <1>4 DEF Begun, BeHand, Tells
    <2>2. Told(c, "started") BY <1>4, <2>1 DEF Marked, Due, Waits
    <2> QED BY <1>4, <2>2, StoryGrows
  <1> QED BY <1>1, <1>2, <1>3, <1>4, TaleSaid

\* Every step keeps the invariant of the beginnings.
LEMMA StartKept ==
    ASSUME Types, Next, NEW s \in Sids, FedOK(s), MailOK(s), PlaceOK(s), Moves(s), StartOK(s)
    PROVE  StartOK(s)'
  <1>1. Marked(s) /\ FreshOK(s) BY DEF StartOK, Marked, FreshOK
  <1>2. Marked(s)' /\ FreshOK(s)' BY <1>1, MarkedKept
  <1>3. \A c \in Claims : StartOnce(s, c)' BY <1>1, OnceKept DEF StartOK
  <1>4. \A c \in Range(fed'[s]) : Due(s, c, "ready")' BY ReadyKept DEF StartOK
  <1>5. \A c \in Claims : SidOf[c] = s => Story(c)' BY <1>1, StoryKept DEF StartOK
  <1> QED BY <1>2, <1>3, <1>4, <1>5 DEF StartOK, Marked, FreshOK

\* Turns only pass; the reporter tells of the claim whose turn it is.
LEMMA TurnGrows ==
    ASSUME Types, NEW s \in Sids, MailOK(s), PlaceOK(s), Moves(s)
    PROVE  /\ Turn(s) \in Int /\ (Turn(s)') \in Int /\ (Turn(s)') >= Turn(s)
           /\ Tells(s) => (Turn(s)') = Turn(s) + 1
           /\ \A c : InHand(s, c) => SeqOf(s, c) = Turn(s)
  <1>1. nextSeq[s] \in Nat /\ nextSeq[s] \in Int BY DEF Types, RepTypes
  <1>2. Turn(s) \in Int /\ (Finishing(s) => Turn(s) = nextSeq[s] - 1) /\ (~Finishing(s) => Turn(s) = nextSeq[s])
    BY <1>1 DEF Turn
  <1>3. \A c : InHand(s, c) => SeqOf(s, c) = Turn(s)
    <2>1. ASSUME Finishing(s) PROVE SeqOf(s, reporter[s].term.claim) + 1 = nextSeq[s]
      BY <2>1 DEF MailOK, Fits, PlaceOK
    <2>2. ASSUME Finishing(s) PROVE SeqOf(s, reporter[s].term.claim) \in Nat
      BY <2>2, Places DEF MailOK, Fits
    <2> QED BY <1>1, <1>2, <2>1, <2>2 DEF InHand
  <1>4. CASE nextSeq'[s] = nextSeq[s] /\ (Finishing(s)' => Finishing(s))
    <2>1. (Turn(s)') \in Int /\ (Turn(s)') >= Turn(s) BY <1>1, <1>2, <1>4 DEF Turn
    <2>2. Tells(s) => Finishing(s) /\ ~(Finishing(s)') BY DEF Tells, Finishing
    <2>3. Tells(s) => (Turn(s)') = Turn(s) + 1 BY <1>1, <1>2, <1>4, <2>2 DEF Turn
    <2> QED BY <1>2, <1>3, <2>1, <2>3
  <1>5. CASE nextSeq'[s] = nextSeq[s] + 1 /\ ~Finishing(s) /\ Finishing(s)'
    <2>1. (Turn(s)') = nextSeq[s] BY <1>1, <1>5 DEF Turn
    <2>2. ~Tells(s) BY <1>5 DEF Tells, Finishing
    <2> QED BY <1>1, <1>2, <1>3, <1>5, <2>1, <2>2
  <1>6. \/ nextSeq'[s] = nextSeq[s] /\ (Finishing(s)' => Finishing(s))
        \/ nextSeq'[s] = nextSeq[s] + 1 /\ ~Finishing(s) /\ Finishing(s)'
    <2>1. CASE DeskStays(s) BY <2>1 DEF DeskStays, Finishing
    <2>2. CASE Picks(s)
      <3>1. CASE reporter'[s].at = "idle" /\ nextSeq'[s] = nextSeq[s] BY <3>1 DEF Finishing
      <3>2. ASSUME NEW t, reporter'[s] = [at |-> "counted", term |-> t], nextSeq'[s] = nextSeq[s] + 1
            PROVE  nextSeq'[s] = nextSeq[s] + 1 /\ ~Finishing(s) /\ Finishing(s)'
        <4>1. reporter'[s].at = "counted" BY <3>2
        <4>2. reporter[s].at = "drain" BY <2>2 DEF Picks
        <4> QED BY <3>2, <4>1, <4>2 DEF Finishing
      <3> QED BY <2>2, <3>1, <3>2 DEF Picks
    <2>3. CASE TakesEvent(s) \/ TakesTerm(s) \/ TakesExit(s)
      BY <2>3 DEF TakesEvent, TakesTerm, TakesExit, TakesAny, Finishing
    <2>4. CASE Settles(s) \/ Delivers(s) \/ Tells(s) \/ Leaves(s)
      BY <2>4 DEF Settles, Delivers, Tells, Leaves, Finishing
    <2> QED BY <2>1, <2>2, <2>3, <2>4 DEF Moves, Idles, Offers, Feeds, FeedMoves, Hands, Runs, Works, Tidies
  <1> QED BY <1>4, <1>5, <1>6

\* The ends grow only when the reporter tells.
LEMMA EndsGrow ==
    ASSUME Types, NEW s \in Sids, Moves(s)
    PROVE  \/ ends'[s] = ends[s]
           \/ Tells(s) /\ ends'[s] = Append(ends[s], reporter[s].term.claim)
  <1>1. CASE Tells(s) BY <1>1 DEF Tells
  <1>2. CASE DeskStays(s) BY <1>2 DEF DeskStays
  <1>3. CASE TakesEvent(s) \/ TakesTerm(s) \/ TakesExit(s) \/ Picks(s) \/ Settles(s) \/ Delivers(s) \/ Leaves(s)
    BY <1>3 DEF TakesEvent, TakesTerm, TakesExit, TakesAny, Picks, Settles, Delivers, Leaves
  <1> QED BY <1>1, <1>2, <1>3 DEF Moves, Idles, Offers, Feeds, FeedMoves, Hands, Runs, Works, Tidies

\* Every step keeps the ends in the order of places.
LEMMA OrderKept ==
    ASSUME Types, NEW s \in Sids, FedOK(s), MailOK(s), PlaceOK(s), Moves(s), OrderOK(s)
    PROVE  OrderOK(s)'
  <1>1. /\ Turn(s) \in Int /\ (Turn(s)') \in Int /\ (Turn(s)') >= Turn(s)
        /\ Tells(s) => (Turn(s)') = Turn(s) + 1
        /\ \A c : InHand(s, c) => SeqOf(s, c) = Turn(s)
    BY TurnGrows
  <1>2. Range(fed[s]) \subseteq Range(fed'[s]) /\ \A c \in Range(fed[s]) : (SeqOf(s, c)' = SeqOf(s, c)) BY SeqKept
  <1>3. \A c \in Range(fed[s]) : SeqOf(s, c) \in Int
    <2>1. \A c \in Range(fed[s]) : SeqOf(s, c) \in Nat BY Places
    <2> QED BY <2>1
  <1>4. ASSUME NEW c \in Claims, SidOf[c] = s
        PROVE  /\ (Told(c, "done") \/ Told(c, "failed"))' => SeqOf(s, c)' < Turn(s)'
               /\ AtMostOne(Said(c, "done") \cup Said(c, "failed"))'
    <2>1. Told(c, "done") \/ Told(c, "failed") => c \in Range(fed[s]) /\ SeqOf(s, c) < Turn(s)
      BY <1>4 DEF MailOK, OrderOK
    <2>2. CASE Said(c, "done")' = Said(c, "done") /\ Said(c, "failed")' = Said(c, "failed")
      <3>1. (Told(c, "done") \/ Told(c, "failed"))' => Told(c, "done") \/ Told(c, "failed") BY <2>2 DEF Told
      <3>2. c \in Range(fed[s]) /\ SeqOf(s, c) < Turn(s) => SeqOf(s, c)' < Turn(s)' BY <1>1, <1>2, <1>3
      <3> QED BY <1>4, <2>1, <2>2, <3>1, <3>2 DEF OrderOK, AtMostOne
    <2>3. ASSUME NEW e \in {"done", "failed"}, InHand(s, c), Tells(s),
                 Said(c, e)' = Said(c, e) \cup {Len(heard[c]) + 1},
                 \A f \in Tales : f # e => Said(c, f)' = Said(c, f)
          PROVE  /\ (Told(c, "done") \/ Told(c, "failed"))' => SeqOf(s, c)' < Turn(s)'
                 /\ AtMostOne(Said(c, "done") \cup Said(c, "failed"))'
      <3>1. c \in Range(fed[s]) /\ SeqOf(s, c) = Turn(s) BY <1>1, <2>3, InFed
      <3>2. SeqOf(s, c)' < Turn(s)' BY <1>1, <1>2, <2>3, <3>1
      <3>3. ~Told(c, "done") /\ ~Told(c, "failed") BY <1>1, <2>1, <3>1
      <3>4. (Said(c, "done") \cup Said(c, "failed"))' = {Len(heard[c]) + 1}
        BY <2>3, <3>3 DEF Told, Tales
      <3> QED BY <3>2, <3>4 DEF AtMostOne
    <2>4. \/ Said(c, "done")' = Said(c, "done") /\ Said(c, "failed")' = Said(c, "failed")
          \/ \E e \in {"done", "failed"} :
                /\ InHand(s, c) /\ Tells(s) /\ Said(c, e)' = Said(c, e) \cup {Len(heard[c]) + 1}
                /\ \A f \in Tales : f # e => Said(c, f)' = Said(c, f)
      <3>1. CASE \A e \in Tales : Said(c, e)' = Said(c, e) BY <3>1 DEF Tales
      <3>2. ASSUME NEW e \in Tales, \A f \in Tales : f # e => Said(c, f)' = Said(c, f),
                   e \in {"ready", "started"}
            PROVE  Said(c, "done")' = Said(c, "done") /\ Said(c, "failed")' = Said(c, "failed")
        BY <3>2 DEF Tales
      <3> QED BY <1>4, <3>1, <3>2, TaleSaid
    <2> QED BY <2>2, <2>3, <2>4
  <1>5. \A d \in Range(fed[s]) : /\ d \in Range(fed'[s])
                                 /\ SeqOf(s, d) < Turn(s) => (SeqOf(s, d) < Turn(s))'
    BY <1>1, <1>2, <1>3
  <1>6. \A d, e \in Range(fed[s]) : SeqOf(s, d) < SeqOf(s, e) => (SeqOf(s, d) < SeqOf(s, e))' BY <1>2
  <1>7. CASE ends'[s] = ends[s]
    <2>1. \A i \in DOMAIN ends[s] : ends[s][i] \in Range(fed[s]) /\ SeqOf(s, ends[s][i]) < Turn(s) BY DEF OrderOK
    <2>2. \A i \in DOMAIN ends[s] : (ends[s][i] \in Range(fed[s]) /\ SeqOf(s, ends[s][i]) < Turn(s))'
      <3> TAKE i \in DOMAIN ends[s]
      <3>1. PICK d : d = ends[s][i] OBVIOUS
      <3>2. ends'[s][i] = d BY <1>7, <3>1
      <3>3. d \in Range(fed[s]) /\ SeqOf(s, d) < Turn(s) BY <2>1, <3>1
      <3>4. d \in Range(fed'[s]) /\ (SeqOf(s, d) < Turn(s))' BY <1>5, <3>3
      <3> QED BY <3>2, <3>4
    <2>3. \A i, j \in DOMAIN ends[s] : i < j => (SeqOf(s, ends[s][i]) < SeqOf(s, ends[s][j]))'
      <3> SUFFICES ASSUME NEW i \in DOMAIN ends[s], NEW j \in DOMAIN ends[s], i < j
                   PROVE  (SeqOf(s, ends[s][i]) < SeqOf(s, ends[s][j]))'
        OBVIOUS
      <3>1. PICK d : d = ends[s][i] OBVIOUS
      <3>2. PICK e : e = ends[s][j] OBVIOUS
      <3>3. ends'[s][i] = d /\ ends'[s][j] = e BY <1>7, <3>1, <3>2
      <3>4. SeqOf(s, d) < SeqOf(s, e) /\ d \in Range(fed[s]) /\ e \in Range(fed[s])
        BY <2>1, <3>1, <3>2 DEF OrderOK
      <3>5. (SeqOf(s, d) < SeqOf(s, e))' BY <1>6, <3>4
      <3> QED BY <3>3, <3>5
    <2>4. DOMAIN ends'[s] = DOMAIN ends[s] BY <1>7
    <2> QED BY <1>4, <2>2, <2>3, <2>4 DEF OrderOK
  <1>8. CASE Tells(s) /\ ends'[s] = Append(ends[s], reporter[s].term.claim)
    <2>1. PICK c : c = reporter[s].term.claim OBVIOUS
    <2>2. InHand(s, c) /\ c \in Range(fed[s]) /\ c \in Claims
      <3>1. Finishing(s) BY <1>8 DEF Tells, Finishing
      <3> QED BY <2>1, <3>1, InHandAlone
    <2>3. PICK n : n = Len(ends[s]) + 1 OBVIOUS
    <2>4. /\ ends[s] \in Seq(Claims) /\ Len(ends[s]) \in Nat /\ DOMAIN ends[s] = 1 .. Len(ends[s])
          /\ DOMAIN ends'[s] = 1 .. n /\ ends'[s][n] = c
          /\ \A i \in DOMAIN ends[s] : ends'[s][i] = ends[s][i]
      BY <1>8, <2>1, <2>2, <2>3, Appending DEF Types, SaidTypes
    <2>5. \A i \in DOMAIN ends'[s] : i = n \/ (i \in DOMAIN ends[s] /\ i < n) BY <2>3, <2>4
    <2>6. SeqOf(s, c) = Turn(s) /\ (SeqOf(s, c)' = SeqOf(s, c)) /\ Turn(s)' = Turn(s) + 1
      BY <1>1, <1>2, <1>8, <2>2
    <2>7. (SeqOf(s, c) < Turn(s))' /\ c \in Range(fed'[s]) BY <1>1, <1>2, <2>2, <2>6
    <2>8. \A i \in DOMAIN ends[s] : ends[s][i] \in Range(fed[s]) /\ SeqOf(s, ends[s][i]) < Turn(s) BY DEF OrderOK
    <2>9. ASSUME NEW i \in DOMAIN ends'[s] PROVE (ends[s][i] \in Range(fed[s]) /\ SeqOf(s, ends[s][i]) < Turn(s))'
      <3>1. CASE i = n BY <2>4, <2>7, <3>1
      <3>2. CASE i \in DOMAIN ends[s]
        <4>1. PICK d : d = ends[s][i] OBVIOUS
        <4>2. ends'[s][i] = d BY <2>4, <3>2, <4>1
        <4>3. d \in Range(fed[s]) /\ SeqOf(s, d) < Turn(s) BY <2>8, <3>2, <4>1
        <4>4. d \in Range(fed'[s]) /\ (SeqOf(s, d) < Turn(s))' BY <1>5, <4>3
        <4> QED BY <4>2, <4>4
      <3> QED BY <2>5, <3>1, <3>2
    <2>10. ASSUME NEW i \in DOMAIN ends'[s], NEW j \in DOMAIN ends'[s], i < j
           PROVE  (SeqOf(s, ends[s][i]) < SeqOf(s, ends[s][j]))'
      <3>1. i # n /\ i \in DOMAIN ends[s] BY <2>3, <2>4, <2>5, <2>10
      <3>2. PICK d : d = ends[s][i] OBVIOUS
      <3>3. ends'[s][i] = d /\ d \in Range(fed[s]) /\ SeqOf(s, d) < Turn(s) BY <2>4, <2>8, <3>1, <3>2
      <3>4. CASE j \in DOMAIN ends[s]
        <4>1. PICK e : e = ends[s][j] OBVIOUS
        <4>2. ends'[s][j] = e /\ e \in Range(fed[s]) BY <2>4, <2>8, <3>4, <4>1
        <4>3. SeqOf(s, d) < SeqOf(s, e) BY <2>10, <3>1, <3>2, <3>4, <4>1 DEF OrderOK
        <4>4. (SeqOf(s, d) < SeqOf(s, e))' BY <1>6, <3>3, <4>2, <4>3
        <4> QED BY <3>3, <4>2, <4>4
      <3>5. CASE j = n
        <4>1. (SeqOf(s, d) < SeqOf(s, c))' BY <1>6, <2>2, <2>6, <3>3
        <4> QED BY <2>4, <3>3, <3>5, <4>1
      <3> QED BY <2>5, <3>4, <3>5
    <2> QED BY <1>4, <2>9, <2>10 DEF OrderOK
  <1> QED BY <1>7, <1>8, EndsGrow

\* What was given back stays given back; the pause says so of what is on its list.
LEMMA GivenBackStays ==
    ASSUME Types, Next, NEW c \in Claims, GivenBack(c)
    PROVE  GivenBack(c)'
  <1>1. leaving \/ Told(c, "released") => GivenBack(c)' BY LeavingStays, ToldStays DEF GivenBack
  <1>2. CASE apply' = apply BY <1>1, <1>2 DEF GivenBack
  <1>3. CASE apply.at # "release" BY <1>1, <1>3 DEF GivenBack
  <1>4. ASSUME NEW s \in Sids, Release(s) PROVE GivenBack(c)'
    <2>1. apply \in ApplyRecord BY DEF Types, HubTypes, ApplyTypes
    <2>2. apply.at = "release" /\ apply'.at = "release" /\ apply'.given = apply.given \cup ReleasedBy(s, apply.now)
      BY <1>4, <2>1 DEF Release, ApplyRecord
    <2> QED BY <1>1, <2>2 DEF GivenBack
  <1>5. CASE TellReleased
    <2>1. apply.given \in SUBSET Claims BY DEF Types, HubTypes, ApplyTypes, ApplyRecord
    <2>2. SayReleased(apply.given) BY <1>5 DEF TellReleased
    <2>3. c \in apply.given => \/ leaving
                               \/ Said(c, "released")' = Said(c, "released") \cup {Len(heard[c]) + 1}
      BY <2>1, <2>2, SayingReleased
    <2>4. c \in apply.given => leaving \/ Told(c, "released")' BY <2>3 DEF Told
    <2> QED BY <1>1, <2>4, LeavingStays DEF GivenBack
  <1>6. Cases BY Steps
  <1>7. \/ apply' = apply \/ apply.at # "release" \/ TellReleased \/ \E s \in Sids : Release(s)
    <2>1. CASE Controls
      BY <2>1 DEF Controls, OwnerPauses, OwnerResumes, Owner, InstallChanges, Leave, Update,
         DrainForUpdate, DrainTests, DrainApplies, CountStarts, CountFinishing, CountEnds, CountBook,
         InstallFails, EndDrainReads, EndDrainApplies, ConnOnly, Pausing, WatcherReads, WatcherTests,
         WatcherApplies, CancelBenches, AbandonOne, Applies
    <2>2. CASE Ops BY <2>2, OpsLeave DEF hubVars
    <2>3. CASE Benches BY <2>3, BenchesLeave DEF hubVars
    <2>4. ASSUME NEW s \in Sids, Feed(s) PROVE apply' = apply BY <2>4, FeedLeaves
    <2>5. ASSUME NEW s \in Sids, Run(s) PROVE apply' = apply BY <2>5, RunLeaves DEF hubVars
    <2>6. ASSUME NEW s \in Sids, Reports(s) PROVE apply' = apply BY <2>6, ReportsLeave DEF hubVars
    <2>7. ASSUME NEW s \in Sids, NEW w, Work(s, w) PROVE apply' = apply BY <2>7, WorkLeaves DEF hubVars
    <2> QED BY <1>6, <2>1, <2>2, <2>3, <2>4, <2>5, <2>6, <2>7 DEF Cases
  <1> QED BY <1>2, <1>3, <1>4, <1>5, <1>7

\* An intake is opened with its session, and closed for good.
LEMMA IntakeStays ==
    ASSUME Types, Next, ExitOK, NEW s \in Sids, runner[s] # "none"
    PROVE  ses'[s].intake => ses[s].intake
  BY SessionMoves DEF Falls, ExitOK

\* What a step does to a runner, its queue and its intake.
LEMMA CrewMoves ==
    ASSUME Types, Next, ExitOK, WorkersOK, NEW s \in Sids, Moves(s), WholeOK(s)
    PROVE  /\ runner[s] = "unloaded" => runner'[s] = "unloaded"
           /\ runner[s] \in {"done", "unloaded"} =>
                 /\ runner'[s] = runner[s] /\ jobs'[s] = <<>> /\ ~ses'[s].intake
                 /\ \/ msgs'[s] = msgs[s] \/ Tidies(s)
           /\ runner[s] = "working" => runner'[s] \in {"working", "done"}
           /\ Hands(s) => ses[s].intake /\ runner'[s] = runner[s]
  <1>1. runner[s] # "none" => (ses'[s].intake => ses[s].intake) BY IntakeStays
  <1>2. CASE Hands(s)
    <2>1. ses[s].intake /\ runner'[s] = runner[s] BY <1>2 DEF Hands
    <2>2. runner[s] \notin {"done", "unloaded"} BY <2>1 DEF WholeOK
    <2> QED BY <2>1, <2>2
  <1>3. CASE ~Hands(s) /\ jobs'[s] = jobs[s] /\ runner'[s] = runner[s] /\ (msgs'[s] = msgs[s] \/ Tidies(s))
    BY <1>1, <1>3 DEF WholeOK
  <1>4. CASE ~Hands(s) /\ runner[s] \notin {"done", "unloaded"}
             /\ (runner[s] = "working" => runner'[s] \in {"working", "done"})
    BY <1>4
  <1>5. CASE Tidies(s)
    <2>1. jobs'[s] = jobs[s] /\ runner'[s] = runner[s] BY <1>5 DEF Tidies, CrewStays
    <2> QED BY <1>2, <1>3, <1>5, <2>1
  <1>6. CASE Offers(s) \/ FeedMoves(s)
    <2>1. jobs'[s] = jobs[s] /\ runner'[s] = runner[s] /\ msgs'[s] = msgs[s]
      BY <1>6 DEF Offers, FeedMoves, CrewStays
    <2> QED BY <1>2, <1>3, <2>1
  <1>7. CASE Idles(s)
    <2>1. jobs'[s] = jobs[s] /\ msgs'[s] = msgs[s]
          /\ (runner'[s] = runner[s] \/ (runner[s] = "none" /\ runner'[s] = "loading"))
      BY <1>7 DEF Idles
    <2> QED BY <1>2, <1>3, <1>4, <2>1
  <1>8. CASE Runs(s)
    <2>1. \/ runner[s] = "loading" \/ (runner[s] = "working" /\ runner'[s] = "done")
      BY <1>8 DEF Runs, RunStops, RunReadies, RunEnds
    <2> QED BY <1>2, <1>4, <2>1
  <1>9. ASSUME NEW w \in Workers, Works(s, w) PROVE runner[s] = "working" /\ runner'[s] = "working"
    BY <1>9 DEF Works
  <1> QED BY <1>2, <1>4, <1>5, <1>6, <1>7, <1>8, <1>9 DEF Moves, Feeds

\* An ended worker has left nothing behind.
EndedOK(s) ==
    /\ \A w \in Workers : worker[s][w].at = "ended" =>
          runner[s] \in {"working", "done"} /\ ~ses[s].intake /\ jobs[s] = <<>>
    /\ runner[s] \in {"done", "unloaded"} => ~ses[s].intake /\ jobs[s] = <<>>

\* Every step keeps a worker that ended, and a runner that is through, without jobs.
LEMMA EndedKept ==
    ASSUME Types, Next, ExitOK, WorkersOK, NEW s \in Sids, Moves(s), WholeOK(s)
    PROVE  EndedOK(s)'
  <1>1. runner[s] # "none" => (ses'[s].intake => ses[s].intake) BY IntakeStays
  <1>2. worker[s] \in [Workers -> WorkerRecord] BY DEF Types, RunTypes
  <1>3. CASE runner[s] \in {"done", "unloaded"}
    <2>1. runner'[s] = runner[s] /\ jobs'[s] = <<>> /\ ~ses'[s].intake BY <1>3, CrewMoves
    <2>2. \A w \in Workers : ~Works(s, w) BY <1>3 DEF Works
    <2>3. worker'[s] = worker[s]
      BY <2>2 DEF Moves, Idles, Offers, Feeds, FeedMoves, Hands, Runs, RunStops, RunReadies, RunEnds, Tidies, CrewStays
    <2>4. \A w \in Workers : worker'[s][w].at = "ended" => runner'[s] \in {"working", "done"}
      BY <2>1, <2>3 DEF WholeOK
    <2> QED BY <2>1, <2>4 DEF EndedOK
  <1>4. CASE RunEnds(s)
    <2>1. PICK w \in scene.workers : worker[s][w].at = "ended"
      <3>1. scene.workers # {} BY ConstantsAssumption DEF Types, HubTypes, Scene
      <3> QED BY <1>4, <3>1 DEF RunEnds
    <2>2. w \in Workers BY ConstantsAssumption DEF Types, HubTypes, Scene
    <2>3. ~ses[s].intake /\ jobs[s] = <<>> BY <2>1, <2>2 DEF WholeOK
    <2>4. runner'[s] = "done" /\ jobs'[s] = jobs[s] /\ runner[s] # "none" BY <1>4 DEF RunEnds
    <2> QED BY <1>1, <2>3, <2>4 DEF EndedOK
  <1>5. CASE RunStops(s)
    <2>1. runner[s] = "loading" /\ runner'[s] = "unloaded" /\ jobs'[s] = <<>> /\ ~ses'[s].intake
          /\ worker'[s] = worker[s]
      BY <1>5 DEF RunStops
    <2>2. \A w \in Workers : worker'[s][w].at # "ended" BY <2>1 DEF WholeOK
    <2> QED BY <2>1, <2>2 DEF EndedOK
  <1>6. CASE RunReadies(s)
    <2>1. runner[s] = "loading" /\ runner'[s] = "working" /\ worker'[s] = worker[s] BY <1>6 DEF RunReadies
    <2>2. \A w \in Workers : worker'[s][w].at # "ended" BY <2>1 DEF WholeOK
    <2> QED BY <2>1, <2>2 DEF EndedOK
  <1>7. CASE /\ runner[s] \notin {"done", "unloaded"} /\ worker'[s] = worker[s] /\ jobs'[s] = jobs[s]
             /\ runner'[s] = runner[s] \/ (runner[s] = "none" /\ runner'[s] = "loading")
    <2>1. \A w \in Workers : worker'[s][w].at = "ended" =>
             runner[s] = "working" /\ ~ses[s].intake /\ jobs[s] = <<>>
      BY <1>7 DEF WholeOK
    <2> QED BY <1>1, <1>7, <2>1 DEF EndedOK
  <1>8. CASE Hands(s) /\ runner[s] \notin {"done", "unloaded"}
    <2>1. ses[s].intake /\ worker'[s] = worker[s] /\ runner'[s] = runner[s] BY <1>8 DEF Hands
    <2>2. \A w \in Workers : worker'[s][w].at # "ended" BY <2>1 DEF WholeOK
    <2> QED BY <1>8, <2>1, <2>2 DEF EndedOK
  <1>9. ASSUME NEW w \in Workers, Works(s, w) PROVE EndedOK(s)'
    <2>1. runner[s] = "working" /\ runner'[s] = "working" BY <1>9 DEF Works
    <2>2. PICK r : Becomes(s, w, r) /\ (r.at = "ended" => WorkEnds(s, w))
      BY <1>9 DEF Works, WorkTakes, WorkHolds, WorkStarts, WorkReports, WorkEnds
    <2>3. worker'[s][w] = r /\ \A v \in Workers \ {w} : worker'[s][v] = worker[s][v] BY <1>2, <2>2 DEF Becomes
    <2>4. CASE WorkTakes(s, w)
      <3>1. jobs[s] # <<>> /\ r.at # "ended" BY <2>2, <2>4 DEF WorkTakes, WorkEnds
      <3>2. \A v \in Workers : worker'[s][v].at # "ended" BY <2>3, <3>1 DEF WholeOK
      <3> QED BY <2>1, <3>2 DEF EndedOK
    <2>5. CASE ~WorkTakes(s, w)
      <3>1. jobs'[s] = jobs[s] BY <1>9, <2>5 DEF Works, WorkHolds, WorkStarts, WorkReports, WorkEnds
      <3>2. ASSUME NEW v \in Workers, worker'[s][v].at = "ended" PROVE ~ses[s].intake /\ jobs[s] = <<>>
        <4>1. CASE v = w BY <2>2, <2>3, <3>2, <4>1 DEF WorkEnds
        <4>2. CASE v # w BY <2>3, <3>2, <4>2 DEF WholeOK
        <4> QED BY <4>1, <4>2
      <3> QED BY <1>1, <2>1, <3>1, <3>2 DEF EndedOK
    <2> QED BY <2>4, <2>5
  <1>10. Tidies(s) \/ Offers(s) \/ FeedMoves(s) => worker'[s] = worker[s] /\ jobs'[s] = jobs[s] /\ runner'[s] = runner[s]
    BY DEF Tidies, Offers, FeedMoves, CrewStays
  <1>11. Idles(s) => /\ worker'[s] = worker[s] /\ jobs'[s] = jobs[s]
                     /\ runner'[s] = runner[s] \/ (runner[s] = "none" /\ runner'[s] = "loading")
    BY DEF Idles
  <1> QED BY <1>3, <1>4, <1>5, <1>6, <1>7, <1>8, <1>9, <1>10, <1>11 DEF Moves, Feeds, Runs

\* The counter of turns only grows; a turn is over when its claim was told or settled in silence.
LEMMA TurnPasses ==
    ASSUME Types, NEW s \in Sids, MailOK(s), PlaceOK(s), Moves(s)
    PROVE  /\ nextSeq[s] \in Nat /\ nextSeq'[s] \in Nat /\ nextSeq'[s] >= nextSeq[s]
           /\ Turn(s)' <= nextSeq'[s]
           /\ \/ Turn(s)' = Turn(s)
              \/ /\ Turn(s)' = Turn(s) + 1 /\ Finishing(s)
                 /\ Tells(s) \/ (Settles(s) /\ (reporter[s].term.released \/ ~Talking(s)))
  <1>1. nextSeq[s] \in Nat BY DEF Types, RepTypes
  <1>2. (Finishing(s) => Turn(s) = nextSeq[s] - 1) /\ (~Finishing(s) => Turn(s) = nextSeq[s])
    BY DEF Turn
  <1>3. (Finishing(s)' => Turn(s)' = nextSeq'[s] - 1) /\ (~(Finishing(s)') => Turn(s)' = nextSeq'[s])
    BY DEF Turn
  <1>4. CASE nextSeq'[s] = nextSeq[s] /\ (Finishing(s)' <=> Finishing(s)) BY <1>1, <1>2, <1>3, <1>4
  <1>5. CASE Picks(s)
    <2>1. ~Finishing(s) BY <1>5 DEF Picks, Finishing
    <2>2. CASE reporter'[s].at = "idle" /\ nextSeq'[s] = nextSeq[s]
      <3>1. ~(Finishing(s)') BY <2>2 DEF Finishing
      <3> QED BY <1>4, <2>1, <2>2, <3>1
    <2>3. ASSUME NEW t, reporter'[s] = [at |-> "counted", term |-> t], nextSeq'[s] = nextSeq[s] + 1
          PROVE  nextSeq'[s] = nextSeq[s] + 1 /\ Finishing(s)'
      <3>1. reporter'[s].at = "counted" BY <2>3
      <3> QED BY <2>3, <3>1 DEF Finishing
    <2>4. CASE nextSeq'[s] = nextSeq[s] + 1 /\ Finishing(s)' BY <1>1, <1>2, <1>3, <2>1, <2>4
    <2> QED BY <1>5, <2>2, <2>3, <2>4 DEF Picks
  <1>6. CASE /\ nextSeq'[s] = nextSeq[s] /\ Finishing(s) /\ ~(Finishing(s)')
             /\ Tells(s) \/ (Settles(s) /\ (reporter[s].term.released \/ ~Talking(s)))
    BY <1>1, <1>2, <1>3, <1>6
  <1>7. CASE DeskStays(s)
    <2>1. nextSeq'[s] = nextSeq[s] /\ (Finishing(s)' <=> Finishing(s)) BY <1>7 DEF DeskStays, Finishing
    <2> QED BY <1>4, <2>1
  <1>8. CASE TakesEvent(s) \/ TakesTerm(s) \/ TakesExit(s) \/ Delivers(s) \/ Leaves(s)
    <2>1. nextSeq'[s] = nextSeq[s] /\ (Finishing(s)' <=> Finishing(s))
      BY <1>8 DEF TakesEvent, TakesTerm, TakesExit, TakesAny, Delivers, Leaves, Finishing
    <2> QED BY <1>4, <2>1
  <1>9. CASE Tells(s)
    <2>1. nextSeq'[s] = nextSeq[s] /\ Finishing(s) /\ ~(Finishing(s)') BY <1>9 DEF Tells, Finishing
    <2> QED BY <1>6, <1>9, <2>1
  <1>10. CASE Settles(s)
    <2>1. nextSeq'[s] = nextSeq[s] /\ Finishing(s) BY <1>10 DEF Settles, Finishing
    <2>2. \/ Finishing(s)'
          \/ ~(Finishing(s)') /\ (reporter[s].term.released \/ ~Talking(s))
      BY <1>10 DEF Settles, Finishing
    <2> QED BY <1>4, <1>6, <1>10, <2>1, <2>2
  <1> QED BY <1>5, <1>7, <1>8, <1>9, <1>10
          DEF Moves, Idles, Offers, Feeds, FeedMoves, Hands, Runs, Works, Tidies

\* Nothing leaves its place before its turn.
LEMMA KeepsPlaces ==
    ASSUME Types, Next, ExitOK, WorkersOK, NEW s \in Sids, FedOK(s), MailOK(s), PlaceOK(s), Moves(s), WholeOK(s),
           runner'[s] # "unloaded", NEW c \in Range(fed'[s]), SeqOf(s, c)' >= nextSeq'[s]
    PROVE  Placed(s, c)'
  <1>1. PlacesKept(s) BY PlaceKept
  <1>2. runner[s] # "unloaded" BY CrewMoves
  <1>3. CASE c \notin Range(fed[s]) BY <1>1, <1>3 DEF PlacesKept
  <1>4. CASE c \in Range(fed[s])
    <2>1. SeqOf(s, c)' = SeqOf(s, c) /\ SeqOf(s, c) \in Nat BY <1>4, SeqKept, Places
    <2>2. nextSeq[s] \in Nat /\ nextSeq'[s] \in Nat /\ nextSeq'[s] >= nextSeq[s] BY TurnPasses
    <2>3. SeqOf(s, c) >= nextSeq[s] /\ ~(SeqOf(s, c) < nextSeq'[s]) BY <2>1, <2>2
    <2>4. Placed(s, c) BY <1>2, <1>4, <2>3 DEF WholeOK
    <2> QED BY <1>1, <1>4, <2>3, <2>4 DEF PlacesKept
  <1> QED BY <1>3, <1>4

\* The exit is the last message, and nothing comes after it.
LastOK(s) ==
    /\ \A i \in DOMAIN msgs[s] : msgs[s][i].kind = "exit" => i = Len(msgs[s]) /\ runner[s] \in {"done", "unloaded"}
    /\ reporter[s].at \in {"exiting", "gone"} => msgs[s] = <<>> /\ runner[s] \in {"done", "unloaded"}

\* Every step keeps the exit message last.
LEMMA LastKept ==
    ASSUME Types, Next, ExitOK, WorkersOK, NEW s \in Sids, FedOK(s), MailOK(s), Moves(s), WholeOK(s)
    PROVE  LastOK(s)'
  <1>1. runner[s] \in {"done", "unloaded"} => runner'[s] = runner[s] /\ (msgs'[s] = msgs[s] \/ Tidies(s))
    BY CrewMoves
  <1>2. /\ \A i \in DOMAIN msgs[s] : msgs[s][i].kind = "exit" => i = Len(msgs[s]) /\ runner[s] \in {"done", "unloaded"}
        /\ reporter[s].at \in {"exiting", "gone"} => msgs[s] = <<>> /\ runner[s] \in {"done", "unloaded"}
    BY DEF WholeOK
  <1>3. CASE ~Tidies(s)
    <2>1. reporter'[s] = reporter[s] BY <1>3, Posting DEF DeskStays
    <2>2. reporter'[s].at \in {"exiting", "gone"} => msgs'[s] = <<>> /\ runner'[s] \in {"done", "unloaded"}
      BY <1>1, <1>2, <1>3, <2>1
    <2>3. CASE msgs'[s] = msgs[s] BY <1>1, <1>2, <2>2, <2>3 DEF LastOK
    <2>4. ASSUME NEW m \in Msg, msgs'[s] = Append(msgs[s], m), msgs'[s] # msgs[s],
                 m.kind = "exit" => RunStops(s) \/ RunEnds(s)
          PROVE  LastOK(s)'
      <3>1. runner[s] \notin {"done", "unloaded"} BY <1>1, <1>3, <2>4
      <3>2. m.kind = "exit" => runner'[s] \in {"done", "unloaded"} BY <2>4 DEF RunStops, RunEnds
      <3>3. /\ \A i \in DOMAIN msgs'[s] : i = Len(msgs[s]) + 1 \/ (i \in DOMAIN msgs[s] /\ msgs'[s][i] = msgs[s][i])
            /\ msgs'[s][Len(msgs[s]) + 1] = m /\ Len(msgs'[s]) = Len(msgs[s]) + 1
        <4>1. Len(Append(msgs[s], m)) = Len(msgs[s]) + 1 BY DEF Types, RepTypes
        <4> QED BY <2>4, <4>1, MailMoves
      <3>4. ASSUME NEW i \in DOMAIN msgs'[s], msgs'[s][i].kind = "exit"
            PROVE  i = Len(msgs'[s]) /\ runner'[s] \in {"done", "unloaded"}
        <4>1. i = Len(msgs[s]) + 1 BY <1>2, <3>1, <3>3, <3>4
        <4> QED BY <3>2, <3>3, <3>4, <4>1
      <3> QED BY <2>2, <3>4 DEF LastOK
    <2>5. msgs'[s] = msgs[s] \/ \E m \in Msg :
             msgs'[s] = Append(msgs[s], m) /\ (m.kind = "exit" => RunStops(s) \/ RunEnds(s))
      BY <1>3, Posting DEF IsAbout, IsTerm
    <2> QED BY <2>3, <2>4, <2>5
  <1>4. CASE Tidies(s)
    <2>1. runner'[s] = runner[s] BY <1>4 DEF Tidies, CrewStays
    <2>2. CASE msgs[s] # <<>> /\ msgs'[s] = Tail(msgs[s])
      <3>1. /\ msgs[s] \in Seq(Msg) /\ Len(msgs[s]) \in Nat /\ Len(msgs'[s]) = Len(msgs[s]) - 1
            /\ DOMAIN msgs'[s] = 1 .. Len(msgs[s]) - 1
            /\ \A i \in DOMAIN msgs'[s] : i + 1 \in DOMAIN msgs[s] /\ msgs'[s][i] = msgs[s][i + 1]
        BY <2>2, MailMoves, Taking
      <3>2. ASSUME NEW i \in DOMAIN msgs'[s], msgs'[s][i].kind = "exit"
            PROVE  i = Len(msgs'[s]) /\ runner'[s] \in {"done", "unloaded"}
        <4>1. i + 1 \in DOMAIN msgs[s] /\ msgs[s][i + 1].kind = "exit" BY <3>1, <3>2
        <4>2. i + 1 = Len(msgs[s]) /\ runner[s] \in {"done", "unloaded"} BY <1>2, <4>1
        <4> QED BY <2>1, <3>1, <4>2
      <3>3. TakesEvent(s) \/ TakesTerm(s) => reporter'[s].at \notin {"exiting", "gone"}
        BY DEF TakesEvent, TakesTerm, TakesAny
      <3>4. ASSUME TakesExit(s) PROVE msgs'[s] = <<>> /\ runner'[s] \in {"done", "unloaded"}
        <4>1. 1 \in DOMAIN msgs[s] /\ msgs[s][1].kind = "exit" BY <3>4, TakingFront DEF TakesExit
        <4>2. 1 = Len(msgs[s]) /\ runner[s] \in {"done", "unloaded"} BY <1>2, <4>1
        <4>3. Tail(msgs[s]) = <<>> BY <3>1, <4>2
        <4> QED BY <2>1, <2>2, <4>2, <4>3
      <3>5. ASSUME ~TakesEvent(s), ~TakesTerm(s), ~TakesExit(s) PROVE msgs'[s] = msgs[s]
        BY <1>4, <3>5 DEF Tidies, Picks, Settles, Delivers, Tells, Leaves
      <3>6. msgs'[s] # msgs[s] BY <3>1
      <3> QED BY <3>2, <3>3, <3>4, <3>5, <3>6 DEF LastOK
    <2>3. CASE /\ msgs'[s] = msgs[s]
               /\ reporter'[s].at \in {"exiting", "gone"} => reporter[s].at \in {"exiting", "gone"}
      BY <1>2, <2>1, <2>3 DEF LastOK
    <2>4. TakesEvent(s) \/ TakesTerm(s) \/ TakesExit(s) => msgs[s] # <<>> /\ msgs'[s] = Tail(msgs[s])
      BY DEF TakesEvent, TakesTerm, TakesExit, TakesAny
    <2>5. Picks(s) => /\ msgs'[s] = msgs[s] /\ reporter'[s].at \notin {"exiting", "gone"}
      <3>1. \A t : [at |-> "counted", term |-> t].at = "counted" OBVIOUS
      <3> QED BY <3>1 DEF Picks
    <2>6. Settles(s) \/ Delivers(s) \/ Tells(s) \/ Leaves(s) =>
             /\ msgs'[s] = msgs[s]
             /\ reporter'[s].at \in {"exiting", "gone"} => reporter[s].at \in {"exiting", "gone"}
      BY DEF Settles, Delivers, Tells, Leaves
    <2> QED BY <1>4, <2>2, <2>3, <2>4, <2>5, <2>6 DEF Tidies
  <1> QED BY <1>3, <1>4

\* A reporter that waits has the next terminal not there.
LEMMA AwaitsKept ==
    ASSUME Types, NEW s \in Sids, Moves(s), WholeOK(s)
    PROVE  reporter'[s].at \in {"idle", "exiting", "gone"} => \A t \in pending'[s] : t.seq # nextSeq'[s]
  <1>1. CASE DeskStays(s) BY <1>1 DEF DeskStays, WholeOK
  <1>2. CASE TakesEvent(s) \/ TakesTerm(s) \/ TakesExit(s)
    BY <1>2 DEF TakesEvent, TakesTerm, TakesExit, TakesAny, WholeOK
  <1>3. CASE Picks(s)
    <2>1. \A t : [at |-> "counted", term |-> t].at = "counted" OBVIOUS
    <2> QED BY <1>3, <2>1 DEF Picks
  <1>4. CASE Settles(s) \/ Delivers(s) \/ Tells(s) \/ Leaves(s) BY <1>4 DEF Settles, Delivers, Tells, Leaves, WholeOK
  <1> QED BY <1>1, <1>2, <1>3, <1>4 DEF Moves, Idles, Offers, Feeds, FeedMoves, Hands, Runs, Works, Tidies

\* A terminal that reports nothing is of a claim the pause gave back.
BackedOK(s) ==
    /\ \A i \in DOMAIN msgs[s] : IsTerm(msgs[s][i]) /\ msgs[s][i].term.released => GivenBack(msgs[s][i].term.claim)
    /\ \A t \in pending[s] : t.released => GivenBack(t.claim)
    /\ Finishing(s) /\ reporter[s].term.released => GivenBack(reporter[s].term.claim)

\* The claims that were given back.
BackClaims == {c \in Claims : GivenBack(c)}

\* The same, by the set of claims given back.
LEMMA BackedIs ==
    ASSUME Types, NEW s \in Sids
    PROVE  BackedOK(s) <=>
              /\ \A i \in DOMAIN msgs[s] :
                    IsTerm(msgs[s][i]) /\ msgs[s][i].term.released => msgs[s][i].term.claim \in BackClaims
              /\ \A t \in pending[s] : t.released => t.claim \in BackClaims
              /\ Finishing(s) /\ reporter[s].term.released => reporter[s].term.claim \in BackClaims
  <1>1. \A m \in Msg : IsTerm(m) => m.term.claim \in Claims BY Kinds DEF IsTerm, Terminal
  <1>2. \A i \in DOMAIN msgs[s] : msgs[s][i] \in Msg BY DEF Types, RepTypes
  <1>3. \A t \in pending[s] : t.claim \in Claims BY DEF Types, RepTypes, Terminal
  <1>4. Finishing(s) => reporter[s].term.claim \in Claims BY DEF Types, RepTypes, ReporterTypes, Terminal
  <1>5. \A c : c \in BackClaims <=> c \in Claims /\ GivenBack(c) BY DEF BackClaims
  <1>6. \A i \in DOMAIN msgs[s] : IsTerm(msgs[s][i]) => msgs[s][i].term.claim \in Claims BY <1>1, <1>2
  <1> QED BY <1>3, <1>4, <1>5, <1>6 DEF BackedOK

\* Every step keeps silent terminals those of claims given back.
LEMMA BackedKept ==
    ASSUME Types, Next, BackOK, NEW s \in Sids, MailOK(s), Moves(s), WholeOK(s)
    PROVE  BackedOK(s)'
  <1>0. BackClaims \subseteq BackClaims' BY GivenBackStays DEF BackClaims
  <1>1. /\ \A i \in DOMAIN msgs[s] :
              IsTerm(msgs[s][i]) /\ msgs[s][i].term.released => msgs[s][i].term.claim \in BackClaims
        /\ \A t \in pending[s] : t.released => t.claim \in BackClaims
        /\ Finishing(s) /\ reporter[s].term.released => reporter[s].term.claim \in BackClaims
    BY BackedIs DEF WholeOK, BackedOK
  <1>2. Types' BY TypesKept
  <1>3. released \subseteq BackClaims BY DEF BackOK, GivenBack, BackClaims, Types, BookTypes
  <1> DEFINE Fine(m) == IsTerm(m) /\ m.term.released => m.term.claim \in BackClaims'
  <1>4. \A i \in DOMAIN msgs[s] : Fine(msgs[s][i]) BY <1>0, <1>1
  <1>5. \A n : (IsTerm(n) => (n.term.released => n.term.claim \in released)) => Fine(n) BY <1>0, <1>3
  <1> HIDE DEF Fine
  <1>6. \A i \in DOMAIN msgs'[s] : Fine(msgs'[s][i])
    <2>1. CASE msgs'[s] = msgs[s] BY <1>4, <2>1
    <2>2. CASE msgs[s] # <<>> /\ msgs'[s] = Tail(msgs[s])
      <3>1. \A i \in DOMAIN msgs'[s] : i + 1 \in DOMAIN msgs[s] /\ msgs'[s][i] = msgs[s][i + 1] BY <2>2, MailMoves
      <3> QED BY <1>4, <3>1
    <2>3. ASSUME NEW n \in Msg, msgs'[s] = Append(msgs[s], n), Fine(n) PROVE \A i \in DOMAIN msgs'[s] : Fine(msgs'[s][i])
      <3>1. \A i \in DOMAIN msgs'[s] : i = Len(msgs[s]) + 1 \/ i \in DOMAIN msgs[s] BY <2>3, MailMoves
      <3>2. msgs'[s][Len(msgs[s]) + 1] = n /\ \A i \in DOMAIN msgs[s] : msgs'[s][i] = msgs[s][i] BY <2>3, MailMoves
      <3> QED BY <1>4, <2>3, <3>1, <3>2
    <2>4. CASE Tidies(s)
      <3>1. msgs'[s] = msgs[s] \/ (msgs[s] # <<>> /\ msgs'[s] = Tail(msgs[s]))
        BY <2>4 DEF Tidies, TakesEvent, TakesTerm, TakesExit, TakesAny, Picks, Settles, Delivers, Tells, Leaves
      <3> QED BY <2>1, <2>2, <3>1
    <2>5. CASE ~Tidies(s)
      <3>1. msgs'[s] = msgs[s] \/ \E n \in Msg :
               msgs'[s] = Append(msgs[s], n) /\ (IsTerm(n) => (n.term.released => n.term.claim \in released))
        BY <2>5, Posting DEF IsAbout, IsTerm
      <3> QED BY <1>5, <2>1, <2>3, <3>1
    <2> QED BY <2>4, <2>5
  <1>7. \A t \in pending'[s] : t.released => t.claim \in BackClaims'
    <2>1. CASE TakesTerm(s)
      <3>1. pending'[s] = pending[s] \cup {Head(msgs[s]).term} /\ IsTerm(Head(msgs[s])) /\ TakesAny(s)
        BY <2>1 DEF TakesTerm
      <3>2. Head(msgs[s]) = msgs[s][1] /\ 1 \in DOMAIN msgs[s] BY <3>1, TakingFront
      <3>3. Fine(Head(msgs[s])) BY <1>4, <3>2
      <3> QED BY <1>0, <1>1, <3>1, <3>3 DEF Fine
    <2>2. CASE ~TakesTerm(s)
      <3>1. pending'[s] \subseteq pending[s]
        BY <2>2 DEF Moves, Idles, Offers, Feeds, FeedMoves, Hands, Runs, Works, DeskStays, Tidies, TakesEvent,
           TakesExit, Picks, Settles, Delivers, Tells, Leaves
      <3> QED BY <1>0, <1>1, <3>1
    <2> QED BY <2>1, <2>2
  <1>8. Finishing(s)' /\ reporter'[s].term.released => reporter'[s].term.claim \in BackClaims'
    <2>1. ASSUME NEW t \in pending[s], reporter'[s] = [at |-> "counted", term |-> t]
          PROVE  reporter'[s].term.released => reporter'[s].term.claim \in BackClaims'
      <3>1. reporter'[s].term = t BY <2>1
      <3> QED BY <1>0, <1>1, <3>1
    <2>2. CASE /\ Finishing(s)' => /\ Finishing(s) /\ reporter'[s].term.claim = reporter[s].term.claim
                                   /\ reporter'[s].term.released = reporter[s].term.released
      BY <1>0, <1>1, <2>2
    <2>3. CASE ~(Finishing(s)') BY <2>3
    <2>4. CASE DeskStays(s) BY <2>2, <2>4 DEF DeskStays, Finishing
    <2>5. CASE Picks(s)
      <3>1. reporter'[s].at = "idle" => ~(Finishing(s)') BY DEF Finishing
      <3> QED BY <2>1, <2>3, <2>5, <3>1 DEF Picks
    <2>6. CASE TakesEvent(s) \/ TakesTerm(s) \/ TakesExit(s) \/ Settles(s) \/ Delivers(s) \/ Tells(s) \/ Leaves(s)
      <3>1. \/ ~(Finishing(s)')
            \/ /\ Finishing(s) /\ reporter'[s].term.claim = reporter[s].term.claim
               /\ reporter'[s].term.released = reporter[s].term.released
        BY <2>6 DEF TakesEvent, TakesTerm, TakesExit, TakesAny, Settles, Delivers, Tells, Leaves, Finishing
      <3> QED BY <2>2, <2>3, <3>1
    <2> QED BY <2>4, <2>5, <2>6 DEF Moves, Idles, Offers, Feeds, FeedMoves, Hands, Runs, Works, Tidies
  <1>9. \A i \in DOMAIN msgs'[s] :
           IsTerm(msgs'[s][i]) /\ msgs'[s][i].term.released => msgs'[s][i].term.claim \in BackClaims'
    BY <1>6 DEF Fine
  <1>10. (BackedOK(s) <=>
              /\ \A i \in DOMAIN msgs[s] :
                    IsTerm(msgs[s][i]) /\ msgs[s][i].term.released => msgs[s][i].term.claim \in BackClaims
              /\ \A t \in pending[s] : t.released => t.claim \in BackClaims
              /\ Finishing(s) /\ reporter[s].term.released => reporter[s].term.claim \in BackClaims)'
    BY <1>2, BackedIs, PTL
  <1> QED BY <1>7, <1>8, <1>9, <1>10 DEF IsTerm

\* A claim whose turn is over was told of, or given back, or nobody hears the session.
Heard(s, c) == ~Talking(s) \/ Told(c, "done") \/ Told(c, "failed") \/ GivenBack(c)

\* Every step keeps a turn that is over heard of.
LEMMA TurnsHeard ==
    ASSUME Types, Next, NEW s \in Sids, FedOK(s), MailOK(s), PlaceOK(s), Moves(s), WholeOK(s),
           NEW c \in Range(fed'[s]), SeqOf(s, c)' < Turn(s)'
    PROVE  Heard(s, c)'
  <1>1. /\ nextSeq[s] \in Nat /\ nextSeq'[s] \in Nat /\ Turn(s)' <= nextSeq'[s]
        /\ \/ Turn(s)' = Turn(s)
           \/ /\ Turn(s)' = Turn(s) + 1 /\ Finishing(s)
              /\ Tells(s) \/ (Settles(s) /\ (reporter[s].term.released \/ ~Talking(s)))
    BY TurnPasses
  <1>2. Turn(s) \in Int /\ (\A d : InHand(s, d) => SeqOf(s, d) = Turn(s)) /\ Turn(s)' \in Int BY TurnGrows
  <1>3. PlacesKept(s) BY PlaceKept
  <1>4. CASE c \notin Range(fed[s])
    <2>1. Placed(s, c)' BY <1>3, <1>4 DEF PlacesKept
    <2>4. fed' \in [Sids -> Seq(Claims)] BY TypesKept DEF Types, RunTypes
    <2>2. c \in Claims BY <2>4 DEF Range
    <2>3. SeqOf(s, c)' >= nextSeq'[s] BY <1>3, <2>1, <2>2 DEF PlacesKept, PlaceOK
    <2>5. SeqOf(s, c)' \in Int
      <3>1. \E i \in DOMAIN fed'[s] : fed'[s][i] = c BY DEF Range
      <3>2. SeqOf(s, c)' \in DOMAIN fed'[s] BY <3>1 DEF SeqOf
      <3> QED BY <2>4, <3>2
    <2> QED BY <1>1, <1>2, <2>3, <2>5
  <1>5. CASE c \in Range(fed[s])
    <2>1. SeqOf(s, c)' = SeqOf(s, c) /\ SeqOf(s, c) \in Nat /\ c \in Claims /\ SidOf[c] = s
      BY <1>5, SeqKept, Places DEF FedOK
    <2>2. CASE SeqOf(s, c) < Turn(s)
      <3>1. Heard(s, c) BY <1>5, <2>2 DEF WholeOK, Heard
      <3> QED BY <2>1, <3>1, SilenceStays, ToldStays, GivenBackStays DEF Heard
    <2>3. CASE ~(SeqOf(s, c) < Turn(s))
      <3>1. /\ Turn(s)' = Turn(s) + 1 /\ Finishing(s)
            /\ Tells(s) \/ (Settles(s) /\ (reporter[s].term.released \/ ~Talking(s)))
        BY <1>1, <1>2, <2>1, <2>3
      <3>2. SeqOf(s, c) = Turn(s) BY <1>2, <2>1, <2>3, <3>1
      <3>3. PICK d : d = reporter[s].term.claim OBVIOUS
      <3>4. d \in Claims /\ d \in Range(fed[s]) /\ SidOf[d] = s /\ InHand(s, d) BY <3>1, <3>3, InHandAlone
      <3>5. d = c
        <4>1. SeqOf(s, d) = SeqOf(s, c) BY <1>2, <3>2, <3>4
        <4> QED BY <1>5, <3>4, <4>1, Places
      <3>6. CASE Tells(s)
        <4>1. PICK e \in {"done", "failed"} : Say(c, e) BY <3>3, <3>5, <3>6 DEF Tells
        <4>2. ~Talking(s) \/ Said(c, e)' = Said(c, e) \cup {Len(heard[c]) + 1} BY <2>1, <4>1, Saying DEF Events
        <4>3. ~Talking(s) \/ Told(c, e)' BY <4>2 DEF Told
        <4> QED BY <4>3, SilenceStays DEF Heard
      <3>7. CASE reporter[s].term.released
        <4>1. GivenBack(c) BY <3>1, <3>3, <3>5, <3>7 DEF WholeOK
        <4> QED BY <2>1, <4>1, GivenBackStays DEF Heard
      <3>8. CASE ~Talking(s) BY <3>8, SilenceStays DEF Heard
      <3> QED BY <3>1, <3>6, <3>7, <3>8
    <2> QED BY <2>2, <2>3
  <1> QED BY <1>4, <1>5

\* Every step keeps everything between runner and reporter accounted for.
LEMMA WholeKept ==
    ASSUME Types, Next, ExitOK, WorkersOK, BackOK, NEW s \in Sids, FedOK(s), MailOK(s), PlaceOK(s), Moves(s), WholeOK(s)
    PROVE  WholeOK(s)'
  <1>1. runner'[s] # "unloaded" => \A c \in Range(fed'[s]) : SeqOf(s, c)' >= nextSeq'[s] => Placed(s, c)'
    BY KeepsPlaces
  <1>2. EndedOK(s)' BY EndedKept
  <1>3. LastOK(s)' BY LastKept
  <1>4. reporter'[s].at \in {"idle", "exiting", "gone"} => \A t \in pending'[s] : t.seq # nextSeq'[s] BY AwaitsKept
  <1>5. BackedOK(s)' BY BackedKept
  <1>6. \A c \in Range(fed'[s]) : SeqOf(s, c)' < Turn(s)' => Heard(s, c)' BY TurnsHeard
  <1> QED BY <1>1, <1>2, <1>3, <1>4, <1>5, <1>6 DEF WholeOK, EndedOK, LastOK, BackedOK, Heard

-----------------------------------------------------------------------------
(* The inductive invariant.                                                *)

IInv == HubInv /\ LineOK

\* The lines' invariant holds at the start.
LEMMA InitLine == ASSUME Init PROVE LineOK
  <1> SUFFICES ASSUME NEW s \in Sids
               PROVE  FedOK(s) /\ MailOK(s) /\ PlaceOK(s) /\ StartOK(s) /\ OrderOK(s) /\ WholeOK(s)
    BY DEF LineOK
  <1>1. /\ queue[s] = <<>> /\ fed[s] = <<>> /\ jobs[s] = <<>> /\ msgs[s] = <<>> /\ pending[s] = {} /\ ends[s] = <<>>
        /\ feeder[s].at = "idle" /\ reporter[s].at = "idle" /\ runner[s] = "none" /\ nextSeq[s] = 1
        /\ \A w \in Workers : worker[s][w] = IdleWorker
    BY DEF Init
  <1>2. DOMAIN <<>> = {} /\ Range(<<>>) = {} /\ Len(<<>>) = 0 BY DEF Range
  <1>3. \A c \in Claims : \A e : Said(c, e) = {} BY DEF Init, Said
  <1>4. \A c \in Claims : \A e : ~Told(c, e) BY <1>3 DEF Told
  <1>5. ~Holding(s) /\ ~Finishing(s) BY <1>1 DEF Holding, Finishing
  <1>6. \A w \in Workers : ~Busy(s, w) /\ ~worker[s][w].started /\ worker[s][w].at = "idle"
    BY <1>1 DEF Busy, IdleWorker
  <1>7. \A c \in Claims : ~InJobs(s, c) /\ ~InWork(s, c) /\ ~InMail(s, c) /\ ~InPending(s, c) /\ ~InHand(s, c)
    BY <1>1, <1>2, <1>5, <1>6 DEF InJobs, InWork, InMail, InPending, InHand
  <1>8. FedOK(s) BY <1>1, <1>2, <1>3, <1>4, <1>5 DEF FedOK, Distinct, AtMostOne
  <1>9. MailOK(s) BY <1>1, <1>2, <1>4, <1>5 DEF MailOK
  <1>10. PlaceOK(s)
    <2>1. OneWorker(s) /\ OneTerminal(s) /\ OnePending(s) /\ Distinct(jobs[s])
      BY <1>1, <1>2, <1>6 DEF OneWorker, OneTerminal, OnePending, Distinct
    <2>2. nextSeq[s] \in 1 .. Len(fed[s]) + 1 BY <1>1, <1>2
    <2> QED BY <1>5, <1>7, <2>1, <2>2 DEF PlaceOK, Placed
  <1>11. StartOK(s)
    <2>1. \A c \in Claims : ~Unstarted(s, c) /\ ~Begun(s, c)
      BY <1>1, <1>2, <1>5, <1>6, <1>7 DEF Unstarted, UnWork, UnMail, UnPending, UnHand, Begun, BeWork, BeMail,
         BePending, BeHand
    <2>2. \A c \in Claims : StartOnce(s, c) /\ Story(c) BY <1>1, <1>2, <1>3 DEF StartOnce, Story, AtMostOne
    <2> QED BY <1>1, <1>2, <1>6, <2>1, <2>2 DEF StartOK
  <1>12. OrderOK(s) BY <1>1, <1>2, <1>3, <1>4 DEF OrderOK, AtMostOne
  <1>13. WholeOK(s) BY <1>1, <1>2, <1>5, <1>6 DEF WholeOK
  <1> QED BY <1>8, <1>9, <1>10, <1>11, <1>12, <1>13

\* Every step keeps the lines' invariant.
LEMMA LineKept == ASSUME HubInv, LineOK, Next PROVE LineOK'
  <1>1. /\ Types /\ ExitOK /\ WorkersOK /\ BackOK /\ Types' BY TypesKept DEF HubInv
  <1> SUFFICES ASSUME NEW s \in Sids
               PROVE  (FedOK(s) /\ MailOK(s) /\ PlaceOK(s) /\ StartOK(s) /\ OrderOK(s) /\ WholeOK(s))'
    BY DEF LineOK
  <1>2. Moves(s) BY <1>1, LineMoves DEF LineOK
  <1>3. FedOK(s) /\ MailOK(s) /\ PlaceOK(s) /\ StartOK(s) /\ OrderOK(s) /\ WholeOK(s) BY DEF LineOK
  <1>4. FedOK(s)' BY <1>1, <1>2, <1>3, FedKept
  <1>5. MailOK(s)' BY <1>1, <1>2, <1>3, MailKept
  <1>6. PlaceOK(s)' BY <1>1, <1>2, <1>3, PlaceKept DEF PlacesKept
  <1>7. StartOK(s)' BY <1>1, <1>2, <1>3, StartKept
  <1>8. OrderOK(s)' BY <1>1, <1>2, <1>3, OrderKept
  <1>9. WholeOK(s)' BY <1>1, <1>2, <1>3, WholeKept
  <1> QED BY <1>4, <1>5, <1>6, <1>7, <1>8, <1>9

\* The lines' invariant survives a stutter.
LEMMA LineKeptAsIs == ASSUME LineOK, UNCHANGED vars PROVE LineOK'
  <1> SUFFICES ASSUME NEW s \in Sids
               PROVE  (FedOK(s) /\ MailOK(s) /\ PlaceOK(s) /\ StartOK(s) /\ OrderOK(s) /\ WholeOK(s))'
    BY DEF LineOK
  <1> USE DEF vars, hubVars, bookVars, feedVars, runVars, repVars, saidVars
  <1>1. FedOK(s) /\ MailOK(s) /\ PlaceOK(s) /\ StartOK(s) /\ OrderOK(s) /\ WholeOK(s) BY DEF LineOK
  <1>2. \A c, e : (Told(c, e)' = Told(c, e)) /\ (Said(c, e)' = Said(c, e)) BY DEF Told, Said
  <1>3. FedOK(s)' BY <1>1, <1>2 DEF FedOK, Holding
  <1>4. \A c : (SeqOf(s, c)' = SeqOf(s, c)) BY DEF SeqOf
  <1>5. MailOK(s)' BY <1>1, <1>2, <1>4 DEF MailOK, Posted, Fits, Finishing
  <1>6. PlaceOK(s)'
    BY <1>1, <1>4 DEF PlaceOK, OneWorker, OneTerminal, OnePending, Placed, InJobs, InWork, InMail, InPending, Busy,
       Finishing
  <1>7. StartOK(s)'
    <2>1. \A c : /\ (Unstarted(s, c)' <=> Unstarted(s, c)) /\ (Begun(s, c)' <=> Begun(s, c))
      BY DEF Unstarted, UnWork, UnMail, UnPending, UnHand, Begun, BeWork, BeMail, BePending, BeHand, InJobs,
         InHand, Busy, Finishing
    <2>2. \A c : (Unspoken(s, c)' <=> Unspoken(s, c)) /\ (StartOnce(s, c)' <=> StartOnce(s, c))
      BY <1>2 DEF Unspoken, StartOnce
    <2>3. \A c, e : Waits(s, c, e)' <=> Waits(s, c, e)
      BY DEF Waits, InPending, InHand, Finishing
    <2>4. \A c, e : Due(s, c, e)' <=> Due(s, c, e) BY <1>2, <2>3 DEF Due, Talking
    <2>5. \A c : Story(c)' <=> Story(c) BY <1>2 DEF Story
    <2> QED BY <1>1, <2>1, <2>2, <2>4, <2>5 DEF StartOK
  <1>8. Turn(s)' = Turn(s) BY DEF Turn, Finishing
  <1>9. OrderOK(s)'
    <2>1. ends' = ends OBVIOUS
    <2> HIDE DEF saidVars
    <2> QED BY <1>1, <1>2, <1>4, <1>8, <2>1 DEF OrderOK
  <1>10. WholeOK(s)'
    <2>1. \A c : (GivenBack(c)' <=> GivenBack(c)) /\ (Placed(s, c)' <=> Placed(s, c))
      BY <1>2 DEF GivenBack, Placed, InJobs, InWork, InMail, InPending, Busy
    <2>2. (Finishing(s)' <=> Finishing(s)) /\ (Talking(s)' <=> Talking(s)) BY DEF Finishing, Talking
    <2> QED BY <1>1, <1>2, <1>4, <1>8, <2>1, <2>2 DEF WholeOK
  <1> QED BY <1>3, <1>5, <1>6, <1>7, <1>9, <1>10

\* The hub's books and every session's line are in order in every reachable state: the
\* invariant all the theorems below follow from.
THEOREM Inductive == Spec => []IInv
  <1>1. Init => IInv BY InitHub, InitLine DEF IInv
  <1>2. IInv /\ [Next]_vars => IInv'
    <2>1. ASSUME HubInv, [Next]_vars PROVE HubInv' BY <2>1, HubStep
    <2>2. CASE IInv /\ Next BY <2>1, <2>2, LineKept DEF IInv
    <2>3. CASE IInv /\ UNCHANGED vars BY <2>1, <2>3, LineKeptAsIs DEF IInv
    <2> QED BY <2>2, <2>3
  <1> QED BY <1>1, <1>2, PTL DEF Spec

-----------------------------------------------------------------------------
(* What follows from it.                                                   *)

\* What the books and the lines say of a claim's ends.
LEMMA OneEnd ==
    ASSUME IInv, NEW c \in Claims
    PROVE  /\ AtMostOne(Outcome(c)) /\ AtMostOne(Said(c, "started"))
           /\ Said(c, "returned") # {} => Said(c, "ready") = {}
  <1>1. SidOf[c] \in Sids BY ConstantsAssumption
  <1>2. PICK s \in Sids : s = SidOf[c] BY <1>1
  <1>3. FedOK(s) /\ MailOK(s) /\ StartOK(s) /\ OrderOK(s) BY DEF IInv, LineOK
  <1>4. Told(c, "returned") => c \notin Range(fed[s]) BY <1>2, <1>3 DEF FedOK
  <1>5. Told(c, "done") \/ Told(c, "failed") \/ Told(c, "ready") => c \in Range(fed[s]) BY <1>2, <1>3 DEF MailOK
  <1>6. AtMostOne(Said(c, "returned")) /\ AtMostOne(Said(c, "done") \cup Said(c, "failed"))
    BY <1>2, <1>3 DEF FedOK, OrderOK
  <1>7. AtMostOne(Said(c, "started")) BY <1>2, <1>3 DEF StartOK, Story
  <1>8. Said(c, "returned") = {} \/ Said(c, "done") \cup Said(c, "failed") = {} BY <1>4, <1>5 DEF Told
  <1>9. AtMostOne(Outcome(c)) BY <1>6, <1>8 DEF Outcome, AtMostOne
  <1> QED BY <1>4, <1>5, <1>7, <1>9 DEF Told

\* Each claim's end, each release and each exit is said once, and a volume's events in their
\* order: started after ready, done or failed after started (report, finish_volume, give_back,
\* apply_pause, end_session).
THEOREM SaysOnce == Spec => []SaidOnce
  <1>1. IInv => OneOutcome
    <2> SUFFICES ASSUME IInv, NEW c \in Claims
                 PROVE  /\ Cardinality(Outcome(c)) <= 1 /\ Cardinality(Said(c, "started")) <= 1
                        /\ \A i \in Said(c, "started") : \E j \in Said(c, "ready") : j < i
                        /\ \A i \in Said(c, "done") \cup Said(c, "failed") : \E j \in Said(c, "started") : j < i
                        /\ Said(c, "returned") # {} => Said(c, "ready") = {}
      BY DEF OneOutcome
    <2>1. Cardinality(Outcome(c)) <= 1 /\ Cardinality(Said(c, "started")) <= 1 BY OneEnd, Single
    <2>2. Said(c, "returned") # {} => Said(c, "ready") = {} BY OneEnd
    <2>3. Story(c)
      <3>1. SidOf[c] \in Sids BY ConstantsAssumption
      <3> QED BY <3>1 DEF IInv, LineOK, StartOK
    <2> QED BY <2>1, <2>2, <2>3 DEF Story
  <1>2. IInv /\ ReleasedOnce /\ ExitOnce => SaidOnce BY <1>1 DEF SaidOnce
  <1> QED BY <1>2, Inductive, ReleasesOnce, ExitsOnce, PTL

\* Whatever the order the workers of a runner finish in, the ends of the volumes are told in
\* the order the feeder handed them over (report's pending map and next sequence number).
THEOREM EndsAreInOrder == Spec => []EndsInOrder
  <1>1. IInv => EndsInOrder BY DEF IInv, LineOK, OrderOK, EndsInOrder
  <1> QED BY <1>1, Inductive, PTL

\* When a runner and its reporter are through, the turn of every claim they had is over.
LEMMA AllTurnsOver ==
    ASSUME IInv, NEW s \in Sids, reporter[s].at = "gone", runner[s] = "done", NEW c \in Range(fed[s])
    PROVE  SeqOf(s, c) < Turn(s)
  <1>1. Types /\ WorkersOK /\ FedOK(s) /\ MailOK(s) /\ PlaceOK(s) /\ WholeOK(s) BY DEF IInv, HubInv, LineOK
  <1>2. msgs[s] = <<>> /\ jobs[s] = <<>> /\ \A t \in pending[s] : t.seq # nextSeq[s] BY <1>1 DEF WholeOK
  <1>3. \A d : ~InJobs(s, d) /\ ~InWork(s, d) /\ ~InMail(s, d)
    BY <1>1, <1>2 DEF InJobs, InWork, InMail, WorkersOK
  <1>4. Turn(s) = nextSeq[s] /\ nextSeq[s] \in Nat BY <1>1 DEF Turn, Finishing, Types, RepTypes
  <1>5. fed[s] \in Seq(Claims) /\ nextSeq[s] \in 1 .. Len(fed[s]) + 1 BY <1>1 DEF Types, RunTypes, PlaceOK
  <1>6. ~(nextSeq[s] <= Len(fed[s]))
    <2> SUFFICES ASSUME nextSeq[s] <= Len(fed[s]) PROVE FALSE OBVIOUS
    <2>1. nextSeq[s] \in DOMAIN fed[s] BY <1>5
    <2>2. PICK d : d = fed[s][nextSeq[s]] OBVIOUS
    <2>3. d \in Range(fed[s]) /\ SeqOf(s, d) = nextSeq[s]
      BY <1>1, <2>1, <2>2 DEF Range, SeqOf, FedOK, Distinct
    <2>4. Placed(s, d) BY <1>1, <1>4, <2>3 DEF WholeOK
    <2>5. PICK t \in pending[s] : t.claim = d BY <1>3, <2>4 DEF Placed, InPending
    <2>6. t.seq = nextSeq[s] BY <1>1, <2>3, <2>5 DEF MailOK, Fits
    <2> QED BY <1>2, <2>6
  <1>7. SeqOf(s, c) \in DOMAIN fed[s]
    <2>1. \E i \in DOMAIN fed[s] : fed[s][i] = c BY DEF Range
    <2> QED BY <2>1 DEF SeqOf
  <1> QED BY <1>4, <1>5, <1>6, <1>7

\* A session that says its exit has told of every claim its runner was handed, or gave it back:
\* nothing in the queue, with a worker or in the reporter's map is lost (run_session, report,
\* end_session).
THEOREM ExitIsComplete == Spec => []ExitLeavesNoneBehind
  <1>1. IInv => ExitLeavesNoneBehind
    <2> SUFFICES ASSUME IInv, NEW s \in Sids, reporter[s].at = "gone", runner[s] = "done", Talking(s),
                        NEW c \in Range(fed[s])
                 PROVE  Outcome(c) # {} \/ Said(c, "released") # {} \/ c \in apply.given
      BY DEF ExitLeavesNoneBehind
    <2>1. SeqOf(s, c) < Turn(s) BY AllTurnsOver
    <2>2. Told(c, "done") \/ Told(c, "failed") \/ GivenBack(c) BY <2>1 DEF IInv, LineOK, WholeOK
    <2> QED BY <2>2 DEF Told, GivenBack, Outcome, Talking
  <1> QED BY <1>1, Inductive, PTL

-----------------------------------------------------------------------------
(* The update's wait.                                                      *)

\* While the update counts and installs, its drain is in force: without an owner who resumes,
\* nothing lifts the pause it applied.
DrainOK ==
    /\ apply.at # "free" /\ apply.by = "connection" => conn.at = "busy"
    /\ conn.at \in {"drained", "drain", "waiting", "book", "finishing", "updating"} => draining
    /\ conn.at \in {"ended", "end"} => ~draining
    /\ ~scene.resumes =>
          /\ unseen => owner # "no"
          /\ watcher.at \in {"read", "apply"} => watcher.mode # "no"
          /\ conn.at \in {"waiting", "book", "finishing", "updating"} => paused # "no"
          /\ conn.at = "busy" /\ draining => paused # "no"

\* A session is gone with its reporter, or never had a runner.
GoneOK == \A s \in Sids : ses[s].state = "gone" => runner[s] = "none" \/ reporter[s].at \in {"exiting", "gone"}

\* A claim that is on its way, and not yet told of or given up by the feeder ...
InLine(s, c) ==
    \/ c \in Range(queue[s])
    \/ Holding(s) /\ feeder[s].at # "settled" /\ feeder[s].claim = c
    \/ Placed(s, c)
    \/ reporter[s].at = "counted" /\ reporter[s].term.claim = c

\* ... is in its session's book.
InBook(s) == \A c \in Claims : InLine(s, c) => c \in outstanding
BookOK == \A s \in Sids : InBook(s)

\* The session's book was counted, and then its volumes past the runner.
Counted(s) == conn.at \in {"book", "finishing", "updating"} /\ s \notin conn.left
Passed(s) == Counted(s) /\ ~(conn.at = "finishing" /\ conn.sid = s)

\* What was found idle stays so under the drain.
CountOK ==
    ~scene.resumes =>
        /\ \A c \in Answered : Counted(SidOf[c]) => c \in released
        /\ \A s \in Sids : Passed(s) /\ Finishing(s) /\ Talking(s) => GivenBack(reporter[s].term.claim)
        /\ conn.at = "updating" => conn.left = {} /\ \A b \in Bids : bench[b] \in {"none", "gone"}

UInv == DrainOK /\ GoneOK /\ BookOK /\ CountOK

\* Only the owner, the watcher, the update and a leave move the hub.
LEMMA HubRests ==
    ASSUME Types, Next, ~Controls
    PROVE  UNCHANGED <<scene, owner, unseen, watcher, paused, apply, draining, conn>>
  <1>1. Cases /\ scene' = scene BY Steps
  <1>2. CASE Ops BY <1>1, <1>2, OpsLeave DEF hubVars
  <1>3. CASE Benches BY <1>1, <1>3, BenchesLeave DEF hubVars
  <1>4. ASSUME NEW s \in Sids, Feed(s) PROVE UNCHANGED <<owner, unseen, watcher, paused, apply, draining, conn>>
    BY <1>4, FeedLeaves
  <1>5. ASSUME NEW s \in Sids, Run(s) PROVE UNCHANGED <<owner, unseen, watcher, paused, apply, draining, conn>>
    BY <1>5, RunLeaves DEF hubVars
  <1>6. ASSUME NEW s \in Sids, Reports(s) PROVE UNCHANGED <<owner, unseen, watcher, paused, apply, draining, conn>>
    BY <1>6, ReportsLeave DEF hubVars
  <1>7. ASSUME NEW s \in Sids, NEW w, Work(s, w) PROVE UNCHANGED <<owner, unseen, watcher, paused, apply, draining, conn>>
    BY <1>7, WorkLeaves DEF hubVars
  <1> QED BY <1>1, <1>2, <1>3, <1>4, <1>5, <1>6, <1>7 DEF Cases

\* Every step keeps the drain in force while the update waits.
LEMMA DrainKept ==
    ASSUME Types, DrainOK, Next
    PROVE  DrainOK'
  <1>1. Cases /\ scene' = scene BY Steps
  <1>2. watcher \in WatchRecord /\ apply \in ApplyRecord /\ conn \in ConnRecord
    BY DEF Types, HubTypes, PauseTypes, ApplyTypes, ConnTypes
  <1>3. CASE ~Controls
    BY <1>3, HubRests DEF DrainOK
  <1>4. CASE \/ \E mode \in {"after", "now"} : OwnerPauses(mode)
             \/ OwnerResumes \/ InstallChanges \/ WatcherReads
    BY <1>1, <1>2, <1>4 DEF OwnerPauses, OwnerResumes, Owner, InstallChanges, WatcherReads, DrainOK
  <1>5. CASE WatcherTests BY <1>1, <1>2, <1>5 DEF WatcherTests, IdleWatcher, WatchRecord, DrainOK
  <1>6. CASE WatcherApplies
    <2>1. /\ paused' = watcher.mode /\ watcher.at = "apply" /\ apply.at = "free"
          /\ UNCHANGED <<conn, draining, owner, unseen>>
          /\ apply' = apply \/ apply'.by = "watcher"
      BY <1>6 DEF WatcherApplies, Applies
    <2>2. watcher'.at \in {"idle", "busy"}
      <3>1. IdleWatcher.at = "idle" /\ [IdleWatcher EXCEPT !.at = "busy"].at = "busy" BY DEF IdleWatcher
      <3> QED BY <1>6, <3>1 DEF WatcherApplies
    <2> QED BY <1>1, <2>1, <2>2 DEF DrainOK
  <1>7. CASE TellReleased \/ CancelBenches
    <2>1. UNCHANGED <<paused, draining, owner, unseen>> /\ apply.at # "free"
      BY <1>7 DEF TellReleased, CancelBenches
    <2>2. CASE apply'.at # "free" /\ apply'.by = apply.by /\ UNCHANGED <<watcher, conn>>
      BY <1>1, <2>1, <2>2 DEF DrainOK
    <2>3. CASE apply' = IdleApply /\ ReturnTo(apply.by)
      <3>1. apply'.at = "free" BY <2>3 DEF IdleApply
      <3>2. CASE apply.by = "watcher"
        <4>1. watcher'.at = "idle" /\ conn' = conn BY <2>3, <3>2 DEF ReturnTo, IdleWatcher
        <4> QED BY <1>1, <2>1, <3>1, <4>1 DEF DrainOK
      <3>3. CASE apply.by = "connection"
        <4>1. /\ watcher' = watcher /\ conn.at = "busy"
              /\ conn'.at = IF draining THEN "waiting" ELSE "serving"
          BY <1>2, <2>1, <2>3, <3>3 DEF ReturnTo, ConnRecord, DrainOK
        <4> QED BY <1>1, <2>1, <3>1, <4>1 DEF DrainOK
      <3> QED BY <1>2, <3>2, <3>3 DEF ApplyRecord
    <2>4. \/ apply'.at # "free" /\ apply'.by = apply.by /\ UNCHANGED <<watcher, conn>>
          \/ apply' = IdleApply /\ ReturnTo(apply.by)
      BY <1>2, <1>7 DEF TellReleased, CancelBenches, ApplyRecord
    <2> QED BY <2>2, <2>3, <2>4
  <1>8. CASE \E s \in Sids : Release(s) \/ AbandonOne(s)
    <2>1. /\ UNCHANGED <<conn, draining, owner, unseen, paused, watcher>>
          /\ apply.at # "free" /\ apply'.by = apply.by
      BY <1>2, <1>8 DEF Release, AbandonOne, ApplyRecord
    <2> QED BY <1>1, <2>1 DEF DrainOK
  <1>9. CASE DrainApplies \/ EndDrainApplies
    <2>1. /\ UNCHANGED <<watcher, draining, owner, unseen>> /\ apply.at = "free"
          /\ DrainApplies => conn.at = "drain" /\ paused' = "after" /\ conn'.at = IF apply' = apply THEN "waiting" ELSE "busy"
          /\ EndDrainApplies => conn.at = "end" /\ conn'.at = IF apply' = apply THEN "serving" ELSE "busy"
      BY <1>2, <1>9 DEF DrainApplies, EndDrainApplies, Applies, At, ConnRecord
    <2> QED BY <1>1, <1>9, <2>1 DEF DrainOK
  <1>10. CASE DrainForUpdate \/ DrainTests \/ InstallFails \/ EndDrainReads
    <2>1. /\ UNCHANGED <<watcher, apply, owner, unseen, paused>>
          /\ DrainForUpdate => conn.at = "serving" /\ conn'.at = "drained" /\ draining'
          /\ DrainTests => conn.at = "drained" /\ draining' = draining /\ apply.at = "free"
                           /\ conn'.at = IF paused # "now" THEN "drain" ELSE "waiting"
          /\ InstallFails => conn.at = "updating" /\ ~draining' /\ conn'.at = "ended"
          /\ EndDrainReads => conn.at = "ended" /\ draining' = draining /\ conn'.at = "end"
      BY <1>2, <1>10 DEF DrainForUpdate, DrainTests, InstallFails, EndDrainReads, At, ConnOnly, ConnRecord
    <2> QED BY <1>1, <1>10, <2>1 DEF DrainOK
  <1>11. CASE CountStarts \/ CountFinishing \/ CountEnds \/ \E s \in Sids : CountBook(s)
    <2>1. /\ UNCHANGED <<watcher, apply, owner, unseen, paused, draining>>
          /\ conn.at \in {"waiting", "book", "finishing"}
          /\ conn'.at \in {"waiting", "book", "finishing", "updating"}
      BY <1>2, <1>11 DEF CountStarts, CountFinishing, CountEnds, CountBook, At, ConnOnly, ConnRecord
    <2> QED BY <1>1, <2>1 DEF DrainOK
  <1>12. CASE Leave
    <2>1. UNCHANGED <<watcher, apply, owner, unseen, paused, draining>> /\ conn.at # "busy" /\ conn'.at = "left"
      BY <1>2, <1>12 DEF Leave, At, ConnRecord
    <2> QED BY <1>1, <2>1 DEF DrainOK
  <1> QED
    BY <1>3, <1>4, <1>5, <1>6, <1>7, <1>8, <1>9, <1>10, <1>11, <1>12 DEF Controls, Pausing, Update

\* A runner is made only as its session opens.
LEMMA RunnerStarts ==
    ASSUME Types, Next, NEW s \in Sids, Moves(s), runner[s] = "none"
    PROVE  runner'[s] = "none" \/ (ses[s].state = "none" /\ OpenSession(s))
  <1>1. CASE runner'[s] # "none" /\ Idles(s)
    <2>1. Cases BY Steps
    <2>2. runner \in [Sids -> {"none", "loading", "working", "unloaded", "done"}] BY DEF Types, SessionTypes
    <2>3. Controls \/ Benches => runner' = runner BY ControlsLeave, BenchesLeave DEF runVars
    <2>4. CASE Ops
      BY <1>1, <2>2, <2>4 DEF Ops, OpenSession, CloseSession, CancelSession, Volume, Bench, CancelBench, runVars
    <2>5. ASSUME NEW t \in Sids, Feed(t) \/ Reports(t) PROVE runner' = runner
      BY <2>5, FeedLeaves, ReportsLeave DEF runVars
    <2>6. ASSUME NEW t \in Sids, NEW w, Work(t, w) PROVE runner' = runner BY <2>6, WorkLeaves
    <2>7. ASSUME NEW t \in Sids, Run(t) PROVE runner'[s] = runner[s]
      BY <1>1, <2>2, <2>7 DEF Run, RunnerStops, RunnerReady, RunnerEnds
    <2> QED BY <1>1, <2>1, <2>3, <2>4, <2>5, <2>6, <2>7 DEF Cases
  <1>2. CASE ~Idles(s)
    BY <1>2 DEF Moves, Offers, Feeds, FeedMoves, Hands, Runs, RunStops, RunReadies, RunEnds, Works, Tidies, CrewStays
  <1> QED BY <1>1, <1>2

\* A session that is gone stays so, and so does its reporter.
LEMMA GoneKept ==
    ASSUME Types, Next, ExitOK, GoneOK, \A s \in Sids : Moves(s)
    PROVE  GoneOK'
  <1> SUFFICES ASSUME NEW s \in Sids, ses'[s].state = "gone"
               PROVE  runner'[s] = "none" \/ reporter'[s].at \in {"exiting", "gone"}
    BY DEF GoneOK
  <1>1. CASE reporter'[s].at = "exiting" BY <1>1
  <1>2. CASE ses[s].state = "none" /\ OpenSession(s)
    <2>1. ses \in [Sids -> SesRecord] BY DEF Types, SessionTypes
    <2>2. ~Refusing => ses'[s].state = "open" BY <1>2, <2>1 DEF OpenSession, SesRecord
    <2>3. Refusing => runner' = runner BY <1>2 DEF OpenSession
    <2> QED BY <1>2, <2>2, <2>3 DEF ExitOK
  <1>3. CASE ses'[s].state = ses[s].state /\ ~(ses[s].state = "none" /\ OpenSession(s))
    <2>1. runner[s] = "none" \/ reporter[s].at \in {"exiting", "gone"} BY <1>3 DEF GoneOK
    <2>2. runner[s] = "none" => runner'[s] = "none" BY <1>3, RunnerStarts
    <2>3. reporter[s].at \in {"exiting", "gone"} => reporter'[s].at \in {"exiting", "gone"}
      <3>1. Moves(s) OBVIOUS
      <3>2. CASE ~Tidies(s)
        BY <3>1, <3>2 DEF Moves, Idles, Offers, Feeds, FeedMoves, Hands, Runs, Works, DeskStays
      <3>3. CASE Tidies(s)
        BY <3>3 DEF Tidies, TakesEvent, TakesTerm, TakesExit, TakesAny, Picks, Settles, Delivers, Tells, Leaves
      <3> QED BY <3>2, <3>3
    <2> QED BY <2>1, <2>2, <2>3
  <1> QED BY <1>1, <1>2, <1>3, StatesStay

\* What a step puts in a place was in one, or is handed over.
LEMMA PlacesCome ==
    ASSUME Types, NEW s \in Sids, MailOK(s), Moves(s), NEW c, Placed(s, c)'
    PROVE  Placed(s, c) \/ (Hands(s) /\ c = feeder[s].claim)
  <1>1. ASSUME InJobs(s, c)' PROVE InJobs(s, c) \/ (Hands(s) /\ c = feeder[s].claim)
    <2>1. jobs[s] \in Seq(Claims) BY DEF Types, RunTypes
    <2>2. CASE jobs'[s] = jobs[s] BY <1>1, <2>2 DEF InJobs
    <2>3. CASE jobs'[s] = <<>> BY <1>1, <2>3, Empty DEF InJobs
    <2>4. CASE jobs[s] # <<>> /\ jobs'[s] = Tail(jobs[s])
      <3>1. \A i \in DOMAIN Tail(jobs[s]) : i + 1 \in DOMAIN jobs[s] /\ Tail(jobs[s])[i] = jobs[s][i + 1]
        BY <2>1, <2>4, Taking
      <3> QED BY <1>1, <2>4, <3>1 DEF InJobs
    <2>5. CASE Hands(s)
      <3>1. PICK d : d = feeder[s].claim OBVIOUS
      <3>2. d \in Claims /\ jobs'[s] = Append(jobs[s], d) BY <2>5, <3>1 DEF Hands, Holding, Types, FeedTypes
      <3>3. Range(jobs'[s]) = Range(jobs[s]) \cup {d} BY <2>1, <3>2, Appending
      <3>4. c \in Range(jobs'[s]) BY <1>1 DEF InJobs, Range
      <3> QED BY <2>5, <3>1, <3>3, <3>4 DEF InJobs, Range
    <2>6. \/ jobs'[s] = jobs[s] \/ jobs'[s] = <<>> \/ (jobs[s] # <<>> /\ jobs'[s] = Tail(jobs[s])) \/ Hands(s)
      BY DEF Moves, Idles, Offers, Feeds, FeedMoves, Runs, RunStops, RunReadies, RunEnds, Works, WorkTakes,
         WorkHolds, WorkStarts, WorkReports, WorkEnds, Tidies, CrewStays
    <2> QED BY <2>2, <2>3, <2>4, <2>5, <2>6
  <1>2. ASSUME InWork(s, c)' PROVE InWork(s, c) \/ InJobs(s, c)
    <2>1. CASE worker'[s] = worker[s] BY <1>2, <2>1 DEF InWork, Busy
    <2>2. ASSUME NEW w \in Workers, Works(s, w) PROVE InWork(s, c) \/ InJobs(s, c)
      <3>1. PICK r : /\ Becomes(s, w, r)
                     /\ r.at \in {"took", "marked", "running"} =>
                          \/ WorkTakes(s, w) /\ r.claim = Head(jobs[s])
                          \/ Busy(s, w) /\ r.claim = worker[s][w].claim
        BY <2>2 DEF Works, WorkTakes, WorkHolds, WorkStarts, WorkReports, WorkEnds
      <3>2. worker[s] \in [Workers -> WorkerRecord] BY DEF Types, RunTypes
      <3>3. worker'[s][w] = r /\ \A v \in Workers : v # w => worker'[s][v] = worker[s][v] BY <3>1, <3>2 DEF Becomes
      <3>4. PICK v \in Workers : Busy(s, v)' /\ worker'[s][v].claim = c BY <1>2 DEF InWork
      <3>5. CASE v # w BY <3>3, <3>4, <3>5 DEF InWork, Busy
      <3>6. CASE v = w
        <4>1. r.at \in {"took", "marked", "running"} /\ r.claim = c BY <3>3, <3>4, <3>6 DEF Busy
        <4>2. CASE Busy(s, w) /\ r.claim = worker[s][w].claim BY <4>1, <4>2 DEF InWork
        <4>3. CASE WorkTakes(s, w) /\ r.claim = Head(jobs[s])
          <5>1. jobs[s] # <<>> /\ jobs[s] \in Seq(Claims) BY <4>3 DEF WorkTakes, Types, RunTypes
          <5>2. 1 \in DOMAIN jobs[s] /\ jobs[s][1] = Head(jobs[s]) BY <5>1, Taking
          <5> QED BY <4>1, <4>3, <5>2 DEF InJobs
        <4> QED BY <3>1, <4>1, <4>2, <4>3
      <3> QED BY <3>5, <3>6
    <2>3. worker'[s] = worker[s] \/ \E w \in Workers : Works(s, w)
      BY DEF Moves, Idles, Offers, Feeds, FeedMoves, Hands, Runs, RunStops, RunReadies, RunEnds, Tidies, CrewStays
    <2> QED BY <2>1, <2>2, <2>3
  <1>3. ASSUME InMail(s, c)' PROVE InMail(s, c) \/ InWork(s, c)
    <2>1. UnMail(s, c)' \/ BeMail(s, c)' BY <1>3 DEF InMail, UnMail, BeMail
    <2>2. UnMail(s, c) \/ BeMail(s, c) => InMail(s, c) BY DEF InMail, UnMail, BeMail
    <2>3. CASE msgs'[s] = msgs[s] \/ (msgs[s] # <<>> /\ msgs'[s] = Tail(msgs[s]))
      BY <2>1, <2>2, <2>3, MarksInMail
    <2>4. CASE ~Tidies(s) /\ msgs'[s] # msgs[s]
      <3>1. PICK m \in Msg :
               /\ msgs'[s] = Append(msgs[s], m)
               /\ \/ ~IsTerm(m)
                  \/ \E w \in Workers : WorkReports(s, w) /\ m.term.claim = worker[s][w].claim
        BY <2>4, Posting DEF IsAbout, IsTerm
      <3>2. \A w \in Workers : WorkReports(s, w) => Busy(s, w) BY DEF WorkReports
      <3>3. InMail(s, c) \/ (IsTerm(m) /\ m.term.claim = c) BY <2>1, <2>2, <3>1, MarksInMail
      <3> QED BY <3>1, <3>2, <3>3 DEF InWork
    <2>5. Tidies(s) => msgs'[s] = msgs[s] \/ (msgs[s] # <<>> /\ msgs'[s] = Tail(msgs[s]))
      BY DEF Tidies, TakesEvent, TakesTerm, TakesExit, TakesAny, Picks, Settles, Delivers, Tells, Leaves
    <2> QED BY <2>3, <2>4, <2>5
  <1>4. ASSUME InPending(s, c)' PROVE InPending(s, c) \/ InMail(s, c)
    <2>1. CASE TakesTerm(s)
      <3>1. /\ pending'[s] = pending[s] \cup {Head(msgs[s]).term} /\ IsTerm(Head(msgs[s])) /\ TakesAny(s)
        BY <2>1 DEF TakesTerm
      <3>2. Head(msgs[s]) = msgs[s][1] /\ 1 \in DOMAIN msgs[s] BY <3>1, TakingFront
      <3> QED BY <1>4, <3>1, <3>2 DEF InPending, InMail
    <2>2. CASE ~TakesTerm(s)
      <3>1. pending'[s] \subseteq pending[s]
        BY <2>2 DEF Moves, Idles, Offers, Feeds, FeedMoves, Hands, Runs, Works, DeskStays, Tidies, TakesEvent,
           TakesExit, Picks, Settles, Delivers, Tells, Leaves
      <3> QED BY <1>4, <3>1 DEF InPending
    <2> QED BY <2>1, <2>2
  <1> QED BY <1>1, <1>2, <1>3, <1>4 DEF Placed

\* A claim that is counted past the runner was in the reporter's map.
LEMMA CountedComes ==
    ASSUME Types, NEW s \in Sids, Moves(s), Finishing(s)'
    PROVE  \/ \E t \in pending[s] : reporter'[s].at = "counted" /\ reporter'[s].term = t
           \/ /\ Finishing(s) /\ reporter'[s].term.claim = reporter[s].term.claim
              /\ reporter'[s].at = "counted" => reporter[s].at = "counted"
  <1>1. CASE DeskStays(s) BY <1>1 DEF DeskStays, Finishing
  <1>2. CASE Picks(s)
    <2>1. reporter'[s].at # "idle" BY DEF Finishing
    <2>2. PICK t \in pending[s] : reporter'[s] = [at |-> "counted", term |-> t] BY <1>2, <2>1 DEF Picks
    <2> QED BY <2>2
  <1>3. CASE TakesEvent(s) \/ TakesTerm(s) \/ TakesExit(s) \/ Settles(s) \/ Delivers(s) \/ Tells(s) \/ Leaves(s)
    BY <1>3 DEF TakesEvent, TakesTerm, TakesExit, TakesAny, Settles, Delivers, Tells, Leaves, Finishing
  <1> QED BY <1>1, <1>2, <1>3 DEF Moves, Idles, Offers, Feeds, FeedMoves, Hands, Runs, Works, Tidies

\* What a step puts in the line was in it, or comes with its place in the book.
LEMMA LineComes ==
    ASSUME Types, NEW s \in Sids, MailOK(s), Moves(s), NEW c \in Claims, InLine(s, c)'
    PROVE  InLine(s, c) \/ c \in outstanding'
  <1>q. queue[s] \in Seq(Claims) BY DEF Types, FeedTypes
  <1>1. ASSUME c \in Range(queue'[s]) PROVE c \in Range(queue[s]) \/ c \in outstanding'
    <2>1. CASE queue'[s] = queue[s] BY <1>1, <2>1
    <2>2. CASE queue[s] # <<>> /\ queue'[s] = Tail(queue[s])
      <3>1. \A i \in DOMAIN Tail(queue[s]) : i + 1 \in DOMAIN queue[s] /\ Tail(queue[s])[i] = queue[s][i + 1]
        BY <1>q, <2>2, Taking
      <3>2. PICK i \in DOMAIN Tail(queue[s]) : Tail(queue[s])[i] = c BY <1>1, <2>2 DEF Range
      <3> QED BY <3>1, <3>2 DEF Range
    <2>3. ASSUME NEW d \in Of(s), d \in outstanding', queue'[s] = Append(queue[s], d)
          PROVE  c \in Range(queue[s]) \/ c \in outstanding'
      <3>1. Range(queue'[s]) = Range(queue[s]) \cup {d} BY <1>q, <2>3, Appending DEF Of
      <3> QED BY <1>1, <2>3, <3>1
    <2>4. \/ queue'[s] = queue[s] \/ (queue[s] # <<>> /\ queue'[s] = Tail(queue[s]))
          \/ \E d \in Of(s) : d \in outstanding' /\ queue'[s] = Append(queue[s], d)
      BY DEF Moves, Idles, Offers, Feeds, FeedMoves, Hands, Runs, Works, Tidies, FrontStays
    <2> QED BY <2>1, <2>2, <2>3, <2>4
  <1>2. ASSUME Holding(s)', feeder'[s].at # "settled", feeder'[s].claim = c PROVE InLine(s, c)
    <2>1. CASE feeder'[s] = feeder[s] BY <1>2, <2>1 DEF InLine, Holding
    <2>2. CASE Holding(s) /\ feeder'[s].claim = feeder[s].claim /\ feeder[s].at # "settled"
      BY <1>2, <2>2 DEF InLine
    <2>3. CASE queue[s] # <<>> /\ feeder'[s].claim = Head(queue[s])
      <3>1. 1 \in DOMAIN queue[s] /\ queue[s][1] = Head(queue[s]) BY <1>q, <2>3, Taking
      <3> QED BY <1>2, <2>3, <3>1 DEF InLine, Range
    <2>4. \/ feeder'[s] = feeder[s] \/ feeder'[s].at = "idle"
          \/ Holding(s) /\ feeder'[s].claim = feeder[s].claim /\ feeder[s].at # "settled"
          \/ queue[s] # <<>> /\ feeder'[s].claim = Head(queue[s])
      BY DEF Moves, Idles, Offers, Feeds, FeedMoves, Hands, Runs, Works, Tidies, FrontStays
    <2> QED BY <1>2, <2>1, <2>2, <2>3, <2>4 DEF Holding
  <1>3. ASSUME Placed(s, c)' PROVE InLine(s, c)
    <2>1. Placed(s, c) \/ (Hands(s) /\ c = feeder[s].claim) BY <1>3, PlacesCome
    <2> QED BY <2>1 DEF InLine, Hands
  <1>4. ASSUME reporter'[s].at = "counted", reporter'[s].term.claim = c PROVE InLine(s, c)
    <2>1. \/ \E t \in pending[s] : reporter'[s].term = t
          \/ /\ Finishing(s) /\ reporter'[s].term.claim = reporter[s].term.claim
             /\ reporter[s].at = "counted"
      BY <1>4, CountedComes DEF Finishing
    <2> QED BY <1>4, <2>1 DEF InLine, Placed, InPending
  <1> QED BY <1>1, <1>2, <1>3, <1>4 DEF InLine

\* A claim of the line is one of the session's.
LEMMA LineIsOf ==
    ASSUME Types, NEW s \in Sids, FedOK(s), MailOK(s), NEW c \in Claims, InLine(s, c)
    PROVE  SidOf[c] = s
  <1>1. Placed(s, c) => c \in Range(fed[s]) BY InFed
  <1>2. reporter[s].at = "counted" /\ reporter[s].term.claim = c => c \in Range(fed[s])
    BY DEF MailOK, Fits, Finishing
  <1> QED BY <1>1, <1>2 DEF InLine, FedOK

\* What leaves the book by the feeder leaves the line with it.
LEMMA FeedDrops ==
    ASSUME Types, NEW s \in Sids, FedOK(s), MailOK(s), Feed(s),
           NEW c \in Claims, c \in outstanding, c \notin outstanding'
    PROVE  SidOf[c] = s /\ ~(InLine(s, c)')
  <1>q. queue[s] \in Seq(Claims) /\ queue \in [Sids -> Seq(Claims)]
        /\ feeder \in [Sids -> [at : {"idle", "checked", "fetching", "fetched", "handing", "fault",
                                      "drop", "return", "settled"},
                                claim : Claims \cup {None}]]
    BY DEF Types, FeedTypes
  <1>r. /\ UNCHANGED <<worker, pending, reporter>> BY FeedLeaves
  <1>1. ASSUME UNCHANGED <<jobs, msgs>>, c \notin Range(fed[s]), c \notin Range(queue'[s]),
               feeder'[s].at \in {"idle", "settled"}
        PROVE  ~(InLine(s, c)')
    <2>1. ~Placed(s, c) /\ ~(reporter[s].at = "counted" /\ reporter[s].term.claim = c)
      BY <1>1, InFed DEF MailOK, Fits, Finishing
    <2>2. Placed(s, c)' <=> Placed(s, c)
      BY <1>1, <1>r DEF Placed, InJobs, InWork, InMail, InPending, Busy
    <2> QED BY <1>1, <1>r, <2>1, <2>2 DEF InLine, Holding
  <1>2. CASE FeedTake(s)
    <2>1. c = Head(queue[s]) /\ queue[s] # <<>> /\ queue'[s] = Tail(queue[s]) /\ feeder' = feeder
          /\ UNCHANGED <<jobs, msgs>> /\ feeder[s].at = "idle"
      BY <1>q, <1>2 DEF FeedTake, Settle, bookVars, runVars, repVars
    <2>2. c \in Range(queue[s]) /\ c \notin Range(Tail(queue[s])) BY <1>q, <2>1, DistinctTail DEF FedOK
    <2> QED BY <1>1, <2>1, <2>2 DEF FedOK
  <1>3. CASE ~FeedTake(s)
    <2>1. /\ c = feeder[s].claim /\ feeder[s].at # "idle" /\ queue' = queue
          /\ UNCHANGED <<jobs, msgs>> /\ feeder'[s].at \in {"idle", "settled"}
      <3>1. CASE FetchStarts(s) \/ (\E at \in {"fetched", "fault"} : FetchEnds(s, at)) \/ GiveBackReads(s) \/ GiveBackSays(s)
        BY <3>1 DEF FetchStarts, FetchEnds, GiveBackReads, GiveBackSays, bookVars
      <3>2. CASE FetchCancelled(s) \/ FetchLost(s)
        BY <1>q, <3>2 DEF FetchCancelled, FetchLost, Settle, FeederAt, runVars, repVars
      <3>3. CASE GiveBackSettles(s)
        BY <1>q, <3>3 DEF GiveBackSettles, Settle, FeederAt, runVars, repVars
      <3>4. CASE HandOverTests(s)
        BY <1>q, <3>4 DEF HandOverTests, Settle, FeederAt, bookVars, runVars, repVars
      <3>5. CASE HandOver(s)
        BY <1>q, <3>5 DEF HandOver, Settle, FeederAt, bookVars
      <3> QED BY <1>3, <3>1, <3>2, <3>3, <3>4, <3>5 DEF Feed
    <2>2. c \notin Range(queue[s]) \cup Range(fed[s]) /\ SidOf[c] = s BY <2>1 DEF FedOK, Holding
    <2> QED BY <1>1, <2>1, <2>2
  <1>4. FeedTake(s) => SidOf[c] = s
    <2> SUFFICES ASSUME FeedTake(s) PROVE SidOf[c] = s OBVIOUS
    <2>1. c = Head(queue[s]) /\ queue[s] # <<>> BY DEF FeedTake, Settle, bookVars
    <2>2. c \in Range(queue[s]) BY <1>q, <2>1, DistinctTail DEF FedOK
    <2> QED BY <2>2 DEF FedOK
  <1>5. ~FeedTake(s) => SidOf[c] = s
    <2> SUFFICES ASSUME ~FeedTake(s) PROVE SidOf[c] = s OBVIOUS
    <2>1. c = feeder[s].claim /\ feeder[s].at # "idle"
      BY DEF Feed, FetchStarts, FetchEnds, GiveBackReads, GiveBackSays, FetchCancelled, FetchLost,
         GiveBackSettles, HandOverTests, HandOver, Settle, bookVars
    <2> QED BY <2>1 DEF FedOK, Holding
  <1> QED BY <1>2, <1>3, <1>4, <1>5

\* What leaves the book by the reporter was in its hand, and is nowhere else.
LEMMA ReportDrops ==
    ASSUME Types, NEW s \in Sids, FedOK(s), MailOK(s), PlaceOK(s), Moves(s), Reports(s),
           NEW c \in Claims, c \in outstanding, c \notin outstanding'
    PROVE  SidOf[c] = s /\ ~(InLine(s, c)')
  <1>1. FinishSettles(s) /\ Settle(reporter[s].term.claim) BY ReportsSettle DEF bookVars
  <1>2. c = reporter[s].term.claim /\ reporter[s].at = "counted" BY <1>1 DEF Settle, FinishSettles
  <1>3. c \in Range(fed[s]) /\ reporter[s].term.seq = SeqOf(s, c) /\ reporter[s].term.seq + 1 = nextSeq[s]
    BY <1>2 DEF MailOK, Fits, PlaceOK, Finishing
  <1>4. SeqOf(s, c) \in Nat /\ SidOf[c] = s BY <1>3, Places DEF FedOK
  <1>5. ~Placed(s, c) BY <1>3, <1>4 DEF PlaceOK
  <1>6. UNCHANGED <<queue, feeder, fed>> /\ reporter'[s].at # "counted"
    <2>1. UNCHANGED <<queue, feeder, fed>> BY <1>1 DEF FinishSettles, feedVars, runVars
    <2>2. PICK a, t : a \in {"drain", "delivering", "telling"} /\ ReporterAt(s, a, t)
      BY <1>1 DEF FinishSettles
    <2>3. DOMAIN reporter = Sids BY DEF Types, RepTypes, ReporterTypes
    <2>4. reporter'[s] = [at |-> a, term |-> t]
      <3>1. reporter' = [reporter EXCEPT ![s] = [at |-> a, term |-> t]] BY <2>2 DEF ReporterAt
      <3> QED BY <2>3, <3>1
    <2>5. a # "counted" BY <2>2
    <2> QED BY <2>1, <2>4, <2>5
  <1>7. ~Hands(s)
    <2> SUFFICES ASSUME Hands(s) PROVE FALSE OBVIOUS
    <2>1. feeder'[s].at = "idle" /\ feeder[s].at # "idle" BY DEF Hands, Holding
    <2> QED BY <1>6, <2>1
  <1>8. ~(Placed(s, c)') BY <1>5, <1>7, PlacesCome
  <1>9. c \notin Range(queue[s]) /\ ~(Holding(s) /\ feeder[s].claim = c) BY <1>3 DEF FedOK
  <1> QED BY <1>4, <1>6, <1>8, <1>9 DEF InLine, Holding

\* Every step keeps what is on its way in the books.
LEMMA BookHolds ==
    ASSUME Types, Next, LineOK, BookOK, \A s \in Sids : Moves(s)
    PROVE  BookOK'
  <1>1. Types' BY TypesKept
  <1>2. Cases BY Steps
  <1>3. ASSUME NEW s \in Sids, NEW c \in Claims, InLine(s, c)' PROVE c \in outstanding'
    <2>1. FedOK(s) /\ MailOK(s) /\ PlaceOK(s) /\ Moves(s) BY DEF LineOK
    <2>2. (FedOK(s) /\ MailOK(s))' BY <2>1, FedKept, MailKept
    <2>3. (FedOK(s) /\ MailOK(s) /\ InLine(s, c) => SidOf[c] = s)' BY <1>1, LineIsOf, PTL
    <2>4. SidOf[c] = s BY <1>3, <2>2, <2>3
    <2>5. c \in outstanding \/ c \in outstanding' BY <1>3, <2>1, LineComes DEF BookOK, InBook
    <2>6. CASE c \in outstanding /\ c \notin outstanding'
      <3>1. ~Controls BY <2>6, ControlsLeave
      <3>2. ~Ops BY <2>6 DEF Ops, OpenSession, CloseSession, CancelSession, Volume, Bench, CancelBench, bookVars
      <3>3. ~Benches BY <2>6, BenchesLeave DEF bookVars
      <3>4. ASSUME NEW t \in Sids, Feed(t) PROVE FALSE
        <4>1. FedOK(t) /\ MailOK(t) BY DEF LineOK
        <4>2. SidOf[c] = t /\ ~(InLine(t, c)') BY <2>6, <3>4, <4>1, FeedDrops
        <4> QED BY <1>3, <2>4, <4>2
      <3>5. ASSUME NEW t \in Sids, Reports(t) PROVE FALSE
        <4>1. FedOK(t) /\ MailOK(t) /\ PlaceOK(t) /\ Moves(t) BY DEF LineOK
        <4>2. SidOf[c] = t /\ ~(InLine(t, c)') BY <2>6, <3>5, <4>1, ReportDrops
        <4> QED BY <1>3, <2>4, <4>2
      <3>6. ASSUME NEW t \in Sids, Run(t) PROVE FALSE BY <2>6, <3>6, RunLeaves DEF bookVars
      <3>7. ASSUME NEW t \in Sids, NEW w, Work(t, w) PROVE FALSE BY <2>6, <3>7, WorkLeaves
      <3> QED BY <1>2, <3>1, <3>2, <3>3, <3>4, <3>5, <3>6, <3>7 DEF Cases
    <2> QED BY <2>5, <2>6
  <1> QED BY <1>3 DEF BookOK, InBook

\* The connection counts and installs only by the steps of its wait.
LEMMA ConnMoves ==
    ASSUME Types, Next, conn'.at \in {"book", "finishing", "updating"}
    PROVE  conn' = conn \/ CountStarts \/ CountFinishing \/ CountEnds \/ \E s \in Sids : CountBook(s)
  <1>1. conn \in ConnRecord BY DEF Types, HubTypes, ConnTypes
  <1>2. CASE ~Controls BY <1>2, HubRests
  <1>3. CASE \/ \E mode \in {"after", "now"} : OwnerPauses(mode)
             \/ OwnerResumes \/ InstallChanges \/ Leave
    BY <1>1, <1>3 DEF OwnerPauses, OwnerResumes, Owner, InstallChanges, Leave, At, ConnRecord
  <1>4. CASE Pausing
    <2>1. UNCHANGED conn \/ ReturnTo(apply.by)
      BY <1>4 DEF Pausing, WatcherReads, WatcherTests, WatcherApplies, TellReleased, CancelBenches, Release, AbandonOne
    <2>2. ReturnTo(apply.by) => UNCHANGED conn \/ conn'.at \in {"waiting", "serving"}
      BY <1>1 DEF ReturnTo, ConnRecord
    <2> QED BY <2>1, <2>2
  <1>5. CASE Update
    <2>1. ~DrainForUpdate /\ ~DrainTests /\ ~DrainApplies /\ ~InstallFails /\ ~EndDrainReads /\ ~EndDrainApplies
      BY <1>1 DEF DrainForUpdate, DrainTests, DrainApplies, InstallFails, EndDrainReads, EndDrainApplies, At, ConnRecord
    <2> QED BY <1>5, <2>1 DEF Update
  <1> QED BY <1>2, <1>3, <1>4, <1>5 DEF Controls

\* A session is counted as the wait says.
LEMMA CountMoves ==
    ASSUME Types, Next, NEW s \in Sids, Counted(s)'
    PROVE  /\ \/ Counted(s)
              \/ CountStarts /\ s \notin OpenSids
              \/ CountBook(s) /\ \A c \in outstanding : SidOf[c] = s => c \in released
           /\ Passed(s)' => \/ Passed(s)
                            \/ CountStarts /\ s \notin OpenSids
                            \/ CountFinishing /\ ~Finishing(s)
           /\ conn' = conn \/ UNCHANGED <<ses, outstanding, released, reporter, bench>>
  <1>1. conn \in ConnRecord BY DEF Types, HubTypes, ConnTypes
  <1>2. conn' = conn \/ CountStarts \/ CountFinishing \/ CountEnds \/ \E t \in Sids : CountBook(t)
    BY ConnMoves DEF Counted
  <1> USE DEF Counted, Passed
  <1>3. CASE conn' = conn BY <1>3
  <1>4. CASE CountStarts
    <2>1. conn'.at = "book" /\ conn'.left = OpenSids BY <1>1, <1>4 DEF CountStarts, ConnRecord
    <2> QED BY <1>4, <2>1 DEF CountStarts, ConnOnly, bookVars, repVars
  <1>5. CASE CountFinishing
    <2>1. /\ conn.at = "finishing" /\ conn'.at = "book" /\ conn'.left = conn.left /\ ~Finishing(conn.sid)
      BY <1>1, <1>5 DEF CountFinishing, ConnRecord
    <2> QED BY <1>5, <2>1 DEF CountFinishing, ConnOnly, bookVars, repVars
  <1>6. CASE CountEnds
    <2>1. conn.at = "book" /\ conn'.left = conn.left /\ conn'.at = "updating"
      BY <1>1, <1>6 DEF CountEnds, At, ConnRecord
    <2> QED BY <1>6, <2>1 DEF CountEnds, ConnOnly, bookVars, repVars
  <1>7. ASSUME NEW t \in Sids, CountBook(t)
        PROVE  /\ \/ Counted(s)
                  \/ CountBook(s) /\ \A c \in outstanding : SidOf[c] = s => c \in released
               /\ Passed(s)' => Passed(s)
               /\ UNCHANGED <<ses, outstanding, released, reporter, bench>>
    <2>1. /\ conn.at = "book" /\ conn'.at = "finishing" /\ conn'.sid = t /\ conn'.left = conn.left \ {t}
          /\ ~\E c \in outstanding \ released : SidOf[c] = t
      BY <1>1, <1>7 DEF CountBook, ConnRecord
    <2> QED BY <1>7, <2>1 DEF CountBook, ConnOnly, bookVars, repVars
  <1> QED BY <1>2, <1>3, <1>4, <1>5, <1>6, <1>7

\* A session with a volume past its runner is open.
LEMMA FinishingIsOpen ==
    ASSUME Types, ExitOK, GoneOK, NEW s \in Sids, Finishing(s)
    PROVE  ses[s].state = "open"
  <1>1. ses[s].state \in {"none", "open", "gone"} BY DEF Types, SessionTypes, SesRecord
  <1> QED BY <1>1 DEF ExitOK, GoneOK, Finishing

\* Under a pause nothing comes into a book, no session opens and no benchmark waits.
LEMMA Refused ==
    ASSUME Types, Next, paused # "no"
    PROVE  /\ outstanding' \subseteq outstanding
           /\ \A s \in Sids : ses'[s].state = "open" => ses[s].state = "open"
           /\ \A b \in Bids : bench[b] \in {"none", "gone"} => bench'[b] \in {"none", "gone"}
  <1>1. Cases BY Steps
  <1>2. Refusing BY DEF Refusing
  <1>3. outstanding' \subseteq outstanding
    <2>1. CASE Controls BY <2>1, ControlsLeave
    <2>2. CASE Ops BY <1>2, <2>2 DEF Ops, OpenSession, CloseSession, CancelSession, Volume, Bench, CancelBench, bookVars
    <2>3. CASE Benches BY <2>3, BenchesLeave DEF bookVars
    <2>4. ASSUME NEW s \in Sids, Feed(s) PROVE outstanding' \subseteq outstanding BY <2>4, FeedSettles DEF Settle
    <2>5. ASSUME NEW s \in Sids, Reports(s) PROVE outstanding' \subseteq outstanding
      BY <2>5, ReportsSettle DEF Settle, bookVars
    <2>6. ASSUME NEW s \in Sids, Run(s) PROVE outstanding' \subseteq outstanding BY <2>6, RunLeaves DEF bookVars
    <2>7. ASSUME NEW s \in Sids, NEW w, Work(s, w) PROVE outstanding' \subseteq outstanding BY <2>7, WorkLeaves
    <2> QED BY <1>1, <2>1, <2>2, <2>3, <2>4, <2>5, <2>6, <2>7 DEF Cases
  <1>4. ASSUME NEW s \in Sids, ses'[s].state = "open" PROVE ses[s].state = "open"
    <2>1. ~OpenSession(s)
      <3> SUFFICES ASSUME OpenSession(s) PROVE FALSE OBVIOUS
      <3>1. ses'[s].state = "gone" BY <1>2 DEF OpenSession, Types, SessionTypes, SesRecord
      <3> QED BY <1>4, <3>1
    <2> QED BY <1>4, <2>1, StatesStay
  <1>5. ASSUME NEW b \in Bids, bench[b] \in {"none", "gone"} PROVE bench'[b] \in {"none", "gone"}
    <2>t. bench \in [Bids -> {"none", "waiting", "running", "cancelled", "exited", "gone"}] BY DEF Types, SessionTypes
    <2>1. CASE Controls
      <3>1. bench' = bench \/ CancelBenches \/ Leave
        BY <2>1 DEF Controls, OwnerPauses, OwnerResumes, Owner, InstallChanges, Update,
           DrainForUpdate, DrainTests, DrainApplies, CountStarts, CountFinishing, CountEnds, CountBook,
           InstallFails, EndDrainReads, EndDrainApplies, ConnOnly, Pausing, WatcherReads, WatcherTests,
           WatcherApplies, TellReleased, Release, AbandonOne
      <3> QED BY <1>5, <3>1 DEF CancelBenches, Leave
    <2>2. CASE Ops
      BY <1>2, <1>5, <2>t, <2>2 DEF Ops, OpenSession, CloseSession, CancelSession, Volume, Bench, CancelBench
    <2>3. CASE Benches BY <1>5, <2>t, <2>3 DEF Benches, BenchRuns, BenchExits, BenchGone
    <2>4. ASSUME NEW s \in Sids, Feed(s) \/ Reports(s) \/ Run(s) PROVE bench' = bench
      BY <2>4, FeedLeaves, ReportsLeave, RunLeaves
    <2>5. ASSUME NEW s \in Sids, NEW w, Work(s, w) PROVE bench' = bench BY <2>5, WorkLeaves
    <2> QED BY <1>1, <1>5, <2>1, <2>2, <2>3, <2>4, <2>5 DEF Cases
  <1> QED BY <1>3, <1>4, <1>5

\* A mark of what was given back goes only with the claim.
LEMMA ReleasedStays ==
    ASSUME Types, Next, NEW c \in released, c \in outstanding'
    PROVE  c \in released'
  <1>1. Cases BY Steps
  <1>2. CASE Controls
    BY <1>2 DEF Controls, OwnerPauses, OwnerResumes, Owner, InstallChanges, Leave, Update,
       DrainForUpdate, DrainTests, DrainApplies, CountStarts, CountFinishing, CountEnds, CountBook,
       InstallFails, EndDrainReads, EndDrainApplies, ConnOnly, Pausing, WatcherReads, WatcherTests,
       WatcherApplies, TellReleased, CancelBenches, Release, AbandonOne, bookVars
  <1>3. CASE Ops BY <1>3, OpsLeave
  <1>4. CASE Benches BY <1>4, BenchesLeave DEF bookVars
  <1>5. ASSUME NEW s \in Sids, Feed(s) PROVE c \in released'
    <2>1. CASE UNCHANGED <<outstanding, seen, started, released>> BY <2>1
    <2>2. ASSUME NEW d, Settle(d) PROVE c \in released' BY <2>2, Settled DEF Settle
    <2> QED BY <1>5, <2>1, <2>2, FeedSettles
  <1>6. ASSUME NEW s \in Sids, Reports(s) PROVE c \in released'
    BY <1>6, ReportsSettle DEF Settle, bookVars
  <1>7. ASSUME NEW s \in Sids, Run(s) PROVE c \in released' BY <1>7, RunLeaves DEF bookVars
  <1>8. ASSUME NEW s \in Sids, NEW w, Work(s, w) PROVE c \in released' BY <1>8, WorkLeaves
  <1> QED BY <1>1, <1>2, <1>3, <1>4, <1>5, <1>6, <1>7, <1>8 DEF Cases

\* Every step keeps what was found idle idle.
LEMMA CountKept ==
    ASSUME Types, Next, ExitOK, BackOK, DrainOK, GoneOK, BookOK, CountOK, ExitOK', GoneOK',
           \A s \in Sids : MailOK(s) /\ FedOK(s) /\ Moves(s)
    PROVE  CountOK'
  <1>0. scene' = scene BY Steps
  <1>1. CASE scene.resumes BY <1>0, <1>1 DEF CountOK
  <1>2. CASE ~scene.resumes
    <2>0. Types' BY TypesKept
    <2>s. \A c \in Claims : SidOf[c] \in Sids BY ConstantsAssumption
    <2>b. outstanding \subseteq Claims /\ outstanding' \subseteq Claims BY <2>0 DEF Types, BookTypes
    <2>1. conn.at \in {"book", "finishing", "updating"} => paused # "no" BY <1>2 DEF DrainOK
    <2>2. ASSUME NEW c \in outstanding', ses'[SidOf[c]].state = "open", Counted(SidOf[c])'
          PROVE  c \in released'
      <3>1. PICK s \in Sids : s = SidOf[c] BY <2>b, <2>s
      <3>2. CASE Counted(s)
        <4>1. c \in outstanding /\ ses[s].state = "open" BY <2>1, <2>2, <3>1, <3>2, Refused DEF Counted
        <4>2. c \in released BY <1>2, <3>1, <3>2, <4>1 DEF CountOK, Answered
        <4> QED BY <2>2, <2>b, <4>2, ReleasedStays
      <3>3. CASE CountStarts /\ s \notin OpenSids
        BY <2>2, <3>1, <3>3 DEF CountStarts, ConnOnly, OpenSids
      <3>4. CASE CountBook(s) /\ \A d \in outstanding : SidOf[d] = s => d \in released
        BY <2>2, <3>1, <3>4 DEF CountBook, ConnOnly, bookVars
      <3> QED BY <2>2, <3>1, <3>2, <3>3, <3>4, CountMoves
    <2>3. ASSUME NEW s \in Sids, Passed(s)', Finishing(s)', Talking(s)'
          PROVE  GivenBack(reporter[s].term.claim)'
      <3>0. Counted(s)' BY <2>3 DEF Passed
      <3>1. CASE CountStarts /\ s \notin OpenSids
        <4>1. Finishing(s) BY <2>3, <3>1 DEF CountStarts, ConnOnly, repVars, Finishing
        <4> QED BY <3>1, <4>1, FinishingIsOpen DEF OpenSids
      <3>2. CASE CountFinishing /\ ~Finishing(s)
        BY <2>3, <3>2 DEF CountFinishing, ConnOnly, repVars, Finishing
      <3>3. CASE Passed(s)
        <4>1. Talking(s) BY <2>3, SilenceStays
        <4>2. CASE Finishing(s) /\ reporter'[s].term.claim = reporter[s].term.claim
          <5>1. PICK c : c = reporter[s].term.claim OBVIOUS
          <5>2. c \in Claims BY <4>2, <5>1 DEF Types, RepTypes, ReporterTypes, Terminal
          <5>3. GivenBack(c) BY <1>2, <3>3, <4>1, <4>2, <5>1 DEF CountOK
          <5>4. GivenBack(c)' BY <5>2, <5>3, GivenBackStays
          <5> QED BY <4>2, <5>1, <5>4 DEF GivenBack
        <4>3. ASSUME NEW t \in pending[s], reporter'[s].term = t PROVE GivenBack(reporter[s].term.claim)'
          <5>1. PICK c : c = t.claim OBVIOUS
          <5>2. c \in Claims /\ InPending(s, c) BY <5>1 DEF Types, RepTypes, Terminal, InPending
          <5>3. InLine(s, c) BY <5>2 DEF InLine, Placed
          <5>4. c \in outstanding /\ SidOf[c] = s BY <5>2, <5>3, LineIsOf DEF BookOK, InBook
          <5>5. (ExitOK /\ GoneOK /\ Finishing(s) => ses[s].state = "open")' BY <2>0, FinishingIsOpen, PTL
          <5>6. ses'[s].state = "open" BY <2>3, <5>5
          <5>7. ses[s].state = "open" BY <2>1, <3>3, <5>6, Refused DEF Passed, Counted
          <5>8. c \in released BY <1>2, <3>3, <5>4, <5>7 DEF CountOK, Answered, Passed
          <5>9. GivenBack(c) BY <5>8 DEF BackOK, GivenBack
          <5>10. GivenBack(c)' BY <5>2, <5>9, GivenBackStays
          <5> QED BY <4>3, <5>1, <5>10 DEF GivenBack
        <4> QED BY <2>3, <4>2, <4>3, CountedComes
      <3> QED BY <2>3, <3>0, <3>1, <3>2, <3>3, CountMoves
    <2>4. ASSUME conn'.at = "updating" PROVE conn'.left = {} /\ \A b \in Bids : bench'[b] \in {"none", "gone"}
      <3>1. CASE conn' = conn
        BY <1>2, <2>1, <2>4, <3>1, Refused DEF CountOK
      <3>2. CASE CountEnds
        <4>1. conn \in ConnRecord BY DEF Types, HubTypes, ConnTypes
        <4>2. bench \in [Bids -> {"none", "waiting", "running", "cancelled", "exited", "gone"}]
          BY DEF Types, SessionTypes
        <4>3. conn.left = {} /\ conn'.left = conn.left /\ bench' = bench
          BY <3>2, <4>1 DEF CountEnds, At, ConnOnly, ConnRecord
        <4>4. ~\E b \in Bids : bench[b] \in {"waiting", "running", "cancelled", "exited"}
          BY <2>4, <3>2, <4>1 DEF CountEnds, At, ConnRecord
        <4> QED BY <4>2, <4>3, <4>4
      <3>3. ~CountStarts /\ ~CountFinishing /\ \A s \in Sids : ~CountBook(s)
        <4>1. conn \in ConnRecord BY DEF Types, HubTypes, ConnTypes
        <4> QED BY <2>4, <4>1 DEF CountStarts, CountFinishing, CountBook, ConnRecord
      <3> QED BY <2>4, <3>1, <3>2, <3>3, ConnMoves
    <2> QED BY <1>0, <1>2, <2>2, <2>3, <2>4 DEF CountOK, Answered
  <1> QED BY <1>1, <1>2

\* The wait's invariant survives a stutter.
LEMMA WaitKeptAsIs == ASSUME UInv, UNCHANGED vars PROVE UInv'
  <1> USE DEF vars, hubVars, bookVars, feedVars, runVars, repVars, saidVars
  <1>1. DrainOK' BY DEF UInv, DrainOK
  <1>2. GoneOK' BY DEF UInv, GoneOK
  <1>3. BookOK'
    <2>1. \A s, c : (Placed(s, c)' <=> Placed(s, c)) BY DEF Placed, InJobs, InWork, InMail, InPending, Busy
    <2>2. \A s, c : InLine(s, c)' <=> InLine(s, c) BY <2>1 DEF InLine, Holding
    <2> QED BY <2>2 DEF UInv, BookOK, InBook
  <1>4. CountOK'
    <2>1. \A c : (GivenBack(c)' <=> GivenBack(c)) BY DEF GivenBack, Told, Said
    <2>2. \A s : /\ (Counted(s)' <=> Counted(s))
                 /\ (Passed(s)' <=> Passed(s))
                 /\ (Finishing(s)' <=> Finishing(s))
                 /\ (Talking(s)' <=> Talking(s))
      BY DEF Counted, Passed, Finishing, Talking
    <2>3. Answered' = Answered BY DEF Answered
    <2> SUFFICES ASSUME ~scene.resumes
                 PROVE  /\ \A c \in Answered' : Counted(SidOf[c])' => c \in released'
                        /\ \A s \in Sids : (Passed(s) /\ Finishing(s) /\ Talking(s))' => GivenBack(reporter[s].term.claim)'
                        /\ conn'.at = "updating" => conn'.left = {} /\ \A b \in Bids : bench'[b] \in {"none", "gone"}
      BY DEF CountOK
    <2>4. \A c \in Answered' : Counted(SidOf[c])' => c \in released' BY <2>2, <2>3 DEF UInv, CountOK
    <2>5. ASSUME NEW s \in Sids, (Passed(s) /\ Finishing(s) /\ Talking(s))'
          PROVE  GivenBack(reporter[s].term.claim)'
      <3>1. Passed(s) /\ Finishing(s) /\ Talking(s) BY <2>2, <2>5
      <3>2. GivenBack(reporter[s].term.claim) BY <3>1 DEF UInv, CountOK
      <3>3. PICK c : c = reporter[s].term.claim OBVIOUS
      <3>4. GivenBack(c)' BY <2>1, <3>2, <3>3
      <3>5. reporter'[s].term.claim = c BY <3>3
      <3> QED BY <3>4, <3>5 DEF GivenBack, Told, Said
    <2>6. conn'.at = "updating" => conn'.left = {} /\ \A b \in Bids : bench'[b] \in {"none", "gone"}
      BY DEF UInv, CountOK
    <2> QED BY <2>4, <2>5, <2>6
  <1> QED BY <1>1, <1>2, <1>3, <1>4 DEF UInv

\* The wait's invariant holds in every reachable state.
THEOREM WaitInductive == Spec => []UInv
  <1>1. Init => UInv
    <2> SUFFICES ASSUME Init PROVE UInv OBVIOUS
    <2>1. DrainOK /\ GoneOK BY DEF Init, IdleApply, IdleWatcher, Fresh, DrainOK, GoneOK
    <2>2. CountOK BY DEF Init, CountOK, Answered, Counted, Passed
    <2>3. BookOK
      <3> SUFFICES ASSUME NEW s \in Sids, NEW c \in Claims, InLine(s, c) PROVE FALSE BY DEF BookOK, InBook
      <3>1. /\ queue[s] = <<>> /\ jobs[s] = <<>> /\ msgs[s] = <<>> /\ pending[s] = {}
            /\ feeder[s].at = "idle" /\ reporter[s].at = "idle"
            /\ \A w \in Workers : worker[s][w].at = "idle"
        BY DEF Init, IdleWorker
      <3>2. DOMAIN <<>> = {} OBVIOUS
      <3>3. ~InJobs(s, c) /\ ~InWork(s, c) /\ ~InMail(s, c) /\ ~InPending(s, c)
        BY <3>1, <3>2 DEF InJobs, InWork, InMail, InPending, Busy
      <3> QED BY <3>1, <3>2, <3>3 DEF InLine, Placed, Holding, Range
    <2> QED BY <2>1, <2>2, <2>3 DEF UInv
  <1>2. IInv /\ IInv' /\ UInv /\ [Next]_vars => UInv'
    <2> SUFFICES ASSUME IInv, IInv', UInv, [Next]_vars PROVE UInv' OBVIOUS
    <2>1. CASE UNCHANGED vars BY <2>1, WaitKeptAsIs
    <2>2. CASE Next
      <3>1. Types /\ ExitOK /\ WorkersOK /\ BackOK /\ ExitOK' BY DEF IInv, HubInv
      <3>2. \A s \in Sids : FedOK(s) /\ MailOK(s) BY DEF IInv, LineOK
      <3>3. \A s \in Sids : Moves(s) BY <2>2, <3>1, <3>2, LineMoves
      <3>4. DrainOK' BY <2>2, <3>1, DrainKept DEF UInv
      <3>5. GoneOK' BY <2>2, <3>1, <3>3, GoneKept DEF UInv
      <3>6. BookOK' BY <2>2, <3>1, <3>3, BookHolds DEF UInv, IInv
      <3>7. CountOK' BY <2>2, <3>1, <3>2, <3>3, <3>5, CountKept DEF UInv
      <3> QED BY <3>4, <3>5, <3>6, <3>7 DEF UInv
    <2> QED BY <2>1, <2>2
  <1> QED BY <1>1, <1>2, Inductive, PTL DEF Spec

\* While an update is installed under its drain nothing is under way that the library could
\* still wait for, unless the owner resumes: sessions are counted one after another, book first
\* and volumes past the runner after, and yet none gets away (in_flight, drain_for_update).
THEOREM UpdateIsQuiet == Spec => []UpdateWaits
  <1>1. IInv /\ UInv => UpdateWaits
    <2> SUFFICES ASSUME IInv, UInv, ~scene.resumes, conn.at = "updating"
                 PROVE  /\ Answered \subseteq released
                        /\ \A s \in Sids : Finishing(s) /\ Talking(s) =>
                               \/ reporter[s].term.claim \in apply.given
                               \/ Said(reporter[s].term.claim, "released") # {}
                        /\ \A b \in Bids : bench[b] \in {"none", "gone"}
      BY DEF UpdateWaits
    <2>1. conn.left = {} /\ \A b \in Bids : bench[b] \in {"none", "gone"} BY DEF UInv, CountOK
    <2>2. \A s : Counted(s) /\ Passed(s) BY <2>1 DEF Counted, Passed
    <2>3. \A c \in Answered : c \in released BY <2>2 DEF UInv, CountOK
    <2>4. ASSUME NEW s \in Sids, Finishing(s), Talking(s)
          PROVE  reporter[s].term.claim \in apply.given \/ Said(reporter[s].term.claim, "released") # {}
      <3>1. GivenBack(reporter[s].term.claim) BY <2>2, <2>4 DEF UInv, CountOK
      <3> QED BY <2>4, <3>1 DEF GivenBack, Told, Talking
    <2> QED BY <2>1, <2>3, <2>4
  <1> QED BY <1>1, Inductive, WaitInductive, PTL

=============================================================================
