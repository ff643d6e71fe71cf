-------------------------- MODULE ControlProofs --------------------------
(***************************************************************************)
(* What OcrControl asks of the scheduler's mailbox.                        *)
(*                                                                         *)
(* The automatic update (UpdateService): one installer, over a quiet       *)
(* server, never early, for any releases, waits, bounds and faults.        *)
(*                                                                         *)
(* The restart of the local processor (LocalRestart): a new instance finds *)
(* no old one registered, for any number of instances and restarts.        *)
(***************************************************************************)
EXTENDS UpdateService, LocalRestart, SequenceTheorems, TLAPS

Shapes ==
    /\ now \in Nat /\ published \in Releases \cup {0}
    /\ cached \in Releases \cup {0, Failed} /\ target \in Releases \cup {0, Failed}
    /\ task \in {"sleep", "try", "quiet", "asking", "counting", "install", "leave", "gone"}
    /\ admin \in {"none", "look", "install", "audit", "restart"}
    /\ applying \in BOOLEAN /\ drained \in BOOLEAN /\ left \in BOOLEAN /\ claims \in Nat
    /\ drains \in Seq(BOOLEAN)
    /\ task \in {"quiet", "asking", "counting", "install"} => target \in Releases
    /\ due = [v \in Releases |-> due[v]]

\* The flag is taken by the task or by the panel, never by both, and while the panel's connection
\* holds it is given back, or the server leaves.
FlagExcludes ==
    /\ Works \/ admin # "none" => applying
    /\ ~(Works /\ admin # "none")
    /\ ~scene.disconnects /\ applying => Works \/ admin # "none" \/ left

\* What the scheduler will believe once it has handled every drain that was spawned.
Wants == IF drains = <<>> THEN drained ELSE drains[Len(drains)]

\* In order, the last drain is the one of where the task is.
DrainsInOrder ==
    ~scene.reordered =>
        /\ Works => Wants
        /\ task \in {"sleep", "try"} => ~Wants

\* Busy was believed once the drain was there, and nothing ends it before the install does.
QuietStays ==
    Heard /\ task \in {"counting", "install", "leave"} => drains = <<>> /\ drained /\ claims = 0

\* The checks only find newer releases, so the wait that Retry keeps is the one promised for the
\* newest release that failed, and no newer one has failed.
WaitIsKept ==
    ~scene.checkFails =>
        /\ cached \in Nat /\ cached <= published
        /\ retry.version \in Releases \cup {0} /\ retry.version <= cached
        /\ task \in {"try", "quiet", "asking", "counting", "install"} => target \in Nat /\ target <= cached /\ retry.version <= target
        /\ task \notin {"leave", "gone"} =>
             \A v \in Releases :
                /\ v > retry.version => due[v] = [at |-> 0, n |-> 0]
                /\ v = retry.version => retry.failures = due[v].n /\ retry.not_before = due[v].at

IInv == scene \in Scenes /\ Shapes /\ FlagExcludes /\ DrainsInOrder /\ QuietStays /\ WaitIsKept

-----------------------------------------------------------------------------
(* Helpers *)

LEMMA MinOfTwo ==
    ASSUME NEW a \in Int, NEW b \in Int
    PROVE  Min({a, b}) = IF a <= b THEN a ELSE b
<1>1. \E x \in {a, b} : \A y \in {a, b} : x <= y
  OBVIOUS
<1>2. Min({a, b}) \in {a, b} /\ \A y \in {a, b} : Min({a, b}) <= y
  BY <1>1 DEF Min
<1> QED
  BY <1>2

\* What HandleDrain leaves: a sequence, and in order the same last drain.
LEMMA RemoveAny ==
    ASSUME NEW S, NEW s \in Seq(S), NEW i \in 1..Len(s)
    PROVE  SubSeq(s, 1, i - 1) \o SubSeq(s, i + 1, Len(s)) \in Seq(S)
<1>1. SubSeq(s, 1, i - 1) \in Seq(S) /\ SubSeq(s, i + 1, Len(s)) \in Seq(S)
  OBVIOUS
<1> QED
  BY <1>1

LEMMA RemoveFirst ==
    ASSUME NEW S, NEW s \in Seq(S), s # <<>>, NEW t, t = SubSeq(s, 1, 0) \o SubSeq(s, 2, Len(s))
    PROVE  /\ t # <<>> => t[Len(t)] = s[Len(s)]
           /\ t = <<>> => Len(s) = 1
<1>1. SubSeq(s, 1, 0) = <<>>
  OBVIOUS
<1>2. t = SubSeq(s, 2, Len(s))
  BY <1>1
<1>3. Len(t) = Len(s) - 1 /\ t \in Seq(S)
  <2>1. Len(s) \in Nat \ {0}
    BY EmptySeq
  <2> QED
    <3>1. 2 \in Int /\ Len(s) \in Int /\ \A i \in 2..Len(s) : s[i] \in S
      BY <2>1
    <3>2. SubSeq(s, 2, Len(s)) \in Seq(S)
          /\ Len(SubSeq(s, 2, Len(s))) = IF 2 <= Len(s) THEN Len(s) - 2 + 1 ELSE 0
      BY <3>1, SubSeqProperties
    <3>3. t \in Seq(S) /\ Len(t) = IF 2 <= Len(s) THEN Len(s) - 2 + 1 ELSE 0
      BY <1>2, <3>2, Zenon
    <3>4. \A n \in Nat \ {0} : (IF 2 <= n THEN n - 2 + 1 ELSE 0) = n - 1
      OBVIOUS
    <3> QED
      BY <2>1, <3>3, <3>4, Zenon
<1>4. ASSUME Len(t) # 0 PROVE t[Len(t)] = s[Len(s)]
  BY <1>2, <1>3, <1>4
<1>5. (t = <<>>) <=> (Len(t) = 0)
  BY <1>3, EmptySeq
<1> QED
  BY <1>3, <1>4, <1>5

\* The steps of the service, one name each.
LEMMA Cases ==
    ASSUME Next
    PROVE  /\ scene' = scene
           /\ \/ \E fails \in {FALSE, scene.checkFails} : Wake(fails) \/ Refresh(fails)
              \/ \E fails \in {FALSE, scene.checkFails}, again \in BOOLEAN : ApplyLooks(again, fails)
              \/ Kicked \/ TryReports \/ TryBegins \/ CallOff \/ Asks \/ Answered \/ Begin \/ Installed \/ InstallFailed
              \/ Leave \/ Ends
              \/ Toggle \/ Apply \/ ApplyAudited \/ ApplyRestarts \/ ApplyDropped \/ (\E ok \in BOOLEAN : ApplyEnds(ok))
              \/ (\E i \in 1..Len(drains) : HandleDrain(i)) \/ ClaimEnds \/ WriteEnds \/ Claim \/ WriteBegins
              \/ Tick \/ Stop \/ (\E r \in scene.releases : Publish(r))
  BY DEF Next, Checks, TaskStep, AdminStep, QuietStep, HandleDrain

-----------------------------------------------------------------------------
LEMMA ShapesStep == ASSUME IInv, Next PROVE Shapes'
<1> USE DEF Shapes, taskVars, quietVars, quietFrame, Sleeps, CheckResult, Failed
<1>0. Shapes /\ Releases \subseteq Nat /\ scene \in Scene
  BY UpdateAssumption DEF IInv
<1>1. ASSUME NEW fails \in {FALSE, scene.checkFails}, Wake(fails) \/ Refresh(fails) PROVE Shapes'
  BY <1>0, <1>1 DEF Wake, Refresh
<1>2. ASSUME NEW fails \in {FALSE, scene.checkFails}, NEW again \in BOOLEAN, ApplyLooks(again, fails) PROVE Shapes'
  BY <1>0, <1>2 DEF ApplyLooks
<1>3. CASE Kicked \/ TryReports \/ Asks \/ Answered \/ Begin \/ Installed \/ Leave \/ Ends
  <2>1. CASE Kicked \/ TryReports \/ Installed \/ Leave \/ Ends
    BY <1>0, <2>1 DEF Kicked, TryReports, Installed, Leave, Ends
  <2>2. CASE Asks \/ Answered \/ Begin
    BY <1>0, <2>2 DEF Asks, Answered, Begin
  <2> QED
    BY <1>3, <2>1, <2>2
<1>4. CASE TryBegins \/ CallOff \/ InstallFailed
  <2>1. \E b \in BOOLEAN : drains' = Append(drains, b)
    BY <1>4 DEF TryBegins, CallOff, InstallFailed
  <2>2. drains' \in Seq(BOOLEAN)
    BY <1>0, <2>1
  <2>3. CASE TryBegins
    BY <1>0, <2>2, <2>3 DEF TryBegins
  <2>4. CASE CallOff
    BY <1>0, <2>2, <2>4 DEF CallOff
  <2>5. CASE InstallFailed
    <3>1. due' = [v \in Releases |-> due'[v]]
      BY <1>0, <2>5 DEF InstallFailed, Waits
    <3> QED
      BY <1>0, <2>2, <2>5, <3>1 DEF InstallFailed
  <2> QED
    BY <1>4, <2>3, <2>4, <2>5
<1>5. CASE Toggle \/ Apply \/ ApplyAudited \/ ApplyRestarts \/ ApplyDropped
  <2>1. CASE Toggle
    BY <1>0, <2>1 DEF Toggle
  <2>2. CASE Apply
    BY <1>0, <2>2 DEF Apply
  <2>3. CASE ApplyAudited \/ ApplyRestarts \/ ApplyDropped
    BY <1>0, <2>3 DEF ApplyAudited, ApplyRestarts, ApplyDropped
  <2> QED
    BY <1>5, <2>1, <2>2, <2>3
<1>6. ASSUME NEW ok \in BOOLEAN, ApplyEnds(ok) PROVE Shapes'
  BY <1>0, <1>6 DEF ApplyEnds
<1>7. ASSUME NEW i \in 1..Len(drains), HandleDrain(i) PROVE Shapes'
  <2>1. drains' \in Seq(BOOLEAN)
    BY <1>0, <1>7, RemoveAny DEF HandleDrain
  <2>2. drained' = drains[i] /\ drains[i] \in BOOLEAN
    BY <1>0, <1>7 DEF HandleDrain
  <2>3. UNCHANGED <<now, published, auto, cached, kick, task, target, wake, applying, retry, admin, blocked,
                    stopping, left, claims, writes, toggles, due>>
    BY <1>7 DEF HandleDrain
  <2> QED
    BY <1>0, <2>1, <2>2, <2>3
<1>8. CASE ClaimEnds \/ WriteEnds \/ Claim \/ WriteBegins
  BY <1>0, <1>8 DEF ClaimEnds, WriteEnds, Claim, WriteBegins
<1>9. CASE Tick \/ Stop
  BY <1>0, <1>9 DEF Tick, Stop
<1>10. ASSUME NEW r \in scene.releases, Publish(r) PROVE Shapes'
  <2>1. r \in Releases
    BY <1>0 DEF Scene
  <2> QED
    BY <1>0, <1>10, <2>1 DEF Publish
<1> QED
  BY Cases, <1>1, <1>2, <1>3, <1>4, <1>5, <1>6, <1>7, <1>8, <1>9, <1>10

\* The flag is tested and set in one step (swap), and cleared by who set it.
LEMMA FlagStep == ASSUME IInv, Next PROVE FlagExcludes'
<1> USE DEF FlagExcludes, Works, taskVars, Sleeps
<1>0. FlagExcludes /\ task \in {"sleep", "try", "quiet", "asking", "counting", "install", "leave", "gone"} /\ applying \in BOOLEAN
      /\ scene' = scene
  BY Cases DEF IInv, Shapes
<1>1. ASSUME NEW fails \in {FALSE, scene.checkFails}, Wake(fails) \/ Refresh(fails) PROVE FlagExcludes'
  BY <1>0, <1>1 DEF Wake, Refresh
<1>2. ASSUME NEW fails \in {FALSE, scene.checkFails}, NEW again \in BOOLEAN, ApplyLooks(again, fails) PROVE FlagExcludes'
  BY <1>0, <1>2 DEF ApplyLooks
<1>3. CASE Kicked \/ TryReports \/ TryBegins \/ CallOff \/ Asks \/ Answered \/ Begin \/ Installed \/ InstallFailed \/ Leave \/ Ends
  <2>0. CASE Kicked \/ TryReports
    <3>1. /\ UNCHANGED <<admin, applying, left>>
          /\ task \in {"sleep", "try"} /\ task' \in {"sleep", "try"}
      BY <2>0 DEF Kicked, TryReports
    <3> QED
      BY <1>0, <3>1
  <2>1. CASE TryBegins
    BY <1>0, <2>1 DEF TryBegins
  <2>2. CASE CallOff \/ InstallFailed
    BY <1>0, <2>2 DEF CallOff, InstallFailed
  <2>3. CASE Asks \/ Answered \/ Begin \/ Installed \/ Leave \/ Ends
    BY <1>0, <2>3 DEF Asks, Answered, Begin, Installed, Leave, Ends
  <2> QED
    BY <1>3, <2>0, <2>1, <2>2, <2>3
<1>4. CASE Toggle \/ Apply \/ ApplyAudited \/ ApplyRestarts \/ ApplyDropped
  BY <1>0, <1>4 DEF Toggle, Apply, ApplyAudited, ApplyRestarts, ApplyDropped
<1>5. ASSUME NEW ok \in BOOLEAN, ApplyEnds(ok) PROVE FlagExcludes'
  BY <1>0, <1>5 DEF ApplyEnds
<1>6. ASSUME UNCHANGED <<task, admin, applying, left>> PROVE FlagExcludes'
  BY <1>0, <1>6
<1> QED
  BY Cases, <1>1, <1>2, <1>3, <1>4, <1>5, <1>6
     DEF HandleDrain, ClaimEnds, WriteEnds, Claim, WriteBegins, Tick, Stop, Publish, quietFrame

\* Where the drains and where the task is matters, few steps change.
LEMMA OtherSteps ==
    ASSUME Next, ~TryBegins, ~CallOff, ~InstallFailed, ~\E i \in 1..Len(drains) : HandleDrain(i)
    PROVE  /\ UNCHANGED <<drains, drained, scene>>
           /\ \/ UNCHANGED task
              \/ task = "sleep" /\ task' = "try"
              \/ task = "try" /\ task' = "sleep"
              \/ task = "sleep" /\ task' = "gone"
              \/ task = "leave" /\ task' = "gone"
              \/ task = "install" /\ task' = "leave"
              \/ task = "quiet" /\ task' = "asking"
              \/ Answered /\ task = "asking" /\ task' \in {"quiet", "counting"}
              \/ task = "counting" /\ task' \in {"quiet", "install"}
<1> USE DEF taskVars, quietVars, quietFrame, Sleeps
<1>1. CASE Kicked \/ TryReports \/ Asks \/ Answered \/ Begin \/ Installed \/ Leave \/ Ends
  <2>1. CASE Kicked \/ TryReports
    BY <2>1, Cases DEF Kicked, TryReports
  <2>2. CASE Asks \/ Answered \/ Begin
    BY <2>2, Cases DEF Asks, Answered, Begin
  <2>3. CASE Installed \/ Leave \/ Ends
    BY <2>3, Cases DEF Installed, Leave, Ends
  <2> QED
    BY <1>1, <2>1, <2>2, <2>3
<1>2. CASE \E fails \in {FALSE, scene.checkFails} : Wake(fails) \/ Refresh(fails)
  BY <1>2, Cases DEF Wake, Refresh
<1>3. CASE \E fails \in {FALSE, scene.checkFails}, again \in BOOLEAN : ApplyLooks(again, fails)
  BY <1>3, Cases DEF ApplyLooks
<1>4. CASE \/ Toggle \/ Apply \/ ApplyAudited \/ ApplyRestarts \/ ApplyDropped \/ (\E ok \in BOOLEAN : ApplyEnds(ok))
           \/ ClaimEnds \/ WriteEnds \/ Claim \/ WriteBegins
           \/ Tick \/ Stop \/ (\E r \in scene.releases : Publish(r))
  BY <1>4, Cases DEF Toggle, Apply, ApplyAudited, ApplyRestarts, ApplyDropped, ApplyEnds, ClaimEnds, WriteEnds, Claim,
     WriteBegins, Tick, Stop, Publish
<1> QED
  BY Cases, <1>1, <1>2, <1>3, <1>4

LEMMA DrainsStep == ASSUME IInv, Next PROVE DrainsInOrder'
<1> USE DEF Sleeps, Works
<1>0. SUFFICES ASSUME ~scene.reordered PROVE (Works => Wants)' /\ (task \in {"sleep", "try"} => ~Wants)'
  BY Cases DEF DrainsInOrder
<1>1. /\ drains \in Seq(BOOLEAN) /\ drained \in BOOLEAN
      /\ Works => Wants
      /\ task \in {"sleep", "try"} => ~Wants
  BY <1>0 DEF IInv, DrainsInOrder, Shapes
<1>2. ASSUME NEW b \in BOOLEAN, drains' = Append(drains, b) PROVE Wants' = b
  <2>1. drains' \in Seq(BOOLEAN) /\ Len(drains') = Len(drains) + 1 /\ drains'[Len(drains) + 1] = b
    BY <1>1, <1>2
  <2>2. drains' # <<>>
    BY <1>1, <2>1
  <2> QED
    BY <2>1, <2>2 DEF Wants
<1>3. CASE TryBegins
  BY <1>2, <1>3 DEF TryBegins
<1>4. CASE CallOff \/ InstallFailed
  BY <1>2, <1>4 DEF CallOff, InstallFailed
<1>5. ASSUME NEW i \in 1..Len(drains), HandleDrain(i)
      PROVE  (Works => Wants)' /\ (task \in {"sleep", "try"} => ~Wants)'
  <2>0. i = 1
    BY <1>0, <1>5 DEF HandleDrain
  <2>1. /\ drained' = drains[1] /\ task' = task
        /\ drains' = SubSeq(drains, 1, 0) \o SubSeq(drains, 2, Len(drains))
    BY <1>5, <2>0 DEF HandleDrain
  <2>2. drains # <<>>
    BY <1>1
  <2>3. (drains' # <<>> => drains'[Len(drains')] = drains[Len(drains)]) /\ (drains' = <<>> => Len(drains) = 1)
    BY <1>1, <2>1, <2>2, RemoveFirst
  <2>4. Wants' = Wants
    BY <2>1, <2>2, <2>3 DEF Wants
  <2> QED
    BY <1>1, <2>1, <2>4
<1>6. CASE UNCHANGED <<drains, drained, scene>>
           /\ \/ UNCHANGED task
              \/ task = "sleep" /\ task' = "try"
              \/ task = "try" /\ task' = "sleep"
              \/ task = "sleep" /\ task' = "gone"
              \/ task = "leave" /\ task' = "gone"
              \/ task = "install" /\ task' = "leave"
              \/ task = "quiet" /\ task' = "asking"
              \/ task = "asking" /\ task' \in {"quiet", "counting"}
              \/ task = "counting" /\ task' \in {"quiet", "install"}
  BY <1>1, <1>6 DEF Wants
<1> QED
  BY <1>3, <1>4, <1>5, <1>6, OtherSteps

LEMMA QuietKept == ASSUME IInv, Next PROVE QuietStays'
<1>0. SUFFICES ASSUME Heard, (task \in {"counting", "install", "leave"})' PROVE (drains = <<>> /\ drained /\ claims = 0)'
  BY Cases DEF QuietStays, Heard
<1>1. CASE task \in {"counting", "install", "leave"}
  <2>1. drains = <<>> /\ drained /\ claims = 0
    BY <1>0, <1>1 DEF IInv, QuietStays
  <2>2. ~TryBegins /\ ~CallOff /\ ~InstallFailed
    BY <1>0, <1>1 DEF TryBegins, CallOff, InstallFailed, Sleeps
  <2>3. UNCHANGED <<drains, drained>>
    BY <2>1, <2>2, OtherSteps
  <2>4. ~Claim /\ ~ClaimEnds
    BY <2>1 DEF Claim, ClaimEnds
  <2>5. UNCHANGED claims
    BY <2>4, Cases DEF Wake, Refresh, ApplyLooks, Kicked, TryReports, TryBegins, CallOff, Asks, Answered, Begin, Installed,
       InstallFailed, Leave, Ends, Toggle, Apply, ApplyAudited, ApplyRestarts, ApplyDropped, ApplyEnds, HandleDrain, WriteEnds,
       WriteBegins, Tick, Stop, Publish, quietVars
  <2> QED
    BY <2>1, <2>3, <2>5
<1>2. CASE task \notin {"counting", "install", "leave"}
  <2>1. Answered /\ task = "asking" /\ task' = "counting"
    BY <1>0, <1>2, OtherSteps DEF TryBegins, CallOff, InstallFailed, HandleDrain, Sleeps
  <2>2. drains = <<>> /\ claims = 0 /\ UNCHANGED <<drains, drained, claims>>
    BY <1>0, <2>1 DEF Answered, HeardInOrder, SaysNothing, Heard, quietVars
  <2>3. drained
    BY <1>0, <2>1, <2>2 DEF IInv, DrainsInOrder, Works, Wants, Heard
  <2> QED
    BY <2>2, <2>3
<1> QED
  BY <1>1, <1>2

LEMMA WaitStep == ASSUME IInv, Next PROVE WaitIsKept'
<1> USE DEF Sleeps, taskVars, quietVars, quietFrame
<1>0. SUFFICES ASSUME ~scene.checkFails PROVE WaitIsKept'
  BY Cases DEF WaitIsKept
<1>1. /\ WaitIsKept!2 /\ Shapes /\ scene' = scene
      /\ Releases \subseteq Nat \ {0} /\ scene \in Scene /\ MaxFailures \in 1..17
  BY <1>0, Cases, UpdateAssumption DEF IInv, WaitIsKept
<1>2. {FALSE, scene.checkFails} = {FALSE}
  BY <1>0, <1>1 DEF Scene
<1>3. CASE Wake(FALSE) \/ Refresh(FALSE)
  BY <1>1, <1>3 DEF Wake, Refresh, CheckResult, WaitIsKept, Shapes, Failed
<1>4. ASSUME NEW again \in BOOLEAN, ApplyLooks(again, FALSE) PROVE WaitIsKept'
  BY <1>1, <1>4 DEF ApplyLooks, CheckResult, WaitIsKept, Shapes, Failed
<1>5. CASE Kicked \/ TryReports \/ TryBegins
  <2>1. task = "try" => target # Failed
    BY <1>1 DEF Failed
  <2>2. UNCHANGED <<cached, published, retry, due>>
    BY <1>5, <2>1 DEF Kicked, TryReports, TryBegins
  <2>3. \/ task = "sleep" /\ task' = "try" /\ target' = cached
        \/ task = "try" /\ task' = "sleep"
        \/ task = "try" /\ task' = "quiet" /\ UNCHANGED target
    BY <1>5 DEF Kicked, TryReports, TryBegins
  <2> QED
    BY <1>1, <2>2, <2>3 DEF WaitIsKept, Shapes
<1>6. CASE CallOff \/ Asks \/ Answered \/ Begin \/ Leave \/ Ends
  BY <1>1, <1>6 DEF CallOff, Asks, Answered, Begin, Leave, Ends, WaitIsKept, Shapes
<1>7. CASE Installed
  BY <1>1, <1>7 DEF Installed, NoRetry, WaitIsKept, Shapes
<1>8. CASE InstallFailed
  <2>1. /\ task = "install" /\ task' = "sleep" /\ UNCHANGED <<cached, published>>
        /\ retry' = FailedOnce(retry, target) /\ due' = Waits(target)
    BY <1>8 DEF InstallFailed
  <2>2. target \in Releases
    BY <1>1, <2>1 DEF Shapes
  <2> DEFINE n == IF retry.version = target THEN Min({retry.failures + 1, MaxFailures}) ELSE 1
             w == [at |-> now + WaitAfter(n), n |-> n]
  <2>3. retry' = [version |-> target, failures |-> n, not_before |-> now + WaitAfter(n)]
    BY <2>1 DEF FailedOnce
  <2>4. Min({due[target].n + 1, MaxFailures}) = n
    <3>1. CASE retry.version = target
      BY <1>1, <2>1, <2>2, <3>1
    <3>2. CASE retry.version # target
      <4>1. due[target].n = 0
        BY <1>1, <2>1, <2>2, <3>2 DEF Shapes
      <4>2. MaxFailures \in Int /\ 1 <= MaxFailures
        BY <1>1
      <4>3. Min({1, MaxFailures}) = 1
        BY <4>2, MinOfTwo
      <4> QED
        BY <3>2, <4>1, <4>3
    <3> QED
      BY <3>1, <3>2
  <2>5. due' = [due EXCEPT ![target] = w]
    BY <2>1, <2>4 DEF Waits
  <2> HIDE DEF n
  <2>6. w.n = n /\ w.at = now + WaitAfter(n)
    OBVIOUS
  <2> HIDE DEF w
  <2>7. due'[target] = w /\ \A v \in Releases : v # target => due'[v] = due[v]
    BY <1>1, <2>2, <2>5 DEF Shapes
  <2>8. retry'.version = target /\ retry'.failures = w.n /\ retry'.not_before = w.at
    BY <2>3, <2>6
  <2> QED
    BY <1>1, <2>1, <2>2, <2>7, <2>8 DEF WaitIsKept, Shapes
<1>9. ASSUME NEW r \in scene.releases, Publish(r) PROVE WaitIsKept'
  BY <1>1, <1>9 DEF Publish, WaitIsKept, Shapes, Scene
<1>10. ASSUME UNCHANGED <<cached, published, retry, task, target, due>> PROVE WaitIsKept'
  BY <1>1, <1>10 DEF WaitIsKept
<1> QED
  BY Cases, <1>2, <1>3, <1>4, <1>5, <1>6, <1>7, <1>8, <1>9, <1>10
     DEF Toggle, Apply, ApplyAudited, ApplyRestarts, ApplyDropped, ApplyEnds, HandleDrain, ClaimEnds, WriteEnds, Claim,
         WriteBegins, Tick, Stop

-----------------------------------------------------------------------------
LEMMA Invariant == Spec => []IInv
<1>1. Init => IInv
  <2> SUFFICES ASSUME Init PROVE IInv
    OBVIOUS
  <2>1. Shapes
    BY EmptySeq DEF Init, Shapes
  <2>2. WaitIsKept
    BY UpdateAssumption DEF Init, WaitIsKept, NoRetry
  <2> QED
    BY <2>1, <2>2 DEF Init, IInv, FlagExcludes, Works, DrainsInOrder, Wants, QuietStays
<1>2. ASSUME IInv, [Next]_vars PROVE IInv'
  <2>1. CASE Next
    <3>1. (scene \in Scenes)'
      BY <1>2, <2>1, Cases DEF IInv
    <3> QED
      BY <1>2, <2>1, <3>1, ShapesStep, FlagStep, DrainsStep, QuietKept, WaitStep DEF IInv
  <2>2. CASE UNCHANGED vars
    BY <1>2, <2>2 DEF vars, taskVars, quietVars, IInv, Shapes, FlagExcludes, Works, DrainsInOrder, Wants, QuietStays,
       Heard, WaitIsKept
  <2> QED
    BY <1>2, <2>1, <2>2
<1> QED
  BY <1>1, <1>2, PTL DEF Spec

\* The task and the panel never both install a release (applying.swap in try_auto and apply).
THEOREM OneAtATime == Spec => []OneInstaller
<1>1. IInv => OneInstaller
  BY DEF IInv, FlagExcludes, Works, OneInstaller
<1> QED
  BY <1>1, Invariant, PTL

\* "An update is already being applied" is said only while one is, or the server leaves, as long
\* as the panel's connection holds.
THEOREM FlagIsHeld == Spec => []ApplyingIsHeld
<1>1. IInv => ApplyingIsHeld
  BY DEF IInv, FlagExcludes, Works, ApplyingIsHeld
<1> QED
  BY <1>1, Invariant, PTL

\* Both: the applying flag keeps installers apart and is set for no other reason (try_auto, apply).
THEOREM FlagExcludesOthers == Spec => []ApplyingExcludes
BY OneAtATime, FlagIsHeld, PTL DEF ApplyingExcludes

\* No claim is in flight while a release is installed, when the drain arrives before the
\* question and the scheduler answers (auto_install's drain, then busy).
THEOREM InstallsOverQuiet == Spec => []QuietAtInstall
<1>1. IInv => QuietAtInstall
  BY DEF IInv, QuietStays, QuietAtInstall
<1> QED
  BY <1>1, Invariant, PTL

\* An update that gave up has lifted its drain, when the drains arrive in order.
THEOREM DrainEndsWithIt == Spec => []DrainIsLifted
<1>1. IInv => DrainIsLifted
  BY DEF IInv, DrainsInOrder, Wants, DrainIsLifted
<1> QED
  BY <1>1, Invariant, PTL

\* A version that failed waits as long as Retry promised, whatever wakes the task and whatever
\* newer release appears, while no check fails.
THEOREM WaitsItsTime == Spec => NeverEarly
<1>1. ASSUME IInv, [Next]_vars PROVE [scene.checkFails \/ ~BeginsEarly]_vars
  <2>1. ASSUME ~scene.checkFails, TryBegins PROVE now >= due[target].at
    <3>0. target \in Releases /\ task = "try"
      BY <1>1, <2>1 DEF IInv, Shapes, TryBegins, Failed
    <3>w. /\ now \in Nat /\ Releases \subseteq Nat
          /\ retry.version \in Nat /\ retry.version <= target
      BY <1>1, <2>1, <3>0, UpdateAssumption DEF IInv, Shapes, WaitIsKept
    <3>d. /\ target > retry.version => due[target] = [at |-> 0, n |-> 0]
          /\ target = retry.version => retry.not_before = due[target].at
      BY <1>1, <2>1, <3>0 DEF IInv, WaitIsKept
    <3>1. /\ target \in Releases /\ retry.version <= target /\ now \in Nat /\ Releases \subseteq Nat
          /\ retry.version \in Nat
          /\ target > retry.version => due[target] = [at |-> 0, n |-> 0]
          /\ target = retry.version => retry.not_before = due[target].at
      BY <3>0, <3>w, <3>d
    <3>2. target = retry.version => now >= retry.not_before
      BY <2>1 DEF TryBegins, MayTry
    <3> QED
      BY <3>1, <3>2
  <2> QED
    BY <2>1 DEF BeginsEarly
<1> QED
  BY <1>1, Invariant, PTL DEF Spec, NeverEarly

-----------------------------------------------------------------------------
(* The restart of the local processor *)

Up(k) == queue[k].kind = "up"

\* Just before message k is handled no machine is registered as local: the last message that
\* changes it is a Drop (0: there is none, and nothing is registered now).
ClearBefore(k) ==
    \E j \in 0..(k - 1) : /\ IF j = 0 THEN registered = 0 ELSE queue[j].kind = "drop"
                          /\ \A i \in (j + 1)..(k - 1) : ~Up(i)

ClearAtEnd == ClearBefore(Len(queue) + 1)

\* Every start in the mailbox, and the one a restart is about to send, has its Drop before it.
DropsComeFirst ==
    /\ \A k \in 1..Len(queue) : Up(k) => ClearBefore(k)
    /\ restart \in {"waiting", "starting"} => ClearAtEnd

\* Nothing is started between a question and what its answer is used for.
AnswersHold ==
    /\ \A k \in 1..Len(queue) : queue[k].kind = "ask" => queue[k].by <= asked
    /\ restart = "asked" =>
         \A k \in 1..Len(queue) : queue[k] = [kind |-> "ask", by |-> asked] =>
            \A i \in (k + 1)..Len(queue) : ~Up(i)
    /\ restart = "answered" =>
         /\ \A k \in 1..Len(queue) : ~Up(k)
         /\ ~running => registered = 0

\* A restart moves the generation on once.
GenerationsAreAsked ==
    /\ local_gen <= asked
    /\ restart \in {"asked", "answered"} => local_gen < asked

StartsNameInstances == \A k \in 1..Len(queue) : Up(k) => queue[k].by \in Instances

RestartInv ==
    RestartTypeOK /\ StartsNameInstances /\ GenerationsAreAsked /\ DropsComeFirst /\ AnswersHold

LEMMA Sent ==
    ASSUME RestartTypeOK, NEW m \in Messages, Send(m), registered' = registered
    PROVE  /\ queue' \in Seq(Messages) /\ Len(queue) \in Nat /\ Len(queue') = Len(queue) + 1
           /\ queue'[Len(queue) + 1] = m
           /\ \A k \in 1..Len(queue) : queue'[k] = queue[k]
           /\ \A k \in 1..(Len(queue) + 1) : ClearBefore(k) => ClearBefore(k)'
<1>1. queue \in Seq(Messages) /\ queue' = Append(queue, m)
  BY DEF RestartTypeOK, Send
<1>2. /\ queue' \in Seq(Messages) /\ Len(queue) \in Nat /\ Len(queue') = Len(queue) + 1
      /\ queue'[Len(queue) + 1] = m
      /\ \A k \in 1..Len(queue) : queue'[k] = queue[k]
  BY <1>1, AppendProperties
<1>3. ASSUME NEW k \in 1..(Len(queue) + 1), ClearBefore(k)
      PROVE  ClearBefore(k)'
  <2>1. PICK j \in 0..(k - 1) : /\ IF j = 0 THEN registered = 0 ELSE queue[j].kind = "drop"
                                /\ \A i \in (j + 1)..(k - 1) : ~Up(i)
    BY <1>3 DEF ClearBefore
  <2>2. \A i \in 1..(k - 1) : queue'[i] = queue[i]
    BY <1>2
  <2>3. \A i \in (j + 1)..(k - 1) : ~Up(i)'
    BY <2>1, <2>2 DEF Up
  <2>4. IF j = 0 THEN registered' = 0 ELSE queue'[j].kind = "drop"
    BY <2>1, <2>2
  <2> QED BY <2>3, <2>4 DEF ClearBefore
<1> QED BY <1>2, <1>3

\* What is sent keeps the order of drops and starts, if a start comes when it is clear.
LEMMA SentInOrder ==
    ASSUME RestartTypeOK, DropsComeFirst, NEW m \in Messages, Send(m), registered' = registered,
           m.kind = "up" => ClearAtEnd
    PROVE  /\ \A k \in 1..Len(queue') : Up(k)' => ClearBefore(k)'
           /\ m.kind = "drop" => ClearAtEnd'
<1>1. /\ Len(queue) \in Nat /\ Len(queue') = Len(queue) + 1 /\ queue'[Len(queue) + 1] = m
      /\ \A k \in 1..Len(queue) : queue'[k] = queue[k]
      /\ \A k \in 1..(Len(queue) + 1) : ClearBefore(k) => ClearBefore(k)'
  BY Sent
<1>2. ASSUME NEW k \in 1..Len(queue'), Up(k)'
      PROVE  ClearBefore(k)'
  <2>1. CASE k = Len(queue) + 1
    <3>1. ClearBefore(Len(queue) + 1)
      BY <1>1, <1>2, <2>1 DEF Up, ClearAtEnd
    <3> QED BY <1>1, <2>1, <3>1
  <2>2. CASE k \in 1..Len(queue)
    <3>1. Up(k)
      BY <1>1, <1>2, <2>2 DEF Up
    <3> QED BY <1>1, <2>2, <3>1 DEF DropsComeFirst
  <2> QED BY <1>1, <2>1, <2>2
<1>3. ASSUME m.kind = "drop"
      PROVE  ClearAtEnd'
  <2>1. Len(queue') \in 1..Len(queue') /\ queue'[Len(queue')].kind = "drop"
    BY <1>1, <1>3
  <2>2. \A i \in (Len(queue') + 1)..((Len(queue') + 1) - 1) : FALSE
    BY <1>1
  <2>3. Len(queue') \in 0..((Len(queue') + 1) - 1) /\ Len(queue') # 0
    BY <1>1
  <2> QED BY <2>1, <2>2, <2>3 DEF ClearBefore, ClearAtEnd
<1> QED BY <1>2, <1>3

LEMMA Handled ==
    ASSUME RestartTypeOK, Handle
    PROVE  /\ queue' \in Seq(Messages) /\ Len(queue) \in Nat \ {0} /\ Len(queue') = Len(queue) - 1
           /\ Head(queue) = queue[1] /\ queue[1] \in Messages
           /\ \A k \in 1..Len(queue') : queue'[k] = queue[k + 1]
<1>1. queue \in Seq(Messages) /\ queue # <<>> /\ queue' = Tail(queue)
  BY DEF RestartTypeOK, Handle
<1>2. Len(queue) \in Nat \ {0}
  BY <1>1, EmptySeq, LenProperties
<1> QED BY <1>1, <1>2, HeadTailProperties, ElementOfSeq

\* Handling a message leaves what comes after it as clear as it was, unless it is a start that
\* something later was to be cleared of.
LEMMA HandledInOrder ==
    ASSUME RestartTypeOK, Handle, NEW k \in 1..(Len(queue') + 1), ClearBefore(k + 1)
    PROVE  ClearBefore(k)'
<1>1. /\ Len(queue) \in Nat \ {0} /\ Len(queue') = Len(queue) - 1
      /\ Head(queue) = queue[1] /\ queue[1] \in Messages
      /\ \A i \in 1..Len(queue') : queue'[i] = queue[i + 1]
  BY Handled
<1>2. PICK j \in 0..k : /\ IF j = 0 THEN registered = 0 ELSE queue[j].kind = "drop"
                        /\ \A i \in (j + 1)..k : ~Up(i)
  BY <1>1 DEF ClearBefore
<1>3. \A i \in j..(k - 1) : i > 0 => ~Up(i)'
  <2> TAKE i \in j..(k - 1)
  <2> HAVE i > 0
  <2>1. i + 1 \in (j + 1)..k /\ i \in 1..Len(queue')
    BY <1>1
  <2> QED BY <1>1, <1>2, <2>1 DEF Up
<1>4. CASE j >= 2
  <2>1. j - 1 \in 1..(k - 1) /\ j - 1 \in 1..Len(queue')
    BY <1>1, <1>4
  <2>2. queue'[j - 1].kind = "drop"
    BY <1>1, <1>2, <1>4, <2>1
  <2>3. \A i \in ((j - 1) + 1)..(k - 1) : ~Up(i)'
    BY <1>3, <1>4
  <2> QED BY <1>4, <2>1, <2>2, <2>3 DEF ClearBefore
<1>5. CASE j < 2
  <2>1. registered' = 0
    <3>1. CASE j = 0
      <4>1. ~Up(1) /\ registered = 0
        BY <1>2, <3>1
      <4> QED BY <1>1, <4>1 DEF Handle, Up, Messages
    <3>2. CASE j = 1
      <4>1. Head(queue).kind = "drop"
        BY <1>1, <1>2, <3>2
      <4> QED BY <4>1 DEF Handle
    <3> QED BY <1>5, <3>1, <3>2
  <2>2. \A i \in (0 + 1)..(k - 1) : ~Up(i)'
    BY <1>1, <1>3, <1>5
  <2>3. 0 \in 0..(k - 1)
    BY <1>1
  <2> QED BY <2>1, <2>2, <2>3 DEF ClearBefore
<1> QED BY <1>4, <1>5

LEMMA HandleKeeps ==
    ASSUME RestartInv, Handle
    PROVE  RestartInv'
<1>1. /\ queue' \in Seq(Messages) /\ Len(queue) \in Nat \ {0} /\ Len(queue') = Len(queue) - 1
      /\ Head(queue) = queue[1] /\ queue[1] \in Messages
      /\ \A i \in 1..Len(queue') : queue'[i] = queue[i + 1]
  BY Handled DEF RestartInv
<1>a. RestartTypeOK /\ StartsNameInstances /\ GenerationsAreAsked /\ DropsComeFirst /\ AnswersHold
  BY DEF RestartInv
<1>2. UNCHANGED <<local_gen, processor, forwarder, fwdGen, started, ifStopped, asked>>
  BY DEF Handle
<1>3. \/ UNCHANGED <<registered, running, restart>> /\ ~Up(1)
      \/ /\ queue[1] = [kind |-> "ask", by |-> asked] /\ restart = "asked" /\ restart' = "answered"
         /\ running' = (registered # 0) /\ registered' = registered
      \/ Up(1) /\ registered' = queue[1].by /\ UNCHANGED <<running, restart>>
      \/ queue[1].kind = "drop" /\ registered' = 0 /\ UNCHANGED <<running, restart>>
  <2>1. CASE queue[1].kind = "ask"
    BY <1>1, <2>1 DEF Handle, Up, Messages
  <2>2. CASE queue[1].kind = "up"
    BY <1>1, <2>2 DEF Handle, Up
  <2>3. CASE queue[1].kind = "drop"
    BY <1>1, <2>3 DEF Handle, Up
  <2> QED BY <1>1, <2>1, <2>2, <2>3 DEF Messages
<1>4. RestartTypeOK'
  <2>1. Up(1) => queue[1].by \in Instances
    BY <1>a, <1>1 DEF StartsNameInstances
  <2> QED BY <1>a, <1>1, <1>2, <1>3, <2>1 DEF RestartTypeOK
<1>5. GenerationsAreAsked' /\ StartsNameInstances'
  <2>1. GenerationsAreAsked'
    BY <1>a, <1>2, <1>3 DEF GenerationsAreAsked
  <2>2. \A k \in 1..Len(queue') : k + 1 \in 1..Len(queue) /\ (Up(k)' => Up(k + 1))
    BY <1>1 DEF Up
  <2> QED BY <1>a, <1>1, <2>1, <2>2 DEF StartsNameInstances
<1>6. DropsComeFirst'
  <2>1. ASSUME NEW k \in 1..Len(queue'), Up(k)'
        PROVE  ClearBefore(k)'
    <3>1. k + 1 \in 1..Len(queue) /\ Up(k + 1)
      BY <1>1, <2>1 DEF Up
    <3>2. ClearBefore(k + 1)
      BY <1>a, <3>1 DEF DropsComeFirst
    <3> QED BY <1>a, <1>1, <3>2, HandledInOrder
  <2>2. ASSUME restart' \in {"waiting", "starting"}
        PROVE  ClearAtEnd'
    <3>1. PICK n : n = Len(queue') + 1
      OBVIOUS
    <3>2. n + 1 = Len(queue) + 1 /\ n \in 1..(Len(queue') + 1)
      BY <1>1, <3>1
    <3>3. ClearBefore(n + 1)
      BY <1>a, <1>3, <2>2, <3>2 DEF DropsComeFirst, ClearAtEnd
    <3>4. ClearBefore(n)'
      BY <1>a, <3>2, <3>3, HandledInOrder
    <3> QED BY <3>1, <3>4 DEF ClearAtEnd, ClearBefore
  <2> QED BY <2>1, <2>2 DEF DropsComeFirst
<1>7. AnswersHold'
  <2>1. \A k \in 1..Len(queue') : queue'[k].kind = "ask" => queue'[k].by <= asked'
    BY <1>a, <1>1, <1>2 DEF AnswersHold
  <2>2. ASSUME restart' = "asked", NEW k \in 1..Len(queue'), queue'[k] = [kind |-> "ask", by |-> asked'],
               NEW i \in (k + 1)..Len(queue')
        PROVE  ~Up(i)'
    <3>1. restart = "asked" /\ k + 1 \in 1..Len(queue) /\ i + 1 \in ((k + 1) + 1)..Len(queue)
      BY <1>1, <1>3, <2>2
    <3>2. queue[k + 1] = [kind |-> "ask", by |-> asked] /\ i \in 1..Len(queue')
      BY <1>1, <1>2, <2>2
    <3>3. ~Up(i + 1)
      BY <1>a, <3>1, <3>2 DEF AnswersHold
    <3> QED BY <1>1, <3>2, <3>3 DEF Up
  <2>3. ASSUME restart' = "answered"
        PROVE  (\A k \in 1..Len(queue') : ~Up(k)') /\ (~running' => registered' = 0)
    <3>1. \A k \in 2..Len(queue) : ~Up(k)
      BY <1>a, <1>1, <1>3, <2>3 DEF AnswersHold
    <3>2. restart = "answered" => ~Up(1)
      BY <1>a, <1>1 DEF AnswersHold
    <3>3. ~running' => registered' = 0
      BY <1>a, <1>3, <2>3, <3>2 DEF AnswersHold
    <3> QED BY <1>1, <3>1, <3>3 DEF Up
  <2> QED BY <2>1, <2>2, <2>3 DEF AnswersHold
<1> QED BY <1>4, <1>5, <1>6, <1>7 DEF RestartInv

\* A question, a Drop or a start is put behind what is there.
LEMMA SendKeeps ==
    ASSUME RestartInv, NEW m \in Messages, Send(m), registered' = registered,
           m.kind = "up" => m.by \in Instances /\ restart = "starting",
           m.kind = "ask" => asked' = asked + 1 /\ m.by = asked' /\ restart' = "asked",
           m.kind # "ask" => asked' = asked,
           m.kind # "drop" => restart' \notin {"waiting", "starting"},
           restart' = "answered" => restart = "answered" /\ m.kind = "drop" /\ running' = running,
           restart' = "asked" => (restart = "asked" /\ m.kind = "drop") \/ m.kind = "ask"
    PROVE  StartsNameInstances' /\ DropsComeFirst' /\ AnswersHold'
<1>a. RestartTypeOK /\ StartsNameInstances /\ DropsComeFirst /\ AnswersHold
  BY DEF RestartInv
<1>1. /\ queue' \in Seq(Messages) /\ Len(queue) \in Nat /\ Len(queue') = Len(queue) + 1
      /\ queue'[Len(queue) + 1] = m
      /\ \A k \in 1..Len(queue) : queue'[k] = queue[k]
  BY <1>a, Sent
<1>2. /\ \A k \in 1..Len(queue') : Up(k)' => ClearBefore(k)'
      /\ m.kind = "drop" => ClearAtEnd'
  <2>1. m.kind = "up" => ClearAtEnd
    BY <1>a DEF DropsComeFirst
  <2> QED BY <1>a, <2>1, SentInOrder
<1>3. \A k \in 1..Len(queue') : k \in 1..Len(queue) \/ (k = Len(queue) + 1 /\ queue'[k] = m)
  BY <1>1
<1>4. StartsNameInstances'
  BY <1>a, <1>1, <1>3 DEF StartsNameInstances, Up
<1>5. DropsComeFirst'
  <2>1. restart' \in {"waiting", "starting"} => m.kind = "drop"
    OBVIOUS
  <2> QED BY <1>2, <2>1 DEF DropsComeFirst
<1>6. AnswersHold'
  <2>0. asked \in Nat /\ asked' \in Nat /\ asked <= asked'
    BY <1>a DEF RestartTypeOK, Messages
  <2>1. \A k \in 1..Len(queue') : queue'[k].kind = "ask" => queue'[k].by <= asked'
    <3> SUFFICES ASSUME NEW k \in 1..Len(queue'), queue'[k].kind = "ask"
                 PROVE  queue'[k].by <= asked'
      OBVIOUS
    <3>1. CASE k \in 1..Len(queue)
      <4>1. queue[k].by <= asked /\ queue[k] \in Messages
        BY <1>a, <1>1, <3>1, ElementOfSeq DEF AnswersHold, RestartTypeOK
      <4>2. queue[k].by \in Int
        BY <4>1, RestartAssumption DEF Messages, Instances
      <4> QED BY <1>1, <2>0, <3>1, <4>1, <4>2
    <3>2. CASE queue'[k] = m
      BY <2>0, <3>2
    <3> QED BY <1>3, <3>1, <3>2
  <2>2. ASSUME restart' = "asked", NEW k \in 1..Len(queue'), queue'[k] = [kind |-> "ask", by |-> asked'],
               NEW i \in (k + 1)..Len(queue')
        PROVE  ~Up(i)'
    <3>1. CASE m.kind = "ask"
      <4>1. ~(k \in 1..Len(queue))
        <5> SUFFICES ASSUME k \in 1..Len(queue) PROVE FALSE
          OBVIOUS
        <5>1. queue[k] = [kind |-> "ask", by |-> asked']
          BY <1>1, <2>2
        <5>2. asked' <= asked
          BY <1>a, <5>1 DEF AnswersHold
        <5> QED BY <2>0, <3>1, <5>2
      <4> QED BY <1>1, <1>3, <2>2, <4>1
    <3>2. CASE m.kind = "drop" /\ restart = "asked"
      <4>1. CASE i = Len(queue) + 1
        BY <1>1, <3>2, <4>1 DEF Up
      <4>2. CASE i # Len(queue) + 1
        <5>1. k \in 1..Len(queue) /\ i \in (k + 1)..Len(queue) /\ i \in 1..Len(queue)
          BY <1>1, <2>2, <4>2
        <5>2. queue[k] = [kind |-> "ask", by |-> asked]
          BY <1>1, <2>2, <3>2, <5>1
        <5>3. ~Up(i)
          BY <1>a, <3>2, <5>1, <5>2 DEF AnswersHold
        <5> QED BY <1>1, <5>1, <5>3 DEF Up
      <4> QED BY <4>1, <4>2
    <3> QED BY <2>2, <3>1, <3>2
  <2>3. ASSUME restart' = "answered"
        PROVE  (\A k \in 1..Len(queue') : ~Up(k)') /\ (~running' => registered' = 0)
    BY <1>a, <1>1, <1>3, <2>3 DEF AnswersHold, Up
  <2> QED BY <2>1, <2>2, <2>3 DEF AnswersHold
<1> QED BY <1>4, <1>5, <1>6

\* A step that sends and handles nothing.
LEMMA QuietKeeps ==
    ASSUME RestartInv, UNCHANGED <<queue, registered, asked>>,
           restart' \in {"waiting", "starting"} =>
              \/ restart \in {"waiting", "starting"}
              \/ restart = "answered" /\ ~running,
           restart' \in {"asked", "answered"} => UNCHANGED <<restart, running>>
    PROVE  StartsNameInstances' /\ DropsComeFirst' /\ AnswersHold'
<1>a. RestartTypeOK /\ StartsNameInstances /\ DropsComeFirst /\ AnswersHold
  BY DEF RestartInv
<1>1. \A k : Up(k)' <=> Up(k)
  BY DEF Up
<1>2. \A k : ClearBefore(k)' <=> ClearBefore(k)
  BY DEF ClearBefore, Up
<1>3. StartsNameInstances' /\ AnswersHold'
  BY <1>a, <1>1 DEF StartsNameInstances, AnswersHold
<1>4. restart = "answered" /\ ~running => ClearAtEnd
  <2> SUFFICES ASSUME restart = "answered", ~running PROVE ClearAtEnd
    OBVIOUS
  <2>1. registered = 0 /\ \A k \in 1..Len(queue) : ~Up(k)
    BY <1>a DEF AnswersHold
  <2>2. Len(queue) \in Nat
    BY <1>a, LenProperties DEF RestartTypeOK
  <2> QED BY <2>1, <2>2 DEF ClearAtEnd, ClearBefore
<1>5. ClearAtEnd' <=> ClearAtEnd
  BY DEF ClearAtEnd, ClearBefore, Up
<1>6. DropsComeFirst'
  BY <1>a, <1>1, <1>2, <1>4, <1>5 DEF DropsComeFirst
<1> QED BY <1>3, <1>6

LEMMA RestartBegins == RestartInit => RestartInv
<1> SUFFICES ASSUME RestartInit PROVE RestartInv
  OBVIOUS
<1>1. /\ queue = <<>> /\ Len(queue) = 0 /\ queue \in Seq(Messages)
      /\ registered = 0 /\ local_gen = 0 /\ asked = 0 /\ restart = "starting"
  BY EmptySeq DEF RestartInit
<1>2. RestartTypeOK
  <2>1. MaxStarts \in Nat /\ MaxRestarts \in Nat
    BY RestartAssumption
  <2>2. 0 \in 0..MaxStarts /\ 0 \in 0..MaxRestarts /\ 0 \in 0..local_gen
    BY <1>1, <2>1
  <2> QED BY <1>1, <2>2 DEF RestartInit, RestartTypeOK
<1>3. ClearAtEnd
  BY <1>1 DEF ClearAtEnd, ClearBefore
<1> QED BY <1>1, <1>2, <1>3 DEF RestartInv, StartsNameInstances, GenerationsAreAsked, DropsComeFirst,
                               AnswersHold

LEMMA RestartKeeps ==
    ASSUME RestartInv, [RestartNext]_restartVars
    PROVE  RestartInv'
<1>a. RestartTypeOK /\ GenerationsAreAsked
  BY DEF RestartInv
<1>b. /\ local_gen \in Nat /\ asked \in 0..MaxRestarts /\ local_gen <= asked /\ started \in 0..MaxStarts
      /\ MaxStarts \in Nat \ {0} /\ MaxRestarts \in Nat
  BY <1>a, RestartAssumption DEF RestartTypeOK, GenerationsAreAsked
<1>1. ASSUME NEW only \in BOOLEAN, Ask(only)
      PROVE  RestartInv'
  <2>1. PICK m : m = [kind |-> "ask", by |-> asked + 1]
    OBVIOUS
  <2>2. m \in Messages /\ Send(m)
    BY <1>b, <1>1, <2>1 DEF Ask, Messages
  <2>3. StartsNameInstances' /\ DropsComeFirst' /\ AnswersHold'
    BY <1>1, <2>1, <2>2, SendKeeps DEF Ask
  <2>4. RestartTypeOK' /\ GenerationsAreAsked'
    BY <1>a, <1>b, <1>1, <2>2, Sent DEF Ask, RestartTypeOK, GenerationsAreAsked
  <2> QED BY <2>3, <2>4 DEF RestartInv
<1>2. CASE DropOld
  <2>1. PICK m : m = [kind |-> "drop", by |-> 0]
    OBVIOUS
  <2>2. m \in Messages /\ Send(m)
    BY <1>b, <1>2, <2>1 DEF DropOld, Messages
  <2>3. StartsNameInstances' /\ DropsComeFirst' /\ AnswersHold'
    BY <1>2, <2>1, <2>2, SendKeeps DEF DropOld
  <2>4. RestartTypeOK' /\ GenerationsAreAsked'
    BY <1>a, <1>b, <1>2, <2>2, Sent DEF DropOld, RestartTypeOK, GenerationsAreAsked
  <2> QED BY <2>3, <2>4 DEF RestartInv
<1>3. CASE Start
  <2>0. started + 1 \in Instances
    BY <1>b, <1>3 DEF Start, Instances
  <2>1. PICK m : m = [kind |-> "up", by |-> started + 1]
    OBVIOUS
  <2>2. m \in Messages /\ Send(m)
    BY <1>3, <2>0, <2>1 DEF Start, Messages
  <2>3. StartsNameInstances' /\ DropsComeFirst' /\ AnswersHold'
    BY <1>3, <2>0, <2>1, <2>2, SendKeeps DEF Start
  <2>4. RestartTypeOK' /\ GenerationsAreAsked'
    <3>1. queue' \in Seq(Messages)
      BY <1>a, <1>3, <2>2, Sent DEF Start
    <3> QED BY <1>a, <1>b, <1>3, <2>0, <3>1 DEF Start, LoadedGen, RestartTypeOK, GenerationsAreAsked
  <2> QED BY <2>3, <2>4 DEF RestartInv
<1>4. ASSUME NEW n \in Instances, SendEnded(n)
      PROVE  RestartInv'
  <2>1. PICK m : m = [kind |-> "drop", by |-> n]
    OBVIOUS
  <2>2. m \in Messages /\ Send(m)
    BY <1>4, <2>1 DEF SendEnded, Messages
  <2>3. StartsNameInstances' /\ DropsComeFirst' /\ AnswersHold'
    BY <1>4, <2>1, <2>2, SendKeeps DEF SendEnded
  <2>4. RestartTypeOK' /\ GenerationsAreAsked'
    BY <1>a, <1>b, <1>4, <2>2, Sent DEF SendEnded, RestartTypeOK, GenerationsAreAsked
  <2> QED BY <2>3, <2>4 DEF RestartInv
<1>5. CASE GiveUp \/ Bump \/ Proceed \/ Waited \/ NotStarted
  <2>1. RestartTypeOK' /\ GenerationsAreAsked'
    <3>1. CASE Bump
      <4>1. local_gen + 1 <= asked
        BY <1>a, <1>b, <3>1 DEF Bump, GenerationsAreAsked
      <4>2. fwdGen' \in [Instances -> 0..local_gen']
        BY <1>a, <1>b, <3>1 DEF Bump, RestartTypeOK
      <4> QED BY <1>a, <1>b, <3>1, <4>1, <4>2 DEF Bump, RestartTypeOK, GenerationsAreAsked
    <3>2. CASE GiveUp \/ Proceed \/ Waited \/ NotStarted
      BY <1>a, <3>2 DEF GiveUp, Proceed, Waited, NotStarted, RestartTypeOK, GenerationsAreAsked
    <3> QED BY <1>5, <3>1, <3>2
  <2>2. StartsNameInstances' /\ DropsComeFirst' /\ AnswersHold'
    BY <1>5, QuietKeeps DEF GiveUp, Bump, Proceed, Waited, NotStarted
  <2> QED BY <2>1, <2>2 DEF RestartInv
<1>6. ASSUME NEW n \in Instances, ProcessorEnds(n) \/ Test(n)
      PROVE  RestartInv'
  <2>1. RestartTypeOK' /\ GenerationsAreAsked'
    BY <1>a, <1>6 DEF ProcessorEnds, Test, RestartTypeOK, GenerationsAreAsked
  <2>2. StartsNameInstances' /\ DropsComeFirst' /\ AnswersHold'
    BY <1>6, QuietKeeps DEF ProcessorEnds, Test
  <2> QED BY <2>1, <2>2 DEF RestartInv
<1>7. CASE UNCHANGED restartVars
  <2>1. RestartTypeOK' /\ GenerationsAreAsked'
    BY <1>a, <1>7 DEF restartVars, RestartTypeOK, GenerationsAreAsked
  <2>2. StartsNameInstances' /\ DropsComeFirst' /\ AnswersHold'
    BY <1>7, QuietKeeps DEF restartVars
  <2> QED BY <2>1, <2>2 DEF RestartInv
<1> QED BY <1>1, <1>2, <1>3, <1>4, <1>5, <1>6, <1>7, HandleKeeps DEF RestartNext, RestartStep

\* Whatever restarts, crashes and questions nobody waits for any more come together, a new
\* instance of the server's own processor never registers over an old one (control.rs,
\* restart_local; registry.rs, local_up).
THEOREM NewFindsNoOld == RestartSpec => []UpFindsNone
<1>1. RestartInv => UpFindsNone
  <2> SUFFICES ASSUME RestartInv, queue # <<>>, Head(queue).kind = "up" PROVE registered = 0
    BY DEF UpFindsNone
  <2>1. queue \in Seq(Messages) /\ Len(queue) \in Nat \ {0} /\ Head(queue) = queue[1]
    BY EmptySeq, LenProperties, HeadTailProperties DEF RestartInv, RestartTypeOK
  <2>2. ClearBefore(1)
    BY <2>1 DEF RestartInv, DropsComeFirst, Up
  <2> QED BY <2>2 DEF ClearBefore
<1> QED BY <1>1, RestartBegins, RestartKeeps, PTL DEF RestartSpec
=============================================================================
