-------------------------- MODULE OcrSchedulerProofs --------------------------
(***************************************************************************)
(* Who owns a job is never in doubt, for every number of machines, lanes,  *)
(* volumes, generations and claims.                                        *)
(*                                                                         *)
(* Ownership is inductive once it is joined with what names a claim (ids   *)
(* are fresh, a claim and its id name one job), with the results that wait *)
(* for a claim and with the types.  The variables it speaks of change in   *)
(* few ways, one lemma each: claims go back while their sessions stay or   *)
(* end (GiveBack, SessionsStay, EndedSessions), a claim moves to a helper  *)
(* thread (ToHelper), a helper ends (HelperEnds) or installs               *)
(* (HelperInstalls), a claim is submitted to a session, old or new         *)
(* (Submits), or a session opens empty (OpensEmpty).  Every action of Next *)
(* is one of these, or leaves the variables alone, which is a GiveBack of  *)
(* nothing.                                                                *)
(***************************************************************************)
EXTENDS OcrLedger, TLAPS

\* The types of the variables that ownership speaks of.
CoreType ==
    /\ lanes \subseteq Lanes
    /\ laneSession \in [Lanes -> Ids \cup {0}]
    /\ sessions \in [Ids -> Session \cup {NoSession}]
    /\ jobOf \in [Ids -> Jobs \cup {NoJob}]
    /\ claim_seq \in 0..MaxClaims
    /\ claims \in [Jobs -> Claim \cup {NoClaim}]
    /\ results \subseteq [sid : Ids, id : Ids]
    /\ helpers \subseteq Helper

\* The types of what a scan that starts resets.
ScanType ==
    /\ scan \in {"on", "off"}
    /\ attempted \subseteq Jobs
    /\ strikes \in [Rows \X Names -> 0..SESSION_CRASH_LIMIT]
    /\ stopped \subseteq Rows \X Names

\* The types of the others.
RestType ==
    /\ machines \in [Pids -> {"unused", "registered", "up", "cut", "gone"}]
    /\ paused \subseteq Pids /\ tripped \subseteq Pids
    /\ held \subseteq Names \cup {"drain"}
    /\ rows \in [Rows -> {"runnable", "disabled", "removed"}]
    /\ idle \subseteq Lanes /\ waiting \subseteq Lanes
    /\ owed \subseteq Jobs /\ missing \subseteq Jobs /\ failed \subseteq Jobs
    /\ written \in [Jobs -> Nat]
    /\ phase \in {"ready", "pump", "stopped"}
    /\ ScanType

\* No session and none of its claims is newer than the last id used.
SessionsAreOld ==
    \A s \in LiveSids : s <= claim_seq /\ \A i \in sessions[s].ids : i <= claim_seq

\* A claim's id is used and names the claim's job.
ClaimsNameTheirJobs ==
    \A j \in ClaimedJobs : claims[j].id <= claim_seq /\ jobOf[claims[j].id] = j

\* What was delivered to a session is a claim it holds.
DeliveredIsHeld == \A s \in LiveSids : sessions[s].delivered \subseteq sessions[s].ids

\* The two cases of NoOrphanClaim.
RunningIsHeld ==
    \A j \in ClaimedJobs : claims[j].state = "running" =>
        claims[j].sid \in LiveSids /\ claims[j].id \in sessions[claims[j].sid].ids
SettlingIsHelped ==
    \A j \in ClaimedJobs : claims[j].state # "running" =>
        \E h \in helpers : h.job = j /\ h.id = claims[j].id

\* The results R are for claims that are out, unless one may be returned after its upload.
ResultsHeld(R) ==
    ReturnsLate \/ \A r \in R : r.sid \in LiveSids /\ r.id \in sessions[r.sid].ids

Core ==
    /\ CoreType
    /\ SessionsOwnTheirClaims
    /\ RunningIsHeld
    /\ SettlingIsHelped
    /\ HelpersOwnTheirClaims
    /\ LaneSessionsAgree
    /\ ResultsAreAwaited
    /\ SessionsAreOld
    /\ ClaimsNameTheirJobs
    /\ DeliveredIsHeld

\* The inductive invariant.
IInv ==
    /\ Core
    /\ RestType
    /\ NoCancelLeftBehind
    /\ todo \subseteq lanes

-----------------------------------------------------------------------------
(* Facts about the state *)

LEMMA SessionsAreNotNone == \A x \in Session : x # NoSession
BY DEF Session, NoSession

LEMMA ClaimsAreNotNone == \A x \in Claim : x # NoClaim
BY DEF Claim, NoClaim

\* A live session is a Session record, a claim a Claim record.
LEMMA RecordsHaveTypes ==
    ASSUME Core
    PROVE  /\ LiveSids \subseteq Ids
           /\ \A s \in LiveSids : /\ sessions[s] \in Session
                                  /\ sessions[s].lane \in Lanes /\ sessions[s].row \in Rows
                                  /\ sessions[s].ids \subseteq Ids /\ sessions[s].delivered \subseteq Ids
                                  /\ sessions[s].flags \subseteq Flags
           /\ \A j \in ClaimedJobs : /\ j \in Jobs
                                     /\ claims[j] \in Claim
                                     /\ claims[j].lane \in Lanes /\ claims[j].id \in Ids /\ claims[j].sid \in Ids
                                     /\ claims[j].state \in {"running", "settling"}
<1>1. \A s \in LiveSids : sessions[s] \in Session
    BY DEF Core, CoreType, LiveSids, Live
<1>2. \A j \in ClaimedJobs : claims[j] \in Claim
    BY DEF Core, CoreType, ClaimedJobs, IsClaimed
<1> QED
    BY <1>1, <1>2 DEF Session, Claim, LiveSids, ClaimedJobs

\* What a claim that a session holds looks like from the claims.
LEMMA HeldClaims ==
    ASSUME Core, NEW s \in LiveSids, NEW i \in sessions[s].ids
    PROVE  /\ i \in Ids /\ jobOf[i] \in ClaimedJobs
           /\ claims[jobOf[i]].id = i /\ claims[jobOf[i]].sid = s
           /\ claims[jobOf[i]].lane = sessions[s].lane
           /\ claims[jobOf[i]].state = "running"
<1>1. i \in Ids
    BY RecordsHaveTypes
<1>2. /\ jobOf[i] \in Jobs
      /\ claims[jobOf[i]] = [lane |-> sessions[s].lane, id |-> i, sid |-> s, state |-> "running"]
    BY DEF Core, SessionsOwnTheirClaims
<1>3. claims[jobOf[i]] # NoClaim
    BY <1>2 DEF NoClaim
<1> QED
    BY <1>1, <1>2, <1>3 DEF ClaimedJobs, IsClaimed

-----------------------------------------------------------------------------
(* The ways ownership changes *)

\* The claims I go back, the sessions S (all of whose claims are in I) end, and
\* the other sessions keep what they hold besides I (release, end_session,
\* drop_processor).
LEMMA GiveBack ==
    ASSUME Core,
           NEW S \in SUBSET LiveSids, NEW I \in SUBSET Ids,
           IdsOf(S) \subseteq I, I \subseteq IdsOf(LiveSids),
           sessions' \in [Ids -> Session \cup {NoSession}],
           \A s \in Ids : sessions'[s] # NoSession <=> s \in LiveSids /\ s \notin S,
           \A s \in LiveSids \ S : /\ sessions'[s].lane = sessions[s].lane
                                   /\ sessions'[s].ids = sessions[s].ids \ I
                                   /\ sessions'[s].delivered \subseteq sessions'[s].ids,
           claims' = Unclaimed({jobOf[i] : i \in I}),
           laneSession' = LanesWithout(S),
           lanes' \subseteq Lanes,
           \A l \in Lanes : laneSession'[l] # 0 => l \in lanes',
           results' \subseteq [sid : Ids, id : Ids],
           ResultsAreAwaited',
           UNCHANGED <<jobOf, helpers>>,
           claim_seq' \in 0..MaxClaims, claim_seq <= claim_seq',
           inputs' = inputs
    PROVE  Core'
<1> DEFINE js == {jobOf[i] : i \in I}
<1>0. CoreType
    BY DEF Core
<1>1. \A i \in I : \E t \in LiveSids : i \in sessions[t].ids
    BY DEF IdsOf
<1>2. \A i \in I : /\ jobOf[i] \in ClaimedJobs
                   /\ claims[jobOf[i]].id = i /\ claims[jobOf[i]].state = "running"
    BY <1>1, HeldClaims
<1>3. \A j \in Jobs : claims'[j] = IF j \in js THEN NoClaim ELSE claims[j]
    BY DEF Unclaimed
<1>4. ClaimedJobs' = ClaimedJobs \ js
    BY <1>3 DEF ClaimedJobs, IsClaimed
<1>5. LiveSids' = LiveSids \ S
    BY DEF LiveSids, Live
<1>a. \A j \in ClaimedJobs' : claims'[j] = claims[j] /\ j \in ClaimedJobs \ js
    BY <1>3, <1>4 DEF ClaimedJobs
<1>6. CoreType'
  <2>1. claims' \in [Jobs -> Claim \cup {NoClaim}]
    BY <1>0 DEF CoreType, Unclaimed
  <2>2. laneSession' \in [Lanes -> Ids \cup {0}]
    BY <1>0 DEF CoreType, LanesWithout
  <2> QED
    BY <1>0, <2>1, <2>2 DEF CoreType
<1>7. SessionsOwnTheirClaims'
  <2> SUFFICES ASSUME NEW s \in LiveSids \ S, NEW i \in sessions'[s].ids
               PROVE  /\ jobOf[i] \in Jobs
                      /\ claims'[jobOf[i]] = [lane |-> sessions'[s].lane, id |-> i, sid |-> s, state |-> "running"]
    BY <1>5 DEF SessionsOwnTheirClaims
  <2>1. i \in sessions[s].ids /\ i \notin I
    OBVIOUS
  <2>2. /\ jobOf[i] \in Jobs
        /\ claims[jobOf[i]] = [lane |-> sessions[s].lane, id |-> i, sid |-> s, state |-> "running"]
    BY <2>1 DEF Core, SessionsOwnTheirClaims
  <2>3. jobOf[i] \notin js
    BY <1>2, <2>1, <2>2
  <2> QED
    BY <1>3, <2>2, <2>3
<1>8. RunningIsHeld'
  <2> SUFFICES ASSUME NEW j \in ClaimedJobs', claims[j].state = "running"
               PROVE  claims[j].sid \in LiveSids' /\ claims[j].id \in sessions'[claims[j].sid].ids
    BY <1>a DEF RunningIsHeld
  <2> DEFINE t == claims[j].sid
             i == claims[j].id
  <2>1. t \in LiveSids /\ i \in sessions[t].ids
    BY <1>a DEF Core, RunningIsHeld
  <2>2. jobOf[i] = j
    BY <1>a DEF Core, ClaimsNameTheirJobs
  <2>3. i \notin I
    <3>1. j \notin js
      BY <1>a
    <3> QED
      BY <2>2, <3>1
  <2>4. t \notin S
    BY <2>1, <2>3 DEF IdsOf
  <2> QED
    BY <1>5, <2>1, <2>3, <2>4
<1>b. SettlingIsHelped'
  <2>1. ASSUME NEW j \in ClaimedJobs', claims'[j].state # "running"
        PROVE  \E h \in helpers' : h.job = j /\ h.id = claims'[j].id
    <3>1. j \in ClaimedJobs /\ claims'[j] = claims[j]
      BY <1>a
    <3>2. PICK h \in helpers : h.job = j /\ h.id = claims[j].id
      BY <2>1, <3>1 DEF Core, SettlingIsHelped
    <3> QED
      BY <3>1, <3>2
  <2> QED
    BY <2>1 DEF SettlingIsHelped
<1>9. HelpersOwnTheirClaims'
  <2>1. \A h \in helpers : h.job \in Jobs /\ h.job \notin js
    <3> TAKE h \in helpers
    <3>1. h.job \in Jobs
      BY <1>0 DEF CoreType, Helper
    <3>2. claims[h.job].state = "settling"
      BY DEF Core, HelpersOwnTheirClaims, Settling
    <3> QED
      BY <1>2, <3>1, <3>2
  <2>2. \A h \in helpers : claims'[h.job] = claims[h.job]
    BY <1>3, <2>1
  <2> QED
    BY <2>2 DEF Core, HelpersOwnTheirClaims, Settling, IsClaimed
<1>10. LaneSessionsAgree'
  <2>1. \A l \in Lanes : laneSession'[l] = IF \E s \in S : sessions[s].lane = l THEN 0 ELSE laneSession[l]
    BY DEF LanesWithout
  <2>2. ASSUME NEW l \in Lanes, laneSession'[l] # 0
        PROVE  /\ l \in lanes' /\ sessions'[laneSession'[l]] # NoSession
               /\ sessions'[laneSession'[l]].lane = l
    <3>1. laneSession'[l] = laneSession[l] /\ \A s \in S : sessions[s].lane # l
      BY <2>1, <2>2
    <3>2. laneSession[l] \in Ids
      BY <1>0, <2>2, <3>1 DEF CoreType
    <3>3. laneSession[l] \in LiveSids /\ sessions[laneSession[l]].lane = l
      BY <2>2, <3>1, <3>2 DEF Core, LaneSessionsAgree, LiveSids
    <3>4. laneSession[l] \notin S
      BY <3>1, <3>3
    <3> QED
      BY <2>2, <3>1, <3>2, <3>3, <3>4
  <2>3. ASSUME NEW s \in LiveSids \ S
        PROVE  laneSession'[sessions'[s].lane] = s
    <3>1. sessions[s].lane \in Lanes /\ laneSession[sessions[s].lane] = s
      BY RecordsHaveTypes DEF Core, LaneSessionsAgree
    <3>2. \A t \in S : sessions[t].lane # sessions[s].lane
      BY <3>1 DEF Core, LaneSessionsAgree
    <3> QED
      BY <2>1, <3>1, <3>2
  <2> QED
    BY <1>5, <2>2, <2>3 DEF LaneSessionsAgree, Live
<1>11. SessionsAreOld'
  <2> SUFFICES ASSUME NEW s \in LiveSids \ S
               PROVE  s <= claim_seq' /\ \A i \in sessions'[s].ids : i <= claim_seq'
    BY <1>5 DEF SessionsAreOld
  <2>1. s <= claim_seq /\ \A i \in sessions[s].ids : i <= claim_seq
    BY DEF Core, SessionsAreOld
  <2>2. s \in Int /\ claim_seq \in Int /\ claim_seq' \in Int /\ \A i \in sessions[s].ids : i \in Int
    BY <1>0, RecordsHaveTypes DEF CoreType, Ids
  <2> QED
    BY <2>1, <2>2
<1>12. ClaimsNameTheirJobs'
  <2> SUFFICES ASSUME NEW j \in ClaimedJobs \ js
               PROVE  claims[j].id <= claim_seq' /\ jobOf[claims[j].id] = j
    BY <1>a DEF ClaimsNameTheirJobs
  <2>1. claims[j].id <= claim_seq /\ jobOf[claims[j].id] = j
    BY DEF Core, ClaimsNameTheirJobs
  <2>2. claims[j].id \in Int /\ claim_seq \in Int /\ claim_seq' \in Int
    BY <1>0, RecordsHaveTypes DEF CoreType, Ids
  <2> QED
    BY <2>1, <2>2
<1>13. DeliveredIsHeld'
    BY <1>5 DEF DeliveredIsHeld
<1> QED
    BY <1>6, <1>7, <1>8, <1>b, <1>9, <1>10, <1>11, <1>12, <1>13 DEF Core

\* No two sessions hold one claim.
LEMMA HeldOnce ==
    ASSUME Core, NEW s \in LiveSids, NEW t \in LiveSids, NEW i \in sessions[s].ids, i \in sessions[t].ids
    PROVE  s = t
BY HeldClaims

\* The claim i of the session s leaves it for a new helper thread (volume_done,
\* volume_returned).
LEMMA ToHelper ==
    ASSUME Core,
           NEW s \in LiveSids, NEW i \in sessions[s].ids, NEW k \in {"own_copy", "collect"},
           sessions' \in [Ids -> Session \cup {NoSession}],
           \A t \in Ids : sessions'[t] # NoSession <=> t \in LiveSids,
           \A t \in LiveSids : /\ sessions'[t].lane = sessions[t].lane
                               /\ sessions'[t].ids = sessions[t].ids \ {i}
                               /\ sessions'[t].delivered \subseteq sessions'[t].ids,
           claims' = [claims EXCEPT ![jobOf[i]].state = "settling"],
           helpers' = helpers \cup {[kind |-> k, job |-> jobOf[i], id |-> i, sid |-> s]},
           results' \subseteq [sid : Ids, id : Ids],
           ResultsAreAwaited',
           UNCHANGED <<lanes, laneSession, jobOf, claim_seq>>,
           inputs' = inputs
    PROVE  Core'
<1> DEFINE j == jobOf[i]
           h == [kind |-> k, job |-> j, id |-> i, sid |-> s]
<1>0. CoreType
    BY DEF Core
<1>1. /\ i \in Ids /\ j \in ClaimedJobs
      /\ claims[j].id = i /\ claims[j].sid = s /\ claims[j].state = "running"
    BY HeldClaims
<1>2. j \in Jobs /\ s \in Ids /\ claims[j] \in Claim
    BY <1>1, RecordsHaveTypes DEF ClaimedJobs, LiveSids
<1>3. \A x \in Jobs : x # j => claims'[x] = claims[x]
    BY <1>0, <1>2 DEF CoreType
<1>4. /\ claims'[j] \in Claim
      /\ claims'[j].id = i /\ claims'[j].sid = s /\ claims'[j].state = "settling"
    BY <1>0, <1>1, <1>2 DEF CoreType, Claim
<1>5. claims'[j] # NoClaim
    BY <1>4, ClaimsAreNotNone
<1>6. ClaimedJobs' = ClaimedJobs
    BY <1>1, <1>2, <1>3, <1>5 DEF ClaimedJobs, IsClaimed
<1>7. LiveSids' = LiveSids
    BY DEF LiveSids, Live
<1>8. CoreType'
  <2>1. claims' \in [Jobs -> Claim \cup {NoClaim}]
    <3>1. \A x \in Jobs : claims'[x] \in Claim \cup {NoClaim}
      BY <1>0, <1>3, <1>4 DEF CoreType
    <3> QED
      BY <1>0, <3>1 DEF CoreType
  <2>2. h \in Helper
    BY <1>1, <1>2 DEF Helper
  <2>3. helpers' \subseteq Helper
    BY <1>0, <2>2 DEF CoreType
  <2> QED
    BY <1>0, <2>1, <2>3 DEF CoreType
<1>9. SessionsOwnTheirClaims'
  <2> SUFFICES ASSUME NEW t \in LiveSids, NEW n \in sessions'[t].ids
               PROVE  /\ jobOf[n] \in Jobs
                      /\ claims'[jobOf[n]] = [lane |-> sessions'[t].lane, id |-> n, sid |-> t, state |-> "running"]
    BY <1>7 DEF SessionsOwnTheirClaims
  <2>1. n \in sessions[t].ids /\ n # i
    OBVIOUS
  <2>2. /\ jobOf[n] \in Jobs
        /\ claims[jobOf[n]] = [lane |-> sessions[t].lane, id |-> n, sid |-> t, state |-> "running"]
    BY <2>1 DEF Core, SessionsOwnTheirClaims
  <2>3. jobOf[n] # j
    BY <1>1, <2>1, <2>2
  <2> QED
    BY <1>3, <2>2, <2>3
<1>10. RunningIsHeld'
  <2> SUFFICES ASSUME NEW x \in ClaimedJobs, claims'[x].state = "running"
               PROVE  claims'[x].sid \in LiveSids /\ claims'[x].id \in sessions'[claims'[x].sid].ids
    BY <1>6, <1>7 DEF RunningIsHeld
  <2>1. x # j /\ x \in Jobs
    BY <1>4 DEF ClaimedJobs
  <2>2. claims'[x] = claims[x]
    BY <1>3, <2>1
  <2>3. claims[x].sid \in LiveSids /\ claims[x].id \in sessions[claims[x].sid].ids
    BY <2>2 DEF Core, RunningIsHeld
  <2>4. claims[x].id # i
    BY <1>1, <2>1 DEF Core, ClaimsNameTheirJobs
  <2> QED
    BY <2>2, <2>3, <2>4
<1>11. SettlingIsHelped'
  <2>1. ASSUME NEW x \in ClaimedJobs', claims'[x].state # "running"
        PROVE  \E g \in helpers' : g.job = x /\ g.id = claims'[x].id
    <3>1. CASE x = j
      <4>1. h \in helpers' /\ h.job = x /\ h.id = claims'[x].id
        BY <1>4, <3>1
      <4> QED
        BY <4>1
    <3>2. CASE x # j
      <4>1. x \in ClaimedJobs /\ claims'[x] = claims[x]
        BY <1>3, <1>6, <3>2 DEF ClaimedJobs
      <4>2. PICK g \in helpers : g.job = x /\ g.id = claims[x].id
        BY <2>1, <4>1 DEF Core, SettlingIsHelped
      <4> QED
        BY <4>1, <4>2
    <3> QED
      BY <3>1, <3>2
  <2> QED
    BY <2>1 DEF SettlingIsHelped
<1>12. HelpersOwnTheirClaims'
  <2>1. \A g \in helpers : g.job \in Jobs /\ g.job # j /\ claims'[g.job] = claims[g.job]
    <3> TAKE g \in helpers
    <3>1. g.job \in Jobs
      BY <1>0 DEF CoreType, Helper
    <3>2. claims[g.job].state = "settling"
      BY DEF Core, HelpersOwnTheirClaims, Settling
    <3> QED
      BY <1>1, <1>3, <3>1, <3>2
  <2>2. \A g \in helpers' : g \in helpers \/ g = h
    OBVIOUS
  <2>3. h.job = j /\ h.id = i /\ h.sid = s
    OBVIOUS
  <2>4. \A g \in helpers' : /\ claims'[g.job] # NoClaim /\ claims'[g.job].state = "settling"
                            /\ claims'[g.job].id = g.id /\ claims'[g.job].sid = g.sid
    <3> TAKE g \in helpers'
    <3>1. CASE g \in helpers
      BY <2>1, <3>1 DEF Core, HelpersOwnTheirClaims, Settling, IsClaimed
    <3>2. CASE g = h
      BY <1>4, <1>5, <2>3, <3>2
    <3> QED
      BY <2>2, <3>1, <3>2
  <2>5. \A g, f \in helpers' : g.job = f.job => g = f
    <3>1. \A g, f \in helpers : g.job = f.job => g = f
      BY DEF Core, HelpersOwnTheirClaims
    <3> QED
      BY <2>1, <2>2, <2>3, <3>1
  <2> QED
    BY <2>4, <2>5 DEF HelpersOwnTheirClaims, Settling, IsClaimed
<1>13. LaneSessionsAgree'
  <2>1. \A l \in Lanes : laneSession[l] # 0 => laneSession[l] \in LiveSids
    BY <1>0 DEF Core, CoreType, LaneSessionsAgree, LiveSids
  <2>2. \A l \in Lanes : laneSession[l] # 0 => l \in lanes /\ sessions'[laneSession[l]] # NoSession
                                                 /\ sessions'[laneSession[l]].lane = l
    BY <2>1 DEF Core, LaneSessionsAgree, LiveSids
  <2>3. \A t \in LiveSids : laneSession[sessions'[t].lane] = t
    BY DEF Core, LaneSessionsAgree
  <2> QED
    BY <1>7, <2>2, <2>3 DEF LaneSessionsAgree, Live
<1>14. SessionsAreOld'
    BY <1>7 DEF Core, SessionsAreOld
<1>15. ClaimsNameTheirJobs'
  <2> SUFFICES ASSUME NEW x \in ClaimedJobs
               PROVE  claims'[x].id <= claim_seq /\ jobOf[claims'[x].id] = x
    BY <1>6 DEF ClaimsNameTheirJobs
  <2>1. claims'[x].id = claims[x].id
    BY <1>1, <1>3, <1>4 DEF ClaimedJobs
  <2> QED
    BY <2>1 DEF Core, ClaimsNameTheirJobs
<1>16. DeliveredIsHeld'
    BY <1>7 DEF DeliveredIsHeld
<1> QED
    BY <1>8, <1>9, <1>10, <1>11, <1>12, <1>13, <1>14, <1>15, <1>16 DEF Core

\* A helper thread ends and its claim goes back (own_copy_read, collected).
LEMMA HelperEnds ==
    ASSUME Core,
           NEW h \in helpers,
           helpers' = helpers \ {h},
           claims' = Unclaimed({h.job}),
           UNCHANGED <<lanes, laneSession, sessions, jobOf, claim_seq, results>>,
           inputs' = inputs
    PROVE  Core'
<1>0. CoreType
    BY DEF Core
<1>1. h.job \in Jobs /\ claims[h.job] # NoClaim /\ claims[h.job].state = "settling"
    BY <1>0 DEF Core, CoreType, Helper, HelpersOwnTheirClaims, Settling, IsClaimed
<1>2. \A x \in Jobs : claims'[x] = IF x = h.job THEN NoClaim ELSE claims[x]
    BY DEF Unclaimed
<1>3. ClaimedJobs' = ClaimedJobs \ {h.job}
    BY <1>2 DEF ClaimedJobs, IsClaimed
<1>4. \A x \in ClaimedJobs' : claims'[x] = claims[x] /\ x \in ClaimedJobs /\ x # h.job
    BY <1>2, <1>3 DEF ClaimedJobs
<1>5. LiveSids' = LiveSids
    BY DEF LiveSids, Live
<1>6. CoreType'
    BY <1>0 DEF CoreType, Unclaimed
<1>7. SessionsOwnTheirClaims'
  <2> SUFFICES ASSUME NEW t \in LiveSids, NEW n \in sessions[t].ids
               PROVE  /\ jobOf[n] \in Jobs
                      /\ claims'[jobOf[n]] = [lane |-> sessions[t].lane, id |-> n, sid |-> t, state |-> "running"]
    BY <1>5 DEF SessionsOwnTheirClaims
  <2>1. /\ jobOf[n] \in Jobs
        /\ claims[jobOf[n]] = [lane |-> sessions[t].lane, id |-> n, sid |-> t, state |-> "running"]
    BY DEF Core, SessionsOwnTheirClaims
  <2>2. jobOf[n] # h.job
    BY <1>1, <2>1
  <2> QED
    BY <1>2, <2>1, <2>2
<1>8. RunningIsHeld'
    BY <1>4, <1>5 DEF Core, RunningIsHeld
<1>9. SettlingIsHelped'
  <2>1. ASSUME NEW x \in ClaimedJobs', claims'[x].state # "running"
        PROVE  \E g \in helpers' : g.job = x /\ g.id = claims'[x].id
    <3>1. PICK g \in helpers : g.job = x /\ g.id = claims[x].id
      BY <1>4, <2>1 DEF Core, SettlingIsHelped
    <3>2. g # h
      BY <1>4, <3>1
    <3> QED
      BY <1>4, <3>1, <3>2
  <2> QED
    BY <2>1 DEF SettlingIsHelped
<1>10. HelpersOwnTheirClaims'
  <2>1. \A g \in helpers' : g \in helpers /\ g # h
    OBVIOUS
  <2>2. \A g \in helpers' : g.job \in Jobs /\ g.job # h.job
    BY <1>0, <2>1 DEF Core, CoreType, Helper, HelpersOwnTheirClaims
  <2>3. \A g \in helpers' : claims'[g.job] = claims[g.job]
    BY <1>2, <2>2
  <2>4. \A g \in helpers' : /\ claims'[g.job] # NoClaim /\ claims'[g.job].state = "settling"
                            /\ claims'[g.job].id = g.id /\ claims'[g.job].sid = g.sid
    BY <2>1, <2>3 DEF Core, HelpersOwnTheirClaims, Settling, IsClaimed
  <2>5. \A g, f \in helpers' : g.job = f.job => g = f
    BY <2>1 DEF Core, HelpersOwnTheirClaims
  <2> QED
    BY <2>4, <2>5 DEF HelpersOwnTheirClaims, Settling, IsClaimed
<1>11. LaneSessionsAgree'
    BY <1>5 DEF Core, LaneSessionsAgree, Live
<1>12. ResultsAreAwaited'
    BY DEF Core, ResultsAreAwaited, ResultsHeld, ReturnsLate, Live
<1>13. SessionsAreOld'
    BY <1>5 DEF Core, SessionsAreOld
<1>14. ClaimsNameTheirJobs'
    BY <1>4 DEF Core, ClaimsNameTheirJobs
<1>15. DeliveredIsHeld'
    BY <1>5 DEF Core, DeliveredIsHeld
<1> QED
    BY <1>6, <1>7, <1>8, <1>9, <1>10, <1>11, <1>12, <1>13, <1>14, <1>15 DEF Core

\* A helper thread puts the sidecar on disk and has still to say so (install).
LEMMA HelperInstalls ==
    ASSUME Core,
           NEW h \in helpers,
           helpers' = (helpers \ {h}) \cup {[h EXCEPT !.kind = "installed"]},
           UNCHANGED <<lanes, laneSession, sessions, jobOf, claim_seq, claims, results>>,
           inputs' = inputs
    PROVE  Core'
<1> DEFINE k == [h EXCEPT !.kind = "installed"]
<1>0. CoreType
    BY DEF Core
<1>1. h \in Helper
    BY <1>0 DEF CoreType
<1>2. k \in Helper /\ k.job = h.job /\ k.id = h.id /\ k.sid = h.sid
    BY <1>1 DEF Helper
<1>3. ClaimedJobs' = ClaimedJobs
    BY DEF ClaimedJobs, IsClaimed
<1>4. LiveSids' = LiveSids
    BY DEF LiveSids, Live
<1>5. CoreType'
  <2>1. helpers' \subseteq Helper
    BY <1>0, <1>2 DEF CoreType
  <2> QED
    BY <1>0, <2>1 DEF CoreType
<1>6. SettlingIsHelped'
  <2>1. ASSUME NEW x \in ClaimedJobs', claims'[x].state # "running"
        PROVE  \E g \in helpers' : g.job = x /\ g.id = claims'[x].id
    <3>1. PICK g \in helpers : g.job = x /\ g.id = claims[x].id
      BY <1>3, <2>1 DEF Core, SettlingIsHelped
    <3>2. CASE g = h
      <4>1. k \in helpers' /\ k.job = x /\ k.id = claims'[x].id
        BY <1>2, <3>1, <3>2
      <4> QED
        BY <4>1
    <3>3. CASE g # h
      BY <3>1, <3>3
    <3> QED
      BY <3>2, <3>3
  <2> QED
    BY <2>1 DEF SettlingIsHelped
<1>7. HelpersOwnTheirClaims'
  <2>1. \A g \in helpers' : (g \in helpers /\ g # h) \/ g = k
    OBVIOUS
  <2>2. \A g \in helpers : /\ claims[g.job] # NoClaim /\ claims[g.job].state = "settling"
                           /\ claims[g.job].id = g.id /\ claims[g.job].sid = g.sid
    BY DEF Core, HelpersOwnTheirClaims, Settling, IsClaimed
  <2>3. \A g \in helpers' : /\ claims[g.job] # NoClaim /\ claims[g.job].state = "settling"
                            /\ claims[g.job].id = g.id /\ claims[g.job].sid = g.sid
    <3> HIDE DEF k
    <3> QED
      BY <1>2, <2>1, <2>2
  <2>4. \A g, f \in helpers' : g.job = f.job => g = f
    <3>1. \A g, f \in helpers : g.job = f.job => g = f
      BY DEF Core, HelpersOwnTheirClaims
    <3> HIDE DEF k
    <3> QED
      BY <1>2, <2>1, <3>1
  <2> QED
    BY <2>3, <2>4 DEF HelpersOwnTheirClaims, Settling, IsClaimed
<1>8. SessionsOwnTheirClaims' /\ RunningIsHeld' /\ LaneSessionsAgree'
    BY <1>3, <1>4 DEF Core, SessionsOwnTheirClaims, RunningIsHeld, LaneSessionsAgree, Live
<1>9. ResultsAreAwaited' /\ SessionsAreOld' /\ ClaimsNameTheirJobs' /\ DeliveredIsHeld'
    BY <1>3, <1>4 DEF Core, ResultsAreAwaited, ResultsHeld, ReturnsLate, Live, SessionsAreOld, ClaimsNameTheirJobs, DeliveredIsHeld
<1> QED
    BY <1>5, <1>6, <1>7, <1>8, <1>9 DEF Core

\* The next claim id is new to every session and to every claim.
LEMMA NextIdIsNew ==
    ASSUME Core, claim_seq < MaxClaims
    PROVE  /\ Next_id \in Ids /\ Next_id \in 0..MaxClaims /\ claim_seq <= Next_id
           /\ Next_id \notin LiveSids
           /\ \A t \in LiveSids : Next_id \notin sessions[t].ids
           /\ \A j \in ClaimedJobs : claims[j].id # Next_id
<1>1. claim_seq \in 0..MaxClaims /\ MaxClaims \in Nat
    BY SchedulerAssumption DEF Core, CoreType
<1>2. Next_id \in Ids /\ Next_id \in 0..MaxClaims /\ claim_seq <= Next_id
    BY <1>1 DEF Next_id, Ids
<1>3. ~(Next_id <= claim_seq)
    BY <1>1 DEF Next_id
<1> QED
    BY <1>2, <1>3 DEF Core, SessionsAreOld, ClaimsNameTheirJobs

\* The next claim is for j, by the session sid of the lane l: it joins the ones
\* held there, or it opens the session (submit, open_session).
LEMMA Submits ==
    ASSUME Core, claim_seq < MaxClaims,
           NEW l \in lanes, NEW j \in Jobs, ~IsClaimed(j), NEW sid \in Ids,
           \/ sid \in LiveSids /\ laneSession[l] = sid /\ sessions'[sid].ids = sessions[sid].ids \cup {Next_id}
           \/ sid = Next_id /\ laneSession[l] = 0 /\ sessions'[sid].ids = {Next_id},
           sessions' \in [Ids -> Session \cup {NoSession}],
           \A t \in Ids : t # sid => sessions'[t] = sessions[t],
           sessions'[sid] \in Session,
           sessions'[sid].lane = l,
           sessions'[sid].delivered \subseteq sessions'[sid].ids,
           claims' = [claims EXCEPT ![j] = [lane |-> l, id |-> Next_id, sid |-> sid, state |-> "running"]],
           jobOf' = [jobOf EXCEPT ![Next_id] = j],
           claim_seq' = Next_id,
           laneSession' = [laneSession EXCEPT ![l] = sid],
           UNCHANGED <<lanes, helpers, results>>,
           inputs' = inputs
    PROVE  Core'
<1> DEFINE c == [lane |-> l, id |-> Next_id, sid |-> sid, state |-> "running"]
           n == Next_id
<1>0. CoreType
    BY DEF Core
<1>1. /\ n \in Ids /\ n \in 0..MaxClaims /\ claim_seq <= n
      /\ n \notin LiveSids
      /\ \A t \in LiveSids : n \notin sessions[t].ids
      /\ \A x \in ClaimedJobs : claims[x].id # n
    BY NextIdIsNew
<1>a. PICK already : /\ sessions'[sid].ids = already \cup {Next_id}
                     /\ \/ sid \in LiveSids /\ laneSession[l] = sid /\ already = sessions[sid].ids
                        \/ sid = Next_id /\ laneSession[l] = 0 /\ already = {}
  <2>1. CASE sid \in LiveSids /\ laneSession[l] = sid /\ sessions'[sid].ids = sessions[sid].ids \cup {Next_id}
    BY <2>1
  <2>2. CASE sid = Next_id /\ laneSession[l] = 0 /\ sessions'[sid].ids = {Next_id}
    <3>1. sessions'[sid].ids = {} \cup {Next_id}
      BY <2>2
    <3> QED
      BY <2>2, <3>1
  <2> QED
    BY <2>1, <2>2
<1>2. l \in Lanes /\ c \in Claim /\ c # NoClaim
    BY <1>0, <1>1, ClaimsAreNotNone DEF CoreType, Claim
<1>3. /\ claims'[j] = c /\ \A x \in Jobs : x # j => claims'[x] = claims[x]
      /\ jobOf'[n] = j /\ \A i \in Ids : i # n => jobOf'[i] = jobOf[i]
      /\ laneSession'[l] = sid /\ \A m \in Lanes : m # l => laneSession'[m] = laneSession[m]
    BY <1>0, <1>1, <1>2 DEF CoreType
<1>4. j \notin ClaimedJobs /\ ClaimedJobs' = ClaimedJobs \cup {j}
    BY <1>2, <1>3 DEF ClaimedJobs, IsClaimed
<1>5. LiveSids' = LiveSids \cup {sid}
    BY SessionsAreNotNone DEF LiveSids, Live
<1>6. \A t \in LiveSids : /\ sessions[t].lane \in Lanes /\ laneSession[sessions[t].lane] = t
                          /\ t \in Ids /\ t # 0 /\ sessions[t].ids \subseteq Ids
    BY RecordsHaveTypes DEF Core, LaneSessionsAgree, Ids
<1>7. sid \in LiveSids => sessions[sid].lane = l
    BY <1>1, <1>2, <1>6 DEF Core, LaneSessionsAgree
<1>8. \A t \in LiveSids : /\ sessions'[t].lane = sessions[t].lane
                          /\ sessions[t].ids \subseteq sessions'[t].ids
  <2> TAKE t \in LiveSids
  <2>1. CASE t = sid
    <3>1. already = sessions[sid].ids
      BY <1>1, <1>a, <2>1
    <3> QED
      BY <1>7, <1>a, <2>1, <3>1
  <2>2. CASE t # sid
    BY <1>6, <2>2
  <2> QED
    BY <2>1, <2>2
<1>9. \A t \in LiveSids' : \A i \in sessions'[t].ids :
          \/ t = sid /\ i = n
          \/ t \in LiveSids /\ i \in sessions[t].ids /\ i # n
  <2> TAKE t \in LiveSids'
  <2> TAKE i \in sessions'[t].ids
  <2>1. CASE t = sid
    <3>1. i = n \/ i \in already
      BY <1>a, <2>1
    <3>2. CASE i \in already
      BY <1>1, <1>a, <2>1, <3>2
    <3> QED
      BY <2>1, <3>1, <3>2
  <2>2. CASE t # sid
    <3>1. t \in LiveSids
      BY <1>5, <2>2
    <3>2. sessions'[t] = sessions[t]
      BY <1>6, <2>2, <3>1
    <3>3. n \notin sessions[t].ids
      BY <1>1, <3>1
    <3> QED
      BY <3>1, <3>2, <3>3
  <2> QED
    BY <2>1, <2>2
<1>10. CoreType'
  <2>1. claims' \in [Jobs -> Claim \cup {NoClaim}]
    BY <1>0, <1>2 DEF CoreType
  <2>2. jobOf' \in [Ids -> Jobs \cup {NoJob}] /\ laneSession' \in [Lanes -> Ids \cup {0}]
    BY <1>0 DEF CoreType
  <2> QED
    BY <1>0, <1>1, <2>1, <2>2 DEF CoreType
<1>11. SessionsOwnTheirClaims'
  <2> SUFFICES ASSUME NEW t \in LiveSids', NEW i \in sessions'[t].ids
               PROVE  /\ jobOf'[i] \in Jobs
                      /\ claims'[jobOf'[i]] = [lane |-> sessions'[t].lane, id |-> i, sid |-> t, state |-> "running"]
    BY DEF SessionsOwnTheirClaims
  <2>1. CASE t = sid /\ i = n
    BY <1>3, <2>1
  <2>2. CASE t \in LiveSids /\ i \in sessions[t].ids /\ i # n
    <3>1. /\ jobOf[i] \in Jobs
          /\ claims[jobOf[i]] = [lane |-> sessions[t].lane, id |-> i, sid |-> t, state |-> "running"]
      BY <2>2 DEF Core, SessionsOwnTheirClaims
    <3>2. jobOf[i] # j /\ i \in Ids
      BY <1>4, <2>2, HeldClaims
    <3>3. jobOf'[i] = jobOf[i]
      BY <1>3, <2>2, <3>2
    <3> QED
      BY <1>3, <1>8, <2>2, <3>1, <3>2, <3>3
  <2> QED
    BY <1>9, <2>1, <2>2
<1>12. RunningIsHeld'
  <2> SUFFICES ASSUME NEW x \in ClaimedJobs', claims'[x].state = "running"
               PROVE  claims'[x].sid \in LiveSids' /\ claims'[x].id \in sessions'[claims'[x].sid].ids
    BY DEF RunningIsHeld
  <2>1. CASE x = j
    BY <1>3, <1>5, <2>1
  <2>2. CASE x # j
    <3>1. x \in ClaimedJobs /\ claims'[x] = claims[x]
      BY <1>3, <1>4, <2>2 DEF ClaimedJobs
    <3>2. claims[x].sid \in LiveSids /\ claims[x].id \in sessions[claims[x].sid].ids
      BY <3>1 DEF Core, RunningIsHeld
    <3> QED
      BY <1>5, <1>8, <3>1, <3>2
  <2> QED
    BY <2>1, <2>2
<1>13. SettlingIsHelped'
  <2>1. ASSUME NEW x \in ClaimedJobs', claims'[x].state # "running"
        PROVE  \E g \in helpers' : g.job = x /\ g.id = claims'[x].id
    <3>1. x # j
      BY <1>3, <2>1
    <3>2. x \in ClaimedJobs /\ claims'[x] = claims[x]
      BY <1>3, <1>4, <3>1 DEF ClaimedJobs
    <3>3. PICK g \in helpers : g.job = x /\ g.id = claims[x].id
      BY <2>1, <3>2 DEF Core, SettlingIsHelped
    <3> QED
      BY <3>2, <3>3
  <2> QED
    BY <2>1 DEF SettlingIsHelped
<1>14. HelpersOwnTheirClaims'
  <2>1. \A g \in helpers : g.job \in ClaimedJobs
    BY <1>0 DEF Core, CoreType, Helper, HelpersOwnTheirClaims, Settling, ClaimedJobs
  <2>2. \A g \in helpers : claims'[g.job] = claims[g.job]
    BY <1>3, <1>4, <2>1 DEF ClaimedJobs
  <2> QED
    BY <2>2 DEF Core, HelpersOwnTheirClaims, Settling, IsClaimed
<1>15. LaneSessionsAgree'
  <2>1. ASSUME NEW m \in Lanes, laneSession'[m] # 0
        PROVE  m \in lanes /\ sessions'[laneSession'[m]] # NoSession /\ sessions'[laneSession'[m]].lane = m
    <3>1. CASE m = l
      BY <1>3, <3>1, SessionsAreNotNone
    <3>2. CASE m # l
      <4>1. laneSession'[m] = laneSession[m]
        BY <1>3, <3>2
      <4>2. laneSession[m] \in LiveSids /\ m \in lanes /\ sessions[laneSession[m]].lane = m
        BY <1>0, <2>1, <4>1 DEF Core, CoreType, LaneSessionsAgree, LiveSids
      <4>3. laneSession[m] # sid
        BY <1>7, <3>2, <4>2
      <4> QED
        BY <1>6, <4>1, <4>2, <4>3 DEF LiveSids, Live
    <3> QED
      BY <3>1, <3>2
  <2>2. ASSUME NEW t \in LiveSids'
        PROVE  laneSession'[sessions'[t].lane] = t
    <3>1. CASE t = sid
      BY <1>3, <3>1
    <3>2. CASE t # sid
      BY <1>3, <1>5, <1>6, <1>8, <3>2
    <3> QED
      BY <3>1, <3>2
  <2> QED
    BY <2>1, <2>2 DEF LaneSessionsAgree, Live
<1>16. ResultsAreAwaited'
  <2> SUFFICES ASSUME ~ReturnsLate
               PROVE  ResultsAreAwaited'
    BY DEF ResultsAreAwaited, ReturnsLate
  <2>1. \A r \in results : r.sid \in LiveSids /\ r.id \in sessions[r.sid].ids
    BY <1>0 DEF Core, CoreType, ResultsAreAwaited, ResultsHeld, LiveSids
  <2>2. \A t \in LiveSids' : sessions'[t] # NoSession
    BY DEF LiveSids, Live
  <2> QED
    BY <1>5, <1>8, <2>1, <2>2 DEF ResultsAreAwaited, ResultsHeld, Live
<1>17. SessionsAreOld'
  <2>1. \A i \in Ids : i <= claim_seq => i <= n
    BY <1>0, <1>1 DEF CoreType, Ids
  <2>2. n <= n
    BY <1>1 DEF Ids
  <2>3. sid <= n
    BY <1>5, <2>1, <2>2 DEF Core, SessionsAreOld
  <2>4. \A t \in LiveSids : t <= n /\ \A i \in sessions[t].ids : i <= n
    BY <1>6, <2>1 DEF Core, SessionsAreOld
  <2> HIDE DEF n
  <2>5. \A t \in LiveSids' : t <= n /\ \A i \in sessions'[t].ids : i <= n
    BY <1>5, <1>9, <2>2, <2>3, <2>4
  <2> QED
    BY <2>5 DEF SessionsAreOld, n
<1>18. ClaimsNameTheirJobs'
  <2> SUFFICES ASSUME NEW x \in ClaimedJobs'
               PROVE  claims'[x].id <= n /\ jobOf'[claims'[x].id] = x
    BY DEF ClaimsNameTheirJobs
  <2>1. CASE x = j
    BY <1>1, <1>3, <2>1 DEF Ids
  <2>2. CASE x # j
    <3>1. x \in ClaimedJobs /\ claims'[x] = claims[x]
      BY <1>3, <1>4, <2>2 DEF ClaimedJobs
    <3>2. claims[x].id \in Ids /\ claims[x].id # n
      BY <1>1, <3>1, RecordsHaveTypes
    <3>3. claims[x].id <= claim_seq /\ jobOf[claims[x].id] = x
      BY <3>1 DEF Core, ClaimsNameTheirJobs
    <3>4. claims[x].id <= n
      BY <1>0, <1>1, <3>2, <3>3 DEF CoreType, Ids
    <3> QED
      BY <1>3, <3>1, <3>2, <3>3, <3>4
  <2> QED
    BY <2>1, <2>2
<1>19. DeliveredIsHeld'
    BY <1>5, <1>6 DEF Core, DeliveredIsHeld
<1> QED
    BY <1>10, <1>11, <1>12, <1>13, <1>14, <1>15, <1>16, <1>17, <1>18, <1>19 DEF Core

\* A session opens empty: the link died between its OpenSession and its first
\* volume (open_session).
LEMMA OpensEmpty ==
    ASSUME Core, claim_seq < MaxClaims,
           NEW l \in lanes, laneSession[l] = 0,
           NEW x \in Session, x.lane = l, x.ids = {}, x.delivered = {},
           sessions' = [sessions EXCEPT ![Next_id] = x],
           claim_seq' = Next_id,
           laneSession' = [laneSession EXCEPT ![l] = Next_id],
           UNCHANGED <<lanes, jobOf, claims, helpers, results>>,
           inputs' = inputs
    PROVE  Core'
<1> DEFINE n == Next_id
<1>0. CoreType
    BY DEF Core
<1>1. n \in Ids /\ n \in 0..MaxClaims /\ claim_seq <= n /\ n \notin LiveSids
    BY NextIdIsNew
<1>2. l \in Lanes
    BY <1>0 DEF CoreType
<1>3. /\ sessions'[n] = x /\ \A t \in Ids : t # n => sessions'[t] = sessions[t]
      /\ laneSession'[l] = n /\ \A m \in Lanes : m # l => laneSession'[m] = laneSession[m]
    BY <1>0, <1>1, <1>2 DEF CoreType
<1>4. LiveSids' = LiveSids \cup {n}
    BY <1>1, <1>3, SessionsAreNotNone DEF LiveSids, Live
<1>5. \A t \in LiveSids : t \in Ids /\ t # n /\ sessions'[t] = sessions[t]
    BY <1>1, <1>3 DEF LiveSids
<1>6. ClaimedJobs' = ClaimedJobs
    BY DEF ClaimedJobs, IsClaimed
<1> HIDE DEF n
<1>7. CoreType'
  <2>1. sessions' \in [Ids -> Session \cup {NoSession}] /\ laneSession' \in [Lanes -> Ids \cup {0}]
    BY <1>0, <1>1 DEF CoreType, n
  <2> QED
    BY <1>0, <1>1, <2>1 DEF CoreType, n
<1>8. SessionsOwnTheirClaims'
    BY <1>3, <1>4, <1>5 DEF Core, SessionsOwnTheirClaims
<1>9. RunningIsHeld'
    BY <1>4, <1>5, <1>6 DEF Core, RunningIsHeld
<1>10. SettlingIsHelped' /\ HelpersOwnTheirClaims'
    BY <1>6 DEF Core, SettlingIsHelped, HelpersOwnTheirClaims, Settling, IsClaimed
<1>11. LaneSessionsAgree'
  <2>1. ASSUME NEW m \in Lanes, laneSession'[m] # 0
        PROVE  m \in lanes /\ sessions'[laneSession'[m]] # NoSession /\ sessions'[laneSession'[m]].lane = m
    <3>1. CASE m = l
      BY <1>3, <3>1, SessionsAreNotNone
    <3>2. CASE m # l
      <4>1. laneSession[m] \in LiveSids /\ m \in lanes /\ sessions[laneSession[m]].lane = m
        BY <1>0, <1>3, <2>1, <3>2 DEF Core, CoreType, LaneSessionsAgree, LiveSids
      <4> QED
        BY <1>3, <1>5, <3>2, <4>1 DEF LiveSids, Live
    <3> QED
      BY <3>1, <3>2
  <2>2. ASSUME NEW t \in LiveSids'
        PROVE  laneSession'[sessions'[t].lane] = t
    <3>1. CASE t = n
      BY <1>3, <3>1
    <3>2. CASE t \in LiveSids
      <4>1. sessions[t].lane \in Lanes /\ laneSession[sessions[t].lane] = t /\ t # 0
        BY <3>2, RecordsHaveTypes DEF Core, LaneSessionsAgree, Ids
      <4> QED
        BY <1>3, <1>5, <3>2, <4>1
    <3> QED
      BY <1>4, <3>1, <3>2
  <2> QED
    BY <2>1, <2>2 DEF LaneSessionsAgree, Live
<1>12. ResultsAreAwaited'
  <2> SUFFICES ASSUME ~ReturnsLate
               PROVE  ResultsAreAwaited'
    BY DEF ResultsAreAwaited, ReturnsLate
  <2>1. \A r \in results : r.sid \in LiveSids /\ r.id \in sessions[r.sid].ids
    BY <1>0 DEF Core, CoreType, ResultsAreAwaited, ResultsHeld, LiveSids
  <2> QED
    BY <1>5, <2>1 DEF ResultsAreAwaited, ResultsHeld, Live, LiveSids
<1>13. SessionsAreOld'
  <2>1. \A i \in Ids : i <= claim_seq => i <= n
    BY <1>0, <1>1 DEF CoreType, Ids
  <2>2. n <= n
    BY <1>1 DEF Ids
  <2>3. \A t \in LiveSids : t <= n /\ \A i \in sessions[t].ids : i <= n
    BY <2>1, RecordsHaveTypes DEF Core, SessionsAreOld
  <2>4. \A t \in LiveSids' : t <= n /\ \A i \in sessions'[t].ids : i <= n
    BY <1>3, <1>4, <1>5, <2>2, <2>3
  <2> QED
    BY <2>4 DEF SessionsAreOld, n
<1>14. ClaimsNameTheirJobs'
  <2>1. \A j \in ClaimedJobs : claims[j].id <= n /\ jobOf[claims[j].id] = j
    <3> TAKE j \in ClaimedJobs
    <3>1. claims[j].id \in Ids /\ claims[j].id <= claim_seq /\ jobOf[claims[j].id] = j
      BY RecordsHaveTypes DEF Core, ClaimsNameTheirJobs
    <3> QED
      BY <1>0, <1>1, <3>1 DEF CoreType, Ids
  <2> QED
    BY <1>6, <2>1 DEF ClaimsNameTheirJobs, n
<1>15. DeliveredIsHeld'
    BY <1>3, <1>4, <1>5 DEF Core, DeliveredIsHeld
<1> QED
    BY <1>7, <1>8, <1>9, <1>10, <1>11, <1>12, <1>13, <1>14, <1>15 DEF Core

\* The sessions stay and keep their claims; what they noted, the results that
\* wait and the lanes without a session may change.
LEMMA SessionsStay ==
    ASSUME Core,
           sessions' \in [Ids -> Session \cup {NoSession}],
           \A s \in Ids : sessions'[s] # NoSession <=> s \in LiveSids,
           \A s \in LiveSids : /\ sessions'[s].lane = sessions[s].lane
                               /\ sessions'[s].ids = sessions[s].ids
                               /\ sessions'[s].delivered \subseteq sessions'[s].ids,
           lanes' \subseteq Lanes,
           \A l \in Lanes : laneSession[l] # 0 => l \in lanes',
           results' \subseteq [sid : Ids, id : Ids],
           ResultsHeld(results'),
           claim_seq' \in 0..MaxClaims, claim_seq <= claim_seq',
           UNCHANGED <<claims, laneSession, jobOf, helpers>>,
           inputs' = inputs
    PROVE  Core'
<1>1. IdsOf({}) \subseteq {} /\ {} \subseteq IdsOf(LiveSids)
    BY DEF IdsOf
<1>2. claims' = Unclaimed({jobOf[i] : i \in {}})
    BY DEF Core, CoreType, Unclaimed
<1>3. laneSession' = LanesWithout({})
    BY DEF Core, CoreType, LanesWithout
<1>4. ResultsAreAwaited'
    BY DEF ResultsAreAwaited, ResultsHeld, ReturnsLate, Live, LiveSids
<1>5. \A l \in Lanes : laneSession'[l] # 0 => l \in lanes'
    OBVIOUS
<1>6. \A s \in LiveSids \ {} : sessions'[s].ids = sessions[s].ids \ {}
    OBVIOUS
<1>7. \A s \in Ids : sessions'[s] # NoSession <=> s \in LiveSids /\ s \notin {}
    OBVIOUS
<1> QED
    BY <1>1, <1>2, <1>3, <1>4, <1>5, <1>6, <1>7, GiveBack

\* A step that leaves sessions and claims alone, and every lane with a session.
LEMMA SessionsUntouched ==
    ASSUME Core,
           lanes' \subseteq Lanes,
           \A l \in Lanes : laneSession[l] # 0 => l \in lanes',
           UNCHANGED <<claims, laneSession, sessionVars>>,
           inputs' = inputs
    PROVE  Core'
<1> USE DEF sessionVars
<1>1. /\ sessions' \in [Ids -> Session \cup {NoSession}]
      /\ \A s \in Ids : sessions'[s] # NoSession <=> s \in LiveSids
      /\ \A s \in LiveSids : sessions'[s].delivered \subseteq sessions'[s].ids
    BY DEF Core, CoreType, LiveSids, Live, DeliveredIsHeld
<1>2. /\ results' \subseteq [sid : Ids, id : Ids]
      /\ ResultsHeld(results')
    BY DEF Core, CoreType, ResultsAreAwaited, ResultsHeld, LiveSids
<1>3. claim_seq' \in 0..MaxClaims /\ claim_seq <= claim_seq'
    BY SchedulerAssumption DEF Core, CoreType
<1> QED
    BY <1>1, <1>2, <1>3, SessionsStay

\* rebuild_lanes keeps every lane that has a session.
LEMMA RebuiltKeepsBusy ==
    ASSUME lanes \subseteq Lanes, NEW ms, NEW ps, NEW f,
           \A l \in Lanes : f[l] # 0 => l \in lanes
    PROVE  /\ Rebuilt(ms, ps, f) \subseteq Lanes
           /\ \A l \in Lanes : f[l] # 0 => l \in Rebuilt(ms, ps, f)
BY DEF Rebuilt, Wanted

\* A lane with a session is one of the lanes there are.
LEMMA BusyLanesAreLanes ==
    ASSUME Core
    PROVE  lanes \subseteq Lanes /\ \A l \in Lanes : laneSession[l] # 0 => l \in lanes
BY DEF Core, CoreType, LaneSessionsAgree

\* What starts with a scan has its type.
LEMMA ScanStarts ==
    ASSUME StartScan
    PROVE  scan' = "on" /\ attempted' = {} /\ (ScanType => ScanType')
<1>1. [k \in Rows \X Names |-> 0] \in [Rows \X Names -> 0..SESSION_CRASH_LIMIT]
    BY DEF SESSION_CRASH_LIMIT
<1> QED
    BY <1>1 DEF StartScan, ScanType

LEMMA ScanMayStart ==
    ASSUME ScanType, NEW ms, NEW ps, NEW hs, NEW ts, MaybeStartScan(ms, ps, hs, ts)
    PROVE  ScanType'
<1>1. CASE StartScan
    BY <1>1, ScanStarts
<1>2. CASE UNCHANGED <<scan, attempted, strikes, stopped>>
    BY <1>2 DEF ScanType
<1> QED
    BY <1>1, <1>2 DEF MaybeStartScan

-----------------------------------------------------------------------------
(* The actions that leave sessions and claims alone *)

\* Machines come, are paused, held and released.
LEMMA FleetKeepsInv ==
    ASSUME IInv,
           \/ \E p \in Pids : Connect(p) \/ Cut(p) \/ HoldQueue(p) \/ BreakerExpires(p)
           \/ \E p \in Pids, pause \in BOOLEAN : SetAvailability(p, pause)
           \/ \E n \in Names : ReleaseQueue(n)
           \/ SetUpdateDrain,
           inputs' = inputs
    PROVE  IInv'
<1>0. Core /\ RestType /\ ScanType /\ cancelled = {} /\ todo \subseteq lanes
    BY DEF IInv, RestType, NoCancelLeftBehind
<1>1. lanes \subseteq Lanes /\ \A l \in Lanes : laneSession[l] # 0 => l \in lanes
    BY <1>0, BusyLanesAreLanes
<1>2. \A ms, ps : /\ Rebuilt(ms, ps, laneSession) \subseteq Lanes
                  /\ \A l \in Lanes : laneSession[l] # 0 => l \in Rebuilt(ms, ps, laneSession)
    BY <1>1, RebuiltKeepsBusy
<1>3. ASSUME NEW p \in Pids, Connect(p)
      PROVE  IInv'
  <2> USE <1>3 DEF Connect
  <2>1. Core'
    BY <1>0, <1>2, SessionsUntouched DEF sessionVars
  <2>2. ScanType'
    BY <1>0, ScanMayStart
  <2>3. RestType'
    BY <1>0, <2>2 DEF RestType, diskVars, ThenPump
  <2> QED
    BY <1>0, <2>1, <2>3 DEF IInv, NoCancelLeftBehind, ThenPump
<1>4. ASSUME NEW p \in Pids, Cut(p)
      PROVE  IInv'
  <2> USE <1>4 DEF Cut
  <2>1. Core'
    BY <1>0, <1>1, SessionsUntouched DEF sessionVars, laneVars, claimVars
  <2>2. RestType'
    BY <1>0 DEF RestType, ScanType, laneVars, diskVars, claimVars, blameVars
  <2> QED
    BY <1>0, <2>1, <2>2 DEF IInv, NoCancelLeftBehind, claimVars, laneVars
<1>5. ASSUME NEW p \in Pids, NEW pause \in BOOLEAN, SetAvailability(p, pause)
      PROVE  IInv'
  <2> USE <1>5 DEF SetAvailability
  <2>1. Core'
    BY <1>0, <1>2, SessionsUntouched DEF sessionVars
  <2>2. ScanType'
    <3>1. CASE pause
      BY <1>0, <3>1 DEF ScanType
    <3>2. CASE ~pause
      BY <1>0, <3>2, ScanMayStart
    <3> QED
      BY <3>1, <3>2
  <2>3. RestType'
    BY <1>0, <2>2 DEF RestType, diskVars, ThenPump
  <2> QED
    BY <1>0, <2>1, <2>3 DEF IInv, NoCancelLeftBehind, ThenPump
<1>6. CASE SetUpdateDrain
  <2> USE <1>6 DEF SetUpdateDrain
  <2>1. Core'
    BY <1>0, <1>1, SessionsUntouched DEF sessionVars
  <2>2. ScanType'
    <3>1. CASE "drain" \in held
      BY <1>0, <3>1, ScanMayStart
    <3>2. CASE "drain" \notin held
      BY <1>0, <3>2 DEF ScanType
    <3> QED
      BY <3>1, <3>2
  <2>3. RestType'
    BY <1>0, <2>2 DEF RestType, diskVars, ThenPump
  <2> QED
    BY <1>0, <2>1, <2>3 DEF IInv, NoCancelLeftBehind, ThenPump
<1>7. ASSUME NEW p \in Pids, HoldQueue(p)
      PROVE  IInv'
  <2> USE <1>7 DEF HoldQueue
  <2>1. Core'
    BY <1>0, <1>1, SessionsUntouched DEF sessionVars, claimVars
  <2>2. NameOf[p] \in Names
    BY SchedulerAssumption
  <2>3. RestType'
    BY <1>0, <2>2 DEF RestType, ScanType, diskVars, claimVars, blameVars, ThenPump
  <2> QED
    BY <1>0, <2>1, <2>3 DEF IInv, NoCancelLeftBehind, ThenPump, claimVars
<1>8. ASSUME NEW n \in Names, ReleaseQueue(n)
      PROVE  IInv'
  <2> USE <1>8 DEF ReleaseQueue
  <2>1. Core'
    BY <1>0, <1>1, SessionsUntouched DEF sessionVars
  <2>2. ScanType'
    BY <1>0, ScanMayStart
  <2>3. RestType'
    BY <1>0, <2>2 DEF RestType, diskVars, ThenPump
  <2> QED
    BY <1>0, <2>1, <2>3 DEF IInv, NoCancelLeftBehind, ThenPump
<1>9. ASSUME NEW p \in Pids, BreakerExpires(p)
      PROVE  IInv'
  <2> USE <1>9 DEF BreakerExpires
  <2>1. Core'
    BY <1>0, <1>1, SessionsUntouched DEF sessionVars, laneVars, claimVars
  <2>2. RestType'
    BY <1>0 DEF RestType, ScanType, laneVars, diskVars, claimVars, blameVars
  <2> QED
    BY <1>0, <2>1, <2>2 DEF IInv, NoCancelLeftBehind, claimVars, laneVars
<1> QED
    BY <1>3, <1>4, <1>5, <1>6, <1>7, <1>8, <1>9

\* The walk, the operator's retry, the timers.
LEMMA TimersKeepInv ==
    ASSUME IInv,
           \/ \E S \in SUBSET Jobs : Walked(S) \/ RetryFailed(S)
           \/ \E j \in Jobs : FailureExpires(j)
           \/ Tick,
           inputs' = inputs
    PROVE  IInv'
<1>0. Core /\ RestType /\ ScanType /\ cancelled = {} /\ todo \subseteq lanes
    BY DEF IInv, RestType, NoCancelLeftBehind
<1>1. lanes \subseteq Lanes /\ \A l \in Lanes : laneSession[l] # 0 => l \in lanes
    BY <1>0, BusyLanesAreLanes
<1>2. ASSUME NEW S \in SUBSET Jobs, Walked(S)
      PROVE  IInv'
  <2> USE <1>2 DEF Walked
  <2>1. Core'
    BY <1>0, <1>1, SessionsUntouched DEF sessionVars
  <2>2. ScanType'
    BY <1>0, ScanMayStart
  <2>3. RestType'
    BY <1>0, <2>2 DEF RestType, fleetVars, ThenPump
  <2> QED
    BY <1>0, <2>1, <2>3 DEF IInv, NoCancelLeftBehind, ThenPump
<1>3. ASSUME NEW S \in SUBSET Jobs, RetryFailed(S)
      PROVE  IInv'
  <2> USE <1>3 DEF RetryFailed
  <2>1. Core'
    BY <1>0, <1>1, SessionsUntouched DEF sessionVars
  <2>2. ScanType'
    BY <1>0, ScanStarts
  <2>3. RestType'
    BY <1>0, <2>2 DEF RestType, fleetVars, diskVars, ThenPump
  <2> QED
    BY <1>0, <2>1, <2>3 DEF IInv, NoCancelLeftBehind, ThenPump
<1>4. ASSUME NEW j \in Jobs, FailureExpires(j)
      PROVE  IInv'
  <2> USE <1>4 DEF FailureExpires
  <2>1. Core'
    BY <1>0, <1>1, SessionsUntouched DEF sessionVars, laneVars, claimVars
  <2>2. RestType'
    BY <1>0 DEF RestType, ScanType, fleetVars, laneVars, diskVars, claimVars
  <2> QED
    BY <1>0, <2>1, <2>2 DEF IInv, NoCancelLeftBehind, claimVars, laneVars
<1>5. CASE Tick
  <2> USE <1>5 DEF Tick
  <2>1. Core'
    BY <1>0, <1>1, SessionsUntouched DEF sessionVars, claimVars
  <2>2. RestType'
    BY <1>0 DEF RestType, ScanType, fleetVars, diskVars, claimVars, blameVars, ThenPump
  <2> QED
    BY <1>0, <2>1, <2>2 DEF IInv, NoCancelLeftBehind, ThenPump, claimVars
<1> QED
    BY <1>2, <1>3, <1>4, <1>5

\* The pump passes a lane by, or ends.
LEMMA PassingKeepsInv ==
    ASSUME IInv,
           (\E l \in Lanes : PumpIdle(l) \/ PumpSkip(l)) \/ PumpEnd,
           inputs' = inputs
    PROVE  IInv'
<1>0. Core /\ RestType /\ ScanType /\ cancelled = {} /\ todo \subseteq lanes
    BY DEF IInv, RestType, NoCancelLeftBehind
<1>1. lanes \subseteq Lanes /\ \A m \in Lanes : laneSession[m] # 0 => m \in lanes
    BY <1>0, BusyLanesAreLanes
<1>2. ASSUME NEW l \in Lanes, PumpIdle(l)
      PROVE  IInv'
  <2> USE <1>2 DEF PumpIdle
  <2>1. Core'
    BY <1>0, <1>1, SessionsUntouched DEF claimVars
  <2>2. owed' \subseteq Jobs /\ waiting' \subseteq Lanes
    BY <1>0 DEF RestType, ClaimsNothing, Forgotten
  <2>3. RestType'
    BY <1>0, <2>2 DEF RestType, ScanType, fleetVars, claimVars, blameVars
  <2> QED
    BY <1>0, <2>1, <2>3 DEF IInv, NoCancelLeftBehind, claimVars
<1>3. ASSUME NEW l \in Lanes, PumpSkip(l)
      PROVE  IInv'
  <2> USE <1>3 DEF PumpSkip
  <2>1. Core'
    BY <1>0, <1>1, SessionsUntouched DEF claimVars, laneVars
  <2>2. RestType'
    BY <1>0 DEF RestType, ScanType, fleetVars, laneVars, diskVars, claimVars, blameVars
  <2> QED
    BY <1>0, <2>1, <2>2 DEF IInv, NoCancelLeftBehind, claimVars, laneVars
<1>4. CASE PumpEnd
  <2> USE <1>4 DEF PumpEnd
  <2>1. Core'
    BY <1>0, <1>1, SessionsUntouched
  <2>2. RestType'
    BY <1>0 DEF RestType, ScanType, fleetVars, diskVars, blameVars
  <2> QED
    BY <1>0, <2>1, <2>2 DEF IInv, NoCancelLeftBehind
<1> QED
    BY <1>2, <1>3, <1>4

-----------------------------------------------------------------------------
(* The actions that change what a session noted or holds *)

\* A session that notes flags is still the session it was.
LEMMA NotedSession ==
    ASSUME Core, NEW s \in LiveSids, NEW F \in SUBSET Flags,
           sessions' = [sessions EXCEPT ![s].flags = @ \cup F]
    PROVE  /\ sessions' \in [Ids -> Session \cup {NoSession}]
           /\ \A t \in Ids : sessions'[t] # NoSession <=> t \in LiveSids
           /\ \A t \in LiveSids : /\ sessions'[t].lane = sessions[t].lane
                                  /\ sessions'[t].ids = sessions[t].ids
                                  /\ sessions'[t].delivered \subseteq sessions'[t].ids
<1>1. sessions \in [Ids -> Session \cup {NoSession}] /\ s \in Ids
    BY DEF Core, CoreType, LiveSids
<1>2. sessions[s] \in Session
    BY RecordsHaveTypes
<1>3. \A t \in Ids : t # s => sessions'[t] = sessions[t]
    BY <1>1
<1>4. /\ sessions'[s] \in Session
      /\ sessions'[s].lane = sessions[s].lane
      /\ sessions'[s].ids = sessions[s].ids
      /\ sessions'[s].delivered = sessions[s].delivered
    BY <1>1, <1>2 DEF Session
<1>5. sessions' \in [Ids -> Session \cup {NoSession}]
    BY <1>1, <1>3, <1>4
<1>6. \A t \in Ids : sessions'[t] # NoSession <=> t \in LiveSids
    BY <1>1, <1>3, <1>4, SessionsAreNotNone DEF LiveSids, Live
<1>7. \A t \in LiveSids : t \in Ids /\ sessions[t].delivered \subseteq sessions[t].ids
    BY DEF Core, DeliveredIsHeld, LiveSids
<1> QED
    BY <1>3, <1>4, <1>5, <1>6, <1>7

\* So is one that learns that the archive of its claim i was delivered.
LEMMA DeliveredSession ==
    ASSUME Core, NEW s \in LiveSids, NEW i \in sessions[s].ids,
           sessions' = [sessions EXCEPT ![s].delivered = @ \cup {i}]
    PROVE  /\ sessions' \in [Ids -> Session \cup {NoSession}]
           /\ \A t \in Ids : sessions'[t] # NoSession <=> t \in LiveSids
           /\ \A t \in LiveSids : /\ sessions'[t].lane = sessions[t].lane
                                  /\ sessions'[t].ids = sessions[t].ids
                                  /\ sessions'[t].delivered \subseteq sessions'[t].ids
<1>1. sessions \in [Ids -> Session \cup {NoSession}] /\ s \in Ids
    BY DEF Core, CoreType, LiveSids
<1>2. sessions[s] \in Session /\ i \in Ids
    BY RecordsHaveTypes
<1>3. \A t \in Ids : t # s => sessions'[t] = sessions[t]
    BY <1>1
<1>4. /\ sessions'[s] \in Session
      /\ sessions'[s].lane = sessions[s].lane
      /\ sessions'[s].ids = sessions[s].ids
      /\ sessions'[s].delivered = sessions[s].delivered \cup {i}
    BY <1>1, <1>2 DEF Session
<1>5. sessions' \in [Ids -> Session \cup {NoSession}]
    BY <1>1, <1>3, <1>4
<1>6. \A t \in Ids : sessions'[t] # NoSession <=> t \in LiveSids
    BY <1>1, <1>3, <1>4, SessionsAreNotNone DEF LiveSids, Live
<1>7. \A t \in LiveSids : t \in Ids /\ sessions[t].delivered \subseteq sessions[t].ids
    BY DEF Core, DeliveredIsHeld, LiveSids
<1> QED
    BY <1>3, <1>4, <1>5, <1>6, <1>7

\* The results and ids that SessionsStay asks for, when they do not change.
LEMMA ResultsStay ==
    ASSUME Core, UNCHANGED <<claim_seq, results>>
    PROVE  /\ results' \subseteq [sid : Ids, id : Ids]
           /\ ResultsHeld(results')
           /\ claim_seq' \in 0..MaxClaims /\ claim_seq <= claim_seq'
<1>1. results' \subseteq [sid : Ids, id : Ids] /\ claim_seq' \in 0..MaxClaims /\ claim_seq <= claim_seq'
    BY SchedulerAssumption DEF Core, CoreType
<1>2. ResultsHeld(results)
    BY DEF Core, CoreType, ResultsAreAwaited, ResultsHeld, LiveSids
<1> QED
    BY <1>1, <1>2

\* What a processor says of its session: ready, fatal, fetched, started, and the
\* upload of a result.
LEMMA EventsKeepInv ==
    ASSUME IInv, NEW s \in Ids, EventStep(s),
           inputs' = inputs
    PROVE  IInv'
<1>0. Core /\ RestType /\ ScanType /\ cancelled = {} /\ todo \subseteq lanes
    BY DEF IInv, RestType, NoCancelLeftBehind
<1>1. lanes \subseteq Lanes /\ \A l \in Lanes : laneSession[l] # 0 => l \in lanes
    BY <1>0, BusyLanesAreLanes
<1>2. s \in LiveSids
    BY DEF EventStep, Ready, Fatal, Mark, Delivered, VolumeStarted, ResultStored, Holds, Hears, LiveSids
<1>3. ASSUME NEW F \in SUBSET Flags, Mark(s, F)
      PROVE  IInv'
  <2> USE <1>3 DEF Mark
  <2>1. Core'
    BY <1>0, <1>1, <1>2, NotedSession, ResultsStay, SessionsStay DEF Noted, laneVars, claimVars
  <2>2. RestType'
    BY <1>0 DEF RestType, ScanType, fleetVars, laneVars, claimVars, diskVars, blameVars, ThenPump
  <2> QED
    BY <1>0, <2>1, <2>2 DEF IInv, NoCancelLeftBehind, claimVars, ThenPump
<1>4. CASE Ready(s)
    BY <1>3, <1>4 DEF Ready, Flags
<1>5. CASE Fatal(s)
    BY <1>3, <1>5 DEF Fatal, Flags
<1>6. ASSUME NEW i \in Ids, Delivered(s, i)
      PROVE  IInv'
  <2> USE <1>6 DEF Delivered
  <2>1. Core'
    BY <1>0, <1>1, <1>2, DeliveredSession, ResultsStay, SessionsStay DEF Holds, claimVars
  <2>2. RestType'
    BY <1>0 DEF RestType, ScanType, claimVars, diskVars, blameVars, ThenPump
  <2> QED
    BY <1>0, <2>1, <2>2 DEF IInv, NoCancelLeftBehind, claimVars, ThenPump
<1>7. ASSUME NEW i \in Ids, VolumeStarted(s, i)
      PROVE  IInv'
  <2> USE <1>7 DEF VolumeStarted
  <2>1. Core'
    BY <1>0, <1>1, <1>2, DeliveredSession, ResultsStay, SessionsStay DEF Holds, laneVars, claimVars
  <2>2. RestType'
    BY <1>0 DEF RestType, ScanType, fleetVars, laneVars, claimVars, diskVars, blameVars, ThenPump
  <2> QED
    BY <1>0, <2>1, <2>2 DEF IInv, NoCancelLeftBehind, claimVars, ThenPump
<1>8. ASSUME NEW i \in Ids, ResultStored(s, i)
      PROVE  IInv'
  <2> USE <1>8 DEF ResultStored
  <2>1. /\ sessions' \in [Ids -> Session \cup {NoSession}]
        /\ \A t \in Ids : sessions'[t] # NoSession <=> t \in LiveSids
        /\ \A t \in LiveSids : /\ sessions'[t].lane = sessions[t].lane
                               /\ sessions'[t].ids = sessions[t].ids
                               /\ sessions'[t].delivered \subseteq sessions'[t].ids
    BY <1>0 DEF Core, CoreType, LiveSids, Live, DeliveredIsHeld
  <2>a. results' \subseteq [sid : Ids, id : Ids]
    BY <1>0 DEF Core, CoreType
  <2>b. ResultsHeld(results')
    <3>1. CASE ReturnsLate
      BY <3>1 DEF ResultsHeld
    <3>2. CASE ~ReturnsLate
      <4>1. \A r \in results : r.sid \in LiveSids /\ r.id \in sessions[r.sid].ids
        BY <1>0, <3>2 DEF Core, CoreType, ResultsAreAwaited, LiveSids
      <4> QED
        BY <1>2, <4>1 DEF ResultsHeld
    <3> QED
      BY <3>1, <3>2
  <2>2. results' \subseteq [sid : Ids, id : Ids] /\ ResultsHeld(results')
    BY <2>a, <2>b
  <2>3. claim_seq' \in 0..MaxClaims /\ claim_seq <= claim_seq'
    BY <1>0, SchedulerAssumption DEF Core, CoreType
  <2>4. Core'
    BY <1>0, <1>1, <2>1, <2>2, <2>3, SessionsStay DEF laneVars, claimVars
  <2>5. RestType'
    BY <1>0 DEF RestType, ScanType, fleetVars, laneVars, claimVars, diskVars, blameVars, ThenPump
  <2> QED
    BY <1>0, <2>4, <2>5 DEF IInv, NoCancelLeftBehind, claimVars, ThenPump
<1> QED
    BY <1>4, <1>5, <1>6, <1>7, <1>8 DEF EventStep

\* A claim that leaves its session leaves the sessions otherwise as they were.
LEMMA PoppedSession ==
    ASSUME Core, NEW s \in LiveSids, NEW i \in sessions[s].ids, NEW F \in SUBSET Flags,
           \/ sessions' = Popped(s, i)
           \/ sessions' = [Popped(s, i) EXCEPT ![s].flags = @ \cup F]
    PROVE  /\ sessions' \in [Ids -> Session \cup {NoSession}]
           /\ \A t \in Ids : sessions'[t] # NoSession <=> t \in LiveSids
           /\ \A t \in LiveSids : /\ sessions'[t].lane = sessions[t].lane
                                  /\ sessions'[t].ids = sessions[t].ids \ {i}
                                  /\ sessions'[t].delivered \subseteq sessions'[t].ids
<1> DEFINE P == Popped(s, i)
<1>1. sessions \in [Ids -> Session \cup {NoSession}] /\ s \in Ids
    BY DEF Core, CoreType, LiveSids
<1>2. sessions[s] \in Session /\ sessions[s].delivered \subseteq sessions[s].ids
    BY RecordsHaveTypes DEF Core, DeliveredIsHeld
<1>3. P \in [Ids -> Session \cup {NoSession}] /\ \A t \in Ids : t # s => P[t] = sessions[t]
    BY <1>1, <1>2 DEF Popped, Session
<1>4. /\ P[s] \in Session
      /\ P[s].lane = sessions[s].lane
      /\ P[s].ids = sessions[s].ids \ {i}
      /\ P[s].delivered = sessions[s].delivered \ {i}
    BY <1>1, <1>2 DEF Popped, Session
<1> HIDE DEF P
<1>5. \A t \in Ids : t # s => sessions'[t] = sessions[t]
    BY <1>1, <1>3 DEF P
<1>6. /\ sessions'[s] \in Session
      /\ sessions'[s].lane = sessions[s].lane
      /\ sessions'[s].ids = sessions[s].ids \ {i}
      /\ sessions'[s].delivered = sessions[s].delivered \ {i}
      /\ sessions' \in [Ids -> Session \cup {NoSession}]
  <2>1. CASE sessions' = P
    BY <1>3, <1>4, <2>1
  <2>2. CASE sessions' = [P EXCEPT ![s].flags = @ \cup F]
    <3>1. sessions'[s] = [P[s] EXCEPT !.flags = @ \cup F]
      BY <1>1, <1>3, <2>2
    <3>2. /\ sessions'[s] \in Session /\ sessions'[s].lane = P[s].lane
          /\ sessions'[s].ids = P[s].ids /\ sessions'[s].delivered = P[s].delivered
      BY <1>4, <3>1 DEF Session
    <3> QED
      BY <1>1, <1>3, <1>4, <2>2, <3>2
  <2> QED
    BY <2>1, <2>2 DEF P
<1>7. \A t \in Ids : sessions'[t] # NoSession <=> t \in LiveSids
    BY <1>1, <1>5, <1>6, SessionsAreNotNone DEF LiveSids, Live
<1>8. \A t \in LiveSids : t # s => i \notin sessions[t].ids
    BY HeldOnce
<1>9. \A t \in LiveSids : t \in Ids /\ sessions[t].delivered \subseteq sessions[t].ids
    BY DEF Core, DeliveredIsHeld, LiveSids
<1> QED
    BY <1>2, <1>5, <1>6, <1>7, <1>8, <1>9

\* The results that wait when the claim i has left, its own with it unless it
\* may stay behind.
LEMMA ResultsAfterPop ==
    ASSUME Core, NEW s \in LiveSids, NEW i \in sessions[s].ids,
           \A t \in Ids : sessions'[t] # NoSession <=> t \in LiveSids,
           \A t \in LiveSids : sessions'[t].ids = sessions[t].ids \ {i},
           results' \subseteq results,
           ReturnsLate \/ [sid |-> s, id |-> i] \notin results',
           inputs' = inputs
    PROVE  results' \subseteq [sid : Ids, id : Ids] /\ ResultsAreAwaited'
<1>0. results' \subseteq [sid : Ids, id : Ids]
    BY DEF Core, CoreType
<1> SUFFICES ASSUME ~ReturnsLate
             PROVE  ResultsAreAwaited'
    BY <1>0 DEF ResultsAreAwaited, ReturnsLate
<1>1. [sid |-> s, id |-> i] \notin results'
    OBVIOUS
<1>2. \A r \in results' : /\ r.sid \in LiveSids /\ r.sid \in Ids
                          /\ r.id \in sessions[r.sid].ids
                          /\ r = [sid |-> r.sid, id |-> r.id]
    BY <1>0 DEF Core, ResultsAreAwaited, ResultsHeld, LiveSids
<1>3. \A r \in results' : r.id # i
    BY <1>1, <1>2, HeldOnce
<1> QED
    BY <1>2, <1>3 DEF ResultsAreAwaited, ResultsHeld, Live

\* The claims I go back; the sessions that held them stay.
LEMMA ClaimsGoBack ==
    ASSUME Core, NEW I \in SUBSET Ids, I \subseteq IdsOf(LiveSids),
           sessions' \in [Ids -> Session \cup {NoSession}],
           \A t \in Ids : sessions'[t] # NoSession <=> t \in LiveSids,
           \A t \in LiveSids : /\ sessions'[t].lane = sessions[t].lane
                               /\ sessions'[t].ids = sessions[t].ids \ I
                               /\ sessions'[t].delivered \subseteq sessions'[t].ids,
           claims' = Unclaimed({jobOf[i] : i \in I}),
           results' \subseteq [sid : Ids, id : Ids], ResultsAreAwaited',
           UNCHANGED <<lanes, laneSession, jobOf, claim_seq, helpers>>,
           inputs' = inputs
    PROVE  Core'
<1>1. IdsOf({}) \subseteq I
    BY DEF IdsOf
<1>2. laneSession' = LanesWithout({})
    BY DEF Core, CoreType, LanesWithout
<1>3. lanes' \subseteq Lanes /\ \A l \in Lanes : laneSession'[l] # 0 => l \in lanes'
    BY BusyLanesAreLanes
<1>4. claim_seq' \in 0..MaxClaims /\ claim_seq <= claim_seq'
    BY SchedulerAssumption DEF Core, CoreType
<1>5. \A s \in Ids : sessions'[s] # NoSession <=> s \in LiveSids /\ s \notin {}
    OBVIOUS
<1>6. \A s \in LiveSids \ {} : /\ sessions'[s].lane = sessions[s].lane
                               /\ sessions'[s].ids = sessions[s].ids \ I
                               /\ sessions'[s].delivered \subseteq sessions'[s].ids
    OBVIOUS
<1> QED
    BY <1>1, <1>2, <1>3, <1>4, <1>5, <1>6, GiveBack, SMTT(40)

\* What finish and release do to what is not owned.
LEMMA Finished ==
    ASSUME NEW j \in Jobs, NEW ok \in BOOLEAN, Finish(j, ok),
           attempted \subseteq Jobs, failed \subseteq Jobs, cancelled = {}
    PROVE  claims' = Unclaimed({j}) /\ attempted' \subseteq Jobs /\ failed' \subseteq Jobs /\ cancelled' = {}
BY DEF Finish

LEMMA ReleasedOne ==
    ASSUME NEW j \in Jobs, NEW retry \in BOOLEAN, Release(j, retry),
           attempted \subseteq Jobs, failed \subseteq Jobs, cancelled = {}
    PROVE  claims' = Unclaimed({j}) /\ attempted' \subseteq Jobs /\ failed' \subseteq Jobs /\ cancelled' = {}
BY DEF Release

\* volume_failed, volume_done and volume_returned.
LEMMA AnswersKeepInv ==
    ASSUME IInv, NEW s \in Ids, NEW i \in Ids,
           VolumeFailed(s, i) \/ VolumeDone(s, i) \/ (ReturnsInTime(s, i) /\ VolumeReturned(s, i)),
           inputs' = inputs
    PROVE  IInv'
<1> DEFINE j == jobOf[i]
<1>0. Core /\ RestType /\ ScanType /\ cancelled = {} /\ todo \subseteq lanes
    BY DEF IInv, RestType, NoCancelLeftBehind
<1>1. attempted \subseteq Jobs /\ failed \subseteq Jobs
    BY <1>0 DEF RestType, ScanType
<1>2. s \in LiveSids /\ i \in sessions[s].ids
    BY DEF VolumeFailed, VolumeDone, VolumeReturned, Holds, Hears, LiveSids
<1>3. j \in Jobs /\ claims[j] # NoClaim /\ claims[j].sid = s /\ claims[j].id = i
    BY <1>0, <1>2, HeldClaims DEF ClaimedJobs, IsClaimed
<1>4. {i} \subseteq IdsOf(LiveSids) /\ {i} \in SUBSET Ids
    BY <1>2 DEF IdsOf
<1>5. {jobOf[k] : k \in {i}} = {j}
    OBVIOUS
<1>6. sessions[s].lane \in Lanes /\ PidOf(sessions[s].lane) \in Pids
    BY <1>0, <1>2, RecordsHaveTypes DEF Lanes, PidOf
<1>7. CASE VolumeFailed(s, i)
  <2> USE <1>7 DEF VolumeFailed
  <2>1. /\ sessions' \in [Ids -> Session \cup {NoSession}]
        /\ \A t \in Ids : sessions'[t] # NoSession <=> t \in LiveSids
        /\ \A t \in LiveSids : /\ sessions'[t].lane = sessions[t].lane
                               /\ sessions'[t].ids = sessions[t].ids \ {i}
                               /\ sessions'[t].delivered \subseteq sessions'[t].ids
    BY <1>0, <1>2, PoppedSession
  <2>2. results' \subseteq [sid : Ids, id : Ids] /\ ResultsAreAwaited'
    BY <1>0, <1>2, <2>1, ResultsAfterPop
  <2>3. claims' = Unclaimed({j}) /\ attempted' \subseteq Jobs /\ failed' \subseteq Jobs /\ cancelled' = {}
    BY <1>0, <1>1, <1>3, Finished
  <2>4. Core'
    BY <1>0, <1>4, <1>5, <2>1, <2>2, <2>3, ClaimsGoBack
  <2>5. RestType'
    BY <1>0, <2>3 DEF RestType, ScanType, fleetVars, diskVars, ThenPump
  <2> QED
    BY <2>3, <2>4, <2>5 DEF IInv, NoCancelLeftBehind, ThenPump
<1>8. CASE VolumeDone(s, i)
  <2> USE <1>8 DEF VolumeDone
  <2>1. /\ sessions' \in [Ids -> Session \cup {NoSession}]
        /\ \A t \in Ids : sessions'[t] # NoSession <=> t \in LiveSids
        /\ \A t \in LiveSids : /\ sessions'[t].lane = sessions[t].lane
                               /\ sessions'[t].ids = sessions[t].ids \ {i}
                               /\ sessions'[t].delivered \subseteq sessions'[t].ids
    BY <1>0, <1>2, PoppedSession DEF Flags
  <2>2. results' \subseteq [sid : Ids, id : Ids] /\ ResultsAreAwaited'
    BY <1>0, <1>2, <2>1, ResultsAfterPop
  <2>3. Owns(s, i)
    BY <1>3 DEF Owns
  <2>4. Core'
    BY <1>0, <1>2, <2>1, <2>2, <2>3, ToHelper DEF laneVars
  <2>5. RestType'
    BY <1>0 DEF RestType, ScanType, fleetVars, laneVars, diskVars, blameVars, ThenPump
  <2> QED
    BY <1>0, <2>4, <2>5 DEF IInv, NoCancelLeftBehind, ThenPump
<1>9. CASE ReturnsInTime(s, i) /\ VolumeReturned(s, i)
  <2> USE <1>9 DEF VolumeReturned
  <2>1. /\ sessions' \in [Ids -> Session \cup {NoSession}]
        /\ \A t \in Ids : sessions'[t] # NoSession <=> t \in LiveSids
        /\ \A t \in LiveSids : /\ sessions'[t].lane = sessions[t].lane
                               /\ sessions'[t].ids = sessions[t].ids \ {i}
                               /\ sessions'[t].delivered \subseteq sessions'[t].ids
    BY <1>0, <1>2, PoppedSession
  <2>2. results' \subseteq [sid : Ids, id : Ids] /\ ResultsAreAwaited'
    BY <1>0, <1>2, <2>1, ResultsAfterPop DEF ReturnsInTime
  <2>3. CASE /\ (\E retry \in BOOLEAN : Release(j, retry)) \/ Release(j, TRUE) \/ Finish(j, FALSE)
             /\ tripped' = tripped \/ tripped' \in {tripped, tripped \cup {PidOf(sessions[s].lane)}}
             /\ idle' = {} /\ UNCHANGED helpers
    <3>1. claims' = Unclaimed({j}) /\ attempted' \subseteq Jobs /\ failed' \subseteq Jobs /\ cancelled' = {}
      BY <1>0, <1>1, <1>3, <2>3, Finished, ReleasedOne
    <3>2. Core'
      BY <1>0, <1>4, <1>5, <2>1, <2>2, <2>3, <3>1, ClaimsGoBack
    <3>3. RestType'
      BY <1>0, <1>6, <2>3, <3>1 DEF RestType, ScanType, diskVars, ThenPump
    <3> QED
      BY <3>1, <3>2, <3>3 DEF IInv, NoCancelLeftBehind, ThenPump
  <2>4. CASE /\ claims' = [claims EXCEPT ![j].state = "settling"]
             /\ helpers' = helpers \cup {[kind |-> "own_copy", job |-> j, id |-> i, sid |-> s]}
             /\ UNCHANGED <<tripped, idle, attempted, cancelled, failed>>
    <3>1. Core'
      BY <1>0, <1>2, <2>1, <2>2, <2>4, ToHelper
    <3>2. RestType'
      BY <1>0, <2>4 DEF RestType, ScanType, diskVars, ThenPump
    <3> QED
      BY <1>0, <2>4, <3>1, <3>2 DEF IInv, NoCancelLeftBehind, ThenPump
  <2> QED
    BY <2>3, <2>4
<1> QED
    BY <1>7, <1>8, <1>9

\* own_copy_read, collected, and the install before it.
LEMMA HelpersKeepInv ==
    ASSUME IInv, NEW h \in helpers, HelperStep(h),
           inputs' = inputs
    PROVE  IInv'
<1>0. Core /\ RestType /\ ScanType /\ cancelled = {} /\ todo \subseteq lanes
    BY DEF IInv, RestType, NoCancelLeftBehind
<1>1. attempted \subseteq Jobs /\ failed \subseteq Jobs
    BY <1>0 DEF RestType, ScanType
<1>2. h.job \in Jobs /\ claims[h.job] # NoClaim
    BY <1>0 DEF Core, CoreType, Helper, HelpersOwnTheirClaims, Settling, IsClaimed
<1>3. claims[h.job].lane \in Lanes /\ PidOf(claims[h.job].lane) \in Pids
  <2>1. claims[h.job].lane \in Lanes
    BY <1>0, <1>2, RecordsHaveTypes DEF ClaimedJobs, IsClaimed
  <2> QED
    BY <2>1 DEF Lanes, PidOf
<1>4. CASE Install(h)
  <2> USE <1>4 DEF Install
  <2>1. Core'
    BY <1>0, HelperInstalls DEF laneVars, claimVars
  <2>2. written' \in [Jobs -> Nat]
    <3>1. written \in [Jobs -> Nat] /\ written[h.job] + 1 \in Nat
      BY <1>0, <1>2 DEF RestType
    <3> QED
      BY <1>2, <3>1
  <2>3. RestType'
    BY <1>0, <2>2 DEF RestType, ScanType, fleetVars, laneVars, claimVars, blameVars
  <2> QED
    BY <1>0, <2>1, <2>3 DEF IInv, NoCancelLeftBehind, laneVars, claimVars
<1>5. CASE Collected(h)
  <2> USE <1>5 DEF Collected
  <2>1. claims' = Unclaimed({h.job}) /\ attempted' \subseteq Jobs /\ failed' \subseteq Jobs /\ cancelled' = {}
    BY <1>0, <1>1, <1>2, Finished, ReleasedOne
  <2>2. Core'
    BY <1>0, <2>1, HelperEnds
  <2>3. owed' \subseteq Jobs
    BY <1>0 DEF RestType
  <2>4. RestType'
    BY <1>0, <2>1, <2>3 DEF RestType, ScanType, fleetVars, ThenPump
  <2> QED
    BY <2>1, <2>2, <2>4 DEF IInv, NoCancelLeftBehind, ThenPump
<1>6. CASE OwnCopyRead(h)
  <2> USE <1>6 DEF OwnCopyRead
  <2>1. claims' = Unclaimed({h.job}) /\ attempted' \subseteq Jobs /\ failed' \subseteq Jobs /\ cancelled' = {}
    BY <1>0, <1>1, <1>2, Finished, ReleasedOne
  <2>2. Core'
    BY <1>0, <2>1, HelperEnds
  <2>3. tripped' \subseteq Pids
    BY <1>0, <1>3 DEF RestType
  <2>4. RestType'
    BY <1>0, <2>1, <2>3 DEF RestType, ScanType, diskVars, ThenPump
  <2> QED
    BY <2>1, <2>2, <2>4 DEF IInv, NoCancelLeftBehind, ThenPump
<1> QED
    BY <1>4, <1>5, <1>6 DEF HelperStep

\* released: what a pausing processor gives back.
LEMMA ReleasedKeepsInv ==
    ASSUME IInv, NEW p \in Pids, NEW I \in SUBSET Ids, Released(p, I),
           inputs' = inputs
    PROVE  IInv'
<1> USE DEF Released
<1> DEFINE S == SessionsOf({p})
<1>0. Core /\ RestType /\ ScanType /\ cancelled = {} /\ todo \subseteq lanes
    BY DEF IInv, RestType, NoCancelLeftBehind
<1>1. S \subseteq LiveSids /\ I \subseteq IdsOf(S)
    BY DEF SessionsOf
<1>2. I \subseteq IdsOf(LiveSids)
    BY <1>1 DEF IdsOf
<1>3. \A t \in LiveSids : t \notin S => sessions[t].ids = sessions[t].ids \ I
  <2> SUFFICES ASSUME NEW t \in LiveSids, t \notin S, NEW i \in sessions[t].ids
               PROVE  i \notin I
    OBVIOUS
  <2>1. \A u \in S : u \in LiveSids /\ (i \in sessions[u].ids => u = t)
    BY <1>0, <1>1, HeldOnce
  <2> QED
    BY <1>1, <2>1 DEF IdsOf
<1>4. \A t \in LiveSids : /\ t \in Ids /\ sessions[t] \in Session
                          /\ sessions[t].delivered \subseteq sessions[t].ids
    BY <1>0, RecordsHaveTypes DEF Core, DeliveredIsHeld
<1>5. ASSUME NEW t \in Ids, t \in S
      PROVE  /\ sessions'[t] \in Session
             /\ sessions'[t].lane = sessions[t].lane
             /\ sessions'[t].ids = sessions[t].ids \ I
             /\ sessions'[t].delivered = sessions[t].delivered \ I
  <2>1. sessions'[t] = [sessions[t] EXCEPT !.ids = @ \ I, !.delivered = @ \ I]
    BY <1>5
  <2>2. sessions[t] \in Session
    BY <1>1, <1>4, <1>5
  <2> QED
    BY <2>1, <2>2 DEF Session
<1>6. \A t \in Ids : t \notin S => sessions'[t] = sessions[t]
    OBVIOUS
<1>7. /\ sessions' \in [Ids -> Session \cup {NoSession}]
      /\ \A t \in Ids : sessions'[t] # NoSession <=> t \in LiveSids
  <2>1. \A t \in Ids : sessions'[t] \in Session \cup {NoSession}
    BY <1>0, <1>5, <1>6 DEF Core, CoreType
  <2>2. \A t \in Ids : sessions'[t] # NoSession <=> t \in LiveSids
    BY <1>1, <1>5, <1>6, SessionsAreNotNone DEF LiveSids, Live
  <2> HIDE DEF S
  <2> QED
    BY <2>1, <2>2
<1>8. \A t \in LiveSids : /\ sessions'[t].lane = sessions[t].lane
                          /\ sessions'[t].ids = sessions[t].ids \ I
                          /\ sessions'[t].delivered \subseteq sessions'[t].ids
  <2> TAKE t \in LiveSids
  <2>1. CASE t \in S
    BY <1>4, <1>5, <2>1
  <2>2. CASE t \notin S
    BY <1>3, <1>4, <1>6, <2>2
  <2> QED
    BY <2>1, <2>2
<1>9. results' \subseteq [sid : Ids, id : Ids] /\ ResultsAreAwaited'
  <2>0. results' \subseteq [sid : Ids, id : Ids]
    BY <1>0 DEF Core, CoreType
  <2> SUFFICES ASSUME ~ReturnsLate
               PROVE  ResultsAreAwaited'
    BY <2>0 DEF ResultsAreAwaited, ReturnsLate
  <2>1. \A r \in results : r.sid \in LiveSids /\ r.sid \in Ids /\ r.id \in sessions[r.sid].ids
    BY <1>0 DEF Core, CoreType, ResultsAreAwaited, ResultsHeld, LiveSids
  <2>2. results' \subseteq results /\ \A r \in results' : r.id \notin I
    OBVIOUS
  <2>3. \A r \in results' : sessions'[r.sid] # NoSession /\ r.id \in sessions'[r.sid].ids
    <3> TAKE r \in results'
    <3>1. r.sid \in LiveSids /\ r.sid \in Ids /\ r.id \in sessions[r.sid].ids /\ r.id \notin I
      BY <2>1, <2>2
    <3>2. sessions'[r.sid] # NoSession
      BY <1>7, <3>1
    <3>3. sessions'[r.sid].ids = sessions[r.sid].ids \ I
      BY <1>8, <3>1
    <3> QED
      BY <3>1, <3>2, <3>3
  <2> QED
    BY <1>0, <2>2, <2>3 DEF Core, CoreType, ResultsAreAwaited, ResultsHeld, Live
<1>10. claims' = Unclaimed({jobOf[i] : i \in I})
    OBVIOUS
<1>11. Core'
    BY <1>0, <1>2, <1>7, <1>8, <1>9, <1>10, ClaimsGoBack
<1>12. RestType'
    BY <1>0 DEF RestType, ScanType, fleetVars, diskVars, blameVars, ThenPump
<1> QED
    BY <1>0, <1>11, <1>12 DEF IInv, NoCancelLeftBehind, ThenPump

-----------------------------------------------------------------------------
(* The actions that end sessions *)

\* The sessions S end and their claims go back.
LEMMA EndedSessions ==
    ASSUME Core, NEW S \in SUBSET LiveSids,
           sessions' = [s \in Ids |-> IF s \in S THEN NoSession ELSE sessions[s]],
           claims' = Unclaimed(JobsOf(S)),
           laneSession' = LanesWithout(S),
           lanes' \subseteq Lanes,
           \A l \in Lanes : laneSession'[l] # 0 => l \in lanes',
           results' \subseteq results,
           ReturnsLate \/ \A r \in results' : r.sid \notin S,
           UNCHANGED <<jobOf, claim_seq, helpers>>,
           inputs' = inputs
    PROVE  Core'
<1> DEFINE I == IdsOf(S)
<1>1. I \in SUBSET Ids /\ IdsOf(S) \subseteq I /\ I \subseteq IdsOf(LiveSids)
    BY RecordsHaveTypes DEF IdsOf
<1>2. sessions' \in [Ids -> Session \cup {NoSession}]
    BY DEF Core, CoreType
<1>3. \A s \in Ids : sessions'[s] # NoSession <=> s \in LiveSids /\ s \notin S
    BY DEF LiveSids, Live
<1>4. \A s \in LiveSids \ S : s \in Ids /\ sessions'[s] = sessions[s]
    BY DEF LiveSids
<1>5. \A s \in LiveSids \ S : sessions[s].ids = sessions[s].ids \ I
  <2> SUFFICES ASSUME NEW s \in LiveSids \ S, NEW i \in sessions[s].ids
               PROVE  i \notin I
    OBVIOUS
  <2>1. \A u \in S : i \notin sessions[u].ids
    BY HeldOnce
  <2> QED
    BY <2>1 DEF IdsOf
<1>6. \A s \in LiveSids \ S : /\ sessions'[s].lane = sessions[s].lane
                              /\ sessions'[s].ids = sessions[s].ids \ I
                              /\ sessions'[s].delivered \subseteq sessions'[s].ids
    BY <1>4, <1>5 DEF Core, DeliveredIsHeld
<1>7. claims' = Unclaimed({jobOf[i] : i \in I})
    BY DEF JobsOf
<1>8. results' \subseteq [sid : Ids, id : Ids] /\ ResultsAreAwaited'
  <2>1. results' \subseteq [sid : Ids, id : Ids]
    BY DEF Core, CoreType
  <2> SUFFICES ASSUME ~ReturnsLate
               PROVE  ResultsAreAwaited'
    BY <2>1 DEF ResultsAreAwaited, ReturnsLate
  <2>2. \A r \in results' : r.sid \in LiveSids \ S /\ r.id \in sessions[r.sid].ids
    BY <2>1 DEF Core, ResultsAreAwaited, ResultsHeld, LiveSids
  <2>3. \A r \in results' : sessions'[r.sid] # NoSession /\ r.id \in sessions'[r.sid].ids
    BY <1>3, <1>4, <2>2
  <2> QED
    BY <2>1, <2>3 DEF ResultsAreAwaited, ResultsHeld, Live
<1>9. claim_seq' \in 0..MaxClaims /\ claim_seq <= claim_seq'
    BY SchedulerAssumption DEF Core, CoreType
<1> HIDE DEF I
<1> QED
    BY <1>1, <1>2, <1>3, <1>6, <1>7, <1>8, <1>9, GiveBack

\* Lanes without the sessions S that end, and rebuilt, still have their sessions.
LEMMA RebuiltAfterEnd ==
    ASSUME Core, NEW S \in SUBSET LiveSids, NEW ms, NEW ps,
           laneSession' = LanesWithout(S), lanes' = Rebuilt(ms, ps, laneSession')
    PROVE  lanes' \subseteq Lanes /\ \A l \in Lanes : laneSession'[l] # 0 => l \in lanes'
<1>1. lanes \subseteq Lanes /\ \A l \in Lanes : laneSession[l] # 0 => l \in lanes
    BY BusyLanesAreLanes
<1>2. \A l \in Lanes : laneSession'[l] # 0 => l \in lanes
    BY <1>1 DEF LanesWithout
<1> QED
    BY <1>1, <1>2, RebuiltKeepsBusy

\* end_session, whatever it blames.
LEMMA EndSessionsKeepsCore ==
    ASSUME Core, NEW S \in SUBSET LiveSids, NEW B, NEW C, EndSessions(S, B, C),
           NEW ms, NEW ps, lanes' = Rebuilt(ms, ps, laneSession'),
           inputs' = inputs
    PROVE  Core'
<1>1. lanes' \subseteq Lanes /\ \A l \in Lanes : laneSession'[l] # 0 => l \in lanes'
    BY RebuiltAfterEnd DEF EndSessions
<1>2. /\ results' \subseteq results
      /\ ReturnsLate \/ \A r \in results' : r.sid \notin S
  <2>1. results' \subseteq results /\ \A r \in results' : r.sid \notin S \/ r.id \notin IdsOf(S)
    BY DEF EndSessions, ResultsWithout
  <2>2. ReturnsLate \/ \A r \in results : r.id \in sessions[r.sid].ids
    BY DEF Core, ResultsAreAwaited, ResultsHeld
  <2> QED
    BY <2>1, <2>2 DEF IdsOf
<1> QED
    BY <1>1, <1>2, EndedSessions DEF EndSessions

\* The jobs of sessions are jobs, and so is the one a session's end blames.
LEMMA BlamedAreJobs ==
    ASSUME Core, NEW S \in SUBSET LiveSids
    PROVE  /\ JobsOf(S) \subseteq Jobs
           /\ \A s \in S, refused \in BOOLEAN : Blamed(s, refused) \subseteq Jobs
<1>1. \A s \in LiveSids : \A i \in sessions[s].ids : jobOf[i] \in Jobs
    BY DEF Core, SessionsOwnTheirClaims
<1>2. JobsOf(S) \subseteq Jobs
    BY <1>1 DEF JobsOf, IdsOf
<1>3. \A s \in S : sessions[s].delivered \subseteq sessions[s].ids
    BY DEF Core, DeliveredIsHeld
<1>4. ASSUME NEW s \in S, NEW refused \in BOOLEAN
      PROVE  Blamed(s, refused) \subseteq Jobs
  <2>1. CASE Oldest(s) \in sessions[s].delivered
    <3>1. jobOf[Oldest(s)] \in Jobs
      BY <1>1, <1>3, <2>1
    <3> QED
      BY <3>1 DEF Blamed
  <2>2. CASE Oldest(s) \notin sessions[s].delivered
    BY <2>2 DEF Blamed
  <2> QED
    BY <2>1, <2>2
<1> QED
    BY <1>2, <1>4

\* What end_session of one session does to the rest of the state.
LEMMA SessionEnds ==
    ASSUME IInv, NEW s \in LiveSids, NEW fatal \in BOOLEAN, NEW refused \in BOOLEAN,
           EndSession(s, fatal, refused), lanes' = Rebuilt(machines, paused, laneSession'),
           inputs' = inputs
    PROVE  /\ Core' /\ cancelled' = {} /\ idle' = {}
           /\ attempted' \subseteq Jobs /\ failed' \subseteq Jobs
           /\ strikes' \in [Rows \X Names -> 0..SESSION_CRASH_LIMIT]
           /\ stopped' \subseteq Rows \X Names
<1>0. Core /\ RestType /\ ScanType /\ cancelled = {}
    BY DEF IInv, RestType, NoCancelLeftBehind
<1>1. {s} \in SUBSET LiveSids
    OBVIOUS
<1>2. EndSessions({s}, Blamed(s, refused), {})
    BY DEF EndSession
<1>3. Core'
    BY <1>0, <1>1, <1>2, EndSessionsKeepsCore
<1>4. cancelled' = {} /\ idle' = {} /\ attempted' \subseteq Jobs
    BY <1>0, <1>2 DEF EndSessions, ScanType
<1>5. failed' \subseteq Jobs
    BY <1>0, <1>1, BlamedAreJobs DEF EndSession, Recorded, RestType
<1>6. KeyOf(s) \in Rows \X Names
  <2>1. sessions[s].lane \in Lanes /\ sessions[s].row \in Rows
    BY <1>0, RecordsHaveTypes
  <2>2. NameOf[PidOf(sessions[s].lane)] \in Names
    BY <2>1, SchedulerAssumption DEF Lanes, PidOf
  <2> QED
    BY <2>1, <2>2 DEF KeyOf
<1>7. /\ strikes' \in [Rows \X Names -> 0..SESSION_CRASH_LIMIT]
      /\ stopped' \subseteq Rows \X Names
  <2> DEFINE key == KeyOf(s)
  <2> HIDE DEF key
  <2>1. key \in Rows \X Names /\ strikes[key] \in 0..2
    BY <1>0, <1>6 DEF ScanType, key, SESSION_CRASH_LIMIT
  <2>2. Capped(strikes[key] + 1) \in 0..SESSION_CRASH_LIMIT /\ 0 \in 0..SESSION_CRASH_LIMIT
    BY <2>1 DEF Capped, SESSION_CRASH_LIMIT
  <2>3. CASE Strike(key)
    BY <1>0, <2>1, <2>2, <2>3 DEF Strike, ScanType
  <2>4. CASE strikes' = [strikes EXCEPT ![key] = 0] /\ UNCHANGED stopped
    BY <1>0, <2>1, <2>2, <2>4 DEF ScanType
  <2>5. CASE UNCHANGED <<strikes, stopped>>
    BY <1>0, <2>5 DEF ScanType
  <2>6. \/ Strike(key)
        \/ strikes' = [strikes EXCEPT ![key] = 0] /\ UNCHANGED stopped
        \/ UNCHANGED <<strikes, stopped>>
    BY DEF EndSession, key
  <2> QED
    BY <2>3, <2>4, <2>5, <2>6
<1> QED
    BY <1>3, <1>4, <1>5, <1>7

\* exit, a wedge, an overdue close.
LEMMA EndsKeepInv ==
    ASSUME IInv, NEW s \in Ids,
           (\E clean \in BOOLEAN : Exit(s, clean)) \/ Wedged(s) \/ Overdue(s),
           inputs' = inputs
    PROVE  IInv'
<1>0. Core /\ RestType /\ ScanType /\ cancelled = {} /\ todo \subseteq lanes
    BY DEF IInv, RestType, NoCancelLeftBehind
<1>1. s \in LiveSids
    BY DEF Exit, Wedged, Overdue, Hears, LiveSids
<1>2. ASSUME NEW fatal \in BOOLEAN, NEW refused \in BOOLEAN, EndSession(s, fatal, refused),
             AfterEnd, UNCHANGED diskVars, ThenPump
      PROVE  IInv'
  <2>1. /\ Core' /\ cancelled' = {} /\ idle' = {}
        /\ attempted' \subseteq Jobs /\ failed' \subseteq Jobs
        /\ strikes' \in [Rows \X Names -> 0..SESSION_CRASH_LIMIT]
        /\ stopped' \subseteq Rows \X Names
    BY <1>1, <1>2, SessionEnds DEF AfterEnd
  <2>2. RestType'
    BY <1>0, <1>2, <2>1 DEF RestType, ScanType, AfterEnd, fleetVars, diskVars, ThenPump
  <2> QED
    BY <1>2, <2>1, <2>2 DEF IInv, NoCancelLeftBehind, ThenPump
<1>3. ASSUME NEW clean \in BOOLEAN, Exit(s, clean)
      PROVE  IInv'
  <2>1. /\ (~(sessions[s].ids = {} /\ clean)) \in BOOLEAN
        /\ SessionHas(s, "refused") \in BOOLEAN
    BY DEF SessionHas
  <2> QED
    BY <1>2, <1>3, <2>1 DEF Exit
<1>4. CASE Wedged(s)
    BY <1>2, <1>4 DEF Wedged
<1>5. CASE Overdue(s)
  <2> USE <1>5 DEF Overdue, AfterEnd
  <2>1. {s} \in SUBSET LiveSids
    BY <1>1
  <2>2. Core'
    BY <1>0, <2>1, EndSessionsKeepsCore
  <2>3. cancelled' = {} /\ idle' = {} /\ attempted' \subseteq Jobs
    BY <1>0 DEF EndSessions, ScanType
  <2>4. RestType'
    BY <1>0, <2>3 DEF RestType, ScanType, fleetVars, diskVars, blameVars, ThenPump
  <2> QED
    BY <2>2, <2>3, <2>4 DEF IInv, NoCancelLeftBehind, ThenPump
<1> QED
    BY <1>3, <1>4, <1>5

\* kill_session of the sessions S.
LEMMA CancelsEnd ==
    ASSUME IInv, NEW S \in SUBSET LiveSids, CancelSessions(S),
           lanes' = Rebuilt(machines, paused, laneSession'),
           inputs' = inputs
    PROVE  Core' /\ cancelled' = {} /\ idle' = {} /\ attempted' \subseteq Jobs
<1>0. Core /\ ScanType /\ cancelled = {}
    BY DEF IInv, RestType, NoCancelLeftBehind
<1>1. PICK B : EndSessions(S, B, JobsOf(S))
    BY DEF CancelSessions
<1>2. Core'
    BY <1>0, <1>1, EndSessionsKeepsCore
<1> QED
    BY <1>0, <1>1, <1>2 DEF EndSessions, ScanType

\* archive_arrived, archive_removed and apply_settings.
LEMMA LibraryKeepsInv ==
    ASSUME IInv,
           \/ \E v \in {VolumeOf[j] : j \in Jobs}, arrived \in BOOLEAN :
                 \E stale, found \in SUBSET Jobs : ArchiveChanged(v, arrived, stale, found)
           \/ \E newRows \in [Rows -> {"runnable", "disabled", "removed"}], changed \in SUBSET Rows : Apply(newRows, changed),
           inputs' = inputs
    PROVE  IInv'
<1>0. Core /\ RestType /\ ScanType /\ cancelled = {} /\ todo \subseteq lanes
    BY DEF IInv, RestType, NoCancelLeftBehind
<1>1. ASSUME NEW v, NEW arrived \in BOOLEAN, NEW stale \in SUBSET Jobs, NEW found \in SUBSET Jobs,
             ArchiveChanged(v, arrived, stale, found)
      PROVE  IInv'
  <2> USE <1>1 DEF ArchiveChanged
  <2>1. StaleSessions(stale) \in SUBSET LiveSids
    BY DEF StaleSessions
  <2>2. Core' /\ cancelled' = {} /\ idle' = {} /\ attempted' \subseteq Jobs
    BY <2>1, CancelsEnd
  <2>3. ScanType'
    <3>1. CASE StartScan
      BY <1>0, <3>1, ScanStarts
    <3>2. CASE UNCHANGED <<scan, strikes, stopped>>
      BY <1>0, <2>2, <3>2 DEF ScanType
    <3> QED
      BY <3>1, <3>2
  <2>4. owed' \subseteq Jobs /\ missing' \subseteq Jobs
    BY <1>0 DEF RestType
  <2>5. written' \in [Jobs -> Nat]
    BY <1>0 DEF RestType
  <2>6. RestType'
    BY <1>0, <2>2, <2>3, <2>4, <2>5 DEF RestType, fleetVars, ThenPump
  <2> QED
    BY <2>2, <2>6 DEF IInv, NoCancelLeftBehind, ThenPump
<1>2. ASSUME NEW newRows \in [Rows -> {"runnable", "disabled", "removed"}], NEW changed \in SUBSET Rows,
             Apply(newRows, changed)
      PROVE  IInv'
  <2> USE <1>2 DEF Apply
  <2> DEFINE S == {s \in LiveSids : newRows[sessions[s].row] # "runnable" \/ sessions[s].row \in changed}
  <2>1. S \in SUBSET LiveSids /\ CancelSessions(S)
    OBVIOUS
  <2> HIDE DEF S
  <2>2. Core' /\ cancelled' = {} /\ idle' = {} /\ attempted' \subseteq Jobs
    BY <2>1, CancelsEnd
  <2>3. failed' \subseteq Jobs
    BY <1>0 DEF RestType
  <2>4. RestType'
    BY <1>0, <2>2, <2>3 DEF RestType, ScanType, diskVars, ThenPump
  <2> QED
    BY <2>2, <2>4 DEF IInv, NoCancelLeftBehind, ThenPump
<1> QED
    BY <1>1, <1>2

\* What preempt_for_bench cancels is held by the sessions it ends, so no mark
\* outlives it.
LEMMA BenchCancelsAreHeld ==
    ASSUME Core, NEW p \in Pids
    PROVE  BenchCancels(p) \subseteq JobsOf({s \in LiveSids : NameOf[PidOf(sessions[s].lane)] = NameOf[p]})
<1> SUFFICES ASSUME NEW j \in BenchCancels(p)
             PROVE  \E s \in LiveSids : /\ NameOf[PidOf(sessions[s].lane)] = NameOf[p]
                                        /\ \E i \in sessions[s].ids : jobOf[i] = j
    BY DEF JobsOf, IdsOf
<1>1. j \in ClaimedJobs /\ NameOf[PidOf(claims[j].lane)] = NameOf[p] /\ claims[j].state = "running"
    BY RecordsHaveTypes DEF BenchCancels, Settling, ClaimedJobs
<1>2. claims[j].sid \in LiveSids /\ claims[j].id \in sessions[claims[j].sid].ids
    BY <1>1 DEF Core, RunningIsHeld
<1>3. jobOf[claims[j].id] = j
    BY <1>1 DEF Core, ClaimsNameTheirJobs
<1>4. sessions[claims[j].sid].lane = claims[j].lane
    BY <1>2, <1>3, HeldClaims
<1> QED
    BY <1>1, <1>2, <1>3, <1>4

LEMMA BenchKeepsInv ==
    ASSUME IInv, NEW p \in Pids, PreemptForBench(p),
           inputs' = inputs
    PROVE  IInv'
<1> USE DEF PreemptForBench
<1> DEFINE S == {s \in LiveSids : NameOf[PidOf(sessions[s].lane)] = NameOf[p]}
<1>0. Core /\ RestType /\ ScanType /\ cancelled = {} /\ todo \subseteq lanes
    BY DEF IInv, RestType, NoCancelLeftBehind
<1>1. S \in SUBSET LiveSids /\ EndSessions(S, {}, BenchCancels(p)) /\ BenchCancels(p) \subseteq JobsOf(S)
    BY <1>0, BenchCancelsAreHeld
<1> HIDE DEF S
<1>2. Core'
    BY <1>0, <1>1, EndSessionsKeepsCore
<1>3. cancelled' = {} /\ idle' = {} /\ attempted' \subseteq Jobs
    BY <1>0, <1>1 DEF EndSessions, ScanType
<1>4. NameOf[p] \in Names
    BY SchedulerAssumption
<1>5. RestType'
    BY <1>0, <1>3, <1>4 DEF RestType, ScanType, diskVars, blameVars, ThenPump
<1> QED
    BY <1>2, <1>3, <1>5 DEF IInv, NoCancelLeftBehind, ThenPump

\* drop_processor looks for claims and lanes by registration; what it finds is
\* what the sessions of those registrations hold.
LEMMA DropsAreEnds ==
    ASSUME Core, NEW P \in SUBSET Pids, DropAll(P)
    PROVE  /\ SessionsOf(P) \in SUBSET LiveSids
           /\ claims' = Unclaimed(JobsOf(SessionsOf(P)))
           /\ laneSession' = LanesWithout(SessionsOf(P))
           /\ results' \subseteq results /\ \A r \in results' : r.sid \notin SessionsOf(P)
<1> DEFINE S == SessionsOf(P)
<1>1. S \in SUBSET LiveSids
    BY DEF SessionsOf
<1>2. DroppedJobs(P) \subseteq JobsOf(S)
  <2> SUFFICES ASSUME NEW j \in DroppedJobs(P)
               PROVE  \E s \in S : \E i \in sessions[s].ids : jobOf[i] = j
    BY DEF JobsOf, IdsOf
  <2>1. j \in ClaimedJobs /\ PidOf(claims[j].lane) \in P /\ claims[j].state = "running"
    BY RecordsHaveTypes DEF DroppedJobs, Settling, ClaimedJobs
  <2>2. claims[j].sid \in LiveSids /\ claims[j].id \in sessions[claims[j].sid].ids
    BY <2>1 DEF Core, RunningIsHeld
  <2>3. jobOf[claims[j].id] = j
    BY <2>1 DEF Core, ClaimsNameTheirJobs
  <2>4. sessions[claims[j].sid].lane = claims[j].lane
    BY <2>2, <2>3, HeldClaims
  <2>5. claims[j].sid \in S
    BY <2>1, <2>2, <2>4 DEF SessionsOf
  <2> QED
    BY <2>2, <2>3, <2>5
<1>3. JobsOf(S) \subseteq DroppedJobs(P)
  <2> SUFFICES ASSUME NEW s \in S, NEW i \in sessions[s].ids
               PROVE  jobOf[i] \in DroppedJobs(P)
    BY DEF JobsOf, IdsOf
  <2>1. s \in LiveSids /\ PidOf(sessions[s].lane) \in P
    BY DEF SessionsOf
  <2>2. /\ jobOf[i] \in ClaimedJobs /\ claims[jobOf[i]].lane = sessions[s].lane
        /\ claims[jobOf[i]].state = "running"
    BY <2>1, HeldClaims
  <2> QED
    BY <2>1, <2>2 DEF DroppedJobs, Settling
<1>4. JobsOf(S) = DroppedJobs(P)
    BY <1>2, <1>3
<1>5. laneSession' = LanesWithout(S)
  <2>1. ASSUME NEW l \in Lanes
        PROVE  (IF PidOf(l) \in P THEN 0 ELSE laneSession[l])
                   = (IF \E s \in S : sessions[s].lane = l THEN 0 ELSE laneSession[l])
    <3>1. CASE \E s \in S : sessions[s].lane = l
      BY <3>1 DEF SessionsOf
    <3>2. CASE PidOf(l) \in P /\ laneSession[l] # 0
      <4>1. laneSession[l] \in LiveSids /\ sessions[laneSession[l]].lane = l
        BY <3>2 DEF Core, CoreType, LaneSessionsAgree, LiveSids
      <4>2. laneSession[l] \in S
        BY <3>2, <4>1 DEF SessionsOf
      <4> QED
        BY <3>2, <4>1, <4>2
    <3> QED
      BY <3>1, <3>2
  <2>2. laneSession' = [l \in Lanes |-> IF PidOf(l) \in P THEN 0 ELSE laneSession[l]]
    BY DEF DropAll
  <2> HIDE DEF S
  <2> QED
    BY <2>1, <2>2 DEF LanesWithout
<1>6. claims' = Unclaimed(JobsOf(S))
    BY <1>4 DEF DropAll
<1>7. results' \subseteq results /\ \A r \in results' : r.sid \notin S
    BY DEF DropAll
<1> QED
    BY <1>1, <1>5, <1>6, <1>7

\* What drop_processor does to the rest.
LEMMA DropsKeepTypes ==
    ASSUME IInv, NEW P \in SUBSET Pids, DropAll(P)
    PROVE  cancelled' = {} /\ tripped' \subseteq Pids /\ waiting' \subseteq Lanes /\ idle' \subseteq Lanes
BY DEF DropAll, IInv, RestType, NoCancelLeftBehind

LEMMA DisconnectKeepsInv ==
    ASSUME IInv, NEW P \in SUBSET Pids, NEW ps \in SUBSET Pids,
           NEW ms \in [Pids -> {"unused", "registered", "up", "cut", "gone"}],
           Disconnect(P, ms, ps), ThenPump,
           inputs' = inputs
    PROVE  IInv'
<1> USE DEF Disconnect
<1>0. Core /\ RestType /\ ScanType /\ cancelled = {}
    BY DEF IInv, RestType, NoCancelLeftBehind
<1>1. /\ SessionsOf(P) \in SUBSET LiveSids
      /\ claims' = Unclaimed(JobsOf(SessionsOf(P)))
      /\ laneSession' = LanesWithout(SessionsOf(P))
      /\ results' \subseteq results /\ \A r \in results' : r.sid \notin SessionsOf(P)
    BY <1>0, DropsAreEnds
<1>2. lanes' \subseteq Lanes /\ \A l \in Lanes : laneSession'[l] # 0 => l \in lanes'
    BY <1>0, <1>1, RebuiltAfterEnd
<1>3. Core'
    BY <1>0, <1>1, <1>2, EndedSessions DEF DropAll
<1>4. cancelled' = {} /\ tripped' \subseteq Pids /\ waiting' \subseteq Lanes /\ idle' \subseteq Lanes
    BY DropsKeepTypes
<1>5. ScanType'
  <2>1. CASE StartScan
    BY <1>0, <2>1, ScanStarts
  <2>2. CASE attempted' = attempted \ DroppedJobs(P) /\ UNCHANGED <<scan, strikes, stopped>>
    BY <1>0, <2>2 DEF ScanType
  <2> QED
    BY <2>1, <2>2
<1>6. RestType'
    BY <1>0, <1>4, <1>5 DEF RestType, diskVars, ThenPump
<1> QED
    BY <1>3, <1>4, <1>6 DEF IInv, NoCancelLeftBehind, ThenPump

\* Every lane is a registered machine's, which stop needs: what it drops is all
\* there is.  This is inductive on its own.
LanesRegistered ==
    /\ machines \in [Pids -> {"unused", "registered", "up", "cut", "gone"}]
    /\ lanes \subseteq Lanes
    /\ \A l \in lanes : Registered(PidOf(l))

\* Drop, DropAccount and a second socket; register; stop.
LEMMA DropsKeepInv ==
    ASSUME IInv, LanesRegistered,
           \/ \E P \in SUBSET Pids : Leave(P)
           \/ \E p \in Pids, P \in SUBSET Pids : Register(p, P)
           \/ Stop,
           inputs' = inputs
    PROVE  IInv'
<1>0. Core /\ RestType /\ ScanType /\ cancelled = {} /\ todo \subseteq lanes
    BY DEF IInv, RestType, NoCancelLeftBehind
<1>1. \A Q \in SUBSET Pids :
          /\ Gone(Q) \in [Pids -> {"unused", "registered", "up", "cut", "gone"}]
          /\ \A p \in Pids : [Gone(Q) EXCEPT ![p] = "registered"]
                                  \in [Pids -> {"unused", "registered", "up", "cut", "gone"}]
    BY <1>0 DEF Gone, RestType
<1>2. paused \subseteq Pids
    BY <1>0 DEF RestType
<1>3. ASSUME NEW P \in SUBSET Pids, Leave(P)
      PROVE  IInv'
    BY <1>1, <1>2, <1>3, DisconnectKeepsInv DEF Leave
<1>4. ASSUME NEW p \in Pids, NEW P \in SUBSET Pids, Register(p, P)
      PROVE  IInv'
  <2>1. PICK ps \in {paused \ P, (paused \ P) \cup {p}} :
            Disconnect(P, [Gone(P) EXCEPT ![p] = "registered"], ps)
    BY <1>4 DEF Register
  <2>2. ps \in SUBSET Pids
    BY <1>2, <2>1
  <2> QED
    BY <1>1, <1>4, <2>1, <2>2, DisconnectKeepsInv DEF Register
<1>5. CASE Stop
  <2> USE <1>5 DEF Stop
  <2> DEFINE Q == {q \in Pids : Registered(q)}
             S == SessionsOf(Q)
  <2>1. Q \in SUBSET Pids /\ DropAll(Q)
    OBVIOUS
  <2>2. /\ machines' = Gone(Q) /\ attempted' = attempted \ DroppedJobs(Q)
        /\ paused' \subseteq paused /\ held' \subseteq held
    OBVIOUS
  <2>3. \A l \in Lanes : laneSession'[l] = 0
    <3> TAKE l \in Lanes
    <3>1. laneSession' = [m \in Lanes |-> IF PidOf(m) \in Q THEN 0 ELSE laneSession[m]]
      BY <2>1 DEF DropAll
    <3>2. CASE l \in lanes
      <4>1. PidOf(l) \in Pids
        BY DEF PidOf, Lanes
      <4>2. PidOf(l) \in Q
        BY <3>2, <4>1 DEF LanesRegistered
      <4> QED
        BY <3>1, <4>2
    <3>3. CASE l \notin lanes
      BY <1>0, <3>1, <3>3, BusyLanesAreLanes
    <3> QED
      BY <3>2, <3>3
  <2> HIDE DEF Q
  <2>4. /\ S \in SUBSET LiveSids
        /\ claims' = Unclaimed(JobsOf(S))
        /\ laneSession' = LanesWithout(S)
        /\ results' \subseteq results /\ \A r \in results' : r.sid \notin S
    BY <1>0, <2>1, DropsAreEnds
  <2>5. Core'
    BY <1>0, <2>1, <2>3, <2>4, EndedSessions DEF DropAll
  <2>6. cancelled' = {} /\ tripped' \subseteq Pids /\ waiting' \subseteq Lanes /\ idle' \subseteq Lanes
    BY <2>1, DropsKeepTypes
  <2>7. RestType'
    BY <1>0, <1>1, <2>1, <2>2, <2>6 DEF RestType, ScanType, diskVars, blameVars
  <2> QED
    BY <2>5, <2>6, <2>7 DEF IInv, NoCancelLeftBehind
<1> QED
    BY <1>3, <1>4, <1>5

-----------------------------------------------------------------------------
(* The pump *)

\* A session that tops up holds one claim more.
LEMMA ToppedUpSession ==
    ASSUME Core, NEW s \in LiveSids, NEW n \in Ids, NEW D \in SUBSET {n}, NEW F \in SUBSET Flags,
           sessions' = [sessions EXCEPT ![s].ids = @ \cup {n}, ![s].delivered = @ \cup D, ![s].flags = @ \cup F]
    PROVE  /\ sessions' \in [Ids -> Session \cup {NoSession}]
           /\ \A t \in Ids : t # s => sessions'[t] = sessions[t]
           /\ sessions'[s] \in Session
           /\ sessions'[s].lane = sessions[s].lane
           /\ sessions'[s].ids = sessions[s].ids \cup {n}
           /\ sessions'[s].delivered \subseteq sessions'[s].ids
<1>1. sessions \in [Ids -> Session \cup {NoSession}] /\ s \in Ids
    BY DEF Core, CoreType, LiveSids
<1>2. sessions[s] \in Session /\ sessions[s].delivered \subseteq sessions[s].ids
    BY RecordsHaveTypes DEF Core, DeliveredIsHeld
<1>3. \A t \in Ids : t # s => sessions'[t] = sessions[t]
    BY <1>1
<1>4. /\ sessions'[s] \in Session
      /\ sessions'[s].lane = sessions[s].lane
      /\ sessions'[s].ids = sessions[s].ids \cup {n}
      /\ sessions'[s].delivered = sessions[s].delivered \cup D
    BY <1>1, <1>2 DEF Session
<1>5. sessions' \in [Ids -> Session \cup {NoSession}]
    BY <1>1, <1>3, <1>4
<1> QED
    BY <1>2, <1>3, <1>4, <1>5

\* Where the pump is, and what the lane it visits has.
LEMMA Visited ==
    ASSUME IInv, NEW l \in Lanes, Visits(l)
    PROVE  /\ l \in lanes
           /\ laneSession[l] # 0 => laneSession[l] \in LiveSids /\ sessions[laneSession[l]].lane = l
           /\ (Forgotten(l) => owed' \subseteq Jobs)
           /\ (ClaimsNothing(l) => owed' \subseteq Jobs /\ waiting' \subseteq Lanes)
<1>1. l \in lanes
    BY DEF IInv, Visits
<1>2. laneSession[l] # 0 => laneSession[l] \in LiveSids /\ sessions[laneSession[l]].lane = l
    BY DEF IInv, Core, CoreType, LaneSessionsAgree, LiveSids
<1>3. Forgotten(l) => owed' \subseteq Jobs
    BY DEF IInv, RestType, Forgotten
<1>4. ClaimsNothing(l) => waiting' \subseteq Lanes
    BY DEF IInv, RestType, ClaimsNothing
<1> QED
    BY <1>1, <1>2, <1>3, <1>4 DEF ClaimsNothing

\* What the pump claims is a job that nobody holds.
LEMMA ClaimableJobs ==
    ASSUME IInv, NEW l \in Lanes, NEW j \in Claimable(l)
    PROVE  j \in Jobs /\ ~IsClaimed(j)
BY DEF IInv, RestType, Claimable, Offered, Candidates

LEMMA DrainKeepsInv ==
    ASSUME IInv, NEW l \in Lanes, PumpDrain(l),
           inputs' = inputs
    PROVE  IInv'
<1> USE DEF PumpDrain
<1>0. Core /\ RestType /\ ScanType /\ cancelled = {} /\ todo \subseteq lanes
    BY DEF IInv, RestType, NoCancelLeftBehind
<1>1. lanes \subseteq Lanes /\ \A m \in Lanes : laneSession[m] # 0 => m \in lanes
    BY <1>0, BusyLanesAreLanes
<1>2. laneSession[l] \in LiveSids /\ {"draining"} \in SUBSET Flags
    BY Visited DEF Flags
<1>3. Core'
    BY <1>0, <1>1, <1>2, NotedSession, ResultsStay, SessionsStay DEF Noted, laneVars, claimVars
<1>4. RestType'
    BY <1>0 DEF RestType, ScanType, fleetVars, laneVars, claimVars, diskVars, blameVars
<1> QED
    BY <1>0, <1>3, <1>4 DEF IInv, NoCancelLeftBehind, claimVars, laneVars

LEMMA TopUpKeepsInv ==
    ASSUME IInv, NEW l \in Lanes, NEW j \in Jobs, PumpTopUp(l, j),
           inputs' = inputs
    PROVE  IInv'
<1> USE DEF PumpTopUp
<1> DEFINE s == laneSession[l]
<1>0. Core /\ RestType /\ ScanType /\ cancelled = {} /\ todo \subseteq lanes
    BY DEF IInv, RestType, NoCancelLeftBehind
<1>1. lanes \subseteq Lanes /\ \A m \in Lanes : laneSession[m] # 0 => m \in lanes
    BY <1>0, BusyLanesAreLanes
<1>2. l \in lanes /\ s \in LiveSids /\ s \in Ids /\ sessions[s].lane = l /\ owed' \subseteq Jobs
    BY Visited DEF LiveSids
<1>3. ~IsClaimed(j)
    BY ClaimableJobs
<1>4. claim_seq < MaxClaims /\ Next_id \in Ids /\ Next_id \in 0..MaxClaims /\ claim_seq <= Next_id
    BY <1>0, NextIdIsNew
<1>5. ASSUME Submitted(l, j, s),
             NEW more \in {{}} \cup (IF MayPreempt(l, s) THEN {{"draining"}} ELSE {}),
             sessions' = [sessions EXCEPT ![s].ids = @ \cup {Next_id},
                                          ![s].delivered = @ \cup FirstDelivered(l, Next_id),
                                          ![s].flags = @ \cup more]
      PROVE  IInv'
  <2>1. more \in SUBSET Flags /\ FirstDelivered(l, Next_id) \in SUBSET {Next_id}
    BY DEF Flags, FirstDelivered
  <2>2. /\ sessions' \in [Ids -> Session \cup {NoSession}]
        /\ \A t \in Ids : t # s => sessions'[t] = sessions[t]
        /\ sessions'[s] \in Session
        /\ sessions'[s].lane = l
        /\ sessions'[s].ids = sessions[s].ids \cup {Next_id}
        /\ sessions'[s].delivered \subseteq sessions'[s].ids
    BY <1>0, <1>2, <1>4, <1>5, <2>1, ToppedUpSession
  <2>3. laneSession' = [laneSession EXCEPT ![l] = s]
    BY <1>0, <1>2 DEF Core, CoreType
  <2>4. Core'
    <3>1. /\ claims' = [claims EXCEPT ![j] = [lane |-> l, id |-> Next_id, sid |-> s, state |-> "running"]]
          /\ jobOf' = [jobOf EXCEPT ![Next_id] = j]
          /\ claim_seq' = Next_id
      BY <1>5 DEF Submitted
    <3>2. UNCHANGED <<lanes, helpers, results>>
      OBVIOUS
    <3>3. laneSession[l] = s
      OBVIOUS
    <3> HIDE DEF s, PumpTopUp
    <3> QED
      BY <1>0, <1>2, <1>3, <1>4, <2>2, <2>3, <3>1, <3>2, <3>3, Submits
  <2>5. idle' = {} /\ waiting' \subseteq Lanes /\ attempted' \subseteq Jobs
    BY <1>0, <1>5 DEF Submitted, RestType, ScanType
  <2>6. RestType'
    BY <1>0, <1>2, <2>5 DEF RestType, ScanType, fleetVars, blameVars
  <2> QED
    BY <1>0, <2>4, <2>6 DEF IInv, NoCancelLeftBehind
<1>6. ASSUME Bounced(l, j), claim_seq' = Next_id, Noted(s, {"draining"})
      PROVE  IInv'
  <2>1. {"draining"} \in SUBSET Flags
    BY DEF Flags
  <2>2. /\ sessions' \in [Ids -> Session \cup {NoSession}]
        /\ \A t \in Ids : sessions'[t] # NoSession <=> t \in LiveSids
        /\ \A t \in LiveSids : /\ sessions'[t].lane = sessions[t].lane
                               /\ sessions'[t].ids = sessions[t].ids
                               /\ sessions'[t].delivered \subseteq sessions'[t].ids
    BY <1>0, <1>2, <1>6, <2>1, NotedSession DEF Noted
  <2>3. /\ results' \subseteq [sid : Ids, id : Ids]
        /\ ResultsHeld(results')
    BY <1>0 DEF Core, CoreType, ResultsAreAwaited, ResultsHeld, LiveSids
  <2>4. UNCHANGED <<claims, laneSession, jobOf, helpers, lanes>>
    BY <1>6 DEF Bounced
  <2>5. Core'
    BY <1>0, <1>1, <1>4, <1>6, <2>2, <2>3, <2>4, SessionsStay
  <2>6. idle' = {} /\ waiting' \subseteq Lanes /\ attempted' \subseteq Jobs
    BY <1>0, <1>6 DEF Bounced, RestType, ScanType
  <2>7. RestType'
    BY <1>0, <1>2, <2>6 DEF RestType, ScanType, fleetVars, blameVars
  <2> QED
    BY <1>0, <2>5, <2>7 DEF IInv, NoCancelLeftBehind
<1> QED
  <2>1. \/ /\ Submitted(l, j, s)
           /\ \E more \in {{}} \cup (IF MayPreempt(l, s) THEN {{"draining"}} ELSE {}) :
                 sessions' = [sessions EXCEPT ![s].ids = @ \cup {Next_id},
                                              ![s].delivered = @ \cup FirstDelivered(l, Next_id),
                                              ![s].flags = @ \cup more]
        \/ Bounced(l, j) /\ claim_seq' = Next_id /\ Noted(s, {"draining"})
    OBVIOUS
  <2> QED
    BY <1>5, <1>6, <2>1

LEMMA LeaveKeepsInv ==
    ASSUME IInv, NEW l \in Lanes, PumpLeave(l),
           inputs' = inputs
    PROVE  IInv'
<1> DEFINE s == laneSession[l]
           asks == Stays(s) /\ ~Full(s)
<1>0. Core /\ RestType /\ ScanType /\ cancelled = {} /\ todo \subseteq lanes
    BY DEF IInv, RestType, NoCancelLeftBehind
<1>1. lanes \subseteq Lanes /\ \A m \in Lanes : laneSession[m] # 0 => m \in lanes
    BY <1>0, BusyLanesAreLanes
<1>2. s \in LiveSids /\ s \in Ids
    BY Visited DEF PumpLeave, LiveSids
<1>3. owed' \subseteq Jobs /\ waiting' \subseteq Lanes
    BY <1>0, Visited DEF PumpLeave, RestType
<1>4. UNCHANGED <<fleetVars, missing, written, scan, phase>>
    BY DEF PumpLeave
<1>5. ASSUME NEW F \in SUBSET Flags,
             sessions' = sessions \/ sessions' = [sessions EXCEPT ![s].flags = @ \cup F],
             todo' = todo \ {l},
             UNCHANGED <<lanes, laneSession, idle, jobOf, claim_seq, results, helpers, claimVars, blameVars>>
      PROVE  IInv'
  <2>1. /\ sessions' \in [Ids -> Session \cup {NoSession}]
        /\ \A t \in Ids : sessions'[t] # NoSession <=> t \in LiveSids
        /\ \A t \in LiveSids : /\ sessions'[t].lane = sessions[t].lane
                               /\ sessions'[t].ids = sessions[t].ids
                               /\ sessions'[t].delivered \subseteq sessions'[t].ids
    <3>1. CASE sessions' = sessions
      BY <1>0, <3>1 DEF Core, CoreType, LiveSids, Live, DeliveredIsHeld
    <3>2. CASE sessions' = [sessions EXCEPT ![s].flags = @ \cup F]
      BY <1>0, <1>2, <3>2, NotedSession
    <3> QED
      BY <1>5, <3>1, <3>2
  <2>2. Core'
    BY <1>0, <1>1, <1>5, <2>1, ResultsStay, SessionsStay DEF claimVars
  <2>3. RestType'
    BY <1>0, <1>3, <1>4, <1>5 DEF RestType, ScanType, fleetVars, claimVars, blameVars
  <2> QED
    BY <1>0, <1>5, <2>2, <2>3 DEF IInv, NoCancelLeftBehind, claimVars
<1>6. ASSUME EndSession(s, SessionHas(s, "fatal"), SessionHas(s, "refused")),
             lanes' = Rebuilt(machines, paused, laneSession'),
             todo' = (todo \ {l}) \cap lanes'
      PROVE  IInv'
  <2>1. SessionHas(s, "fatal") \in BOOLEAN /\ SessionHas(s, "refused") \in BOOLEAN
    BY DEF SessionHas
  <2>2. /\ Core' /\ cancelled' = {} /\ idle' = {}
        /\ attempted' \subseteq Jobs /\ failed' \subseteq Jobs
        /\ strikes' \in [Rows \X Names -> 0..SESSION_CRASH_LIMIT]
        /\ stopped' \subseteq Rows \X Names
    BY <1>2, <1>6, <2>1, SessionEnds
  <2>3. RestType'
    BY <1>0, <1>3, <1>4, <2>2 DEF RestType, ScanType, fleetVars
  <2> QED
    BY <1>6, <2>2, <2>3 DEF IInv, NoCancelLeftBehind
<1>7. {} \in SUBSET Flags /\ {"draining"} \in SUBSET Flags /\ {"closing"} \in SUBSET Flags
    BY DEF Flags
<1>8. CASE /\ sessions' \in {sessions} \cup
                  (IF asks /\ MayPreempt(l, s) THEN {[sessions EXCEPT ![s].flags = @ \cup {"draining"}]} ELSE {})
           /\ todo' = todo \ {l}
           /\ UNCHANGED <<lanes, laneSession, idle, jobOf, claim_seq, results, helpers, claimVars, blameVars>>
  <2>1. sessions' = sessions \/ sessions' = [sessions EXCEPT ![s].flags = @ \cup {"draining"}]
    BY <1>8
  <2> QED
    BY <1>5, <1>7, <1>8, <2>1
<1>9. CASE /\ Noted(s, {"closing"})
           /\ todo' = todo \ {l}
           /\ UNCHANGED <<lanes, laneSession, idle, jobOf, claim_seq, results, helpers, claimVars, blameVars>>
    BY <1>5, <1>7, <1>9 DEF Noted
<1>10. CASE /\ EndSession(s, "fatal" \in sessions[s].flags, "refused" \in sessions[s].flags)
            /\ lanes' = Rebuilt(machines, paused, laneSession')
            /\ todo' = (todo \ {l}) \cap lanes'
    BY <1>6, <1>10 DEF SessionHas
<1> QED
    BY <1>8, <1>9, <1>10 DEF PumpLeave

LEMMA OpenKeepsInv ==
    ASSUME IInv, NEW l \in Lanes, NEW j \in Jobs, PumpOpen(l, j),
           inputs' = inputs
    PROVE  IInv'
<1> DEFINE p == PidOf(l)
           opened == [lane |-> l, row |-> RowOf[j], ids |-> {Next_id},
                      delivered |-> FirstDelivered(l, Next_id), flags |-> {}]
           refused == [lane |-> l, row |-> RowOf[j], ids |-> {}, delivered |-> {}, flags |-> {"draining"}]
<1>0. Core /\ RestType /\ ScanType /\ cancelled = {} /\ todo \subseteq lanes
    BY DEF IInv, RestType, NoCancelLeftBehind
<1>1. lanes \subseteq Lanes /\ \A m \in Lanes : laneSession[m] # 0 => m \in lanes
    BY <1>0, BusyLanesAreLanes
<1>2. l \in lanes /\ laneSession[l] = 0 /\ owed' \subseteq Jobs /\ ~IsClaimed(j)
    BY Visited, ClaimableJobs DEF PumpOpen
<1>3. claim_seq < MaxClaims /\ Next_id \in Ids /\ Next_id \notin LiveSids
    BY <1>0, NextIdIsNew DEF PumpOpen
<1>4. RowOf[j] \in Rows /\ p \in Pids /\ LaneKey(l, j) \in Rows \X Names
  <2>1. RowOf[j] \in Rows /\ p \in Pids
    BY SchedulerAssumption DEF PidOf, Lanes
  <2>2. NameOf[PidOf(l)] \in Names
    BY <2>1, SchedulerAssumption
  <2> QED
    BY <2>1, <2>2 DEF LaneKey
<1>5. UNCHANGED <<paused, held, tripped, rows, lanes, results, helpers, cancelled, missing, written, scan, phase>>
    BY DEF PumpOpen
<1>6. CASE /\ Submitted(l, j, Next_id)
           /\ sessions' = [sessions EXCEPT ![Next_id] = opened]
           /\ laneSession' = [laneSession EXCEPT ![l] = Next_id]
           /\ UNCHANGED <<machines, blameVars, todo>>
  <2>1. opened \in Session /\ opened.delivered \subseteq {Next_id}
    BY <1>3, <1>4 DEF Session, FirstDelivered
  <2>2. /\ sessions' \in [Ids -> Session \cup {NoSession}]
        /\ \A t \in Ids : t # Next_id => sessions'[t] = sessions[t]
        /\ sessions'[Next_id] = opened
    BY <1>0, <1>3, <1>6, <2>1 DEF Core, CoreType
  <2>3. /\ sessions'[Next_id] \in Session
        /\ sessions'[Next_id].lane = l
        /\ sessions'[Next_id].ids = {Next_id}
        /\ sessions'[Next_id].delivered \subseteq sessions'[Next_id].ids
    BY <2>1, <2>2
  <2>4. /\ claims' = [claims EXCEPT ![j] = [lane |-> l, id |-> Next_id, sid |-> Next_id, state |-> "running"]]
        /\ jobOf' = [jobOf EXCEPT ![Next_id] = j]
        /\ claim_seq' = Next_id
    BY <1>6 DEF Submitted
  <2>5. UNCHANGED <<lanes, helpers, results>>
    BY <1>5
  <2>6. Core'
    BY <1>0, <1>2, <1>3, <1>6, <2>2, <2>3, <2>4, <2>5, Submits
  <2>7. idle' = {} /\ waiting' \subseteq Lanes /\ attempted' \subseteq Jobs
    BY <1>0, <1>6 DEF Submitted, RestType, ScanType
  <2>8. RestType'
    BY <1>0, <1>2, <1>5, <1>6, <2>7 DEF RestType, ScanType, blameVars
  <2> QED
    BY <1>0, <1>5, <1>6, <2>6, <2>8 DEF IInv, NoCancelLeftBehind
<1>7. CASE /\ machines' = [machines EXCEPT ![p] = "cut"]
           /\ Bounced(l, j)
           /\ claim_seq' = Next_id
           /\ sessions' = [sessions EXCEPT ![Next_id] = refused]
           /\ laneSession' = [laneSession EXCEPT ![l] = Next_id]
           /\ UNCHANGED <<blameVars, todo>>
  <2>1. refused \in Session /\ refused.lane = l /\ refused.ids = {} /\ refused.delivered = {}
    BY <1>4 DEF Session, Flags
  <2> HIDE DEF refused
  <2>2. UNCHANGED <<lanes, jobOf, claims, helpers, results>>
    BY <1>5, <1>7 DEF Bounced
  <2>3. Core'
    BY <1>0, <1>2, <1>3, <1>7, <2>1, <2>2, OpensEmpty
  <2>4. idle' = {} /\ waiting' \subseteq Lanes /\ attempted' \subseteq Jobs
    BY <1>0, <1>7 DEF Bounced, RestType, ScanType
  <2>5. machines' \in [Pids -> {"unused", "registered", "up", "cut", "gone"}]
    BY <1>0, <1>7 DEF RestType
  <2>6. RestType'
    BY <1>0, <1>2, <1>5, <1>7, <2>4, <2>5 DEF RestType, ScanType, blameVars
  <2> QED
    BY <1>0, <1>5, <1>7, <2>3, <2>6 DEF IInv, NoCancelLeftBehind
<1>8. CASE /\ IF p \in Local
                THEN failed' = failed \cup {j} /\ attempted' = attempted \cup {j} /\ UNCHANGED <<strikes, stopped>>
                ELSE Strike(LaneKey(l, j)) /\ attempted' = attempted \ {j} /\ UNCHANGED failed
           /\ idle' = {} /\ waiting' = waiting \ {l}
           /\ todo' = todo \ {l}
           /\ UNCHANGED <<machines, claims, jobOf, claim_seq, sessions, laneSession>>
  <2>1. Core'
    BY <1>0, <1>1, <1>5, <1>8, SessionsUntouched DEF sessionVars
  <2>2. attempted' \subseteq Jobs /\ failed' \subseteq Jobs
    BY <1>0, <1>8 DEF RestType, ScanType
  <2>3. /\ strikes' \in [Rows \X Names -> 0..SESSION_CRASH_LIMIT]
        /\ stopped' \subseteq Rows \X Names
    <3> DEFINE key == LaneKey(l, j)
    <3> HIDE DEF key
    <3>1. key \in Rows \X Names /\ strikes[key] \in 0..2
      BY <1>0, <1>4 DEF ScanType, key, SESSION_CRASH_LIMIT
    <3>2. Capped(strikes[key] + 1) \in 0..SESSION_CRASH_LIMIT
      BY <3>1 DEF Capped, SESSION_CRASH_LIMIT
    <3>3. CASE Strike(key)
      BY <1>0, <3>1, <3>2, <3>3 DEF Strike, ScanType
    <3>4. CASE UNCHANGED <<strikes, stopped>>
      BY <1>0, <3>4 DEF ScanType
    <3> QED
      BY <1>8, <3>3, <3>4 DEF key
  <2>4. RestType'
    BY <1>0, <1>2, <1>5, <1>8, <2>2, <2>3 DEF RestType, ScanType
  <2> QED
    BY <1>0, <1>5, <1>8, <2>1, <2>4 DEF IInv, NoCancelLeftBehind
<1> QED
    BY <1>6, <1>7, <1>8 DEF PumpOpen

-----------------------------------------------------------------------------
(* Lanes belong to registered machines *)

\* rebuild_lanes makes lanes for connected machines, and keeps busy ones, whose
\* machines are there.
LEMMA RebuiltRegistered ==
    ASSUME LanesRegistered, NEW ms, NEW ps, NEW f,
           \A l \in lanes : f[l] # 0 => ms[PidOf(l)] \in {"registered", "up", "cut"}
    PROVE  /\ Rebuilt(ms, ps, f) \subseteq Lanes
           /\ \A l \in Rebuilt(ms, ps, f) : ms[PidOf(l)] \in {"registered", "up", "cut"}
BY DEF LanesRegistered, Rebuilt, Wanted

LEMMA LanesAtStart == Init => LanesRegistered
BY DEF Init, LanesRegistered

LEMMA LanesStep ==
    ASSUME LanesRegistered, [Next]_vars
    PROVE  LanesRegistered'
<1> USE DEF Registered
<1>1. \A l \in lanes : PidOf(l) \in Pids
    BY DEF LanesRegistered, Lanes, PidOf
<1>2. CASE UNCHANGED <<machines, lanes>>
    BY <1>2 DEF LanesRegistered
<1>3. ASSUME UNCHANGED machines, NEW ps, NEW f, lanes' = Rebuilt(machines, ps, f)
      PROVE  LanesRegistered'
    BY <1>3, RebuiltRegistered DEF LanesRegistered
<1>4. ASSUME NEW p \in Pids, NEW to \in {"up", "cut"}, machines' = [machines EXCEPT ![p] = to],
             lanes' = lanes \/ \E ps, f : lanes' = Rebuilt(machines', ps, f)
      PROVE  LanesRegistered'
  <2>1. /\ machines' \in [Pids -> {"unused", "registered", "up", "cut", "gone"}]
        /\ \A q \in Pids : Registered(q) => machines'[q] \in {"registered", "up", "cut"}
    BY <1>4 DEF LanesRegistered
  <2>2. \A l \in lanes : machines'[PidOf(l)] \in {"registered", "up", "cut"}
    BY <1>1, <2>1 DEF LanesRegistered
  <2>3. lanes' \subseteq Lanes /\ \A l \in lanes' : machines'[PidOf(l)] \in {"registered", "up", "cut"}
    <3>1. CASE lanes' = lanes
      BY <2>2, <3>1 DEF LanesRegistered
    <3>2. CASE \E ps, f : lanes' = Rebuilt(machines', ps, f)
      BY <2>2, <3>2, RebuiltRegistered
    <3> QED
      BY <1>4, <3>1, <3>2
  <2> QED
    BY <2>1, <2>3 DEF LanesRegistered
<1>5. ASSUME NEW P \in SUBSET Pids, NEW ps,
             NEW ms \in [Pids -> {"unused", "registered", "up", "cut", "gone"}],
             \A q \in Pids \ P : Registered(q) => ms[q] \in {"registered", "up", "cut"},
             Disconnect(P, ms, ps)
      PROVE  LanesRegistered'
  <2>1. /\ machines' = ms /\ lanes' = Rebuilt(ms, ps, laneSession')
        /\ laneSession' = [l \in Lanes |-> IF PidOf(l) \in P THEN 0 ELSE laneSession[l]]
    BY <1>5 DEF Disconnect, DropAll
  <2>2. \A l \in lanes : laneSession'[l] # 0 => ms[PidOf(l)] \in {"registered", "up", "cut"}
    BY <1>1, <1>5, <2>1 DEF LanesRegistered
  <2>3. lanes' \subseteq Lanes /\ \A l \in lanes' : ms[PidOf(l)] \in {"registered", "up", "cut"}
    BY <2>1, <2>2, RebuiltRegistered
  <2> QED
    BY <1>5, <2>1, <2>3 DEF LanesRegistered
<1>6. ASSUME NEW P \in SUBSET Pids
      PROVE  /\ Gone(P) \in [Pids -> {"unused", "registered", "up", "cut", "gone"}]
             /\ \A q \in Pids \ P : Gone(P)[q] = machines[q]
    BY DEF LanesRegistered, Gone
<1>7. CASE FleetStep
  <2>1. ASSUME NEW P \in SUBSET Pids, Leave(P)
        PROVE  LanesRegistered'
    BY <1>5, <1>6, <2>1 DEF Leave
  <2>2. ASSUME NEW p \in Pids, NEW P \in SUBSET Pids, Register(p, P)
        PROVE  LanesRegistered'
    <3> DEFINE ms == [Gone(P) EXCEPT ![p] = "registered"]
    <3>1. PICK ps : Disconnect(P, ms, ps)
      BY <2>2 DEF Register
    <3>2. /\ ms \in [Pids -> {"unused", "registered", "up", "cut", "gone"}]
          /\ \A q \in Pids \ P : Registered(q) => ms[q] \in {"registered", "up", "cut"}
      BY <1>6
    <3> HIDE DEF ms
    <3> QED
      BY <1>5, <3>1, <3>2
  <2>3. ASSUME NEW p \in Pids, Connect(p) \/ Cut(p) \/ HoldQueue(p) \/ PreemptForBench(p) \/ BreakerExpires(p)
        PROVE  LanesRegistered'
    <3>1. CASE Connect(p)
      <4>1. machines' = [machines EXCEPT ![p] = "up"] /\ \E ps, f : lanes' = Rebuilt(machines', ps, f)
        BY <3>1 DEF Connect
      <4> QED
        BY <1>4, <4>1
    <3>2. CASE Cut(p)
      <4>1. machines' = [machines EXCEPT ![p] = "cut"] /\ lanes' = lanes
        BY <3>2 DEF Cut, laneVars
      <4> QED
        BY <1>4, <4>1
    <3>3. CASE HoldQueue(p)
      BY <1>2, <3>3 DEF HoldQueue
    <3>4. CASE PreemptForBench(p)
      BY <1>3, <3>4 DEF PreemptForBench
    <3>5. CASE BreakerExpires(p)
      BY <1>2, <3>5 DEF BreakerExpires, laneVars
    <3> QED
      BY <2>3, <3>1, <3>2, <3>3, <3>4, <3>5
  <2>4. ASSUME NEW p \in Pids, NEW pause \in BOOLEAN, SetAvailability(p, pause)
        PROVE  LanesRegistered'
    BY <1>3, <2>4 DEF SetAvailability
  <2>5. ASSUME NEW p \in Pids, NEW I \in SUBSET Ids, Released(p, I)
        PROVE  LanesRegistered'
    BY <1>2, <2>5 DEF Released, fleetVars
  <2>6. ASSUME NEW n \in Names, ReleaseQueue(n)
        PROVE  LanesRegistered'
    BY <1>2, <2>6 DEF ReleaseQueue
  <2>7. CASE SetUpdateDrain
    BY <1>2, <2>7 DEF SetUpdateDrain
  <2> QED
    BY <1>7, <2>1, <2>2, <2>3, <2>4, <2>5, <2>6, <2>7 DEF FleetStep
<1>8. ASSUME NEW s \in Ids, EventStep(s) \/ SettleStep(s)
      PROVE  LanesRegistered'
  <2>1. CASE Ready(s) \/ Fatal(s)
    BY <1>2, <2>1 DEF Ready, Fatal, Mark, fleetVars, laneVars
  <2>2. CASE \E i \in Ids : Delivered(s, i) \/ VolumeStarted(s, i) \/ ResultStored(s, i)
    BY <1>2, <2>2 DEF Delivered, VolumeStarted, ResultStored, fleetVars, laneVars
  <2>3. CASE \E i \in Ids : VolumeReturned(s, i) \/ VolumeDone(s, i) \/ VolumeFailed(s, i)
    BY <1>2, <2>3 DEF VolumeReturned, VolumeDone, VolumeFailed, fleetVars, laneVars
  <2>4. CASE (\E clean \in BOOLEAN : Exit(s, clean)) \/ Wedged(s) \/ Overdue(s)
    BY <1>3, <2>4 DEF Exit, Wedged, Overdue, AfterEnd, fleetVars
  <2> QED
    BY <1>8, <2>1, <2>2, <2>3, <2>4 DEF EventStep, SettleStep
<1>9. ASSUME NEW h \in helpers, HelperStep(h)
      PROVE  LanesRegistered'
    BY <1>2, <1>9 DEF HelperStep, Install, Collected, OwnCopyRead, fleetVars, laneVars
<1>10. CASE OperatorStep
  <2>1. ASSUME NEW v, NEW arrived \in BOOLEAN, NEW stale, NEW found, ArchiveChanged(v, arrived, stale, found)
        PROVE  LanesRegistered'
    BY <1>3, <2>1 DEF ArchiveChanged, fleetVars
  <2>2. ASSUME NEW newRows, NEW changed, Apply(newRows, changed)
        PROVE  LanesRegistered'
    BY <1>3, <2>2 DEF Apply
  <2>3. CASE \/ \E S \in SUBSET Jobs : Walked(S) \/ RetryFailed(S)
             \/ \E j \in Jobs : FailureExpires(j)
             \/ Tick
    BY <1>2, <2>3 DEF Walked, RetryFailed, FailureExpires, Tick, fleetVars, laneVars
  <2>4. CASE Stop
    <3> DEFINE Q == {p \in Pids : Registered(p)}
    <3>1. Q \in SUBSET Pids /\ machines' = Gone(Q) /\ lanes' = {}
      BY <2>4 DEF Stop
    <3> HIDE DEF Q
    <3> QED
      BY <1>6, <3>1 DEF LanesRegistered
  <2> QED
    BY <1>10, <2>1, <2>2, <2>3, <2>4 DEF OperatorStep
<1>11. CASE PumpStep
  <2>1. ASSUME NEW l \in Lanes, PumpDrain(l) \/ PumpIdle(l) \/ PumpSkip(l)
        PROVE  LanesRegistered'
    BY <1>2, <2>1 DEF PumpDrain, PumpIdle, PumpSkip, fleetVars, laneVars
  <2>2. ASSUME NEW l \in Lanes, PumpLeave(l)
        PROVE  LanesRegistered'
    BY <1>2, <1>3, <2>2 DEF PumpLeave, fleetVars
  <2>3. ASSUME NEW l \in Lanes, NEW j \in Jobs, PumpTopUp(l, j)
        PROVE  LanesRegistered'
    BY <1>2, <2>3 DEF PumpTopUp, fleetVars
  <2>4. ASSUME NEW l \in Lanes, NEW j \in Jobs, PumpOpen(l, j)
        PROVE  LanesRegistered'
    <3>1. PidOf(l) \in Pids /\ lanes' = lanes
      BY <2>4 DEF PumpOpen, Lanes, PidOf
    <3>2. UNCHANGED machines \/ machines' = [machines EXCEPT ![PidOf(l)] = "cut"]
      BY <2>4 DEF PumpOpen
    <3> QED
      BY <1>2, <1>4, <3>1, <3>2
  <2>5. CASE PumpEnd
    BY <1>2, <2>5 DEF PumpEnd, fleetVars
  <2> QED
    BY <1>11, <2>1, <2>2, <2>3, <2>4, <2>5 DEF PumpStep
<1>12. CASE UNCHANGED vars
    BY <1>2, <1>12 DEF vars
<1> QED
    BY <1>7, <1>8, <1>9, <1>10, <1>11, <1>12 DEF Next

-----------------------------------------------------------------------------
(* The theorems *)

\* Nothing is registered, claimed or running at the start.
LEMMA InvAtStart == Init => IInv
<1> SUFFICES ASSUME Init
             PROVE  IInv
    OBVIOUS
<1> USE DEF Init
<1>1. ClaimedJobs = {} /\ LiveSids = {}
    BY DEF ClaimedJobs, IsClaimed, LiveSids, Live
<1>2. CoreType
    BY SchedulerAssumption DEF CoreType
<1>3. SessionsOwnTheirClaims /\ RunningIsHeld /\ SettlingIsHelped /\ SessionsAreOld
      /\ ClaimsNameTheirJobs /\ DeliveredIsHeld
    BY <1>1 DEF SessionsOwnTheirClaims, RunningIsHeld, SettlingIsHelped, SessionsAreOld,
                ClaimsNameTheirJobs, DeliveredIsHeld
<1>4. HelpersOwnTheirClaims /\ ResultsAreAwaited
    BY DEF HelpersOwnTheirClaims, ResultsAreAwaited, ResultsHeld
<1>5. LaneSessionsAgree
    BY <1>1 DEF LaneSessionsAgree
<1>6. RestType
    BY SchedulerAssumption DEF RestType, ScanType, SESSION_CRASH_LIMIT
<1> QED
    BY <1>2, <1>3, <1>4, <1>5, <1>6 DEF IInv, Core, NoCancelLeftBehind

\* Every step of the scheduler, its processors and its helpers keeps it.
LEMMA InvStep ==
    ASSUME IInv, LanesRegistered, [Next]_vars
    PROVE  IInv'
<1>0. inputs' = inputs
    BY DEF Next, vars
<1>1. CASE FleetStep
  <2>1. ASSUME NEW p \in Pids, PreemptForBench(p)
        PROVE  IInv'
    BY <1>0, <2>1, BenchKeepsInv
  <2>2. ASSUME NEW p \in Pids, NEW I \in SUBSET Ids, Released(p, I)
        PROVE  IInv'
    BY <1>0, <2>2, ReleasedKeepsInv
  <2>3. CASE (\E P \in SUBSET Pids : Leave(P)) \/ (\E p \in Pids, P \in SUBSET Pids : Register(p, P))
    BY <1>0, <2>3, DropsKeepInv
  <2>4. CASE \/ \E p \in Pids : Connect(p) \/ Cut(p) \/ HoldQueue(p) \/ BreakerExpires(p)
             \/ \E p \in Pids, pause \in BOOLEAN : SetAvailability(p, pause)
             \/ \E n \in Names : ReleaseQueue(n)
             \/ SetUpdateDrain
    BY <1>0, <2>4, FleetKeepsInv
  <2> QED
    BY <1>1, <2>1, <2>2, <2>3, <2>4 DEF FleetStep
<1>2. ASSUME NEW s \in Ids, EventStep(s)
      PROVE  IInv'
    BY <1>0, <1>2, EventsKeepInv
<1>3. ASSUME NEW s \in Ids, SettleStep(s)
      PROVE  IInv'
    BY <1>0, <1>3, EndsKeepInv, AnswersKeepInv DEF SettleStep
<1>4. ASSUME NEW h \in helpers, HelperStep(h)
      PROVE  IInv'
    BY <1>0, <1>4, HelpersKeepInv
<1>5. CASE OperatorStep
  <2>1. CASE \E v \in {VolumeOf[j] : j \in Jobs}, arrived \in BOOLEAN :
                \E stale, found \in SUBSET Jobs : ArchiveChanged(v, arrived, stale, found)
    BY <1>0, <2>1, LibraryKeepsInv
  <2>2. CASE \E newRows \in [Rows -> {"runnable", "disabled", "removed"}], changed \in SUBSET Rows :
                Apply(newRows, changed)
    BY <1>0, <2>2, LibraryKeepsInv
  <2>3. CASE \/ \E S \in SUBSET Jobs : Walked(S) \/ RetryFailed(S)
             \/ \E j \in Jobs : FailureExpires(j)
             \/ Tick
    BY <1>0, <2>3, TimersKeepInv
  <2>4. CASE Stop
    BY <1>0, <2>4, DropsKeepInv
  <2> QED
    BY <1>5, <2>1, <2>2, <2>3, <2>4 DEF OperatorStep
<1>6. CASE PumpStep
    BY <1>0, <1>6, DrainKeepsInv, LeaveKeepsInv, PassingKeepsInv, TopUpKeepsInv, OpenKeepsInv DEF PumpStep
<1>7. CASE UNCHANGED vars
  <2> USE <1>7 DEF vars
  <2>1. Core'
    BY <1>0, BusyLanesAreLanes, SessionsUntouched DEF IInv, sessionVars
  <2>2. RestType'
    BY DEF IInv, RestType, ScanType
  <2> QED
    BY <2>1, <2>2 DEF IInv, NoCancelLeftBehind
<1> QED
    BY <1>1, <1>2, <1>3, <1>4, <1>5, <1>6, <1>7 DEF Next

\* Every lane there is belongs to a registered machine.
THEOREM LanesAlwaysRegistered == Spec => []LanesRegistered
BY LanesAtStart, LanesStep, PTL DEF Spec

\* The inductive invariant holds of the scheduler.
THEOREM Invariant == Spec => []IInv
<1>1. Init => IInv
    BY InvAtStart
<1>2. IInv /\ LanesRegistered /\ [Next]_vars => IInv'
    BY InvStep
<1> QED
    BY <1>1, <1>2, LanesAlwaysRegistered, PTL DEF Spec

\* Every variable keeps the shape of the field it stands for.
THEOREM TypeCorrect == Spec => []TypeOK
<1>1. IInv => TypeOK
    BY DEF IInv, Core, CoreType, RestType, ScanType, NoCancelLeftBehind, TypeOK
<1> QED
    BY <1>1, Invariant, PTL

\* Sessions, claims, helpers and lanes agree on who owns a job, and no claim is
\* orphaned, whatever arrives in whatever order (drop_processor, end_session,
\* released, volume_done, the pump).
THEOREM OwnershipHolds == Spec => []Ownership
<1>1. ASSUME IInv
      PROVE  NoOrphanClaim
  <2>1. ASSUME NEW j \in ClaimedJobs
        PROVE  IF claims[j].state = "running"
                 THEN Live(claims[j].sid) /\ claims[j].id \in sessions[claims[j].sid].ids
                 ELSE \E h \in helpers : h.job = j /\ h.id = claims[j].id
    <3>1. CASE claims[j].state = "running"
      BY <1>1, <3>1 DEF IInv, Core, RunningIsHeld, LiveSids
    <3>2. CASE claims[j].state # "running"
      <4>1. \E h \in helpers : h.job = j /\ h.id = claims[j].id
        BY <1>1, <3>2 DEF IInv, Core, SettlingIsHelped
      <4> QED
        BY <3>2, <4>1
    <3> QED
      BY <3>1, <3>2
  <2> QED
    BY <2>1 DEF NoOrphanClaim
<1>2. IInv => Ownership
    BY <1>1 DEF IInv, Core, Ownership
<1> QED
    BY <1>2, Invariant, PTL

\* What a session holds is claimed by that session and no other, so an answer
\* settles the volume it is about (pop_job, collect's owned test).
THEOREM SessionsOwn == Spec => []SessionsOwnTheirClaims
BY OwnershipHolds, PTL DEF Ownership

\* Every claim will be settled by a session or a helper thread that is there.
THEOREM NoneOrphaned == Spec => []NoOrphanClaim
BY OwnershipHolds, PTL DEF Ownership

\* No two helper threads work for one volume, and each works for the claim that
\* started it, through every drop, cancel and replacement (spawn_collect).
THEOREM HelpersOwn == Spec => []HelpersOwnTheirClaims
BY OwnershipHolds, PTL DEF Ownership

\* A lane and its session name each other (open, end_session, drop_processor).
THEOREM LanesAgree == Spec => []LaneSessionsAgree
BY OwnershipHolds, PTL DEF Ownership

\* An uploaded result is never left behind by a claim that is gone, so a drain
\* for an update is not put off by one (results_of, drop_result), unless a claim
\* may be returned after its upload (volume_returned drops no result).
THEOREM ResultsAwaited == Spec => []ResultsAreAwaited
<1>1. IInv => ResultsAreAwaited
    BY DEF IInv, Core
<1> QED
    BY <1>1, Invariant, PTL

\* No cancellation mark outlives its handler: every session whose jobs were
\* marked has ended and taken the marks with it (kill_session, preempt_for_bench).
THEOREM MarksAreTaken == Spec => []NoCancelLeftBehind
<1>1. IInv => NoCancelLeftBehind
    BY DEF IInv
<1> QED
    BY <1>1, Invariant, PTL

\* Both: results and marks go with their claims (drop_result, finish), but for the
\* result of a claim that is returned after its upload.
THEOREM ClaimsLeaveNothing == Spec => []NothingLeftBehind
BY ResultsAwaited, MarksAreTaken, PTL DEF NothingLeftBehind

-----------------------------------------------------------------------------
(* A scan that is over is over for everybody *)

\* Every step of a scan that is over leaves everything at rest, and only the end
\* of the pump ends a scan.
LEMMA QuietStep ==
    ASSUME IInv, ScanOffIsQuiet, [Next]_vars
    PROVE  ScanOffIsQuiet'
<1> SUFFICES ASSUME scan' = "off"
             PROVE  ClaimedJobs' = {} /\ LiveSids' = {} /\ attempted' = {}
    BY DEF ScanOffIsQuiet
<1>1. ASSUME scan = "off",
             \A s \in Ids : sessions[s] = NoSession => sessions'[s] = NoSession,
             \A j \in Jobs : claims[j] = NoClaim => claims'[j] = NoClaim,
             attempted' \subseteq attempted
      PROVE  ClaimedJobs' = {} /\ LiveSids' = {} /\ attempted' = {}
    BY <1>1 DEF ScanOffIsQuiet, ClaimedJobs, IsClaimed, LiveSids, Live
<1>2. CASE UNCHANGED <<scan, sessions, claims, attempted>>
    BY <1>1, <1>2
<1>3. ASSUME UNCHANGED <<sessions, claims>>,
             \/ UNCHANGED <<scan, attempted, strikes, stopped>>
             \/ \E ms, ps, hs, ts : MaybeStartScan(ms, ps, hs, ts)
      PROVE  ClaimedJobs' = {} /\ LiveSids' = {} /\ attempted' = {}
  <2>1. UNCHANGED <<scan, attempted>>
    BY <1>3, ScanStarts DEF MaybeStartScan
  <2> QED
    BY <1>2, <1>3, <2>1
<1>4. ASSUME scan = "off"
      PROVE  LiveSids = {} /\ helpers = {}
    BY <1>4 DEF IInv, Core, CoreType, Helper, HelpersOwnTheirClaims, Settling, ClaimedJobs, ScanOffIsQuiet
<1>5. ASSUME NEW S, NEW B, NEW C, EndSessions(S, B, C), scan = "off"
      PROVE  ClaimedJobs' = {} /\ LiveSids' = {} /\ attempted' = {}
    BY <1>1, <1>5 DEF EndSessions, Unclaimed
<1>6. ASSUME NEW P, DropAll(P), attempted' \subseteq attempted, scan = "off"
      PROVE  ClaimedJobs' = {} /\ LiveSids' = {} /\ attempted' = {}
    BY <1>1, <1>6 DEF DropAll, Unclaimed
<1>7. ASSUME NEW P, NEW ms, NEW ps, Disconnect(P, ms, ps)
      PROVE  ClaimedJobs' = {} /\ LiveSids' = {} /\ attempted' = {}
  <2>1. DropAll(P) /\ attempted' \subseteq attempted /\ scan = "off"
    BY <1>7, ScanStarts DEF Disconnect
  <2> QED
    BY <1>6, <2>1
<1>8. CASE FleetStep
  <2>1. CASE (\E P \in SUBSET Pids : Leave(P)) \/ (\E p \in Pids, P \in SUBSET Pids : Register(p, P))
    BY <1>7, <2>1 DEF Leave, Register
  <2>2. ASSUME NEW p \in Pids, Connect(p)
        PROVE  ClaimedJobs' = {} /\ LiveSids' = {} /\ attempted' = {}
    BY <1>3, <2>2 DEF Connect, sessionVars
  <2>3. ASSUME NEW p \in Pids, Cut(p) \/ HoldQueue(p) \/ BreakerExpires(p)
        PROVE  ClaimedJobs' = {} /\ LiveSids' = {} /\ attempted' = {}
    BY <1>2, <2>3 DEF Cut, HoldQueue, BreakerExpires, sessionVars, claimVars
  <2>4. ASSUME NEW p \in Pids, PreemptForBench(p)
        PROVE  ClaimedJobs' = {} /\ LiveSids' = {} /\ attempted' = {}
    BY <1>5, <2>4 DEF PreemptForBench
  <2>5. ASSUME NEW p \in Pids, NEW pause \in BOOLEAN, SetAvailability(p, pause)
        PROVE  ClaimedJobs' = {} /\ LiveSids' = {} /\ attempted' = {}
    <3>1. \/ UNCHANGED <<scan, attempted, strikes, stopped>>
          \/ MaybeStartScan(machines, paused', held, tripped)
      BY <2>5 DEF SetAvailability
    <3> QED
      BY <1>3, <2>5, <3>1 DEF SetAvailability, sessionVars
  <2>6. ASSUME NEW p \in Pids, NEW I \in SUBSET Ids, Released(p, I)
        PROVE  ClaimedJobs' = {} /\ LiveSids' = {} /\ attempted' = {}
    <3>1. I # {} /\ I \subseteq IdsOf(SessionsOf({p})) /\ scan = "off"
      BY <2>6 DEF Released
    <3>2. LiveSids # {}
      BY <3>1 DEF IdsOf, SessionsOf
    <3> QED
      BY <1>4, <3>1, <3>2
  <2>7. ASSUME NEW n \in Names, ReleaseQueue(n)
        PROVE  ClaimedJobs' = {} /\ LiveSids' = {} /\ attempted' = {}
    BY <1>3, <2>7 DEF ReleaseQueue, sessionVars
  <2>8. CASE SetUpdateDrain
    <3>1. \/ UNCHANGED <<scan, attempted, strikes, stopped>>
          \/ MaybeStartScan(machines, paused, held', tripped)
      BY <2>8 DEF SetUpdateDrain
    <3> QED
      BY <1>3, <2>8, <3>1 DEF SetUpdateDrain, sessionVars
  <2> QED
    BY <1>8, <2>1, <2>2, <2>3, <2>4, <2>5, <2>6, <2>7, <2>8 DEF FleetStep
<1>9. ASSUME NEW s \in Ids, EventStep(s) \/ SettleStep(s)
      PROVE  ClaimedJobs' = {} /\ LiveSids' = {} /\ attempted' = {}
  <2>1. s \in LiveSids /\ scan' = scan
    BY <1>9 DEF EventStep, Ready, Fatal, Mark, Delivered, VolumeStarted, ResultStored,
                SettleStep, Exit, Wedged, Overdue, VolumeReturned, VolumeDone, VolumeFailed,
                Holds, Hears, LiveSids, AfterEnd
  <2> QED
    BY <1>4, <2>1
<1>10. ASSUME NEW h \in helpers, HelperStep(h)
       PROVE  ClaimedJobs' = {} /\ LiveSids' = {} /\ attempted' = {}
  <2>1. scan' = scan
    BY <1>10 DEF HelperStep, Install, Collected, OwnCopyRead
  <2> QED
    BY <1>4, <2>1
<1>11. CASE OperatorStep
  <2>1. ASSUME NEW v, NEW arrived, NEW stale, NEW found, ArchiveChanged(v, arrived, stale, found)
        PROVE  ClaimedJobs' = {} /\ LiveSids' = {} /\ attempted' = {}
    <3>1. scan = "off"
      BY <2>1, ScanStarts DEF ArchiveChanged
    <3> QED
      BY <1>5, <2>1, <3>1 DEF ArchiveChanged, CancelSessions
  <2>2. ASSUME NEW newRows, NEW changed, Apply(newRows, changed)
        PROVE  ClaimedJobs' = {} /\ LiveSids' = {} /\ attempted' = {}
    BY <1>5, <2>2 DEF Apply, CancelSessions
  <2>3. ASSUME NEW S, Walked(S)
        PROVE  ClaimedJobs' = {} /\ LiveSids' = {} /\ attempted' = {}
    BY <1>3, <2>3 DEF Walked, sessionVars
  <2>4. ASSUME NEW S, RetryFailed(S)
        PROVE  ClaimedJobs' = {} /\ LiveSids' = {} /\ attempted' = {}
    BY <2>4, ScanStarts DEF RetryFailed
  <2>5. CASE (\E j \in Jobs : FailureExpires(j)) \/ Tick
    BY <1>2, <2>5 DEF FailureExpires, Tick, sessionVars, claimVars
  <2>6. CASE Stop
    BY <1>6, <2>6 DEF Stop
  <2> QED
    BY <1>11, <2>1, <2>2, <2>3, <2>4, <2>5, <2>6 DEF OperatorStep
<1>12. CASE PumpStep
  <2>1. ASSUME NEW l \in Lanes, laneSession[l] # 0, scan = "off"
        PROVE  FALSE
    BY <1>4, <2>1 DEF IInv, Core, CoreType, LaneSessionsAgree, LiveSids
  <2>2. ASSUME NEW l \in Lanes, PumpDrain(l) \/ PumpLeave(l)
        PROVE  ClaimedJobs' = {} /\ LiveSids' = {} /\ attempted' = {}
    BY <2>1, <2>2 DEF PumpDrain, PumpLeave
  <2>3. ASSUME NEW l \in Lanes, PumpIdle(l) \/ PumpSkip(l)
        PROVE  ClaimedJobs' = {} /\ LiveSids' = {} /\ attempted' = {}
    BY <1>2, <2>3 DEF PumpIdle, PumpSkip, sessionVars, claimVars
  <2>4. ASSUME NEW l \in Lanes, NEW j \in Jobs, PumpTopUp(l, j) \/ PumpOpen(l, j)
        PROVE  ClaimedJobs' = {} /\ LiveSids' = {} /\ attempted' = {}
    BY <2>1, <2>4 DEF PumpTopUp, PumpOpen
  <2>5. CASE PumpEnd
    <3>1. CASE ScanIsOver
      <4>1. \A l \in lanes : laneSession[l] = 0
        BY <3>1 DEF ScanIsOver
      <4>2. LiveSids = {}
        <5> SUFFICES ASSUME NEW s \in LiveSids
                     PROVE  FALSE
          OBVIOUS
        <5>1. sessions[s].lane \in Lanes /\ laneSession[sessions[s].lane] = s /\ s # 0
          BY RecordsHaveTypes DEF IInv, Core, LaneSessionsAgree, Ids
        <5> QED
          BY <4>1, <5>1 DEF IInv, Core, LaneSessionsAgree
      <4>3. ClaimedJobs = {}
        BY <3>1 DEF ScanIsOver
      <4>4. UNCHANGED <<sessions, claims>> /\ attempted' = {}
        BY <2>5, <3>1 DEF PumpEnd, sessionVars
      <4> QED
        BY <4>2, <4>3, <4>4 DEF LiveSids, Live, ClaimedJobs, IsClaimed
    <3>2. CASE ~ScanIsOver
      BY <1>2, <2>5, <3>2 DEF PumpEnd, sessionVars
    <3> QED
      BY <3>1, <3>2
  <2> QED
    BY <1>12, <2>2, <2>3, <2>4, <2>5 DEF PumpStep
<1>13. CASE UNCHANGED vars
    BY <1>2, <1>13 DEF vars
<1> QED
    BY <1>8, <1>9, <1>10, <1>11, <1>12, <1>13 DEF Next

\* A scan never ends over a claim, a session or a volume it has tried
\* (maybe_end_scan).
THEOREM ScanEndsQuiet == Spec => []ScanOffIsQuiet
<1>1. Init => ScanOffIsQuiet
    BY DEF Init, ScanOffIsQuiet, ClaimedJobs, IsClaimed, LiveSids, Live
<1>2. IInv /\ ScanOffIsQuiet /\ [Next]_vars => ScanOffIsQuiet'
    BY QuietStep
<1> QED
    BY <1>1, <1>2, Invariant, PTL DEF Spec

-----------------------------------------------------------------------------
(* Who is blamed *)

\* A volume that finish fails has a claim whose processor is still there; the
\* claim is settling, or its session goes on.
LEMMA FinishIsEarned ==
    ASSUME NEW j \in ClaimedJobs, NEW ok \in BOOLEAN, Finish(j, ok), UNCHANGED machines,
           Settling(j) \/ sessions'[claims[j].sid] # NoSession
    PROVE  NewFailuresEarned
<1> SUFFICES ASSUME NEW k \in failed', k \notin failed
             PROVE  FailureIsEarned(k)
    BY DEF NewFailuresEarned
<1>1. k = j /\ Registered(PidOf(claims[j].lane))
    BY DEF Finish
<1>2. IsClaimed(j) /\ machines'[PidOf(claims[j].lane)] \in {"registered", "up", "cut"}
    BY <1>1 DEF ClaimedJobs, Registered
<1>3. ~(claims[j].state = "running" /\ sessions'[claims[j].sid] = NoSession)
    BY DEF Settling
<1> QED
    BY <1>1, <1>2, <1>3 DEF FailureIsEarned

\* A volume that a session's end fails is the oldest one it held, delivered to
\* a processor that is there and not paused.
LEMMA EndIsEarned ==
    ASSUME Core, NEW s \in LiveSids, NEW fatal \in BOOLEAN, NEW refused \in BOOLEAN,
           EndSession(s, fatal, refused), UNCHANGED machines
    PROVE  NewFailuresEarned
<1> SUFFICES ASSUME NEW k \in failed', k \notin failed
             PROVE  FailureIsEarned(k)
    BY DEF NewFailuresEarned
<1>1. k \in Blamed(s, refused)
    BY DEF EndSession, Recorded
<1>2. /\ k = jobOf[Oldest(s)]
      /\ BlamesOldest(s) /\ Oldest(s) \in sessions[s].delivered
    BY <1>1 DEF Blamed
<1>3. Oldest(s) \in sessions[s].ids
    BY <1>2 DEF Core, DeliveredIsHeld
<1>4. /\ IsClaimed(k) /\ claims[k].id = Oldest(s) /\ claims[k].sid = s
      /\ claims[k].lane = sessions[s].lane
    BY <1>2, <1>3, HeldClaims DEF ClaimedJobs
<1>5. /\ machines'[PidOf(claims[k].lane)] \in {"registered", "up", "cut"}
      /\ PidOf(claims[k].lane) \notin paused
    BY <1>2, <1>4 DEF BlamesOldest, Registered
<1> QED
    BY <1>2, <1>4, <1>5 DEF FailureIsEarned

\* A volume reported as failed, or returned once too often, leaves a session
\* that goes on.
LEMMA AnswersAreEarned ==
    ASSUME IInv, NEW s \in Ids, NEW i \in Ids, VolumeFailed(s, i) \/ VolumeReturned(s, i)
    PROVE  NewFailuresEarned
<1>0. Core
    BY DEF IInv
<1>1. s \in LiveSids /\ i \in sessions[s].ids /\ sessions' = Popped(s, i)
    BY DEF VolumeFailed, VolumeReturned, Holds, Hears, LiveSids
<1>2. jobOf[i] \in ClaimedJobs /\ claims[jobOf[i]].sid = s
    BY <1>0, <1>1, HeldClaims
<1>3. sessions'[s] # NoSession
  <2>1. sessions'[s] \in Session
    BY <1>0, <1>1, PoppedSession
  <2> QED
    BY <2>1, SessionsAreNotNone
<1>4. CASE Finish(jobOf[i], FALSE)
    BY <1>2, <1>3, <1>4, FinishIsEarned DEF VolumeFailed, VolumeReturned, fleetVars
<1>5. CASE UNCHANGED failed
    BY <1>5 DEF NewFailuresEarned
<1> QED
    BY <1>4, <1>5 DEF VolumeFailed, VolumeReturned, Release

\* A helper's answer is about a claim that is settling.
LEMMA HelpersAreEarned ==
    ASSUME IInv, NEW h \in helpers, HelperStep(h)
    PROVE  NewFailuresEarned
<1>1. h.job \in ClaimedJobs /\ Settling(h.job)
    BY DEF IInv, Core, CoreType, Helper, HelpersOwnTheirClaims, Settling, ClaimedJobs, IsClaimed
<1>2. CASE \E ok \in BOOLEAN : Finish(h.job, ok)
    BY <1>1, <1>2, FinishIsEarned DEF HelperStep, Install, Collected, OwnCopyRead, fleetVars
<1>3. CASE UNCHANGED failed
    BY <1>3 DEF NewFailuresEarned
<1> QED
    BY <1>2, <1>3 DEF HelperStep, Install, Collected, OwnCopyRead, Release, blameVars

\* Only an answer, a helper, the end of a session and a lane of this server's
\* own processor that cannot open fail a volume.
LEMMA EarnedStep ==
    ASSUME IInv, Next
    PROVE  NewFailuresEarned
<1>1. CASE FleetStep
  <2>1. ASSUME \/ \E P \in SUBSET Pids : Leave(P)
               \/ \E p \in Pids, P \in SUBSET Pids : Register(p, P)
        PROVE  UNCHANGED failed
    BY <2>1 DEF Leave, Register, Disconnect
  <2>2. ASSUME NEW p \in Pids,
               Connect(p) \/ Cut(p) \/ HoldQueue(p) \/ PreemptForBench(p) \/ BreakerExpires(p)
        PROVE  UNCHANGED failed
    BY <2>2 DEF Connect, Cut, HoldQueue, PreemptForBench, BreakerExpires, blameVars
  <2>3. ASSUME \/ \E p \in Pids, pause \in BOOLEAN : SetAvailability(p, pause)
               \/ \E n \in Names : ReleaseQueue(n)
               \/ SetUpdateDrain
        PROVE  UNCHANGED failed
    BY <2>3 DEF SetAvailability, ReleaseQueue, SetUpdateDrain
  <2>4. ASSUME NEW p \in Pids, NEW I \in SUBSET Ids, Released(p, I)
        PROVE  UNCHANGED failed
    BY <2>4 DEF Released, blameVars
  <2>5. UNCHANGED failed
    BY <1>1, <2>1, <2>2, <2>3, <2>4 DEF FleetStep
  <2> QED
    BY <2>5 DEF NewFailuresEarned
<1>2. ASSUME NEW s \in Ids, EventStep(s)
      PROVE  NewFailuresEarned
  <2>1. UNCHANGED failed
    BY <1>2 DEF EventStep, Ready, Fatal, Mark, Delivered, VolumeStarted, ResultStored, blameVars
  <2> QED
    BY <2>1 DEF NewFailuresEarned
<1>3. ASSUME NEW s \in Ids, SettleStep(s)
      PROVE  NewFailuresEarned
  <2>1. ASSUME NEW fatal \in BOOLEAN, NEW refused \in BOOLEAN, EndSession(s, fatal, refused),
               s \in LiveSids, UNCHANGED machines
        PROVE  NewFailuresEarned
    BY <2>1, EndIsEarned DEF IInv
  <2>2. ASSUME NEW clean \in BOOLEAN, Exit(s, clean)
        PROVE  NewFailuresEarned
    <3>1. /\ (~(sessions[s].ids = {} /\ clean)) \in BOOLEAN
          /\ SessionHas(s, "refused") \in BOOLEAN
          /\ s \in LiveSids /\ UNCHANGED machines
      BY <2>2 DEF SessionHas, Exit, Hears, LiveSids, AfterEnd, fleetVars
    <3> QED
      BY <2>1, <2>2, <3>1 DEF Exit
  <2>3. CASE Wedged(s)
    BY <2>1, <2>3 DEF Wedged, LiveSids, AfterEnd, fleetVars
  <2>4. ASSUME Overdue(s) \/ (\E i \in Ids : VolumeDone(s, i))
        PROVE  UNCHANGED failed
    BY <2>4 DEF Overdue, VolumeDone, blameVars
  <2>5. CASE \E i \in Ids : VolumeReturned(s, i) \/ VolumeFailed(s, i)
    BY <2>5, AnswersAreEarned
  <2>6. CASE UNCHANGED failed
    BY <2>6 DEF NewFailuresEarned
  <2> QED
    BY <1>3, <2>2, <2>3, <2>4, <2>5, <2>6 DEF SettleStep
<1>4. ASSUME NEW h \in helpers, HelperStep(h)
      PROVE  NewFailuresEarned
    BY <1>4, HelpersAreEarned
<1>5. CASE OperatorStep
  <2>1. failed' \subseteq failed
    BY <1>5 DEF OperatorStep, ArchiveChanged, Walked, Apply, RetryFailed, FailureExpires, Tick, Stop, blameVars
  <2> QED
    BY <2>1 DEF NewFailuresEarned
<1>6. CASE PumpStep
  <2>1. ASSUME NEW l \in Lanes, NEW j \in Jobs, PumpOpen(l, j)
        PROVE  NewFailuresEarned
    <3> SUFFICES ASSUME NEW k \in failed', k \notin failed
                 PROVE  FailureIsEarned(k)
      BY DEF NewFailuresEarned
    <3>1. k = j /\ PidOf(l) \in Local /\ machines[PidOf(l)] = "cut"
      BY <2>1 DEF PumpOpen, blameVars
    <3>2. ~IsClaimed(j)
      BY <2>1 DEF PumpOpen, Claimable, Offered, Candidates
    <3> QED
      BY <3>1, <3>2 DEF FailureIsEarned
  <2>2. CASE failed' = failed
    BY <2>2 DEF NewFailuresEarned
  <2>3. ASSUME NEW l \in Lanes, PumpDrain(l) \/ PumpIdle(l) \/ PumpSkip(l)
        PROVE  failed' = failed
    BY <2>3 DEF PumpDrain, PumpIdle, PumpSkip, ClaimsNothing, blameVars
  <2>4. ASSUME NEW l \in Lanes, PumpLeave(l)
        PROVE  failed' = failed
    <3>1. CASE UNCHANGED blameVars
      BY <3>1 DEF blameVars
    <3>2. ASSUME NEW s, NEW refused, NEW fatal, sessions[s].ids = {}, EndSession(s, fatal, refused)
          PROVE  failed' = failed
      BY <3>2 DEF EndSession, Blamed, Recorded
    <3> QED
      BY <2>4, <3>1, <3>2 DEF PumpLeave
  <2>5. ASSUME NEW l \in Lanes, NEW j \in Jobs, PumpTopUp(l, j)
        PROVE  failed' = failed
    BY <2>5 DEF PumpTopUp, blameVars
  <2>6. CASE PumpEnd
    BY <2>2, <2>6 DEF PumpEnd, blameVars
  <2> QED
    BY <1>6, <2>1, <2>2, <2>3, <2>4, <2>5, <2>6 DEF PumpStep
<1> QED
    BY <1>1, <1>2, <1>3, <1>4, <1>5, <1>6 DEF Next

\* A volume is failed only by a claim whose processor is still there, and a
\* session's end fails only the oldest volume of a processor that has its
\* archive and did not pause (finish, end_session, and open of the server's own).
THEOREM BlameIsEarned == Spec => FailuresAreEarned
<1>1. IInv /\ [Next]_vars => [NewFailuresEarned]_vars
    BY EarnedStep
<1> QED
    BY <1>1, Invariant, PTL DEF Spec, FailuresAreEarned

-----------------------------------------------------------------------------
(***************************************************************************)
(* OcrScheduler implements JobLedger, for every number of machines, jobs   *)
(* and claims.  What the ledger sees of a step is what it does to claims,  *)
(* helpers and sidecars, and that happens in six ways, one lemma each: not *)
(* at all, running claims go back, a claim settles, a sidecar is           *)
(* installed, a helper ends, a job is claimed.                             *)
(***************************************************************************)

\* An archive that owes a sidecar has none: what a claim asks before it is made.
MissingIsUnwritten == \A j \in missing : written[j] = 0

LInv == IInv /\ LanesRegistered /\ MissingIsUnwritten

LEMMA LeaseShape ==
    \A j \in Jobs :
        /\ claims[j] = NoClaim => Leases[j] = Ledger!Free
        /\ claims[j] # NoClaim =>
             /\ Leases[j] = [id |-> claims[j].id, state |-> LeaseState(claims[j], helpers, j)]
             /\ Ledger!State(j) = LeaseState(claims[j], helpers, j)
BY DEF Leases, LeaseOf, Ledger!Free, Ledger!State

\* The ledger sees nothing.
LEMMA Unseen ==
    ASSUME UNCHANGED <<claims, helpers, claim_seq, written>>
    PROVE  UNCHANGED Ledger!vars
BY DEF Leases, LeaseOf, LeaseState, Ledger!vars

\* Running claims go back, and the archives of R changed.
LEMMA SeenGivingBack ==
    ASSUME NEW J \in SUBSET Jobs, NEW R \in SUBSET Jobs,
           \A j \in J : IsClaimed(j) /\ claims[j].state = "running",
           claims' = Unclaimed(J),
           written' = [j \in Jobs |-> IF j \in R THEN 0 ELSE written[j]],
           UNCHANGED <<helpers, claim_seq>>
    PROVE  Ledger!Next
<1>1. \A j \in J : Ledger!State(j) = "running"
    BY LeaseShape DEF LeaseState, IsClaimed
<1>2. Leases' = [j \in Jobs |-> IF j \in J THEN Ledger!Free ELSE Leases[j]]
    BY DEF Leases, LeaseOf, LeaseState, Unclaimed, Ledger!Free
<1>3. Ledger!GiveBack(J, R)
    BY <1>1, <1>2 DEF Ledger!GiveBack
<1> QED
    BY <1>3 DEF Ledger!Next

LEMMA SeenReturning ==
    ASSUME IInv, NEW J \in SUBSET Jobs,
           \A j \in J : IsClaimed(j) /\ claims[j].state = "running",
           claims' = Unclaimed(J),
           UNCHANGED <<helpers, claim_seq, written>>
    PROVE  Ledger!Next
<1>1. written' = [j \in Jobs |-> IF j \in {} THEN 0 ELSE written[j]]
    BY DEF IInv, RestType
<1>2. {} \in SUBSET Jobs
    OBVIOUS
<1> DEFINE R == {}
<1>3. R \in SUBSET Jobs /\ written' = [j \in Jobs |-> IF j \in R THEN 0 ELSE written[j]]
    BY <1>1, <1>2
<1> HIDE DEF R
<1> QED
    BY <1>3, SeenGivingBack

\* A claim moves to a helper thread.
LEMMA SeenSettling ==
    ASSUME Core, NEW j \in Jobs, NEW h,
           IsClaimed(j), claims[j].state = "running",
           h.job = j, h.kind # "installed",
           claims' = [claims EXCEPT ![j].state = "settling"],
           helpers' = helpers \cup {h},
           UNCHANGED <<claim_seq, written>>
    PROVE  Ledger!Next
<1>1. claims \in [Jobs -> Claim \cup {NoClaim}] /\ claims[j] \in Claim
    BY DEF Core, CoreType, IsClaimed
<1>2. \A g \in helpers : g.job # j
    BY DEF Core, HelpersOwnTheirClaims, Settling
<1>3. /\ claims'[j].id = claims[j].id /\ claims'[j].state = "settling" /\ claims'[j] # NoClaim
      /\ \A k \in Jobs : k # j => claims'[k] = claims[k]
    <2>1. claims'[j] = [claims[j] EXCEPT !.state = "settling"]
        BY <1>1
    <2>2. claims'[j] \in Claim /\ claims'[j].id = claims[j].id /\ claims'[j].state = "settling"
        BY <1>1, <2>1 DEF Claim
    <2> QED
        BY <1>1, <2>2, ClaimsAreNotNone
<1>4. Leases[j] = [id |-> claims[j].id, state |-> "running"]
    BY LeaseShape DEF IsClaimed, LeaseState
<1>5. Leases'[j] = [id |-> claims[j].id, state |-> "settling"]
    BY <1>2, <1>3 DEF Leases, LeaseOf, LeaseState
<1>6. \A k \in Jobs : k # j => Leases'[k] = Leases[k]
    <2> SUFFICES ASSUME NEW k \in Jobs, k # j PROVE Leases'[k] = Leases[k]
        OBVIOUS
    <2>1. claims'[k] = claims[k]
        BY <1>3
    <2>2. (\E g \in helpers' : g.job = k /\ g.kind = "installed")
            <=> (\E g \in helpers : g.job = k /\ g.kind = "installed")
        OBVIOUS
    <2>3. LeaseState(claims[k], helpers', k) = LeaseState(claims[k], helpers, k)
        BY <2>2 DEF LeaseState
    <2> QED
        BY <2>1, <2>3 DEF Leases, LeaseOf
<1>7. Leases' = [Leases EXCEPT ![j].state = "settling"]
    <2>1. [Leases[j] EXCEPT !.state = "settling"] = [id |-> claims[j].id, state |-> "settling"]
        BY <1>4
    <2>2. Leases = [k \in Jobs |-> Leases[k]] /\ Leases' = [k \in Jobs |-> Leases'[k]]
        BY DEF Leases
    <2> QED
        BY <1>5, <1>6, <2>1, <2>2
<1>8. Ledger!Settle(j)
    BY <1>4, <1>7 DEF Ledger!Settle, Ledger!State
<1> QED
    BY <1>8 DEF Ledger!Next

\* A helper puts its sidecar on disk.
LEMMA SeenInstalling ==
    ASSUME IInv, NEW h \in helpers, Install(h)
    PROVE  Ledger!Next
<1> DEFINE j == h.job
           n == [h EXCEPT !.kind = "installed"]
<1>1. h \in Helper /\ h.kind = "collect" /\ helpers' = (helpers \ {h}) \cup {n}
      /\ claims' = claims /\ claim_seq' = claim_seq /\ written' = [written EXCEPT ![j] = @ + 1]
    BY DEF IInv, Core, CoreType, Install, claimVars
<1>2. j \in Jobs /\ n.kind = "installed" /\ n.job = j
    BY <1>1 DEF Helper
<1>3. IsClaimed(j) /\ claims[j].state = "settling" /\ \A g \in helpers : g.job = j => g = h
    BY DEF IInv, Core, HelpersOwnTheirClaims, Settling
<1> HIDE DEF n
<1>4. Leases[j] = [id |-> claims[j].id, state |-> "settling"]
    <2>1. ~\E g \in helpers : g.job = j /\ g.kind = "installed"
        BY <1>1, <1>3
    <2> QED
        BY <1>2, <1>3, <2>1, LeaseShape DEF IsClaimed, LeaseState
<1>5. Leases'[j] = [id |-> claims[j].id, state |-> "installed"]
    BY <1>1, <1>2, <1>3 DEF Leases, LeaseOf, LeaseState, IsClaimed
<1>6. \A k \in Jobs : k # j => Leases'[k] = Leases[k]
    <2> SUFFICES ASSUME NEW k \in Jobs, k # j PROVE Leases'[k] = Leases[k]
        OBVIOUS
    <2>1. (\E g \in helpers' : g.job = k /\ g.kind = "installed")
            <=> (\E g \in helpers : g.job = k /\ g.kind = "installed")
        BY <1>1, <1>2
    <2>2. LeaseState(claims[k], helpers', k) = LeaseState(claims[k], helpers, k)
        BY <2>1 DEF LeaseState
    <2> QED
        BY <1>1, <2>2 DEF Leases, LeaseOf
<1>7. Leases' = [Leases EXCEPT ![j].state = "installed"]
    <2>1. [Leases[j] EXCEPT !.state = "installed"] = [id |-> claims[j].id, state |-> "installed"]
        BY <1>4
    <2> QED
        BY <1>2, <1>5, <1>6, <2>1 DEF Leases
<1>8. Ledger!Install(j)
    BY <1>1, <1>4, <1>7 DEF Ledger!Install, Ledger!State
<1> QED
    BY <1>2, <1>8 DEF Ledger!Next

\* A helper ends, and its claim with it.
LEMMA SeenEnding ==
    ASSUME IInv, NEW h \in helpers,
           helpers' = helpers \ {h}, claims' = Unclaimed({h.job}),
           UNCHANGED <<claim_seq, written>>
    PROVE  Ledger!Next
<1> DEFINE j == h.job
<1>1. j \in Jobs
    BY DEF IInv, Core, CoreType, Helper
<1>2. IsClaimed(j) /\ claims[j].state = "settling"
    BY DEF IInv, Core, HelpersOwnTheirClaims, Settling
<1>3. Ledger!State(j) \in {"settling", "installed"}
    BY <1>1, <1>2, LeaseShape DEF IsClaimed, LeaseState
<1>4. Leases'[j] = Ledger!Free
    BY <1>1 DEF Leases, LeaseOf, Unclaimed, Ledger!Free
<1>5. \A k \in Jobs : k # j => Leases'[k] = Leases[k]
    <2> SUFFICES ASSUME NEW k \in Jobs, k # j PROVE Leases'[k] = Leases[k]
        OBVIOUS
    <2>1. (\E g \in helpers' : g.job = k /\ g.kind = "installed")
            <=> (\E g \in helpers : g.job = k /\ g.kind = "installed")
        OBVIOUS
    <2>2. LeaseState(claims[k], helpers', k) = LeaseState(claims[k], helpers, k)
        BY <2>1 DEF LeaseState
    <2> QED
        BY <2>2 DEF Leases, LeaseOf, Unclaimed
<1>6. Leases' = [Leases EXCEPT ![j] = Ledger!Free]
    BY <1>1, <1>4, <1>5 DEF Leases
<1>7. Ledger!End(j)
    BY <1>3, <1>6 DEF Ledger!End
<1> QED
    BY <1>1, <1>7 DEF Ledger!Next

\* A job is claimed and submitted.
LEMMA SeenGranting ==
    ASSUME LInv, NEW l \in Lanes, NEW j \in Claimable(l), NEW sid, Submitted(l, j, sid),
           UNCHANGED <<helpers, written>>
    PROVE  Ledger!Next
<1>1. j \in Jobs /\ ~IsClaimed(j) /\ j \in missing
    BY DEF LInv, IInv, RestType, Claimable, Offered, Candidates
<1>2. written[j] = 0
    BY <1>1 DEF LInv, MissingIsUnwritten
<1>3. \A g \in helpers : g.job # j
    BY <1>1 DEF LInv, IInv, Core, HelpersOwnTheirClaims, Settling
<1> DEFINE c == [lane |-> l, id |-> Next_id, sid |-> sid, state |-> "running"]
<1>4. c # NoClaim /\ c.id = claim_seq + 1 /\ c.state = "running"
    BY DEF NoClaim, Next_id
<1>5. claims' = [claims EXCEPT ![j] = c] /\ claim_seq' = claim_seq + 1
    BY DEF Submitted, Next_id
<1> HIDE DEF c
<1>6. claims'[j] = c /\ \A k \in Jobs : k # j => claims'[k] = claims[k]
    BY <1>1, <1>5 DEF LInv, IInv, Core, CoreType
<1>7. Ledger!State(j) = "free"
    <2>1. Leases[j] = Ledger!Free
        BY <1>1, LeaseShape DEF IsClaimed
    <2> QED
        BY <2>1 DEF Ledger!State, Ledger!Free
<1>8. Leases'[j] = [id |-> claim_seq + 1, state |-> "running"]
    BY <1>1, <1>4, <1>6 DEF Leases, LeaseOf, LeaseState
<1>9. \A k \in Jobs : k # j => Leases'[k] = Leases[k]
    BY <1>6 DEF Leases, LeaseOf, LeaseState
<1>10. Leases' = [Leases EXCEPT ![j] = [id |-> claim_seq + 1, state |-> "running"]]
    BY <1>1, <1>8, <1>9 DEF Leases
<1>11. Ledger!Grant(j)
    BY <1>2, <1>5, <1>7, <1>10 DEF Ledger!Grant
<1> QED
    BY <1>1, <1>11 DEF Ledger!Next

\* An id is used for a claim that bounced.
LEMMA SeenWasting ==
    ASSUME claim_seq' = claim_seq + 1, UNCHANGED <<claims, helpers, written>>
    PROVE  Ledger!Next
<1>1. Leases' = Leases
    BY DEF Leases, LeaseOf, LeaseState
<1> QED
    BY <1>1 DEF Ledger!Next, Ledger!Waste

-----------------------------------------------------------------------------
(* The actions *)

\* What sessions hold runs.
LEMMA SessionsRun ==
    ASSUME Core, NEW S \in SUBSET LiveSids
    PROVE  /\ JobsOf(S) \in SUBSET Jobs
           /\ \A j \in JobsOf(S) : IsClaimed(j) /\ claims[j].state = "running"
<1> SUFFICES ASSUME NEW s \in S, NEW i \in sessions[s].ids
             PROVE  jobOf[i] \in Jobs /\ IsClaimed(jobOf[i]) /\ claims[jobOf[i]].state = "running"
    BY DEF JobsOf, IdsOf
<1>1. jobOf[i] \in Jobs
      /\ claims[jobOf[i]] = [lane |-> sessions[s].lane, id |-> i, sid |-> s, state |-> "running"]
    BY DEF Core, SessionsOwnTheirClaims
<1>2. [lane |-> sessions[s].lane, id |-> i, sid |-> s, state |-> "running"] # NoClaim
    BY DEF NoClaim
<1> QED
    BY <1>1, <1>2 DEF IsClaimed

\* The end of sessions.
LEMMA EndsAreSeen ==
    ASSUME IInv, NEW S \in SUBSET LiveSids, NEW B, NEW C, EndSessions(S, B, C), written' = written
    PROVE  Ledger!Next
<1>1. claims' = Unclaimed(JobsOf(S)) /\ UNCHANGED <<helpers, claim_seq>>
    BY DEF EndSessions
<1> QED
    BY <1>1, SessionsRun, SeenReturning DEF IInv

\* A dropped machine takes only what runs.
LEMMA DropsAreSeen ==
    ASSUME IInv, NEW P \in SUBSET Pids, DropAll(P), UNCHANGED <<helpers, claim_seq, written>>
    PROVE  Ledger!Next
<1>1. claims' = Unclaimed(DroppedJobs(P)) /\ DroppedJobs(P) \in SUBSET Jobs
    BY DEF DropAll, DroppedJobs, ClaimedJobs
<1>2. ASSUME NEW j \in DroppedJobs(P) PROVE IsClaimed(j) /\ claims[j].state = "running"
  <2>1. j \in ClaimedJobs /\ IsClaimed(j) /\ ~Settling(j)
    BY DEF DroppedJobs, ClaimedJobs
  <2>2. claims[j].state \in {"running", "settling"}
    BY <2>1, RecordsHaveTypes DEF IInv
  <2> QED
    BY <2>1, <2>2 DEF Settling
<1> QED
    BY <1>1, <1>2, SeenReturning

LEMMA FleetIsSeen ==
    ASSUME IInv, FleetStep
    PROVE  [Ledger!Next]_(Ledger!vars)
<1>1. ASSUME NEW P \in SUBSET Pids, Leave(P) PROVE Ledger!Next
    BY <1>1, DropsAreSeen DEF Leave, Disconnect, diskVars
<1>2. ASSUME NEW p \in Pids, NEW P \in SUBSET Pids, Register(p, P) PROVE Ledger!Next
    BY <1>2, DropsAreSeen DEF Register, Disconnect, diskVars
<1>3. ASSUME NEW p \in Pids, PreemptForBench(p) PROVE Ledger!Next
    <2> DEFINE S == {s \in LiveSids : NameOf[PidOf(sessions[s].lane)] = NameOf[p]}
    <2>1. EndSessions(S, {}, BenchCancels(p)) /\ written' = written /\ S \in SUBSET LiveSids
        BY <1>3 DEF PreemptForBench, diskVars
    <2> QED
        BY <2>1, EndsAreSeen
<1>4. ASSUME NEW p \in Pids, NEW I \in SUBSET Ids, Released(p, I) PROVE Ledger!Next
    <2>1. I \subseteq IdsOf(SessionsOf({p})) /\ SessionsOf({p}) \in SUBSET LiveSids
        BY <1>4 DEF Released, SessionsOf
    <2>2. {jobOf[i] : i \in I} \subseteq JobsOf(SessionsOf({p}))
        BY <2>1 DEF JobsOf
    <2>3. claims' = Unclaimed({jobOf[i] : i \in I}) /\ UNCHANGED <<helpers, claim_seq, written>>
        BY <1>4 DEF Released, diskVars
    <2>4. {jobOf[i] : i \in I} \in SUBSET Jobs
          /\ \A j \in {jobOf[i] : i \in I} : IsClaimed(j) /\ claims[j].state = "running"
        BY <2>1, <2>2, SessionsRun DEF IInv
    <2> QED
        BY <2>3, <2>4, SeenReturning
<1>5. CASE \/ \E p \in Pids : Connect(p) \/ Cut(p) \/ HoldQueue(p) \/ BreakerExpires(p)
           \/ \E p \in Pids, pause \in BOOLEAN : SetAvailability(p, pause)
           \/ \E n \in Names : ReleaseQueue(n)
           \/ SetUpdateDrain
    <2>1. UNCHANGED <<claims, helpers, claim_seq, written>>
        BY <1>5 DEF Connect, Cut, HoldQueue, BreakerExpires, SetAvailability, ReleaseQueue,
                    SetUpdateDrain, sessionVars, claimVars, diskVars
    <2> QED
        BY <2>1, Unseen
<1> QED
    BY <1>1, <1>2, <1>3, <1>4, <1>5 DEF FleetStep

LEMMA SessionsAreSeen ==
    ASSUME IInv, NEW s \in Ids, EventStep(s) \/ SettleStep(s)
    PROVE  [Ledger!Next]_(Ledger!vars)
<1>1. CASE EventStep(s)
    <2>1. UNCHANGED <<claims, helpers, claim_seq, written>>
        BY <1>1 DEF EventStep, Ready, Fatal, Mark, Delivered, VolumeStarted, ResultStored,
                    claimVars, diskVars
    <2> QED
        BY <2>1, Unseen
<1>2. CASE (\E clean \in BOOLEAN : Exit(s, clean)) \/ Wedged(s) \/ Overdue(s)
    <2>1. {s} \in SUBSET LiveSids
        BY <1>2 DEF Exit, Wedged, Overdue, Hears, LiveSids
    <2>2. written' = written /\ \E B, C : EndSessions({s}, B, C)
        BY <1>2 DEF Exit, Wedged, Overdue, EndSession, diskVars
    <2> QED
        BY <2>1, <2>2, EndsAreSeen
<1>3. ASSUME NEW i \in Ids, VolumeReturned(s, i) \/ VolumeDone(s, i) \/ VolumeFailed(s, i)
      PROVE  Ledger!Next
    <2> DEFINE j == jobOf[i]
    <2>0. Core /\ s \in LiveSids /\ i \in sessions[s].ids
        BY <1>3 DEF IInv, VolumeReturned, VolumeDone, VolumeFailed, Holds, Hears, LiveSids
    <2>1. j \in Jobs /\ IsClaimed(j) /\ claims[j].state = "running"
        <3>1. j \in JobsOf({s})
            BY <2>0 DEF JobsOf, IdsOf
        <3> QED
            BY <2>0, <3>1, SessionsRun
    <2>2. claims[j].sid = s /\ claims[j].id = i
        BY <2>0, HeldClaims
    <2>3. {j} \in SUBSET Jobs /\ \A k \in {j} : IsClaimed(k) /\ claims[k].state = "running"
        BY <2>1
    <2>4. CASE VolumeFailed(s, i)
        <3>1. claims' = Unclaimed({j}) /\ UNCHANGED <<helpers, claim_seq, written>>
            BY <2>4 DEF VolumeFailed, Finish, diskVars
        <3> QED
            BY <2>3, <3>1, SeenReturning
    <2>5. CASE VolumeDone(s, i)
        <3>1. Owns(s, i)
            BY <2>1, <2>2 DEF Owns, IsClaimed
        <3> DEFINE h == [kind |-> "collect", job |-> j, id |-> i, sid |-> s]
        <3>2. claims' = [claims EXCEPT ![j].state = "settling"] /\ helpers' = helpers \cup {h}
              /\ UNCHANGED <<claim_seq, written>>
            BY <2>5, <3>1 DEF VolumeDone, diskVars
        <3>3. h.job = j /\ h.kind # "installed"
            OBVIOUS
        <3> HIDE DEF h
        <3> QED
            BY <2>0, <2>1, <3>2, <3>3, SeenSettling
    <2>6. CASE VolumeReturned(s, i)
        <3>1. UNCHANGED <<claim_seq, written>>
            BY <2>6 DEF VolumeReturned, diskVars
        <3>2. CASE claims' = Unclaimed({j}) /\ helpers' = helpers
            BY <2>3, <3>1, <3>2, SeenReturning
        <3> DEFINE h == [kind |-> "own_copy", job |-> j, id |-> i, sid |-> s]
        <3>3. CASE claims' = [claims EXCEPT ![j].state = "settling"] /\ helpers' = helpers \cup {h}
            <4>1. h.job = j /\ h.kind # "installed"
                OBVIOUS
            <4> HIDE DEF h
            <4> QED
                BY <2>0, <2>1, <3>1, <3>3, <4>1, SeenSettling
        <3> QED
            BY <2>6, <3>2, <3>3 DEF VolumeReturned, Release, Finish
    <2> QED
        BY <1>3, <2>4, <2>5, <2>6
<1> QED
    BY <1>1, <1>2, <1>3 DEF SettleStep

LEMMA HelpersAreSeen ==
    ASSUME IInv, NEW h \in helpers, HelperStep(h)
    PROVE  Ledger!Next
<1>1. CASE Install(h)
    BY <1>1, SeenInstalling
<1>2. CASE Collected(h) \/ OwnCopyRead(h)
    <2>1. helpers' = helpers \ {h} /\ claims' = Unclaimed({h.job}) /\ UNCHANGED <<claim_seq, written>>
        BY <1>2 DEF Collected, OwnCopyRead, Finish, Release, diskVars
    <2> QED
        BY <2>1, SeenEnding
<1> QED
    BY <1>1, <1>2 DEF HelperStep

LEMMA OperatorsAreSeen ==
    ASSUME IInv, OperatorStep
    PROVE  [Ledger!Next]_(Ledger!vars)
<1>1. ASSUME NEW v, NEW arrived \in BOOLEAN, NEW stale \in SUBSET Jobs, NEW found \in SUBSET Jobs,
             ArchiveChanged(v, arrived, stale, found)
      PROVE  Ledger!Next
    <2> DEFINE R == {j \in Jobs : VolumeOf[j] = v}
               S == StaleSessions(stale)
    <2>1. S \in SUBSET LiveSids /\ R \in SUBSET Jobs
        BY DEF StaleSessions
    <2>2. claims' = Unclaimed(JobsOf(S)) /\ UNCHANGED <<helpers, claim_seq>>
        BY <1>1 DEF ArchiveChanged, CancelSessions, EndSessions
    <2>3. written' = [j \in Jobs |-> IF j \in R THEN 0 ELSE written[j]]
        BY <1>1 DEF ArchiveChanged
    <2> HIDE DEF R, S
    <2>4. JobsOf(S) \in SUBSET Jobs /\ \A j \in JobsOf(S) : IsClaimed(j) /\ claims[j].state = "running"
        BY <2>1, SessionsRun DEF IInv
    <2> QED
        BY <2>1, <2>2, <2>3, <2>4, SeenGivingBack
<1>2. ASSUME NEW newRows, NEW changed, Apply(newRows, changed) PROVE Ledger!Next
    <2> DEFINE S == {s \in LiveSids : newRows[sessions[s].row] # "runnable" \/ sessions[s].row \in changed}
    <2>1. S \in SUBSET LiveSids /\ CancelSessions(S) /\ written' = written
        BY <1>2 DEF Apply, diskVars
    <2>2. \E B, C : EndSessions(S, B, C)
        BY <2>1 DEF CancelSessions
    <2> QED
        BY <2>1, <2>2, EndsAreSeen
<1>3. CASE Stop
    <2> DEFINE P == {p \in Pids : Registered(p)}
    <2>1. P \in SUBSET Pids /\ DropAll(P) /\ UNCHANGED <<helpers, claim_seq, written>>
        BY <1>3 DEF Stop, diskVars
    <2> QED
        BY <2>1, DropsAreSeen
<1>4. CASE \/ \E S \in SUBSET Jobs : Walked(S) \/ RetryFailed(S)
           \/ \E j \in Jobs : FailureExpires(j)
           \/ Tick
    <2>1. UNCHANGED <<claims, helpers, claim_seq, written>>
        BY <1>4 DEF Walked, RetryFailed, FailureExpires, Tick, sessionVars, claimVars, diskVars
    <2> QED
        BY <2>1, Unseen
<1> QED
    BY <1>1, <1>2, <1>3, <1>4 DEF OperatorStep

LEMMA PumpIsSeen ==
    ASSUME LInv, PumpStep
    PROVE  [Ledger!Next]_(Ledger!vars)
<1>0. IInv
    BY DEF LInv
<1>1. CASE (\E l \in Lanes : PumpDrain(l) \/ PumpIdle(l) \/ PumpSkip(l)) \/ PumpEnd
    <2>1. UNCHANGED <<claims, helpers, claim_seq, written>>
        BY <1>1 DEF PumpDrain, PumpIdle, PumpSkip, PumpEnd, sessionVars, claimVars, diskVars
    <2> QED
        BY <2>1, Unseen
<1>2. ASSUME NEW l \in Lanes, PumpLeave(l) PROVE [Ledger!Next]_(Ledger!vars)
    <2> DEFINE s == laneSession[l]
    <2>1. written' = written /\ s # 0
        BY <1>2 DEF PumpLeave
    <2>2. CASE UNCHANGED <<claims, helpers, claim_seq>>
        BY <2>1, <2>2, Unseen
    <2>3. CASE \E f, r : EndSession(s, f, r)
        <3>1. {s} \in SUBSET LiveSids
            BY <1>0, <2>1 DEF IInv, Core, CoreType, LaneSessionsAgree, LiveSids
        <3>2. \E B, C : EndSessions({s}, B, C)
            BY <2>3 DEF EndSession
        <3> QED
            BY <1>0, <2>1, <3>1, <3>2, EndsAreSeen
    <2> QED
        BY <1>2, <2>2, <2>3 DEF PumpLeave, claimVars
<1>3. ASSUME NEW l \in Lanes, NEW j \in Jobs, PumpTopUp(l, j) PROVE Ledger!Next
    <2>1. j \in Claimable(l) /\ UNCHANGED <<helpers, written>>
        BY <1>3 DEF PumpTopUp
    <2>2. CASE Submitted(l, j, laneSession[l])
        BY <2>1, <2>2, SeenGranting
    <2>3. CASE Bounced(l, j) /\ claim_seq' = Next_id
        BY <2>1, <2>3, SeenWasting DEF Bounced, Next_id
    <2> QED
        BY <1>3, <2>2, <2>3 DEF PumpTopUp
<1>4. ASSUME NEW l \in Lanes, NEW j \in Jobs, PumpOpen(l, j) PROVE [Ledger!Next]_(Ledger!vars)
    <2>1. j \in Claimable(l) /\ UNCHANGED <<helpers, written>>
        BY <1>4 DEF PumpOpen
    <2>2. CASE Submitted(l, j, Next_id)
        BY <2>1, <2>2, SeenGranting
    <2>3. CASE Bounced(l, j) /\ claim_seq' = Next_id
        BY <2>1, <2>3, SeenWasting DEF Bounced, Next_id
    <2>4. CASE UNCHANGED <<claims, claim_seq>>
        BY <2>1, <2>4, Unseen
    <2> QED
        BY <1>4, <2>2, <2>3, <2>4 DEF PumpOpen
<1> QED
    BY <1>1, <1>2, <1>3, <1>4 DEF PumpStep

LEMMA StepIsSeen ==
    ASSUME LInv, [Next]_vars
    PROVE  [Ledger!Next]_(Ledger!vars)
<1>0. IInv
    BY DEF LInv
<1>1. CASE UNCHANGED vars
    BY <1>1, Unseen DEF vars
<1> QED
    BY <1>0, <1>1, FleetIsSeen, SessionsAreSeen, HelpersAreSeen, OperatorsAreSeen, PumpIsSeen DEF Next

\* Only an install writes and only a change of the archive owes again.
LEMMA MissingStep ==
    ASSUME LInv, [Next]_vars
    PROVE  MissingIsUnwritten'
<1>0. missing \subseteq Jobs /\ written \in [Jobs -> Nat] /\ MissingIsUnwritten /\ helpers \subseteq Helper
    BY DEF LInv, IInv, RestType, Core, CoreType
<1>1. CASE UNCHANGED <<missing, written>>
    BY <1>0, <1>1 DEF MissingIsUnwritten
<1>2. ASSUME NEW h \in helpers, Install(h) PROVE MissingIsUnwritten'
    <2>1. h.job \in Jobs /\ missing' = missing \ {h.job} /\ written' = [written EXCEPT ![h.job] = @ + 1]
        BY <1>0, <1>2 DEF Install, Helper
    <2> QED
        BY <1>0, <2>1 DEF MissingIsUnwritten
<1>3. ASSUME NEW v, NEW arrived \in BOOLEAN, NEW stale \in SUBSET Jobs, NEW found \in SUBSET Jobs,
             ArchiveChanged(v, arrived, stale, found)
      PROVE  MissingIsUnwritten'
    <2> DEFINE R == {j \in Jobs : VolumeOf[j] = v}
    <2>1. found \subseteq R /\ missing' = (missing \ R) \cup found
          /\ written' = [j \in Jobs |-> IF j \in R THEN 0 ELSE written[j]]
        BY <1>3 DEF ArchiveChanged
    <2> HIDE DEF R
    <2> QED
        BY <1>0, <2>1 DEF MissingIsUnwritten
<1>4. CASE FleetStep
    <2>1. UNCHANGED <<missing, written>>
        BY <1>4 DEF FleetStep, Leave, Register, Disconnect, Connect, Cut, HoldQueue, PreemptForBench,
                    BreakerExpires, SetAvailability, Released, ReleaseQueue, SetUpdateDrain, diskVars
    <2> QED
        BY <1>1, <2>1
<1>5. ASSUME NEW s \in Ids, EventStep(s) \/ SettleStep(s) PROVE MissingIsUnwritten'
    <2>1. UNCHANGED <<missing, written>>
        BY <1>5 DEF EventStep, Ready, Fatal, Mark, Delivered, VolumeStarted, ResultStored,
                    SettleStep, Exit, Wedged, Overdue, VolumeReturned, VolumeDone, VolumeFailed, diskVars
    <2> QED
        BY <1>1, <2>1
<1>6. ASSUME NEW h \in helpers, Collected(h) \/ OwnCopyRead(h) PROVE MissingIsUnwritten'
    <2>1. UNCHANGED <<missing, written>>
        BY <1>6 DEF Collected, OwnCopyRead, diskVars
    <2> QED
        BY <1>1, <2>1
<1>7. ASSUME NEW newRows, NEW changed, Apply(newRows, changed) PROVE MissingIsUnwritten'
    BY <1>1, <1>7 DEF Apply, diskVars
<1>8. CASE \/ \E S \in SUBSET Jobs : Walked(S) \/ RetryFailed(S)
           \/ \E j \in Jobs : FailureExpires(j)
           \/ Tick \/ Stop
    <2>1. UNCHANGED <<missing, written>>
        BY <1>8 DEF Walked, RetryFailed, FailureExpires, Tick, Stop, diskVars
    <2> QED
        BY <1>1, <2>1
<1>9. CASE PumpStep
    <2>1. ASSUME NEW l \in Lanes, PumpDrain(l) \/ PumpLeave(l) \/ PumpIdle(l) \/ PumpSkip(l)
          PROVE  UNCHANGED <<missing, written>>
        BY <2>1 DEF PumpDrain, PumpLeave, PumpIdle, PumpSkip, diskVars
    <2>2. ASSUME NEW l \in Lanes, NEW j \in Jobs, PumpTopUp(l, j) PROVE UNCHANGED <<missing, written>>
        BY <2>2 DEF PumpTopUp, diskVars
    <2>3. ASSUME NEW l \in Lanes, NEW j \in Jobs, PumpOpen(l, j) PROVE UNCHANGED <<missing, written>>
        BY <2>3 DEF PumpOpen, diskVars
    <2>4. PumpEnd => UNCHANGED <<missing, written>>
        BY DEF PumpEnd, diskVars
    <2>5. UNCHANGED <<missing, written>>
        BY <1>9, <2>1, <2>2, <2>3, <2>4, Zenon DEF PumpStep
    <2> QED
        BY <1>1, <2>5
<1>10. CASE OperatorStep
    BY <1>3, <1>7, <1>8, <1>10 DEF OperatorStep
<1>11. ASSUME NEW h \in helpers, HelperStep(h) PROVE MissingIsUnwritten'
    BY <1>2, <1>6, <1>11 DEF HelperStep
<1>12. CASE UNCHANGED vars
    BY <1>1, <1>12 DEF vars
<1> QED
    BY <1>4, <1>5, <1>9, <1>10, <1>11, <1>12 DEF Next

\* The scheduler implements the ledger: claims are taken, given back, settled
\* and installed only as JobLedger allows.
THEOREM SchedulerKeepsTheLedger == Spec => KeepsTheLedger
<1>1. Init => MissingIsUnwritten
    BY DEF Init, MissingIsUnwritten
<1>2. IInv /\ LanesRegistered /\ MissingIsUnwritten /\ [Next]_vars => MissingIsUnwritten'
    BY MissingStep DEF LInv
<1>3. Init => Ledger!Init
    BY DEF Init, Ledger!Init, Leases, LeaseOf, Ledger!Free
<1>4. IInv /\ LanesRegistered /\ MissingIsUnwritten /\ [Next]_vars => [Ledger!Next]_(Ledger!vars)
    BY StepIsSeen DEF LInv
<1> QED
    BY <1>1, <1>2, <1>3, <1>4, Invariant, LanesAlwaysRegistered, PTL DEF Spec, KeepsTheLedger, Ledger!Spec

\* What the ledger needs to know to count sidecars.
WrittenType == written \in [Jobs -> Nat]

LedgerInv ==
    /\ WrittenType
    /\ Ledger!NothingYet
    /\ Ledger!AtMostOnce

LEMMA LedgerStep ==
    ASSUME LedgerInv, WrittenType', [Ledger!Next]_(Ledger!vars)
    PROVE  Ledger!NothingYet' /\ Ledger!AtMostOnce'
<1> USE DEF LedgerInv, WrittenType, Ledger!NothingYet, Ledger!AtMostOnce, Ledger!State
<1>0. Leases = [j \in Jobs |-> Leases[j]] /\ Leases' = [j \in Jobs |-> Leases'[j]]
    BY DEF Leases
<1>1. CASE UNCHANGED Ledger!vars
    BY <1>1 DEF Ledger!vars
<1>2. CASE Ledger!Waste
    BY <1>2 DEF Ledger!Waste
<1>3. ASSUME NEW J \in SUBSET Jobs, NEW R \in SUBSET Jobs, Ledger!GiveBack(J, R)
      PROVE  Ledger!NothingYet' /\ Ledger!AtMostOnce'
    BY <1>3 DEF Ledger!GiveBack, Ledger!Free
<1>4. ASSUME NEW j \in Jobs, Ledger!Grant(j)
      PROVE  Ledger!NothingYet' /\ Ledger!AtMostOnce'
    BY <1>0, <1>4 DEF Ledger!Grant
<1>5. ASSUME NEW j \in Jobs, Ledger!Settle(j)
      PROVE  Ledger!NothingYet' /\ Ledger!AtMostOnce'
    BY <1>0, <1>5 DEF Ledger!Settle
<1>6. ASSUME NEW j \in Jobs, Ledger!Install(j)
      PROVE  Ledger!NothingYet' /\ Ledger!AtMostOnce'
  <2>0. Leases[j].state = "settling" /\ written' = [written EXCEPT ![j] = @ + 1]
    BY <1>6 DEF Ledger!Install
  <2>1. written[j] = 0 /\ written'[j] = 1 /\ \A k \in Jobs : k # j => written'[k] = written[k]
    BY <2>0
  <2>2. Leases'[j] = [Leases[j] EXCEPT !.state = "installed"] /\ \A k \in Jobs : k # j => Leases'[k] = Leases[k]
    BY <1>0, <1>6 DEF Ledger!Install
  <2>3. Leases'[j].state = "installed"
    BY <2>2 DEF Leases, LeaseOf
  <2>4. \A k \in Jobs : Leases'[k].state \in {"running", "settling"} => written'[k] = 0
    BY <2>1, <2>2, <2>3
  <2>5. \A k \in Jobs : written'[k] <= 1
    BY <2>1
  <2> QED
    BY <2>4, <2>5
<1>7. ASSUME NEW j \in Jobs, Ledger!End(j)
      PROVE  Ledger!NothingYet' /\ Ledger!AtMostOnce'
    BY <1>0, <1>7 DEF Ledger!End, Ledger!Free
<1> QED
    BY <1>1, <1>2, <1>3, <1>4, <1>5, <1>6, <1>7 DEF Ledger!Next

\* One archive gets one sidecar: the scheduler inherits it from the ledger, for
\* every number of claims, losses, retries and late answers (collect, install).
THEOREM NeverWrittenTwice == Spec => []WrittenOnce
<1>1. Init => LedgerInv
    BY DEF Init, LedgerInv, WrittenType, Leases, LeaseOf, Ledger!NothingYet, Ledger!AtMostOnce, Ledger!State
<1>2. LedgerInv /\ WrittenType' /\ [Ledger!Next]_(Ledger!vars) => LedgerInv'
    BY LedgerStep DEF LedgerInv
<1>3. LedgerInv => WrittenOnce
    BY DEF LedgerInv, Ledger!AtMostOnce, WrittenOnce
<1>4. IInv => WrittenType
    BY DEF IInv, RestType, WrittenType
<1> QED
    BY <1>1, <1>2, <1>3, <1>4, Invariant, SchedulerKeepsTheLedger, PTL DEF Spec, KeepsTheLedger, Ledger!Spec
===============================================================================
