----------------------- MODULE DownloadBreakerProofs -----------------------
(***************************************************************************)
(* The invariants of DownloadBreaker, for any set of processors and jobs,  *)
(* any lookahead and any bound on time and on replacements.                *)
(***************************************************************************)
EXTENDS DownloadBreaker, TLAPS

USE DEF DOWNLOAD_BREAKER_RETURNS, DOWNLOAD_BREAKER_HOLD, DOWNLOAD_BREAKER_MAX_HOLD,
        DOWNLOAD_RETURN_LIMIT, AtLimit

-----------------------------------------------------------------------------
(* Lemmas about the operators of breaker.rs *)

\* note_return yields a breaker: the hold stays within the hour whatever it was.
LEMMA NoteReturnType ==
    ASSUME NEW b \in Breaker, NEW klass, NEW at \in Nat
    PROVE  NoteReturn(b, klass, at) \in Breaker
<1>1. Doubled(b.hold) \in 1..DOWNLOAD_BREAKER_MAX_HOLD
    BY DEF Doubled, Breaker
<1>2. /\ b.consecutive + 1 \in Nat
      /\ at + b.hold \in Nat
      /\ b.hold \in 1..DOWNLOAD_BREAKER_MAX_HOLD
      /\ b.open_until \in Nat
      /\ b.proven \in BOOLEAN
    BY DEF Breaker
<1>3. CASE klass = "changed"
    BY <1>3 DEF NoteReturn
<1>4. CASE klass # "changed"
  <2> DEFINE opens == b.consecutive + 1 >= DOWNLOAD_BREAKER_RETURNS /\ ~IsOpen(b, at)
             nb == [b EXCEPT !.consecutive = b.consecutive + 1,
                             !.open_until = IF opens THEN at + b.hold ELSE b.open_until,
                             !.hold = IF opens THEN Doubled(b.hold) ELSE b.hold]
  <2>1. NoteReturn(b, klass, at) = nb
    BY <1>4 DEF NoteReturn
  <2>2. (IF opens THEN at + b.hold ELSE b.open_until) \in Nat
    BY <1>2
  <2>3. (IF opens THEN Doubled(b.hold) ELSE b.hold) \in 1..DOWNLOAD_BREAKER_MAX_HOLD
    BY <1>1, <1>2
  <2> HIDE DEF opens
  <2>4. nb \in Breaker
    BY <1>2, <2>2, <2>3 DEF Breaker
  <2> QED
    BY <2>1, <2>4
<1> QED
    BY <1>3, <1>4

\* note_delivered yields a proven, closed breaker with a clean run.
LEMMA NoteDeliveredType ==
    ASSUME NEW b \in Breaker
    PROVE  /\ NoteDelivered(b) \in Breaker
           /\ NoteDelivered(b).proven = TRUE
           /\ NoteDelivered(b).consecutive = 0
           /\ NoteDelivered(b).open_until = 0
BY DEF NoteDelivered, NewBreaker, Breaker

\* note: a count below the limit grows by at most one.
LEMMA NoteJobReturnType ==
    ASSUME NEW r \in [count : 0..(DOWNLOAD_RETURN_LIMIT - 1), stamp : Nat],
           NEW stamp \in Nat, NEW counted \in BOOLEAN
    PROVE  NoteJobReturn(r, stamp, counted) \in [count : 0..DOWNLOAD_RETURN_LIMIT, stamp : Nat]
BY DEF NoteJobReturn, SameFile, NoStamp

\* Only a counted return can bring a count to the limit.
LEMMA NoteJobReturnBelowLimit ==
    ASSUME NEW r \in [count : 0..(DOWNLOAD_RETURN_LIMIT - 1), stamp : Nat],
           NEW stamp \in Nat, NEW counted \in BOOLEAN,
           ~(counted /\ NoteJobReturn(r, stamp, counted).count >= DOWNLOAD_RETURN_LIMIT)
    PROVE  NoteJobReturn(r, stamp, counted) \in
               [count : 0..(DOWNLOAD_RETURN_LIMIT - 1), stamp : Nat]
BY DEF NoteJobReturn, SameFile, NoStamp

LEMMA NewBreakerType == NewBreaker \in Breaker
BY DEF NewBreaker, Breaker

LEMMA NoReturnsType == NoReturns \in [count : 0..(DOWNLOAD_RETURN_LIMIT - 1), stamp : Nat]
BY DEF NoReturns, NoStamp

-----------------------------------------------------------------------------
(* The inductive invariant *)

\* What ties the history to the breaker: a pid is charged again only after a
\* delivery, because a charge leaves the run of returns open (or the pid left
\* and its new breaker is unproven).
ChargesFollowBreaker ==
    \A p \in Pids :
        /\ breakers[p].proven => p \in history.delivered
        /\ history.charged[p] > 0 => breakers[p].consecutive > 0 \/ ~breakers[p].proven

IInv ==
    /\ TypeOK
    /\ ChargesFollowBreaker
    /\ ChargedOncePerDelivery
    /\ CountedByProvenOnly
    /\ CountIsAboutOneFile
    /\ RunOfThreeHolds
    /\ HoldEndsWithinAnHour

\* The variables a return may change, typed (count_return).
LEMMA CountReturnType ==
    ASSUME TypeOK, NEW p \in Pids, NEW j \in Jobs, NEW klass, NEW stamp \in Nat,
           CountReturn(p, j, klass, stamp)
    PROVE  /\ breakers' \in [Pids -> Breaker]
           /\ returns' \in [Jobs -> [count : 0..(DOWNLOAD_RETURN_LIMIT - 1), stamp : Nat]]
           /\ returned_by' \in [Jobs -> SUBSET Pids]
           /\ failed' \subseteq Jobs
           /\ history' \in [delivered : SUBSET Pids, charged : [Pids -> Nat],
                            files : [Jobs -> SUBSET Nat], by : [Jobs -> SUBSET Pids]]
<1> DEFINE counted == Counted(breakers[p], klass)
           noted == NoteJobReturn(returns[j], stamp, counted)
           limit == counted /\ noted.count >= DOWNLOAD_RETURN_LIMIT
<1>1. counted \in BOOLEAN
    BY DEF Counted
<1>2. breakers' \in [Pids -> Breaker]
  <2>1. NoteReturn(breakers[p], klass, now) \in Breaker
    BY NoteReturnType DEF TypeOK
  <2> QED
    BY <2>1 DEF CountReturn, TypeOK
<1>3. returns' \in [Jobs -> [count : 0..(DOWNLOAD_RETURN_LIMIT - 1), stamp : Nat]]
  <2>1. returns[j] \in [count : 0..(DOWNLOAD_RETURN_LIMIT - 1), stamp : Nat]
    BY DEF TypeOK
  <2>2. (IF limit THEN NoReturns ELSE noted) \in [count : 0..(DOWNLOAD_RETURN_LIMIT - 1), stamp : Nat]
    BY <1>1, <2>1, NoReturnsType, NoteJobReturnBelowLimit
  <2>3. returns' = [returns EXCEPT ![j] = IF limit THEN NoReturns ELSE noted]
    BY DEF CountReturn
  <2> HIDE DEF limit, noted
  <2> QED
    BY <2>2, <2>3 DEF TypeOK
<1>4. returned_by' \in [Jobs -> SUBSET Pids]
    BY DEF CountReturn, TypeOK
<1>5. failed' \subseteq Jobs
    BY DEF CountReturn, TypeOK
<1>6. history' \in [delivered : SUBSET Pids, charged : [Pids -> Nat],
                    files : [Jobs -> SUBSET Nat], by : [Jobs -> SUBSET Pids]]
  <2> DEFINE same == SameFile(returns[j], stamp)
             files == IF limit THEN {} ELSE (IF same THEN history.files[j] ELSE {})
                                            \cup (IF counted THEN {stamp} ELSE {})
             by == IF limit THEN {} ELSE (IF same THEN history.by[j] ELSE {})
                                         \cup (IF counted THEN {p} ELSE {})
             charged == IF counted /\ klass # "changed" THEN history.charged[p] + 1
                                                        ELSE history.charged[p]
  <2>1. history' = [history EXCEPT !.charged[p] = charged, !.files[j] = files, !.by[j] = by]
    BY DEF CountReturn, Recorded
  <2>2. files \in SUBSET Nat /\ by \in SUBSET Pids /\ charged \in Nat
    BY DEF TypeOK
  <2> HIDE DEF files, by, charged
  <2> QED
    BY <2>1, <2>2 DEF TypeOK
<1> QED
    BY <1>2, <1>3, <1>4, <1>5, <1>6

\* A return keeps every invariant: it charges only a proven, clean run, and
\* then the run is no longer clean.
LEMMA CountReturnInv ==
    ASSUME IInv, NEW p \in Pids, NEW j \in Jobs, NEW klass, NEW stamp \in Nat,
           CountReturn(p, j, klass, stamp), now' = now
    PROVE  /\ ChargesFollowBreaker'
           /\ ChargedOncePerDelivery'
           /\ CountedByProvenOnly'
           /\ CountIsAboutOneFile'
           /\ RunOfThreeHolds'
           /\ HoldEndsWithinAnHour'
<1> DEFINE b == breakers[p]
           counted == Counted(b, klass)
           noted == NoteJobReturn(returns[j], stamp, counted)
           limit == counted /\ noted.count >= DOWNLOAD_RETURN_LIMIT
           same == SameFile(returns[j], stamp)
<1>0. b \in Breaker /\ now \in Nat
    BY DEF IInv, TypeOK
<1>1. breakers' = [breakers EXCEPT ![p] = NoteReturn(b, klass, now)]
    BY DEF CountReturn
<1>2. /\ history'.delivered = history.delivered
      /\ history'.charged = [history.charged EXCEPT
              ![p] = IF counted /\ klass # "changed" THEN @ + 1 ELSE @]
      /\ history'.files = [history.files EXCEPT
              ![j] = IF limit THEN {} ELSE (IF same THEN @ ELSE {}) \cup (IF counted THEN {stamp} ELSE {})]
      /\ history'.by = [history.by EXCEPT
              ![j] = IF limit THEN {} ELSE (IF same THEN @ ELSE {}) \cup (IF counted THEN {p} ELSE {})]
    BY DEF CountReturn, Recorded, IInv, TypeOK
<1>3. /\ NoteReturn(b, klass, now).proven = b.proven
      /\ klass # "changed" => NoteReturn(b, klass, now).consecutive = b.consecutive + 1
      /\ klass = "changed" => NoteReturn(b, klass, now) = b
    BY <1>0 DEF NoteReturn, Breaker
<1>4. counted => b.proven /\ b.consecutive = 0 /\ p \in history.delivered /\ history.charged[p] = 0
  <2>1. counted => b.proven /\ b.consecutive = 0
    BY DEF Counted
  <2>2. b.proven => p \in history.delivered
    BY DEF IInv, ChargesFollowBreaker
  <2>3. history.charged[p] > 0 => b.consecutive > 0 \/ ~b.proven
    BY DEF IInv, ChargesFollowBreaker
  <2>4. history.charged[p] \in Nat
    BY DEF IInv, TypeOK
  <2> HIDE DEF counted
  <2> QED
    BY <2>1, <2>2, <2>3, <2>4
<1> HIDE DEF counted, limit, same
<1>5. ChargesFollowBreaker'
  <2> SUFFICES ASSUME NEW q \in Pids
               PROVE  /\ breakers'[q].proven => q \in history'.delivered
                      /\ history'.charged[q] > 0 => breakers'[q].consecutive > 0 \/ ~breakers'[q].proven
    BY DEF ChargesFollowBreaker
  <2>1. CASE q # p
    BY <1>1, <1>2, <2>1 DEF IInv, TypeOK, ChargesFollowBreaker
  <2>2. CASE q = p
    <3>1. breakers'[p] = NoteReturn(b, klass, now)
      BY <1>1 DEF IInv, TypeOK
    <3>2. breakers'[p].proven = b.proven /\ (b.proven => p \in history.delivered)
      BY <3>1, <1>3 DEF IInv, ChargesFollowBreaker
    <3>3. CASE klass = "changed"
      <4>1. breakers'[p] = b /\ history'.charged[p] = history.charged[p]
        BY <3>1, <3>3, <1>2, <1>3 DEF IInv, TypeOK
      <4> QED
        BY <4>1, <3>2, <2>2, <1>2 DEF IInv, ChargesFollowBreaker
    <3>4. CASE klass # "changed"
      <4>1. breakers'[p].consecutive > 0
        BY <3>1, <3>4, <1>0, <1>3 DEF Breaker
      <4> QED
        BY <4>1, <3>2, <2>2, <1>2
    <3> QED
      BY <3>3, <3>4
  <2> QED
    BY <2>1, <2>2
<1>6. ChargedOncePerDelivery'
  <2> SUFFICES ASSUME NEW q \in Pids
               PROVE  /\ history'.charged[q] <= 1
                      /\ q \notin history'.delivered => history'.charged[q] = 0
    BY DEF ChargedOncePerDelivery
  <2>1. CASE counted /\ q = p
    BY <1>2, <1>4, <2>1 DEF IInv, TypeOK, ChargedOncePerDelivery
  <2>2. CASE ~(counted /\ q = p)
    BY <1>2, <2>2 DEF IInv, TypeOK, ChargedOncePerDelivery
  <2> QED
    BY <2>1, <2>2
<1>7. CountedByProvenOnly'
    BY <1>2, <1>4 DEF IInv, TypeOK, CountedByProvenOnly
<1>8. CountIsAboutOneFile'
  <2> SUFFICES ASSUME NEW k \in Jobs
               PROVE  history'.files[k] \subseteq {returns'[k].stamp, NoStamp}
    BY DEF CountIsAboutOneFile
  <2>1. returns' = [returns EXCEPT ![j] = IF limit THEN NoReturns ELSE noted]
    BY DEF CountReturn, limit, counted
  <2>2. history.files[k] \subseteq {returns[k].stamp, NoStamp}
    BY DEF IInv, CountIsAboutOneFile
  <2>3. returns[j] \in [count : 0..(DOWNLOAD_RETURN_LIMIT - 1), stamp : Nat]
    BY DEF IInv, TypeOK
  <2>4. /\ same => noted.stamp = returns[j].stamp
        /\ ~same => noted.stamp = stamp
        /\ same => stamp \in {returns[j].stamp, NoStamp}
    BY <2>3 DEF NoteJobReturn, same, SameFile
  <2> HIDE DEF noted
  <2>5. CASE k # j
    BY <1>2, <2>1, <2>2, <2>5 DEF IInv, TypeOK
  <2>6. CASE k = j
    <3>1. /\ returns'[j] = IF limit THEN NoReturns ELSE noted
          /\ history'.files[j] = IF limit THEN {} ELSE
                 (IF same THEN history.files[j] ELSE {}) \cup (IF counted THEN {stamp} ELSE {})
      BY <1>2, <2>1 DEF IInv, TypeOK
    <3> QED
      BY <3>1, <2>2, <2>4, <2>6
  <2> QED
    BY <2>5, <2>6
<1>9. RunOfThreeHolds' /\ HoldEndsWithinAnHour'
  <2> SUFFICES ASSUME NEW q \in Pids
               PROVE  /\ breakers'[q].consecutive >= DOWNLOAD_BREAKER_RETURNS <=> breakers'[q].open_until > 0
                      /\ breakers'[q].open_until <= now + DOWNLOAD_BREAKER_MAX_HOLD
    BY DEF RunOfThreeHolds, HoldEndsWithinAnHour
  <2>1. /\ breakers[q].consecutive >= DOWNLOAD_BREAKER_RETURNS <=> breakers[q].open_until > 0
        /\ breakers[q].open_until <= now + DOWNLOAD_BREAKER_MAX_HOLD
    BY DEF IInv, RunOfThreeHolds, HoldEndsWithinAnHour
  <2>2. CASE q # p
    BY <1>1, <2>1, <2>2 DEF IInv, TypeOK
  <2>3. CASE q = p
    <3>1. breakers'[p] = NoteReturn(b, klass, now)
      BY <1>1 DEF IInv, TypeOK
    <3>2. CASE klass = "changed"
      BY <3>1, <3>2, <1>3, <2>1, <2>3
    <3>3. CASE klass # "changed"
      <4> DEFINE opens == b.consecutive + 1 >= DOWNLOAD_BREAKER_RETURNS /\ ~IsOpen(b, now)
      <4>1. /\ breakers'[p].consecutive = b.consecutive + 1
            /\ breakers'[p].open_until = IF opens THEN now + b.hold ELSE b.open_until
        BY <3>1, <3>3, <1>0 DEF NoteReturn, Breaker
      <4>2. /\ b.consecutive \in Nat /\ b.hold \in 1..DOWNLOAD_BREAKER_MAX_HOLD /\ b.open_until \in Nat
            /\ now \in Nat
        BY <1>0 DEF Breaker
      <4> QED
        BY <4>1, <4>2, <2>1, <2>3 DEF IsOpen
    <3> QED
      BY <3>2, <3>3
  <2> QED
    BY <2>2, <2>3
<1> QED
    BY <1>5, <1>6, <1>7, <1>8, <1>9

-----------------------------------------------------------------------------
(* Preservation *)

\* Nothing has happened yet.
LEMMA InitIInv == Init => IInv
<1> SUFFICES ASSUME Init PROVE IInv
    OBVIOUS
<1>1. TypeOK
    BY NewBreakerType, NoReturnsType, BoundsAssumption DEF Init, TypeOK, NoHistory, Idle
<1>2. ChargesFollowBreaker /\ RunOfThreeHolds /\ HoldEndsWithinAnHour
    BY DEF Init, NewBreaker, NoHistory, ChargesFollowBreaker, RunOfThreeHolds, HoldEndsWithinAnHour
<1>3. ChargedOncePerDelivery /\ CountedByProvenOnly /\ CountIsAboutOneFile
    BY DEF Init, NoHistory, ChargedOncePerDelivery, CountedByProvenOnly, CountIsAboutOneFile
<1> QED
    BY <1>1, <1>2, <1>3 DEF IInv

\* A delivery clears the run, and with it the right to be charged again.
LEMMA DeliverIInv ==
    ASSUME IInv, NEW p \in Pids, NEW j \in Jobs, Deliver(p, j)
    PROVE  IInv'
<1>1. /\ breakers' = [breakers EXCEPT ![p] = NoteDelivered(breakers[p])]
      /\ returns' = [returns EXCEPT ![j] = NoReturns]
      /\ UNCHANGED <<now, machines, held, reading, stamps, returned_by, failed>>
    BY DEF Deliver
<1>2. /\ history'.delivered = history.delivered \cup {p}
      /\ history'.charged = [history.charged EXCEPT ![p] = 0]
      /\ history'.files = [history.files EXCEPT ![j] = {}]
      /\ history'.by = [history.by EXCEPT ![j] = {}]
      /\ history' \in [delivered : SUBSET Pids, charged : [Pids -> Nat],
                       files : [Jobs -> SUBSET Nat], by : [Jobs -> SUBSET Pids]]
    BY DEF Deliver, IInv, TypeOK
<1>3. breakers[p] \in Breaker
    BY DEF IInv, TypeOK
<1>4. TypeOK'
  <2>1. breakers' \in [Pids -> Breaker]
    BY <1>1, <1>3, NoteDeliveredType DEF IInv, TypeOK
  <2>2. returns' \in [Jobs -> [count : 0..(DOWNLOAD_RETURN_LIMIT - 1), stamp : Nat]]
    BY <1>1, NoReturnsType DEF IInv, TypeOK
  <2> QED
    BY <1>1, <1>2, <2>1, <2>2 DEF IInv, TypeOK
<1>5. \A q \in Pids : breakers'[q] = IF q = p THEN NoteDelivered(breakers[p]) ELSE breakers[q]
    BY <1>1 DEF IInv, TypeOK
<1>6. \A q \in Pids : history'.charged[q] = IF q = p THEN 0 ELSE history.charged[q]
    BY <1>2 DEF IInv, TypeOK
<1>7. ChargesFollowBreaker'
    BY <1>2, <1>3, <1>5, <1>6, NoteDeliveredType DEF IInv, ChargesFollowBreaker
<1>8. ChargedOncePerDelivery'
    BY <1>2, <1>6 DEF IInv, ChargedOncePerDelivery
<1>9. CountedByProvenOnly'
    BY <1>2 DEF IInv, TypeOK, CountedByProvenOnly
<1>10. CountIsAboutOneFile'
    BY <1>1, <1>2 DEF IInv, TypeOK, CountIsAboutOneFile
<1>11. RunOfThreeHolds' /\ HoldEndsWithinAnHour'
  <2>1. now' = now /\ now \in Nat
    BY <1>1 DEF IInv, TypeOK
  <2>2. breakers'[p].consecutive = 0 /\ breakers'[p].open_until = 0
    BY <1>3, <1>5, NoteDeliveredType
  <2>3. \A q \in Pids \ {p} : breakers'[q] = breakers[q]
    BY <1>5
  <2> QED
    BY <2>1, <2>2, <2>3 DEF IInv, RunOfThreeHolds, HoldEndsWithinAnHour
<1> QED
    BY <1>4, <1>7, <1>8, <1>9, <1>10, <1>11 DEF IInv

\* A return counted at once, or after the server read its own copy.
LEMMA CountedIInv ==
    ASSUME IInv, NEW p \in Pids, NEW j \in Jobs, NEW klass, NEW stamp \in Nat,
           CountReturn(p, j, klass, stamp),
           UNCHANGED <<now, machines, stamps>>,
           held' \in [Pids -> SUBSET Jobs],
           reading' \in [Jobs -> {Idle} \cup [pid : Pids, stamp : Nat]]
    PROVE  IInv'
<1>1. TypeOK
    BY DEF IInv
<1>2. TypeOK'
    BY <1>1, CountReturnType DEF TypeOK
<1> QED
    BY <1>2, CountReturnInv DEF IInv

\* A claim's outcome drops its count and leaves every breaker alone.
LEMMA ForgetIInv ==
    ASSUME IInv, NEW j \in Jobs, Forget(j),
           UNCHANGED <<now, machines, breakers, stamps, returned_by>>,
           failed' \subseteq Jobs,
           held' \in [Pids -> SUBSET Jobs],
           reading' \in [Jobs -> {Idle} \cup [pid : Pids, stamp : Nat]]
    PROVE  IInv'
<1>1. /\ returns' = [returns EXCEPT ![j] = NoReturns]
      /\ history'.delivered = history.delivered
      /\ history'.charged = history.charged
      /\ history'.files = [history.files EXCEPT ![j] = {}]
      /\ history'.by = [history.by EXCEPT ![j] = {}]
      /\ history' \in [delivered : SUBSET Pids, charged : [Pids -> Nat],
                       files : [Jobs -> SUBSET Nat], by : [Jobs -> SUBSET Pids]]
    BY DEF Forget, IInv, TypeOK
<1>2. TypeOK'
  <2>1. returns' \in [Jobs -> [count : 0..(DOWNLOAD_RETURN_LIMIT - 1), stamp : Nat]]
    BY <1>1, NoReturnsType DEF IInv, TypeOK
  <2> QED
    BY <1>1, <2>1 DEF IInv, TypeOK
<1>3. ChargesFollowBreaker' /\ ChargedOncePerDelivery'
    BY <1>1 DEF IInv, ChargesFollowBreaker, ChargedOncePerDelivery
<1>4. CountedByProvenOnly' /\ CountIsAboutOneFile'
    BY <1>1 DEF IInv, TypeOK, CountedByProvenOnly, CountIsAboutOneFile
<1>5. RunOfThreeHolds' /\ HoldEndsWithinAnHour'
    BY DEF IInv, RunOfThreeHolds, HoldEndsWithinAnHour
<1> QED
    BY <1>2, <1>3, <1>4, <1>5 DEF IInv

\* Steps that move claims, scans or files but touch neither counts nor breakers.
LEMMA QuietIInv ==
    ASSUME IInv, UNCHANGED <<now, breakers, returns, history>>, TypeOK'
    PROVE  IInv'
BY DEF IInv, ChargesFollowBreaker, ChargedOncePerDelivery, CountedByProvenOnly,
       CountIsAboutOneFile, RunOfThreeHolds, HoldEndsWithinAnHour

\* Every step keeps the invariant.
LEMMA NextIInv == IInv /\ [Next]_vars => IInv'
<1> SUFFICES ASSUME IInv, [Next]_vars PROVE IInv'
    OBVIOUS
<1>0. TypeOK
    BY DEF IInv
<1>1. CASE Tick
  <2>1. now' = now + 1 /\ now \in Nat /\ UNCHANGED <<breakers, returns, history>>
    BY <1>0, <1>1 DEF Tick, TypeOK
  <2>2. TypeOK'
    BY <1>0, <1>1 DEF Tick, TypeOK
  <2>3. HoldEndsWithinAnHour'
    BY <2>1, <1>0 DEF IInv, HoldEndsWithinAnHour, TypeOK, Breaker
  <2> QED
    BY <2>1, <2>2, <2>3 DEF IInv, ChargesFollowBreaker, ChargedOncePerDelivery,
        CountedByProvenOnly, CountIsAboutOneFile, RunOfThreeHolds
<1>2. CASE NewScan
  <2>1. TypeOK'
    BY <1>0, <1>2 DEF NewScan, TypeOK
  <2> QED
    BY <1>2, <2>1, QuietIInv DEF NewScan
<1>3. ASSUME NEW p \in Pids, Register(p) PROVE IInv'
  <2>1. TypeOK'
    BY <1>0, <1>3 DEF Register, TypeOK
  <2> QED
    BY <1>3, <2>1, QuietIInv DEF Register
<1>4. ASSUME NEW p \in Pids, Drop(p) PROVE IInv'
  <2>1. /\ breakers' = [breakers EXCEPT ![p] = NewBreaker]
        /\ UNCHANGED <<now, returns, history>>
    BY <1>4 DEF Drop
  <2>2. TypeOK'
    BY <1>0, <1>4, NewBreakerType DEF Drop, TypeOK
  <2>3. \A q \in Pids : breakers'[q] = IF q = p THEN NewBreaker ELSE breakers[q]
    BY <2>1, <1>0 DEF TypeOK
  <2>4. NewBreaker.proven = FALSE /\ NewBreaker.consecutive = 0 /\ NewBreaker.open_until = 0
    BY DEF NewBreaker
  <2>5. ChargesFollowBreaker'
    BY <2>1, <2>3, <2>4 DEF IInv, ChargesFollowBreaker
  <2>6. RunOfThreeHolds' /\ HoldEndsWithinAnHour'
    BY <1>0, <2>1, <2>3, <2>4 DEF IInv, TypeOK, RunOfThreeHolds, HoldEndsWithinAnHour
  <2> QED
    BY <2>1, <2>2, <2>5, <2>6 DEF IInv, ChargedOncePerDelivery, CountedByProvenOnly,
        CountIsAboutOneFile
<1>5. ASSUME NEW p \in Pids, NEW j \in Jobs, Take(p, j) PROVE IInv'
  <2>1. TypeOK'
    BY <1>0, <1>5 DEF Take, TypeOK
  <2> QED
    BY <1>5, <2>1, QuietIInv DEF Take
<1>6. ASSUME NEW p \in Pids, NEW j \in Jobs, Deliver(p, j) PROVE IInv'
    BY <1>6, DeliverIInv
<1>7. ASSUME NEW p \in Pids, NEW j \in Jobs, ReturnStalled(p, j) PROVE IInv'
  <2>1. TypeOK'
    BY <1>0, <1>7 DEF ReturnStalled, TypeOK, NoStamp
  <2> QED
    BY <1>7, <2>1, QuietIInv DEF ReturnStalled
<1>8. ASSUME NEW p \in Pids, NEW j \in Jobs, NEW ok \in BOOLEAN, Finish(p, j, ok) PROVE IInv'
  <2>1. /\ held' \in [Pids -> SUBSET Jobs]
        /\ reading' \in [Jobs -> {Idle} \cup [pid : Pids, stamp : Nat]]
        /\ failed' \subseteq Jobs
    BY <1>0, <1>8 DEF Finish, TypeOK
  <2> QED
    BY <1>8, <2>1, ForgetIInv DEF Finish
<1>9. ASSUME NEW p \in Pids, NEW j \in Jobs, Release(p, j) PROVE IInv'
  <2>1. TypeOK'
    BY <1>0, <1>9 DEF Release, TypeOK
  <2> QED
    BY <1>9, <2>1, QuietIInv DEF Release
<1>10. ASSUME NEW p \in Pids, NEW j \in Jobs, NEW klass \in Classes, Return(p, j, klass)
       PROVE  IInv'
  <2>1. PICK s \in {stamps[j], NoStamp} : CountReturn(p, j, klass, s)
    BY <1>10 DEF Return
  <2>2. s \in Nat
    BY <1>0 DEF TypeOK, NoStamp
  <2>3. /\ held' \in [Pids -> SUBSET Jobs]
        /\ reading' \in [Jobs -> {Idle} \cup [pid : Pids, stamp : Nat]]
        /\ UNCHANGED <<now, machines, stamps>>
    BY <1>0, <1>10 DEF Return, TypeOK
  <2> QED
    BY <2>1, <2>2, <2>3, CountedIInv
<1>11. ASSUME NEW j \in Jobs, OwnCopyRead(j) PROVE IInv'
  <2>1. reading[j] \in [pid : Pids, stamp : Nat]
    BY <1>0, <1>11 DEF OwnCopyRead, TypeOK
  <2>2. reading[j].pid \in Pids /\ reading[j].stamp \in Nat
    BY <2>1
  <2>3. /\ held' \in [Pids -> SUBSET Jobs]
        /\ reading' \in [Jobs -> {Idle} \cup [pid : Pids, stamp : Nat]]
        /\ UNCHANGED <<now, machines, stamps>>
        /\ CountReturn(reading[j].pid, j, "stalled", reading[j].stamp)
    BY <1>0, <1>11 DEF OwnCopyRead, TypeOK
  <2> QED
    BY <2>2, <2>3, CountedIInv
<1>12. ASSUME NEW j \in Jobs, OwnCopyBad(j) PROVE IInv'
  <2>1. /\ held' \in [Pids -> SUBSET Jobs]
        /\ reading' \in [Jobs -> {Idle} \cup [pid : Pids, stamp : Nat]]
        /\ UNCHANGED <<now, machines, breakers, stamps, returned_by>>
        /\ failed' \subseteq Jobs
        /\ Forget(j) \/ UNCHANGED <<returns, history>>
    BY <1>0, <1>12 DEF OwnCopyBad, TypeOK
  <2>2. CASE Forget(j)
    BY <2>1, <2>2, ForgetIInv
  <2>3. CASE UNCHANGED <<returns, history>>
    <3>1. TypeOK'
      BY <1>0, <2>1, <2>3 DEF TypeOK
    <3> QED
      BY <3>1, <2>1, <2>3, QuietIInv
  <2> QED
    BY <2>1, <2>2, <2>3
<1>13. ASSUME NEW j \in Jobs, Replace(j) PROVE IInv'
  <2>1. TypeOK'
    BY <1>0, <1>13 DEF Replace, TypeOK
  <2> QED
    BY <1>13, <2>1, QuietIInv DEF Replace
<1>14. CASE UNCHANGED vars
  <2>1. TypeOK'
    BY <1>0, <1>14 DEF vars, TypeOK
  <2> QED
    BY <1>14, <2>1, QuietIInv DEF vars
<1> QED
    BY <1>1, <1>2, <1>3, <1>4, <1>5, <1>6, <1>7, <1>8, <1>9, <1>10, <1>11, <1>12, <1>13, <1>14
       DEF Next

\* The whole inductive invariant holds in every reachable state.
THEOREM Invariant == Spec => []IInv
<1>1. Init => IInv
    BY InitIInv
<1>2. IInv /\ [Next]_vars => IInv'
    BY NextIInv
<1> QED
    BY <1>1, <1>2, PTL DEF Spec

\* Every breaker and every count stays well formed: a hold never outgrows its
\* maximum, and no count at the limit is left unrecorded (breaker.rs).
THEOREM TypeCorrect == Spec => []TypeOK
BY Invariant, PTL DEF IInv

\* A processor with a broken download path charges at most one volume between
\* two deliveries, however many volumes, processors, scans and replacements
\* there are (note_return).
THEOREM BrokenPathFailsNothing == Spec => []ChargedOncePerDelivery
BY Invariant, PTL DEF IInv

\* Nothing is ever counted on the word of a processor that has not downloaded
\* anything yet (count_return).
THEOREM UnprovenCountsNothing == Spec => []CountedByProvenOnly
BY Invariant, PTL DEF IInv

\* Both: no volume pays for a broken path, in a fleet of any size (note_return,
\* return_counts_for_job).
THEOREM BrokenPathChargesNobody == Spec => []BrokenPathIsNotCharged
BY BrokenPathFailsNothing, UnprovenCountsNothing, PTL DEF BrokenPathIsNotCharged

\* A count of returned downloads is about one file (JobReturns::note).
THEOREM CountsOneFile == Spec => []CountIsAboutOneFile
BY Invariant, PTL DEF IInv

\* Three returns in a row hold the processor, and nothing else does (note_return).
THEOREM ThreeInARowHold == Spec => []RunOfThreeHolds
BY Invariant, PTL DEF IInv

\* No hold lasts beyond an hour, however often the breaker opens (note_return).
THEOREM HoldsAreBounded == Spec => []HoldEndsWithinAnHour
BY Invariant, PTL DEF IInv

\* Both: held after the third return in a row, and for an hour at most (breaker.rs).
THEOREM HoldsAreEarnedAndEnd == Spec => []HoldsComeAndGo
BY ThreeInARowHold, HoldsAreBounded, PTL DEF HoldsComeAndGo
===============================================================================
