------------------------- MODULE ListingCacheProofs -------------------------
(***************************************************************************)
(* What a cached listing may show, and what the cache counts, for any      *)
(* library, any number of requests, writers and refreshes, and any budget. *)
(*                                                                         *)
(* The argument is the epoch's.  Versions only grow, and an answered write *)
(* moved the epoch after it was on the disk; so a walk that began under    *)
(* the epoch there still is saw every answered write, and one that began   *)
(* under an older epoch is refused.                                        *)
(*                                                                         *)
(* The books are the order of use and a sum of sizes.  What an insertion,  *)
(* an eviction or an invalidation does to the sum follows from least       *)
(* counterexamples, the subsets of a finite set being well-founded; of the *)
(* order, that any part of an order with one key put last is an order.     *)
(***************************************************************************)
EXTENDS ListingCache, FiniteSetTheorems, WellFoundedInduction, TLAPS

-----------------------------------------------------------------------------
(* Sums over finite sets (SumFunctionOnSet of Functions).                  *)

\* The element a set is taken apart at, and what remains.
First(s) == CHOOSE x \in s : TRUE
Rest(s) == s \ {First(s)}

\* What g has to be to add up f over every subset of S.
Adds(f, S, g) == g = [s \in SUBSET S |-> IF s = {} THEN 0 ELSE f[First(s)] + g[Rest(s)]]

LEMMA FirstAndRest == ASSUME NEW s, s # {} PROVE First(s) \in s /\ Rest(s) \subseteq s /\ Rest(s) # s
  BY DEF First, Rest

\* A set of subsets of a finite set has a minimal one.
LEMMA Minimal ==
    ASSUME NEW S, IsFiniteSet(S), NEW B \in SUBSET SUBSET S, B # {}
    PROVE  \E s \in B : \A t \in SUBSET s : t # s => t \notin B
  <1>1. FiniteSubsetsOf(S) = SUBSET S BY FS_FiniteSubsetsOfFinite
  <1>2. IsWellFoundedOn(StrictSubsetOrdering(S), SUBSET S)
    BY <1>1, FS_StrictSubsetOrderingWellFounded
  <1>3. PICK s \in B : \A t \in B : ~(<<t, s>> \in StrictSubsetOrdering(S)) BY <1>2, WFMin, Zenon
  <1>4. ASSUME NEW t \in SUBSET s, t # s, t \in B PROVE FALSE
    BY <1>3, <1>4 DEF StrictSubsetOrdering
  <1> QED BY <1>4

\* Functions that add up f agree wherever both are defined.
LEMMA AddsAgree ==
    ASSUME NEW f, NEW S, IsFiniteSet(S), NEW T \in SUBSET S, NEW g, Adds(f, S, g), NEW h, Adds(f, T, h)
    PROVE  \A s \in SUBSET T : g[s] = h[s]
  <1>1. PICK B : B = {s \in SUBSET T : g[s] # h[s]} OBVIOUS
  <1> SUFFICES ASSUME B # {} PROVE FALSE BY <1>1
  <1>2. PICK s \in B : \A t \in SUBSET s : t # s => t \notin B
    <2>1. IsFiniteSet(T) /\ B \in SUBSET SUBSET T BY <1>1, FS_Subset
    <2> QED BY <2>1, Minimal
  <1>3. g[s] = IF s = {} THEN 0 ELSE f[First(s)] + g[Rest(s)] BY <1>1 DEF Adds
  <1>4. h[s] = IF s = {} THEN 0 ELSE f[First(s)] + h[Rest(s)] BY <1>1 DEF Adds
  <1>5. s # {} BY <1>1, <1>3, <1>4
  <1>6. g[Rest(s)] = h[Rest(s)] BY <1>1, <1>2, <1>5, FirstAndRest
  <1> QED BY <1>1, <1>3, <1>4, <1>6

LEMMA SumIs == ASSUME NEW f, NEW S PROVE SumFunctionOnSet(f, S) = (CHOOSE g : Adds(f, S, g))[S]
  BY DEF SumFunctionOnSet, FoldFunctionOnSet, MapThenFoldSet, Adds, First, Rest

\* The sum of a set is any such function's value there.
LEMMA SumOfAdds ==
    ASSUME NEW f, NEW S, IsFiniteSet(S), NEW T \in SUBSET S, NEW g, Adds(f, S, g), NEW h, Adds(f, T, h)
    PROVE  SumFunctionOnSet(f, T) = g[T]
  <1>1. PICK k : k = CHOOSE i : Adds(f, T, i) OBVIOUS
  <1>2. Adds(f, T, k) BY <1>1
  <1>3. g[T] = k[T] BY <1>2, AddsAgree
  <1> QED BY <1>1, <1>3, SumIs

\* There is one for every finite set.
LEMMA AddsExists ==
    ASSUME NEW f, NEW S, IsFiniteSet(S)
    PROVE  \E g : Adds(f, S, g)
  <1> SUFFICES ASSUME ~\E g : Adds(f, S, g) PROVE FALSE OBVIOUS
  <1>1. PICK B : B = {s \in SUBSET S : ~\E g : Adds(f, s, g)} OBVIOUS
  <1>a. PICK s \in B : \A t \in SUBSET s : t # s => t \notin B
    <2>1. S \in B /\ B \in SUBSET SUBSET S BY <1>1
    <2> QED BY <2>1, Minimal
  <1>b. s \in SUBSET S /\ ~\E g : Adds(f, s, g) BY <1>1
  <1>2. \A t \in SUBSET s : t # s => \E g : Adds(f, t, g) BY <1>1, <1>a, <1>b
  <1>3. IsFiniteSet(s) BY <1>b, FS_Subset
  <1>4. ASSUME NEW t \in SUBSET s, t # s
        PROVE  SumFunctionOnSet(f, t) = IF t = {} THEN 0 ELSE f[First(t)] + SumFunctionOnSet(f, Rest(t))
    <2>1. PICK g : Adds(f, t, g) BY <1>2, <1>4
    <2>2. IsFiniteSet(t) BY <1>3, FS_Subset
    <2>3. SumFunctionOnSet(f, t) = g[t] BY <2>1, <2>2, SumOfAdds
    <2>4. g[t] = IF t = {} THEN 0 ELSE f[First(t)] + g[Rest(t)] BY <2>1 DEF Adds
    <2>5. t # {} => SumFunctionOnSet(f, Rest(t)) = g[Rest(t)]
      <3> SUFFICES ASSUME t # {} PROVE SumFunctionOnSet(f, Rest(t)) = g[Rest(t)] OBVIOUS
      <3>1. Rest(t) \in SUBSET t /\ Rest(t) # s BY FirstAndRest
      <3>2. PICK h : Adds(f, Rest(t), h) BY <1>2, <3>1
      <3> QED BY <2>1, <2>2, <3>1, <3>2, SumOfAdds
    <2> QED BY <2>3, <2>4, <2>5
  <1> DEFINE h == [t \in SUBSET s |-> IF t = {} THEN 0 ELSE f[First(t)] + SumFunctionOnSet(f, Rest(t))]
  <1>5. ASSUME NEW t \in SUBSET s, t # {} PROVE h[Rest(t)] = SumFunctionOnSet(f, Rest(t))
    <2>1. Rest(t) \in SUBSET s /\ Rest(t) # s BY <1>5, FirstAndRest
    <2> QED BY <1>4, <2>1
  <1>6. Adds(f, s, h) BY <1>5 DEF Adds
  <1> QED BY <1>b, <1>6

-----------------------------------------------------------------------------
\* A sum is taken apart at its first element.
LEMMA SumUnfolds ==
    ASSUME NEW f, NEW S, IsFiniteSet(S)
    PROVE  SumFunctionOnSet(f, S) = IF S = {} THEN 0 ELSE f[First(S)] + SumFunctionOnSet(f, Rest(S))
  <1>1. PICK g : Adds(f, S, g) BY AddsExists
  <1>2. SumFunctionOnSet(f, S) = g[S] BY <1>1, SumOfAdds
  <1>3. g[S] = IF S = {} THEN 0 ELSE f[First(S)] + g[Rest(S)] BY <1>1 DEF Adds
  <1>4. S # {} => SumFunctionOnSet(f, Rest(S)) = g[Rest(S)]
    <2> SUFFICES ASSUME S # {} PROVE SumFunctionOnSet(f, Rest(S)) = g[Rest(S)] OBVIOUS
    <2>1. Rest(S) \in SUBSET S /\ IsFiniteSet(Rest(S)) BY FirstAndRest, FS_Subset
    <2>2. PICK h : Adds(f, Rest(S), h) BY <2>1, AddsExists
    <2> QED BY <1>1, <2>1, <2>2, SumOfAdds
  <1> QED BY <1>2, <1>3, <1>4

\* A sum of natural numbers is one.
LEMMA SumType ==
    ASSUME NEW f, NEW S, IsFiniteSet(S), \A x \in S : f[x] \in Nat
    PROVE  SumFunctionOnSet(f, S) \in Nat
  <1>1. PICK B : B = {s \in SUBSET S : SumFunctionOnSet(f, s) \notin Nat} OBVIOUS
  <1> SUFFICES ASSUME B # {} PROVE FALSE BY <1>1
  <1>2. PICK s \in B : \A t \in SUBSET s : t # s => t \notin B
    <2>1. B \in SUBSET SUBSET S BY <1>1
    <2> QED BY <2>1, Minimal
  <1>3. s \in SUBSET S /\ SumFunctionOnSet(f, s) \notin Nat /\ IsFiniteSet(s) BY <1>1, FS_Subset
  <1>4. SumFunctionOnSet(f, s) = IF s = {} THEN 0 ELSE f[First(s)] + SumFunctionOnSet(f, Rest(s))
    BY <1>3, SumUnfolds
  <1>5. s # {} BY <1>3, <1>4
  <1>6. First(s) \in S /\ Rest(s) \in SUBSET s /\ Rest(s) # s BY <1>3, <1>5, FirstAndRest
  <1>7. SumFunctionOnSet(f, Rest(s)) \in Nat BY <1>1, <1>2, <1>3, <1>6
  <1>8. f[First(s)] \in Nat BY <1>6
  <1> QED BY <1>3, <1>4, <1>5, <1>7, <1>8

\* A sum depends on the values at the set's elements alone.
LEMMA SumsAgree ==
    ASSUME NEW f, NEW g, NEW S, IsFiniteSet(S), \A x \in S : f[x] = g[x]
    PROVE  SumFunctionOnSet(f, S) = SumFunctionOnSet(g, S)
  <1>1. PICK B : B = {s \in SUBSET S : SumFunctionOnSet(f, s) # SumFunctionOnSet(g, s)} OBVIOUS
  <1> SUFFICES ASSUME B # {} PROVE FALSE BY <1>1
  <1>2. PICK s \in B : \A t \in SUBSET s : t # s => t \notin B
    <2>1. B \in SUBSET SUBSET S BY <1>1
    <2> QED BY <2>1, Minimal
  <1>3. s \in SUBSET S /\ SumFunctionOnSet(f, s) # SumFunctionOnSet(g, s) /\ IsFiniteSet(s)
    BY <1>1, FS_Subset
  <1>4. /\ SumFunctionOnSet(f, s) = IF s = {} THEN 0 ELSE f[First(s)] + SumFunctionOnSet(f, Rest(s))
        /\ SumFunctionOnSet(g, s) = IF s = {} THEN 0 ELSE g[First(s)] + SumFunctionOnSet(g, Rest(s))
    BY <1>3, SumUnfolds
  <1>5. s # {} BY <1>3, <1>4
  <1>6. First(s) \in S /\ Rest(s) \in SUBSET s /\ Rest(s) # s BY <1>3, <1>5, FirstAndRest
  <1>7. SumFunctionOnSet(f, Rest(s)) = SumFunctionOnSet(g, Rest(s)) BY <1>1, <1>2, <1>3, <1>6
  <1> QED BY <1>3, <1>4, <1>6, <1>7

\* Whatever element a set is taken apart at, the sum is the same.
LEMMA SumWithout ==
    ASSUME NEW f, NEW S, IsFiniteSet(S), \A x \in S : f[x] \in Nat, NEW e \in S
    PROVE  SumFunctionOnSet(f, S) = SumFunctionOnSet(f, S \ {e}) + f[e]
  <1> DEFINE Sum(s) == SumFunctionOnSet(f, s)
  <1>1. PICK B : B = {s \in SUBSET S : \E x \in s : Sum(s) # Sum(s \ {x}) + f[x]} OBVIOUS
  <1> SUFFICES ASSUME B # {} PROVE FALSE BY <1>1
  <1>2. PICK s \in B : \A t \in SUBSET s : t # s => t \notin B
    <2>1. B \in SUBSET SUBSET S BY <1>1
    <2> QED BY <2>1, Minimal
  <1>3. PICK x \in s : Sum(s) # Sum(s \ {x}) + f[x] BY <1>1
  <1>4. s \in SUBSET S /\ \A t \in SUBSET s : IsFiniteSet(t) BY <1>1, FS_Subset
  <1>5. PICK c : c = First(s) OBVIOUS
  <1>6. c \in s /\ Rest(s) = s \ {c} BY <1>3, <1>5, FirstAndRest DEF Rest
  <1>7. Sum(s) = f[c] + Sum(s \ {c}) BY <1>3, <1>4, <1>5, <1>6, SumUnfolds
  <1>8. \A t \in SUBSET s : Sum(t) \in Nat BY <1>4, SumType
  <1>9. f[c] \in Nat /\ f[x] \in Nat BY <1>4, <1>6
  <1>10. c # x BY <1>3, <1>7, <1>8, <1>9
  <1>11. \A y \in s : \A z \in s \ {y} : Sum(s \ {y}) = Sum((s \ {y}) \ {z}) + f[z]
    <2> SUFFICES ASSUME NEW y \in s, NEW z \in s \ {y}
                 PROVE Sum(s \ {y}) = Sum((s \ {y}) \ {z}) + f[z]
      OBVIOUS
    <2>1. s \ {y} \in SUBSET S /\ s \ {y} \in SUBSET s /\ s \ {y} # s BY <1>4
    <2>2. s \ {y} \notin B BY <1>2, <2>1
    <2> QED BY <1>1, <2>1, <2>2
  <1>12. Sum(s \ {c}) = Sum((s \ {c}) \ {x}) + f[x] BY <1>6, <1>10, <1>11
  <1>13. Sum(s \ {x}) = Sum((s \ {x}) \ {c}) + f[c] BY <1>6, <1>10, <1>11
  <1>14. (s \ {c}) \ {x} = (s \ {x}) \ {c} OBVIOUS
  <1>15. Sum((s \ {x}) \ {c}) \in Nat BY <1>8
  <1> HIDE DEF Sum
  <1> QED BY <1>3, <1>7, <1>9, <1>12, <1>13, <1>14, <1>15

\* The sum of a set is that of a part of it and that of the rest.
LEMMA SumSplit ==
    ASSUME NEW f, NEW S, IsFiniteSet(S), \A x \in S : f[x] \in Nat, NEW T \in SUBSET S
    PROVE  SumFunctionOnSet(f, S) = SumFunctionOnSet(f, T) + SumFunctionOnSet(f, S \ T)
  <1> DEFINE Sum(s) == SumFunctionOnSet(f, s)
  <1>1. PICK B : B = {s \in SUBSET S : Sum(S) # Sum(s) + Sum(S \ s)} OBVIOUS
  <1> SUFFICES ASSUME B # {} PROVE FALSE BY <1>1
  <1>2. PICK s \in B : \A t \in SUBSET s : t # s => t \notin B
    <2>1. B \in SUBSET SUBSET S BY <1>1
    <2> QED BY <2>1, Minimal
  <1>3. s \in SUBSET S /\ Sum(S) # Sum(s) + Sum(S \ s) BY <1>1
  <1>4. \A t \in SUBSET S : IsFiniteSet(t) /\ Sum(t) \in Nat
    <2> SUFFICES ASSUME NEW t \in SUBSET S PROVE IsFiniteSet(t) /\ Sum(t) \in Nat OBVIOUS
    <2>1. IsFiniteSet(t) BY FS_Subset
    <2> QED BY <2>1, SumType
  <1>5. s # {}
    <2>1. Sum({}) = 0 BY FS_EmptySet, SumUnfolds
    <2>2. Sum(S) \in Nat /\ S \ {} = S BY <1>4
    <2> HIDE DEF Sum
    <2> QED BY <1>3, <2>1, <2>2
  <1>6. PICK x \in s : TRUE BY <1>5
  <1>7. Sum(S) = Sum(s \ {x}) + Sum(S \ (s \ {x}))
    <2>1. s \ {x} \in SUBSET s /\ s \ {x} # s /\ s \ {x} \in SUBSET S BY <1>3
    <2>2. s \ {x} \notin B BY <1>2, <2>1
    <2> QED BY <1>1, <2>1, <2>2
  <1>8. Sum(s) = Sum(s \ {x}) + f[x] BY <1>3, <1>4, SumWithout
  <1>9. Sum(S \ (s \ {x})) = Sum(S \ s) + f[x]
    <2>1. PICK t : t = S \ (s \ {x}) OBVIOUS
    <2>2. t \in SUBSET S /\ x \in t /\ t \ {x} = S \ s BY <1>3, <2>1
    <2>3. IsFiniteSet(t) /\ \A y \in t : f[y] \in Nat BY <1>4, <2>2
    <2>4. Sum(t) = Sum(t \ {x}) + f[x] BY <2>2, <2>3, SumWithout
    <2> QED BY <2>1, <2>2, <2>4
  <1>10. f[x] \in Nat /\ Sum(s \ {x}) \in Nat /\ Sum(S \ s) \in Nat
    <2>1. s \ {x} \in SUBSET S /\ S \ s \in SUBSET S /\ x \in S BY <1>3
    <2> QED BY <1>4, <2>1
  <1> HIDE DEF Sum
  <1> QED BY <1>3, <1>7, <1>8, <1>9, <1>10

-----------------------------------------------------------------------------
(* The epoch.                                                              *)

ReqType ==
    [at : {"idle", "join", "wait", "slot", "gen", "read", "leave", "answered"},
     key : Keys \cup {NoKey}, since : Nat, mutex : Flights \cup {NoFlight},
     epoch : Nat, ver : Nat, size : Sizes \cup {0}]

TaskType ==
    [at : {"idle", "slot", "gen", "read", "clear"}, key : Keys \cup {NoKey},
     epoch : Nat, ver : Nat, size : Sizes \cup {0}]

\* A write that was answered is on the disk.
Versions ==
    /\ disk \in [Keys -> Nat] /\ acked \in [Keys -> Nat] /\ epoch \in Nat
    /\ \A k \in Keys : acked[k] <= disk[k]

EntryType == [ver : Nat, age : {"fresh", "stale", "expired"}, size : Sizes]
EntryShapes == entries \in [Keys -> EntryType \cup {NoEntry}]

\* A walk, of a request or of a refresh, is not ahead of the epoch, and one under
\* the epoch there is saw every answered write.
WalkOK(w) ==
    /\ w.at # "idle" => w.key \in Keys
    /\ w.at = "gen" => w.epoch <= epoch
    /\ w.at = "read" => /\ w.size \in Sizes /\ w.epoch <= epoch
                        /\ w.epoch = epoch => w.ver >= acked[w.key]

\* What was answered when a request was sent has been answered, and what the
\* request found shows it.
SinceOK(q) ==
    /\ q.at # "idle" => q.since <= acked[q.key]
    /\ q.at \in {"read", "leave", "answered"} => q.ver >= q.since

RequestsOK == req \in [Requests -> ReqType] /\ \A r \in Requests : WalkOK(req[r]) /\ SinceOK(req[r])
TasksOK == task \in [Refreshers -> TaskType] /\ \A t \in Refreshers : WalkOK(task[t])

IInv == Versions /\ EntryShapes /\ NoListingFromBeforeAWrite /\ RequestsOK /\ TasksOK

-----------------------------------------------------------------------------
\* insert stores nothing older than the last answered write, given that a walk
\* under the epoch there is saw it.
LEMMA InsertIsNew ==
    ASSUME NEW k \in Keys, NEW ver \in Nat, NEW size \in Sizes, NEW e, EntryShapes,
           NoListingFromBeforeAWrite, acked \in [Keys -> Nat], acked' = acked,
           e = epoch => ver >= acked[k], Insert(k, ver, size, e)
    PROVE  EntryShapes' /\ NoListingFromBeforeAWrite'
<1>1. CASE Refused(size, e)
  BY <1>1 DEF Insert, EntryShapes, NoListingFromBeforeAWrite, Cached
<1>2. CASE ~Refused(size, e)
  <2> DEFINE new == [ver |-> ver, age |-> "fresh", size |-> size]
  <2>1. PICK kept \in Kept(k, size) :
          entries' = [o \in Keys |-> IF o = k THEN new
                                    ELSE IF o \in kept THEN entries[o] ELSE NoEntry]
    BY <1>2, Zenon DEF Insert
  <2>2. ver >= acked[k]
    BY <1>2 DEF Refused
  <2>3. new.ver = ver /\ new \in EntryType /\ NoEntry.ver = -1
    BY DEF NoEntry, EntryType
  <2> HIDE DEF new
  <2>4. EntryShapes'
    BY <2>1, <2>3 DEF EntryShapes
  <2>5. ASSUME NEW o \in Keys, entries'[o] # NoEntry PROVE entries'[o].ver >= acked'[o]
    BY <2>1, <2>2, <2>3, <2>5 DEF NoListingFromBeforeAWrite, Cached
  <2> QED BY <2>4, <2>5 DEF NoListingFromBeforeAWrite, Cached
<1> QED BY <1>1, <1>2

\* A cached listing is a listing.
LEMMA CachedShape ==
    ASSUME EntryShapes, NEW k \in Keys, Cached(k)
    PROVE  entries[k] \in EntryType /\ entries[k].ver \in Nat /\ entries[k].size \in Sizes
  BY DEF EntryShapes, EntryType, Cached

\* The records that start a request and a refresh.
LEMMA IdleIsOK ==
    /\ IdleReq \in ReqType /\ WalkOK(IdleReq) /\ SinceOK(IdleReq) /\ IdleReq.at = "idle"
    /\ IdleTask \in TaskType /\ WalkOK(IdleTask) /\ IdleTask.at = "idle"
  BY DEF IdleReq, IdleTask, ReqType, TaskType, WalkOK, SinceOK

\* The first state.
LEMMA InitIInv == Init => IInv
<1> SUFFICES ASSUME Init PROVE IInv
  OBVIOUS
<1>1. NoEntry.ver = -1
  BY DEF NoEntry
<1>2. Versions /\ EntryShapes
  BY <1>1 DEF Init, Versions, EntryShapes
<1>3. NoListingFromBeforeAWrite
  BY DEF Init, NoListingFromBeforeAWrite, Cached
<1>4. RequestsOK /\ TasksOK
  BY IdleIsOK DEF Init, RequestsOK, TasksOK
<1> QED BY <1>2, <1>3, <1>4 DEF IInv

-----------------------------------------------------------------------------
\* A step of one request that leaves the versions and the epoch alone.
LEMMA OneRequest ==
    ASSUME IInv, NEW r \in Requests, NEW q \in ReqType, WalkOK(q), SinceOK(q),
           req' = [req EXCEPT ![r] = q], disk' = disk, acked' = acked, epoch' = epoch,
           EntryShapes' /\ NoListingFromBeforeAWrite', TasksOK'
    PROVE  IInv'
<1>1. Versions'
  BY DEF IInv, Versions
<1>2. req' \in [Requests -> ReqType]
  BY DEF IInv, RequestsOK
<1>3. ASSUME NEW o \in Requests PROVE WalkOK(req[o])' /\ SinceOK(req[o])'
  <2>1. req'[o] = IF o = r THEN q ELSE req[o]
    BY DEF IInv, RequestsOK
  <2>2. WalkOK(req'[o]) /\ SinceOK(req'[o])
    BY <2>1 DEF IInv, RequestsOK
  <2> QED BY <2>2 DEF WalkOK, SinceOK
<1> QED BY <1>1, <1>2, <1>3 DEF IInv, RequestsOK

\* A step of one refresh that leaves the versions and the epoch alone.
LEMMA OneTask ==
    ASSUME IInv, NEW t \in Refreshers, NEW q \in TaskType, WalkOK(q),
           task' = [task EXCEPT ![t] = q], disk' = disk, acked' = acked, epoch' = epoch,
           EntryShapes' /\ NoListingFromBeforeAWrite', req' = req
    PROVE  IInv'
<1>1. Versions'
  BY DEF IInv, Versions
<1>2. task' \in [Refreshers -> TaskType]
  BY DEF IInv, TasksOK
<1>3. ASSUME NEW o \in Refreshers PROVE WalkOK(task[o])'
  <2>1. task'[o] = IF o = t THEN q ELSE task[o]
    BY DEF IInv, TasksOK
  <2>2. WalkOK(task'[o])
    BY <2>1 DEF IInv, TasksOK
  <2> QED BY <2>2 DEF WalkOK
<1>4. RequestsOK'
  BY DEF IInv, RequestsOK, WalkOK, SinceOK
<1> QED BY <1>1, <1>2, <1>3, <1>4 DEF IInv, TasksOK

\* New refreshes have not walked anything.
LEMMA SpawnIsOK ==
    ASSUME TasksOK, NEW ks \in SUBSET Keys, Spawn(ks), acked' = acked, epoch' = epoch
    PROVE  TasksOK'
<1>1. PICK f \in [ks -> {t \in Refreshers : t \in scene.refreshers /\ task[t].at = "idle"}] :
        task' = [t \in Refreshers |->
                   IF \E k \in ks : f[k] = t
                   THEN [IdleTask EXCEPT !.at = "slot", !.key = CHOOSE k \in ks : f[k] = t]
                   ELSE task[t]]
  BY DEF Spawn
<1>2. ASSUME NEW t \in Refreshers, \E k \in ks : f[k] = t
      PROVE  LET q == [IdleTask EXCEPT !.at = "slot", !.key = CHOOSE k \in ks : f[k] = t]
             IN  q \in TaskType /\ WalkOK(q)
  <2>1. (CHOOSE k \in ks : f[k] = t) \in Keys
    BY <1>2
  <2>2. \A key \in Keys : LET q == [IdleTask EXCEPT !.at = "slot", !.key = key]
                          IN  q \in TaskType /\ WalkOK(q)
    <3> SUFFICES ASSUME NEW key \in Keys
                 PROVE  LET q == [IdleTask EXCEPT !.at = "slot", !.key = key]
                        IN  q \in TaskType /\ WalkOK(q)
      OBVIOUS
    <3> DEFINE n == [IdleTask EXCEPT !.at = "slot", !.key = key]
    <3>1. n \in TaskType /\ n.at = "slot" /\ n.key = key
      BY IdleIsOK DEF TaskType
    <3>2. WalkOK(n)
      <4> HIDE DEF n
      <4> QED BY <3>1 DEF WalkOK
    <3> QED BY <3>1, <3>2
  <2> QED BY <2>1, <2>2, Zenon
<1>3. ASSUME NEW t \in Refreshers PROVE task'[t] \in TaskType /\ WalkOK(task'[t])
  <2>1. CASE \E k \in ks : f[k] = t
    BY <1>1, <1>2, <2>1
  <2>2. CASE ~\E k \in ks : f[k] = t
    BY <1>1, <2>2 DEF TasksOK
  <2> QED BY <2>1, <2>2
<1>4. DOMAIN task' = Refreshers
  BY <1>1
<1>5. task' \in [Refreshers -> TaskType]
  BY <1>1, <1>3
<1>6. ASSUME NEW t \in Refreshers PROVE WalkOK(task[t])'
  BY <1>3 DEF WalkOK
<1> QED BY <1>5, <1>6 DEF TasksOK

-----------------------------------------------------------------------------
\* The steps of a request.
LEMMA RequestSteps ==
    ASSUME IInv, NEW r \in Requests,
           \/ \E k \in Keys : Hit(r, k) \/ Miss(r, k)
           \/ JoinFlight(r) \/ SecondHit(r) \/ SecondMiss(r) \/ TakeSlot(r) \/ Generate(r)
           \/ Store(r) \/ Leave(r) \/ Answered(r) \/ Cancel(r)
    PROVE  IInv'
<1> DEFINE q == req[r]
<1>0. /\ q \in ReqType /\ WalkOK(q) /\ SinceOK(q) /\ req \in [Requests -> ReqType]
      /\ Versions /\ EntryShapes /\ NoListingFromBeforeAWrite /\ TasksOK
  BY DEF IInv, RequestsOK
<1>a. ASSUME disk' = disk, acked' = acked, epoch' = epoch
      PROVE  /\ entries' = entries => EntryShapes' /\ NoListingFromBeforeAWrite'
             /\ task' = task => TasksOK'
  BY <1>0, <1>a DEF EntryShapes, NoListingFromBeforeAWrite, Cached, TasksOK, WalkOK
<1>1. ASSUME NEW k \in Keys, Hit(r, k) PROVE IInv'
  <2> DEFINE n == [IdleReq EXCEPT !.at = "answered", !.key = k,
                                    !.since = acked[k], !.ver = entries[k].ver]
  <2>1. /\ disk' = disk /\ acked' = acked /\ epoch' = epoch /\ entries' = entries
        /\ req' = [req EXCEPT ![r] = n]
    BY <1>1 DEF Hit
  <2>2. TasksOK'
    <3>1. PICK due \in SUBSET Keys : Spawn(due)
      BY <1>1, Zenon DEF Hit, LookupFresh
    <3> QED BY <1>0, <2>1, <3>1, SpawnIsOK
  <2>3. entries[k].ver >= acked[k] /\ entries[k].ver \in Nat /\ acked[k] \in Nat
    <3>1. Cached(k)
      BY <1>1 DEF Hit, LookupFresh, Servable
    <3> QED BY <1>0, <3>1, CachedShape DEF NoListingFromBeforeAWrite, Versions
  <2>4. n \in ReqType /\ WalkOK(n) /\ SinceOK(n)
    <3>1. /\ n \in ReqType /\ n.at = "answered" /\ n.key = k
          /\ n.since = acked[k] /\ n.epoch = 0 /\ n.ver = entries[k].ver
      BY <2>3 DEF IdleReq, ReqType
    <3> HIDE DEF n
    <3> QED BY <2>3, <3>1 DEF ReqType, WalkOK, SinceOK
  <2> HIDE DEF n
  <2> QED BY <1>a, <2>1, <2>2, <2>4, OneRequest
<1>2. ASSUME NEW k \in Keys, Miss(r, k) PROVE IInv'
  <2> DEFINE n == [IdleReq EXCEPT !.at = "join", !.key = k, !.since = acked[k]]
  <2>1. /\ disk' = disk /\ acked' = acked /\ epoch' = epoch /\ entries' = entries /\ task' = task
        /\ req' = [req EXCEPT ![r] = n]
    BY <1>2 DEF Miss, state
  <2>2. n \in ReqType /\ WalkOK(n) /\ SinceOK(n)
    <3>1. acked[k] \in Nat
      BY <1>0 DEF Versions
    <3>2. n \in ReqType /\ n.at = "join" /\ n.key = k /\ n.since = acked[k]
      BY <3>1, IdleIsOK DEF ReqType
    <3> HIDE DEF n
    <3> QED BY <3>1, <3>2 DEF WalkOK, SinceOK
  <2> HIDE DEF n
  <2> QED BY <1>a, <2>1, <2>2, OneRequest
<1>3. ASSUME JoinFlight(r) PROVE IInv'
  <2>1. PICK m \in Flights : req' = [req EXCEPT ![r].at = "wait", ![r].mutex = m]
    BY <1>3, Zenon DEF JoinFlight
  <2> DEFINE n == [q EXCEPT !.at = "wait", !.mutex = m]
  <2>2. disk' = disk /\ acked' = acked /\ epoch' = epoch /\ entries' = entries /\ task' = task
    BY <1>3 DEF JoinFlight, state
  <2>3. req' = [req EXCEPT ![r] = n]
    BY <1>0, <2>1
  <2>4. n \in ReqType /\ WalkOK(n) /\ SinceOK(n)
    <3>1. q.key \in Keys /\ q.since <= acked[q.key]
      BY <1>0, <1>3 DEF WalkOK, SinceOK, JoinFlight, At
    <3>2. /\ n \in ReqType /\ n.at = "wait" /\ n.key = q.key
          /\ n.since = q.since /\ n.epoch = q.epoch /\ n.ver = q.ver
      BY <1>0, <3>1 DEF ReqType
    <3> HIDE DEF n, q
    <3> QED BY <1>0, <3>1, <3>2 DEF ReqType, WalkOK, SinceOK
  <2> HIDE DEF n
  <2> QED BY <1>a, <2>2, <2>3, <2>4, OneRequest
<1>4. ASSUME SecondHit(r) PROVE IInv'
  <2> DEFINE n == [q EXCEPT !.at = "answered", !.ver = entries[q.key].ver]
  <2>1. disk' = disk /\ acked' = acked /\ epoch' = epoch /\ entries' = entries
    BY <1>4 DEF SecondHit
  <2>2. req' = [req EXCEPT ![r] = n]
    BY <1>0, <1>4 DEF SecondHit, Answer
  <2>3. q.key \in Keys /\ q.since \in Nat /\ q.since <= acked[q.key]
    BY <1>0, <1>4 DEF SecondHit, Turn, At, WalkOK, SinceOK, ReqType
  <2>4. TasksOK'
    <3>1. PICK due \in SUBSET Keys : Spawn(due)
      BY <1>4, <2>3, Zenon DEF SecondHit, LookupFresh
    <3> QED BY <1>0, <2>1, <3>1, SpawnIsOK
  <2>5. /\ entries[q.key].ver >= acked[q.key] /\ entries[q.key].ver \in Nat
        /\ acked[q.key] \in Nat
    <3>1. Cached(q.key)
      BY <1>4 DEF SecondHit, LookupFresh, Servable
    <3> HIDE DEF q
    <3> QED BY <1>0, <2>3, <3>1, CachedShape DEF NoListingFromBeforeAWrite, Versions
  <2>6. n \in ReqType /\ WalkOK(n) /\ SinceOK(n)
    <3>1. q.key \in Keys /\ q.since <= acked[q.key] /\ entries[q.key].ver \in Nat /\ entries[q.key].ver >= q.since
      BY <1>0, <2>3, <2>5
    <3>2. /\ n \in ReqType /\ n.at = "answered" /\ n.key = q.key
          /\ n.since = q.since /\ n.epoch = q.epoch /\ n.ver = entries[q.key].ver
      BY <1>0, <3>1 DEF ReqType
    <3> HIDE DEF n, q
    <3> QED BY <1>0, <3>1, <3>2 DEF ReqType, WalkOK, SinceOK
  <2> HIDE DEF n
  <2> QED BY <1>a, <2>1, <2>2, <2>4, <2>6, OneRequest
<1>5. ASSUME SecondMiss(r) PROVE IInv'
  <2> DEFINE n == [q EXCEPT !.at = "slot"]
  <2>1. disk' = disk /\ acked' = acked /\ epoch' = epoch /\ entries' = entries /\ task' = task
    BY <1>5 DEF SecondMiss, state
  <2>2. req' = [req EXCEPT ![r] = n]
    BY <1>0, <1>5 DEF SecondMiss
  <2>3. n \in ReqType /\ WalkOK(n) /\ SinceOK(n)
    BY <1>0, <1>5 DEF ReqType, WalkOK, SinceOK, SecondMiss, Turn, At
  <2> HIDE DEF n
  <2> QED BY <1>a, <2>1, <2>2, <2>3, OneRequest
<1>6. ASSUME TakeSlot(r) PROVE IInv'
  <2> DEFINE n == [q EXCEPT !.at = "gen", !.epoch = epoch]
  <2>1. disk' = disk /\ acked' = acked /\ epoch' = epoch /\ entries' = entries /\ task' = task
    BY <1>6 DEF TakeSlot, state
  <2>2. req' = [req EXCEPT ![r] = n]
    BY <1>0, <1>6 DEF TakeSlot
  <2>3. n \in ReqType /\ WalkOK(n) /\ SinceOK(n)
    <3>1. q.key \in Keys /\ q.since <= acked[q.key] /\ epoch \in Nat
      BY <1>0, <1>6 DEF WalkOK, SinceOK, TakeSlot, At, Versions
    <3>2. /\ n \in ReqType /\ n.at = "gen" /\ n.key = q.key
          /\ n.since = q.since /\ n.epoch = epoch /\ n.ver = q.ver
      BY <1>0, <3>1 DEF ReqType
    <3> HIDE DEF n, q
    <3> QED BY <1>0, <3>1, <3>2 DEF ReqType, WalkOK, SinceOK
  <2> HIDE DEF n
  <2> QED BY <1>a, <2>1, <2>2, <2>3, OneRequest
<1>7. ASSUME Generate(r) PROVE IInv'
  <2>1. PICK size \in Sizes :
          req' = [req EXCEPT ![r].at = "read", ![r].ver = disk[req[r].key], ![r].size = size]
    BY <1>7 DEF Generate
  <2> DEFINE n == [q EXCEPT !.at = "read", !.ver = disk[q.key], !.size = size]
  <2>2. disk' = disk /\ acked' = acked /\ epoch' = epoch /\ entries' = entries /\ task' = task
    BY <1>7 DEF Generate, state
  <2>3. req' = [req EXCEPT ![r] = n]
    BY <1>0, <2>1
  <2>4. /\ q.key \in Keys /\ q.since \in Nat /\ q.since <= acked[q.key] /\ q.epoch <= epoch
        /\ acked[q.key] \in Nat /\ disk[q.key] \in Nat /\ acked[q.key] <= disk[q.key]
    BY <1>0, <1>7 DEF Generate, At, WalkOK, SinceOK, ReqType, Versions
  <2>5. n \in ReqType /\ WalkOK(n) /\ SinceOK(n)
    <3>1. /\ q.key \in Keys /\ q.since <= acked[q.key] /\ q.epoch <= epoch
          /\ disk[q.key] \in Nat /\ disk[q.key] >= q.since /\ disk[q.key] >= acked[q.key]
      BY <1>0, <2>4
    <3>2. n \in ReqType
      <4>1. \A v \in Nat, x \in Sizes :
              [q EXCEPT !.at = "read", !.ver = v, !.size = x] \in ReqType
        BY <1>0 DEF ReqType
      <4> QED BY <4>1, <3>1, <2>1, Zenon
    <3>3. /\ n.at = "read" /\ n.key = q.key /\ n.since = q.since /\ n.epoch = q.epoch
          /\ n.ver = disk[q.key] /\ n.size \in Sizes
      BY <1>0, <2>1 DEF ReqType
    <3> HIDE DEF n, q
    <3> QED BY <1>0, <3>1, <3>2, <3>3 DEF ReqType, WalkOK, SinceOK
  <2> HIDE DEF n
  <2> QED BY <1>a, <2>2, <2>3, <2>5, OneRequest
<1>8. ASSUME Store(r) PROVE IInv'
  <2> DEFINE n == [q EXCEPT !.at = "leave"]
  <2>1. disk' = disk /\ acked' = acked /\ epoch' = epoch /\ task' = task
    BY <1>8 DEF Store
  <2>2. req' = [req EXCEPT ![r] = n]
    BY <1>0, <1>8 DEF Store
  <2>3. q.key \in Keys /\ q.ver \in Nat /\ q.size \in Sizes /\ (q.epoch = epoch => q.ver >= acked[q.key])
    BY <1>0, <1>8 DEF Store, At, WalkOK, ReqType
  <2>4. EntryShapes' /\ NoListingFromBeforeAWrite'
    <3>1. Insert(q.key, q.ver, q.size, q.epoch)
      BY <1>8 DEF Store
    <3>2. acked \in [Keys -> Nat]
      BY <1>0 DEF Versions
    <3> HIDE DEF q
    <3> QED BY <1>0, <2>1, <2>3, <3>1, <3>2, InsertIsNew
  <2>5. n \in ReqType /\ WalkOK(n) /\ SinceOK(n)
    BY <1>0, <1>8 DEF ReqType, WalkOK, SinceOK, Store, At
  <2> HIDE DEF n
  <2> QED BY <1>a, <2>1, <2>2, <2>4, <2>5, OneRequest
<1>9. ASSUME Leave(r) PROVE IInv'
  <2> DEFINE n == [q EXCEPT !.at = "answered", !.ver = q.ver]
  <2>1. disk' = disk /\ acked' = acked /\ epoch' = epoch /\ entries' = entries /\ task' = task
    BY <1>9 DEF Leave, state
  <2>2. req' = [req EXCEPT ![r] = n]
    BY <1>0, <1>9 DEF Leave, Answer
  <2>3. n \in ReqType /\ WalkOK(n) /\ SinceOK(n)
    BY <1>0, <1>9 DEF ReqType, WalkOK, SinceOK, Leave, At
  <2> HIDE DEF n
  <2> QED BY <1>a, <2>1, <2>2, <2>3, OneRequest
<1>10. ASSUME Answered(r) \/ Cancel(r) PROVE IInv'
  <2>1. /\ disk' = disk /\ acked' = acked /\ epoch' = epoch /\ entries' = entries /\ task' = task
        /\ req' = [req EXCEPT ![r] = IdleReq]
    BY <1>10 DEF Answered, Cancel, state
  <2> QED BY <1>a, <2>1, IdleIsOK, OneRequest
<1> QED BY <1>1, <1>2, <1>3, <1>4, <1>5, <1>6, <1>7, <1>8, <1>9, <1>10

\* The steps of a refresh.
LEMMA TaskSteps ==
    ASSUME IInv, NEW t \in Refreshers,
           RefreshSlot(t) \/ RefreshGenerate(t) \/ RefreshStore(t) \/ RefreshDone(t)
    PROVE  IInv'
<1> DEFINE q == task[t]
<1>0. /\ q \in TaskType /\ WalkOK(q) /\ task \in [Refreshers -> TaskType]
      /\ Versions /\ EntryShapes /\ NoListingFromBeforeAWrite
  BY DEF IInv, TasksOK
<1>a. ASSUME acked' = acked, entries' = entries
      PROVE  EntryShapes' /\ NoListingFromBeforeAWrite'
  BY <1>0, <1>a DEF EntryShapes, NoListingFromBeforeAWrite, Cached
<1>1. ASSUME RefreshSlot(t) PROVE IInv'
  <2> DEFINE n == [q EXCEPT !.at = "gen", !.epoch = epoch]
  <2>1. disk' = disk /\ acked' = acked /\ epoch' = epoch /\ entries' = entries /\ req' = req
    BY <1>1 DEF RefreshSlot, state
  <2>2. task' = [task EXCEPT ![t] = n]
    BY <1>0, <1>1 DEF RefreshSlot
  <2>3. q.key \in Keys /\ epoch \in Nat
    BY <1>0, <1>1 DEF RefreshSlot, WalkOK, Versions
  <2>4. n \in TaskType /\ n.at = "gen" /\ n.key = q.key /\ n.epoch = epoch
    BY <1>0, <2>3 DEF TaskType
  <2> HIDE DEF n
  <2>5. WalkOK(n)
    BY <2>3, <2>4 DEF WalkOK
  <2> QED BY <1>a, <2>1, <2>2, <2>4, <2>5, OneTask
<1>2. ASSUME RefreshGenerate(t) PROVE IInv'
  <2>1. PICK size \in Sizes :
          task' = [task EXCEPT ![t].at = "read", ![t].ver = disk[task[t].key], ![t].size = size]
    BY <1>2 DEF RefreshGenerate
  <2> DEFINE n == [q EXCEPT !.at = "read", !.ver = disk[q.key], !.size = size]
  <2>2. disk' = disk /\ acked' = acked /\ epoch' = epoch /\ entries' = entries /\ req' = req
    BY <1>2 DEF RefreshGenerate, state
  <2>3. task' = [task EXCEPT ![t] = n]
    BY <1>0, <2>1
  <2>4. /\ q.key \in Keys /\ q.epoch <= epoch
        /\ acked[q.key] \in Nat /\ disk[q.key] \in Nat /\ acked[q.key] <= disk[q.key]
    <3>1. q.at = "gen"
      BY <1>2 DEF RefreshGenerate
    <3>2. q.key \in Keys /\ q.epoch <= epoch
      BY <1>0, <3>1 DEF WalkOK
    <3> HIDE DEF q
    <3> QED BY <1>0, <3>2 DEF Versions
  <2>5. \A v \in Nat, x \in Sizes :
          [q EXCEPT !.at = "read", !.ver = v, !.size = x] \in TaskType
    BY <1>0 DEF TaskType
  <2>6. n \in TaskType
    BY <2>1, <2>4, <2>5, Zenon
  <2>7. n.at = "read" /\ n.key = q.key /\ n.epoch = q.epoch /\ n.ver = disk[q.key] /\ n.size \in Sizes
    BY <1>0, <2>1 DEF TaskType
  <2> HIDE DEF n
  <2>8. WalkOK(n)
    BY <2>4, <2>7 DEF WalkOK
  <2> QED BY <1>a, <2>2, <2>3, <2>6, <2>8, OneTask
<1>3. ASSUME RefreshStore(t) PROVE IInv'
  <2> DEFINE n == [q EXCEPT !.at = "clear"]
  <2>1. disk' = disk /\ acked' = acked /\ epoch' = epoch /\ req' = req
    BY <1>3 DEF RefreshStore
  <2>2. task' = [task EXCEPT ![t] = n]
    BY <1>0, <1>3 DEF RefreshStore
  <2>3. q.key \in Keys /\ q.ver \in Nat /\ q.size \in Sizes /\ (q.epoch = epoch => q.ver >= acked[q.key])
    BY <1>0, <1>3 DEF RefreshStore, WalkOK, TaskType
  <2>4. EntryShapes' /\ NoListingFromBeforeAWrite'
    <3>1. Insert(q.key, q.ver, q.size, q.epoch)
      BY <1>3 DEF RefreshStore
    <3>2. acked \in [Keys -> Nat]
      BY <1>0 DEF Versions
    <3> HIDE DEF q
    <3> QED BY <1>0, <2>1, <2>3, <3>1, <3>2, InsertIsNew
  <2>5. n \in TaskType /\ WalkOK(n)
    BY <1>0, <2>3 DEF TaskType, WalkOK
  <2> HIDE DEF n
  <2> QED BY <2>1, <2>2, <2>4, <2>5, OneTask
<1>4. ASSUME RefreshDone(t) PROVE IInv'
  <2>1. /\ disk' = disk /\ acked' = acked /\ epoch' = epoch /\ entries' = entries /\ req' = req
        /\ task' = [task EXCEPT ![t] = IdleTask]
    BY <1>4 DEF RefreshDone
  <2> QED BY <1>a, <2>1, IdleIsOK, OneTask
<1> QED BY <1>1, <1>2, <1>3, <1>4

\* A step that leaves requests, versions, epoch and entries alone and may start
\* refreshes.
LEMMA StillOK ==
    ASSUME IInv, req' = req, disk' = disk, acked' = acked, epoch' = epoch,
           EntryShapes' /\ NoListingFromBeforeAWrite', TasksOK'
    PROVE  IInv'
<1>1. Versions'
  BY DEF IInv, Versions
<1>2. RequestsOK'
  BY DEF IInv, RequestsOK, WalkOK, SinceOK
<1> QED BY <1>1, <1>2 DEF IInv

\* The steps of writers, of the outside world and of time.
LEMMA OtherSteps ==
    ASSUME IInv,
           \/ \E w \in Writers : Fire(w) \/ \E p \in Paths : Commit(w, p)
           \/ \E p \in Outside : Change(p)
           \/ RefreshAll \/ Stop
           \/ \E k \in Keys : Age(k)
    PROVE  IInv'
<1>0. Versions /\ EntryShapes /\ NoListingFromBeforeAWrite /\ RequestsOK /\ TasksOK
  BY DEF IInv
<1>1. ASSUME NEW p, Bump(p), acked' = acked, epoch' = epoch, entries' = entries,
             req' = req, task' = task
      PROVE  IInv'
  <2>1. Versions'
    BY <1>0, <1>1 DEF Versions, Bump
  <2>2. EntryShapes' /\ NoListingFromBeforeAWrite'
    BY <1>0, <1>1 DEF EntryShapes, NoListingFromBeforeAWrite, Cached
  <2>3. RequestsOK' /\ TasksOK'
    BY <1>0, <1>1 DEF RequestsOK, TasksOK, WalkOK, SinceOK
  <2> QED BY <2>1, <2>2, <2>3 DEF IInv
<1>2. ASSUME NEW w \in Writers, NEW p \in Paths, Commit(w, p) PROVE IInv'
  BY <1>1, <1>2 DEF Commit, state
<1>3. ASSUME NEW p \in Outside, Change(p) PROVE IInv'
  BY <1>1, <1>3 DEF Change
<1>4. ASSUME NEW w \in Writers, Fire(w) PROVE IInv'
  <2> DEFINE T == Touched(writer[w])
  <2>1. /\ epoch' = epoch + 1 /\ disk' = disk /\ req' = req /\ task' = task
        /\ entries' = [k \in Keys |-> IF k \in T THEN NoEntry ELSE entries[k]]
        /\ acked' = [k \in Keys |-> IF k \in T THEN disk[k] ELSE acked[k]]
    BY <1>4 DEF Fire, Drop
  <2> HIDE DEF T
  <2>2. Versions'
    BY <1>0, <2>1 DEF Versions
  <2>3. NoEntry.ver = -1
    BY DEF NoEntry
  <2>4. EntryShapes'
    BY <1>0, <2>1, <2>3 DEF EntryShapes
  <2>5. NoListingFromBeforeAWrite'
    BY <1>0, <2>1 DEF NoListingFromBeforeAWrite, Cached
  <2>6. \A k \in Keys : acked[k] \in Nat /\ acked'[k] \in Nat /\ acked[k] <= acked'[k]
    BY <1>0, <2>1 DEF Versions
  <2>7. ASSUME NEW r \in Requests PROVE WalkOK(req[r])' /\ SinceOK(req[r])'
    <3>1. req[r] \in ReqType /\ WalkOK(req[r]) /\ SinceOK(req[r]) /\ req'[r] = req[r]
      BY <1>0, <2>1 DEF RequestsOK
    <3>2. epoch \in Nat /\ epoch' = epoch + 1 /\ req[r].epoch \in Nat
      BY <1>0, <2>1, <3>1 DEF Versions, ReqType
    <3>3. WalkOK(req[r])'
      BY <3>1, <3>2 DEF WalkOK
    <3>4. req[r].at # "idle" => req[r].key \in Keys /\ req[r].since \in Nat
      BY <3>1 DEF WalkOK, ReqType
    <3>5. SinceOK(req[r])'
      BY <2>6, <3>1, <3>4 DEF SinceOK
    <3> QED BY <3>3, <3>5
  <2>8. ASSUME NEW t \in Refreshers PROVE WalkOK(task[t])'
    <3>1. task[t] \in TaskType /\ WalkOK(task[t]) /\ task'[t] = task[t]
      BY <1>0, <2>1 DEF TasksOK
    <3>2. epoch \in Nat /\ epoch' = epoch + 1 /\ task[t].epoch \in Nat
      BY <1>0, <2>1, <3>1 DEF Versions, TaskType
    <3> QED BY <3>1, <3>2 DEF WalkOK
  <2>9. RequestsOK' /\ TasksOK'
    BY <1>0, <2>1, <2>7, <2>8 DEF RequestsOK, TasksOK
  <2> QED BY <2>2, <2>4, <2>5, <2>9 DEF IInv
<1>5. ASSUME RefreshAll PROVE IInv'
  <2>1. disk' = disk /\ acked' = acked /\ epoch' = epoch /\ entries' = entries /\ req' = req
    BY <1>5 DEF RefreshAll
  <2>2. PICK due \in SUBSET Keys : Spawn(due)
    BY <1>5, Zenon DEF RefreshAll, Held
  <2>3. TasksOK'
    BY <1>0, <2>1, <2>2, SpawnIsOK
  <2>4. EntryShapes' /\ NoListingFromBeforeAWrite'
    BY <1>0, <2>1 DEF EntryShapes, NoListingFromBeforeAWrite, Cached
  <2> QED BY <2>1, <2>3, <2>4, StillOK
<1>6. ASSUME Stop PROVE IInv'
  <2>1. /\ disk' = disk /\ acked' = acked /\ epoch' = epoch /\ entries' = entries
        /\ req' = req /\ task' = task
    BY <1>6 DEF Stop
  <2>2. TasksOK' /\ EntryShapes' /\ NoListingFromBeforeAWrite'
    BY <1>0, <2>1 DEF EntryShapes, NoListingFromBeforeAWrite, Cached, TasksOK, WalkOK
  <2> QED BY <2>1, <2>2, StillOK
<1>7. ASSUME NEW k \in Keys, Age(k) PROVE IInv'
  <2>1. /\ disk' = disk /\ acked' = acked /\ epoch' = epoch /\ req' = req /\ task' = task
        /\ Cached(k)
    BY <1>7 DEF Age, Servable
  <2> DEFINE age == IF entries[k].age = "fresh" THEN "stale" ELSE "expired"
             aged == [entries[k] EXCEPT !.age = age]
  <2>2. entries' = [entries EXCEPT ![k] = aged]
    BY <1>0, <1>7 DEF Age, EntryShapes
  <2>3. aged \in EntryType /\ aged.ver = entries[k].ver
    BY <1>0, <2>1, CachedShape DEF EntryType
  <2> HIDE DEF aged
  <2>4. EntryShapes'
    BY <1>0, <2>2, <2>3 DEF EntryShapes
  <2>5. NoListingFromBeforeAWrite'
    BY <1>0, <2>1, <2>2, <2>3 DEF NoListingFromBeforeAWrite, Cached, EntryShapes
  <2>6. TasksOK'
    BY <1>0, <2>1 DEF TasksOK, WalkOK
  <2> QED BY <2>1, <2>4, <2>5, <2>6, StillOK
<1> QED BY <1>2, <1>3, <1>4, <1>5, <1>6, <1>7

LEMMA NextIInv == IInv /\ [Next]_vars => IInv'
<1> SUFFICES ASSUME IInv, [Next]_vars PROVE IInv'
  OBVIOUS
<1>1. CASE Next
  BY <1>1, RequestSteps, TaskSteps, OtherSteps DEF Next
<1>2. CASE UNCHANGED vars
  <2>1. /\ disk' = disk /\ acked' = acked /\ epoch' = epoch /\ entries' = entries
        /\ req' = req /\ task' = task
    BY <1>2 DEF vars
  <2>2. TasksOK' /\ EntryShapes' /\ NoListingFromBeforeAWrite'
    BY <2>1 DEF IInv, EntryShapes, NoListingFromBeforeAWrite, Cached, TasksOK, WalkOK
  <2> QED BY <2>1, <2>2, StillOK
<1> QED BY <1>1, <1>2

-----------------------------------------------------------------------------
\* No cached listing predates a DAV write that was answered (insert's epoch check
\* and invalidate_paths, cache.rs).
THEOREM CacheIsNew == Spec => []NoListingFromBeforeAWrite
<1>1. IInv => NoListingFromBeforeAWrite
  BY DEF IInv
<1> QED BY <1>1, InitIInv, NextIInv, PTL DEF Spec

\* A PROPFIND shows every write that was answered before it was sent (get and
\* lookup_fresh, cache.rs).
THEOREM PropfindIsNew == Spec => []ReadsAnsweredWrites
<1>1. IInv => ReadsAnsweredWrites
  BY DEF IInv, RequestsOK, SinceOK, ReadsAnsweredWrites, At
<1> QED BY <1>1, InitIInv, NextIInv, PTL DEF Spec

\* Both, for any trees, requests, refreshes and budget (cache.rs).
THEOREM AlwaysNew == Spec => []ListingsAreNew
BY CacheIsNew, PropfindIsNew, PTL DEF ListingsAreNew
-----------------------------------------------------------------------------
(* The books: which entries there are, in which order they were used, what *)
(* they weigh, and which of them are being refreshed.                      *)

\* The compressed size held under each key.
Weights == [k \in Keys |-> entries[k].size]

\* BytesAreCounted, of a finite number of entries (no bound on the keys asked for is assumed).
Counted == IsFiniteSet(Held) /\ BytesAreCounted

Running == {t \in Refreshers : task[t].at # "idle"}

\* The types IInv leaves out.
Plain ==
    /\ scene \in Scenes /\ refreshing \subseteq Keys
    /\ debounce \in BOOLEAN /\ stopped \in BOOLEAN
    /\ flight \in [Keys -> Flights \cup {NoFlight}]
    /\ writer \in [Writers -> Paths \cup {NoPath}]

BooksInv == IInv /\ Plain /\ Counted /\ OneRefreshPerKey

\* An order of use of the keys s.
OrderOf(s) ==
    /\ older \subseteq s \X s
    /\ \A a, b \in s : <<a, b>> \in older <=> a # b /\ <<b, a>> \notin older
    /\ \A a, b, c \in s : <<a, b>> \in older /\ <<b, c>> \in older => <<a, c>> \in older

\* The bytes and the entries are within their limits when the keys s are held.
WithinLimits(s) ==
    IsFiniteSet(s) /\ bytes = SizeOf(s) /\ bytes <= Budget /\ Cardinality(s) <= MaxEntries

LEMMA CountedIs == Counted <=> OrderOf(Held) /\ WithinLimits(Held)
  BY DEF Counted, BytesAreCounted, OrderOf, WithinLimits

\* The keys of which one is used last, and any part of the keys, are in order.
LEMMA OrderKept ==
    ASSUME NEW s, OrderOf(s), NEW t \in SUBSET s
    PROVE  /\ older' = older \cap (t \X t) => OrderOf(t)'
           /\ \A k : k \notin t /\ older' = UsedLast(k, t) => OrderOf(t \cup {k})'
<1>1. ASSUME older' = older \cap (t \X t) PROVE OrderOf(t)'
  BY <1>1 DEF OrderOf
<1>2. ASSUME NEW k, k \notin t, older' = UsedLast(k, t) PROVE OrderOf(t \cup {k})'
  <2>1. \A a, b : <<a, b>> \in older' <=>
                    a \in t /\ (b = k \/ (b \in t /\ <<a, b>> \in older))
    BY <1>2 DEF UsedLast
  <2>2. older' \subseteq (t \cup {k}) \X (t \cup {k})
    BY <1>2 DEF UsedLast
  <2>3. \A a, b \in t \cup {k} : <<a, b>> \in older' <=> a # b /\ <<b, a>> \notin older'
    BY <1>2, <2>1 DEF OrderOf
  <2>4. \A a, b, c \in t \cup {k} : <<a, b>> \in older' /\ <<b, c>> \in older' => <<a, c>> \in older'
    BY <1>2, <2>1 DEF OrderOf
  <2> QED BY <2>2, <2>3, <2>4 DEF OrderOf
<1> QED BY <1>1, <1>2

\* What is held weighs something.
LEMMA WeightsOf ==
    ASSUME EntryShapes, NEW s \in SUBSET Held, IsFiniteSet(s)
    PROVE  /\ \A k \in s : k \in Keys /\ Weights[k] = entries[k].size /\ Weights[k] \in Nat
           /\ SizeOf(s) = SumFunctionOnSet(Weights, s) /\ SizeOf(s) \in Nat
<1>1. \A k \in s : k \in Keys /\ Weights[k] = entries[k].size /\ Weights[k] \in Nat
  BY CachedShape, CacheAssumption DEF Held, Weights
<1>2. SizeOf(s) = SumFunctionOnSet(Weights, s)
  BY DEF SizeOf, Weights
<1> QED BY <1>1, <1>2, SumType

\* Taking the keys t out of what is held takes off what they weigh.
LEMMA Without ==
    ASSUME EntryShapes, IsFiniteSet(Held), NEW t \in SUBSET Held
    PROVE  /\ IsFiniteSet(t) /\ IsFiniteSet(Held \ t)
           /\ SizeOf(Held) = SizeOf(t) + SizeOf(Held \ t)
           /\ SizeOf(t) \in Nat /\ SizeOf(Held \ t) \in Nat
<1>1. IsFiniteSet(t) /\ IsFiniteSet(Held \ t)
  BY FS_Subset
<1>2. /\ SizeOf(Held) = SumFunctionOnSet(Weights, Held) /\ SizeOf(t) = SumFunctionOnSet(Weights, t)
      /\ SizeOf(Held \ t) = SumFunctionOnSet(Weights, Held \ t)
      /\ SizeOf(t) \in Nat /\ SizeOf(Held \ t) \in Nat /\ \A k \in Held : Weights[k] \in Nat
  BY <1>1, WeightsOf
<1>3. SumFunctionOnSet(Weights, Held) = SumFunctionOnSet(Weights, t) + SumFunctionOnSet(Weights, Held \ t)
  BY <1>2, SumSplit
<1> QED BY <1>1, <1>2, <1>3

\* insert keeps the bytes counted and within the limits, and the entries in order.
LEMMA InsertCounted ==
    ASSUME NEW k \in Keys, NEW ver \in Nat, NEW size \in Sizes, NEW e, EntryShapes, EntryShapes',
           Counted, Insert(k, ver, size, e)
    PROVE  Counted'
<1>1. CASE Refused(size, e)
  BY <1>1 DEF Insert, Counted, BytesAreCounted, Held, Cached, SizeOf
<1>2. CASE ~Refused(size, e)
  <2> DEFINE new == [ver |-> ver, age |-> "fresh", size |-> size]
  <2>1. PICK kept \in Kept(k, size) :
          /\ entries' = [o \in Keys |-> IF o = k THEN new
                                      ELSE IF o \in kept THEN entries[o] ELSE NoEntry]
          /\ older' = UsedLast(k, kept)
          /\ bytes' = bytes - SizeOf(Held \ kept) + size
    BY <1>2, Zenon DEF Insert
  <2>2. /\ kept \in SUBSET Held /\ k \notin kept /\ Fits(kept, size)
    BY <2>1 DEF Kept, Suffixes, Others
  <2>3. new # NoEntry /\ new.size = size
    BY DEF NoEntry
  <2> HIDE DEF new
  <2>4. Held' = kept \cup {k}
    BY <2>1, <2>2, <2>3 DEF Held, Cached
  <2>5. OrderOf(Held)'
    <3>1. OrderOf(kept \cup {k})'
      BY <2>1, <2>2, CountedIs, OrderKept
    <3> QED BY <2>4, <3>1 DEF OrderOf
  <2>6. IsFiniteSet(Held) /\ bytes = SizeOf(Held)
    BY DEF Counted, BytesAreCounted
  <2>7. /\ IsFiniteSet(kept) /\ SizeOf(Held) = SizeOf(kept) + SizeOf(Held \ kept)
        /\ SizeOf(kept) \in Nat /\ SizeOf(Held \ kept) \in Nat
    BY <2>2, <2>6, Without
  <2>8. IsFiniteSet(Held)' /\ Cardinality(Held)' = Cardinality(kept) + 1
    BY <2>2, <2>4, <2>7, FS_AddElement
  <2>9. size \in Nat /\ bytes' = SizeOf(kept) + size
    BY <2>1, <2>6, <2>7, CacheAssumption
  <2>10. SizeOf(Held)' = SizeOf(kept) + size
    <3>1. PICK w : w = Weights'
      OBVIOUS
    <3>2. \A o \in Held' : w[o] = IF o = k THEN size ELSE Weights[o]
      BY <2>1, <2>2, <2>3, <2>4, <3>1 DEF Weights, Held
    <3>3. /\ \A o \in Held' : w[o] \in Nat
          /\ SizeOf(Held)' = SumFunctionOnSet(w, Held')
      <4>1. \A o \in kept : Weights[o] \in Nat
        BY <2>2, <2>7, WeightsOf
      <4>2. SizeOf(Held)' = SumFunctionOnSet(w, Held')
        BY <3>1 DEF SizeOf, Weights
      <4> QED BY <2>4, <2>9, <3>2, <4>1, <4>2
    <3>4. SumFunctionOnSet(w, Held') = SumFunctionOnSet(w, Held' \ {k}) + w[k]
      <4>1. IsFiniteSet(Held') /\ k \in Held'
        BY <2>4, <2>8
      <4> QED BY <3>3, <4>1, SumWithout
    <3>5. Held' \ {k} = kept /\ w[k] = size
      BY <2>2, <2>4, <3>2
    <3>6. SumFunctionOnSet(w, kept) = SizeOf(kept)
      <4>1. \A o \in kept : w[o] = Weights[o]
        BY <2>2, <2>4, <3>2
      <4>2. SumFunctionOnSet(w, kept) = SumFunctionOnSet(Weights, kept)
        BY <2>7, <4>1, SumsAgree
      <4> QED BY <2>2, <2>7, <4>2, WeightsOf
    <3> QED BY <3>3, <3>4, <3>5, <3>6
  <2>11. bytes' <= Budget /\ Cardinality(Held)' <= MaxEntries
    <3>1. size <= Budget /\ MaxEntries \in Nat \ {0}
      BY <1>2, CacheAssumption DEF Refused
    <3>2. kept = {} => SizeOf(kept) = 0 /\ Cardinality(kept) = 0
      BY <2>2, <2>7, WeightsOf, SumUnfolds, FS_EmptySet
    <3>3. kept = {} \/ (SizeOf(kept) + size <= Budget /\ Cardinality(kept) < MaxEntries)
      BY <2>2 DEF Fits
    <3>4. Cardinality(kept) \in Nat
      BY <2>7, FS_CardinalityType
    <3> QED BY <2>8, <2>9, <3>1, <3>2, <3>3, <3>4
  <2>12. WithinLimits(Held)'
    BY <2>8, <2>9, <2>10, <2>11 DEF WithinLimits
  <2> QED BY <2>5, <2>12, CountedIs, PTL
<1> QED BY <1>1, <1>2

\* invalidate_paths takes off what the listings it drops weigh.
LEMMA DropCounted ==
    ASSUME NEW path, EntryShapes, Counted, Drop(path)
    PROVE  Counted'
<1>1. PICK gone : gone = Held \cap Touched(path)
  OBVIOUS
<1>2. PICK stay : stay = Held \ gone
  OBVIOUS
<1>3. /\ gone \in SUBSET Held /\ stay \in SUBSET Held
      /\ entries' = [k \in Keys |-> IF k \in Touched(path) THEN NoEntry ELSE entries[k]]
      /\ older' = older \cap (stay \X stay) /\ bytes' = bytes - SizeOf(gone)
  <2>1. Held \ Touched(path) = stay
    BY <1>1, <1>2
  <2> QED BY <1>1, <1>2, <2>1 DEF Drop
<1>4. Held' = stay
  BY <1>1, <1>2, <1>3 DEF Held, Cached
<1>5. OrderOf(Held)'
  <2>1. OrderOf(stay)'
    BY <1>3, CountedIs, OrderKept
  <2> QED BY <1>4, <2>1 DEF OrderOf
<1>6. /\ IsFiniteSet(Held) /\ bytes = SizeOf(Held) /\ bytes <= Budget
      /\ Cardinality(Held) <= MaxEntries
  BY DEF Counted, BytesAreCounted
<1>7. /\ IsFiniteSet(stay) /\ SizeOf(Held) = SizeOf(gone) + SizeOf(stay)
      /\ SizeOf(gone) \in Nat /\ SizeOf(stay) \in Nat
  BY <1>2, <1>3, <1>6, Without
<1>8. SizeOf(Held)' = SizeOf(stay)
  <2>1. PICK w : w = Weights'
    OBVIOUS
  <2>2. \A o \in stay : w[o] = Weights[o]
    BY <1>1, <1>2, <1>3, <2>1 DEF Weights, Held
  <2>3. SumFunctionOnSet(w, stay) = SumFunctionOnSet(Weights, stay)
    BY <1>7, <2>2, SumsAgree
  <2>4. SizeOf(Held)' = SumFunctionOnSet(w, stay)
    BY <1>4, <2>1 DEF SizeOf, Weights
  <2> QED BY <1>3, <1>7, <2>3, <2>4, WeightsOf
<1>9. bytes' = SizeOf(stay) /\ bytes' <= Budget
  <2>1. Budget \in Nat
    BY CacheAssumption
  <2> QED BY <1>3, <1>6, <1>7, <2>1
<1>10. Cardinality(stay) <= MaxEntries
  <2>1. Cardinality(stay) <= Cardinality(Held) /\ Cardinality(stay) \in Nat /\ Cardinality(Held) \in Nat
    BY <1>3, <1>6, <1>7, FS_Subset, FS_CardinalityType
  <2>2. MaxEntries \in Nat
    BY CacheAssumption
  <2> QED BY <1>6, <2>1, <2>2
<1>11. WithinLimits(Held)'
  BY <1>4, <1>7, <1>8, <1>9, <1>10 DEF WithinLimits
<1> QED BY <1>5, <1>11, CountedIs, PTL

\* A step that leaves every key's size alone.
LEMMA StillWithin ==
    ASSUME EntryShapes, Counted, bytes' = bytes, Held' = Held,
           \A k \in Keys : entries'[k].size = entries[k].size
    PROVE  WithinLimits(Held)'
<1>1. Weights' = Weights
  BY DEF Weights
<1>2. SizeOf(Held)' = SizeOf(Held)
  BY <1>1 DEF SizeOf, Weights
<1> QED BY <1>2 DEF Counted, BytesAreCounted, WithinLimits

\* A step that leaves the entries, their order and the bytes alone.
LEMMA StillCounted ==
    ASSUME Counted, entries' = entries, older' = older, bytes' = bytes
    PROVE  Counted'
  BY DEF Counted, BytesAreCounted, Held, Cached, SizeOf

\* lookup_fresh makes a key the one used last.
LEMMA UseCounted ==
    ASSUME EntryShapes, Counted, NEW k \in Keys, LookupFresh(k), entries' = entries, bytes' = bytes
    PROVE  Counted'
<1>1. k \in Held /\ Held' = Held /\ older' = UsedLast(k, Others(k))
  BY DEF LookupFresh, Servable, Held, Cached
<1>2. OrderOf(Held)'
  <2>1. OrderOf(Others(k) \cup {k})'
    <3>1. PICK t : t = Others(k)
      OBVIOUS
    <3>2. t \in SUBSET Held /\ k \notin t
      BY <3>1 DEF Others
    <3>3. OrderOf(t \cup {k})'
      BY <1>1, <3>1, <3>2, CountedIs, OrderKept
    <3>4. Others(k)' = t
      BY <1>1, <3>1 DEF Others
    <3> QED BY <3>3, <3>4 DEF OrderOf
  <2>2. (Others(k) \cup {k})' = Held'
    BY <1>1 DEF Others
  <2> QED BY <2>1, <2>2 DEF OrderOf
<1>3. WithinLimits(Held)'
  BY <1>1, StillWithin
<1> QED BY <1>2, <1>3, CountedIs, PTL

\* Time does not change what an entry weighs.
LEMMA AgeCounted ==
    ASSUME EntryShapes, Counted, NEW k \in Keys, Age(k)
    PROVE  Counted'
<1>1. Cached(k) /\ older' = older /\ bytes' = bytes
  BY DEF Age, Servable
<1>2. PICK age \in {"stale", "expired"} : entries' = [entries EXCEPT ![k].age = age]
  BY DEF Age
<1>3. /\ entries[k] \in EntryType /\ NoEntry.age = "none"
      /\ entries' = [o \in Keys |-> IF o = k THEN [entries[k] EXCEPT !.age = age] ELSE entries[o]]
  BY <1>1, <1>2, CachedShape DEF EntryShapes, NoEntry
<1>4. /\ [entries[k] EXCEPT !.age = age].size = entries[k].size
      /\ [entries[k] EXCEPT !.age = age].age = age
  BY <1>3 DEF EntryType
<1>5. Held' = Held /\ \A o \in Keys : entries'[o].size = entries[o].size
  BY <1>1, <1>2, <1>3, <1>4 DEF Held, Cached
<1>6. OrderOf(Held)'
  BY <1>1, <1>5, CountedIs DEF OrderOf
<1>7. WithinLimits(Held)'
  BY <1>1, <1>5, StillWithin
<1> QED BY <1>6, <1>7, CountedIs, PTL


\* A key is marked as refreshing just when a refresh of it runs.
Marked ==
    /\ \A s, t \in Running : s # t => task[s].key # task[t].key
    /\ refreshing = {task[t].key : t \in Running}

LEMMA MarksAre == OneRefreshPerKey <=> Marked
  BY DEF OneRefreshPerKey, Marked, Running

\* A refresh that goes on, with the key it has.
LEMMA RefreshGoesOn ==
    ASSUME OneRefreshPerKey, TasksOK, NEW t \in Running, NEW q, q.at # "idle", q.key = task[t].key,
           task' = [task EXCEPT ![t] = q], refreshing' = refreshing
    PROVE  OneRefreshPerKey'
<1>1. \A u \in Refreshers : task'[u] = IF u = t THEN q ELSE task[u]
  BY DEF TasksOK, Running
<1>2. Running' = Running
  BY <1>1 DEF Running
<1>3. \A u \in Running : task'[u].key = task[u].key
  BY <1>1 DEF Running
<1>4. \A s, u \in Running : s # u => task'[s].key # task'[u].key
  BY <1>3, MarksAre DEF Marked
<1>5. refreshing' = {task'[u].key : u \in Running}
  BY <1>3, MarksAre DEF Marked
<1>6. Marked'
  BY <1>2, <1>4, <1>5 DEF Marked
<1> QED BY <1>6, MarksAre, PTL

\* A refresh that ends takes its mark along.
LEMMA RefreshEnds ==
    ASSUME OneRefreshPerKey, TasksOK, NEW t \in Refreshers, RefreshDone(t)
    PROVE  OneRefreshPerKey'
<1>1. t \in Running
  BY DEF RefreshDone, Running
<1>2. \A u \in Refreshers : task'[u] = IF u = t THEN IdleTask ELSE task[u]
  BY DEF RefreshDone, TasksOK
<1>3. Running' = Running \ {t}
  BY <1>2, IdleIsOK DEF Running
<1>4. \A u \in Running \ {t} : task'[u].key = task[u].key /\ task[u].key # task[t].key
  BY <1>1, <1>2, MarksAre DEF Marked, Running
<1>5. refreshing' = refreshing \ {task[t].key}
  BY DEF RefreshDone
<1>6. refreshing' = {task'[u].key : u \in Running \ {t}}
  BY <1>1, <1>4, <1>5, MarksAre DEF Marked
<1>7. \A s, u \in Running \ {t} : s # u => task'[s].key # task'[u].key
  BY <1>4, MarksAre DEF Marked
<1>8. Marked'
  BY <1>3, <1>6, <1>7 DEF Marked
<1> QED BY <1>8, MarksAre, PTL

\* New refreshes are of keys that had none, each of its own.
LEMMA SpawnMarks ==
    ASSUME OneRefreshPerKey, NEW due \in SUBSET Keys, due \cap refreshing = {}, Spawn(due),
           refreshing' = refreshing \cup due
    PROVE  OneRefreshPerKey'
<1>1. PICK f \in [due -> {t \in Refreshers : t \in scene.refreshers /\ task[t].at = "idle"}] :
        /\ \A a, b \in due : f[a] = f[b] => a = b
        /\ task' = [t \in Refreshers |->
                      IF \E k \in due : f[k] = t
                      THEN [IdleTask EXCEPT !.at = "slot", !.key = CHOOSE k \in due : f[k] = t]
                      ELSE task[t]]
  BY DEF Spawn
<1>2. \A k \in due : f[k] \in Refreshers /\ f[k] \notin Running
  BY <1>1 DEF Running
<1>3. ASSUME NEW k \in due PROVE task'[f[k]].at = "slot" /\ task'[f[k]].key = k
  <2>1. (CHOOSE j \in due : f[j] = f[k]) = k
    BY <1>1
  <2>2. task'[f[k]] = [IdleTask EXCEPT !.at = "slot", !.key = k]
    BY <1>1, <1>2, <2>1
  <2> QED BY <2>2 DEF IdleTask
<1>4. \A t \in Refreshers : (\A k \in due : f[k] # t) => task'[t] = task[t]
  BY <1>1
<1>5. PICK new : new = {f[k] : k \in due}
  OBVIOUS
<1>6. Running' = Running \cup new
  BY <1>2, <1>3, <1>4, <1>5 DEF Running
<1>7. \A t \in Running : task'[t].key = task[t].key /\ task[t].key \in refreshing
  BY <1>2, <1>4, MarksAre DEF Marked, Running
<1>8. \A t \in new : task'[t].key \in due /\ f[task'[t].key] = t
  BY <1>3, <1>5
<1>9. \A s, t \in Running \cup new : s # t => task'[s].key # task'[t].key
  BY <1>7, <1>8, MarksAre DEF Marked
<1>10. refreshing \cup due = {task'[t].key : t \in Running \cup new}
  <2>1. refreshing = {task'[t].key : t \in Running}
    BY <1>7, MarksAre DEF Marked
  <2>2. due = {task'[t].key : t \in new}
    BY <1>3, <1>5, <1>8
  <2> QED BY <2>1, <2>2
<1>11. Marked'
  BY <1>6, <1>9, <1>10 DEF Marked
<1> QED BY <1>11, MarksAre, PTL

\* A step that leaves the refreshes alone.
LEMMA StillMarked ==
    ASSUME OneRefreshPerKey, task' = task, refreshing' = refreshing
    PROVE  OneRefreshPerKey'
  BY DEF OneRefreshPerKey

\* lookup_fresh starts a refresh of the key it serves, unless one runs.
LEMMA UseMarks ==
    ASSUME OneRefreshPerKey, Plain, NEW k \in Keys, LookupFresh(k)
    PROVE  OneRefreshPerKey' /\ refreshing' \subseteq Keys
<1>1. PICK due : due = IF entries[k].age = "stale" /\ k \notin refreshing THEN {k} ELSE {}
  OBVIOUS
<1>2. refreshing' = refreshing \cup due /\ Spawn(due)
  BY <1>1, Zenon DEF LookupFresh
<1>3. due \in SUBSET Keys /\ due \cap refreshing = {}
  BY <1>1
<1> QED BY <1>2, <1>3, SpawnMarks DEF Plain


\* The first state.
LEMMA InitBooks == Init => BooksInv
<1> SUFFICES ASSUME Init PROVE BooksInv
  OBVIOUS
<1>1. IInv
  BY InitIInv
<1>2. Plain
  BY DEF Init, Plain
<1>3. Held = {} /\ older = {} /\ bytes = 0
  BY DEF Init, Held, Cached
<1>4. SizeOf(Held) = 0 /\ IsFiniteSet(Held) /\ Cardinality(Held) = 0
  BY <1>3, FS_EmptySet, SumUnfolds DEF SizeOf
<1>5. OrderOf(Held) /\ WithinLimits(Held)
  <2>1. Budget \in Nat /\ MaxEntries \in Nat
    BY CacheAssumption
  <2> QED BY <1>3, <1>4, <2>1 DEF OrderOf, WithinLimits
<1>6. Counted
  BY <1>5, CountedIs
<1>7. OneRefreshPerKey
  BY IdleIsOK DEF Init, OneRefreshPerKey
<1> QED BY <1>1, <1>2, <1>6, <1>7 DEF BooksInv

\* The steps of a request.
LEMMA RequestBooks ==
    ASSUME BooksInv, IInv', scene' = scene, NEW r \in Requests,
           \/ \E k \in Keys : Hit(r, k) \/ Miss(r, k)
           \/ JoinFlight(r) \/ SecondHit(r) \/ SecondMiss(r) \/ TakeSlot(r) \/ Generate(r)
           \/ Store(r) \/ Leave(r) \/ Answered(r) \/ Cancel(r)
    PROVE  BooksInv'
<1>0. /\ Plain /\ Counted /\ OneRefreshPerKey /\ EntryShapes /\ EntryShapes'
      /\ req[r] \in ReqType /\ WalkOK(req[r])
  BY DEF BooksInv, IInv, RequestsOK
<1>1. ASSUME NEW k \in Keys, LookupFresh(k), entries' = entries, bytes' = bytes,
             UNCHANGED <<debounce, stopped, flight, writer>>
      PROVE  BooksInv'
  <2>1. Counted' /\ OneRefreshPerKey' /\ refreshing' \subseteq Keys
    BY <1>0, <1>1, UseCounted, UseMarks
  <2>2. Plain'
    BY <1>0, <1>1, <2>1 DEF Plain
  <2> QED BY <2>1, <2>2 DEF BooksInv
<1>2. ASSUME NEW k \in Keys, Hit(r, k) PROVE BooksInv'
  BY <1>1, <1>2 DEF Hit
<1>3. ASSUME SecondHit(r) PROVE BooksInv'
  <2>1. req[r].key \in Keys
    BY <1>0, <1>3 DEF SecondHit, Turn, At, WalkOK
  <2> QED BY <1>1, <1>3, <2>1 DEF SecondHit
<1>4. ASSUME UNCHANGED <<entries, older, bytes, refreshing, debounce, stopped, task, writer>>,
             flight' \in [Keys -> Flights \cup {NoFlight}]
      PROVE  BooksInv'
  <2>1. Counted' /\ OneRefreshPerKey'
    BY <1>0, <1>4, StillCounted, StillMarked
  <2>2. Plain'
    BY <1>0, <1>4 DEF Plain
  <2> QED BY <2>1, <2>2 DEF BooksInv
<1>5. ASSUME \/ \E k \in Keys : Miss(r, k)
             \/ SecondMiss(r) \/ TakeSlot(r) \/ Generate(r) \/ Answered(r) \/ Cancel(r)
      PROVE  BooksInv'
  <2>1. UNCHANGED <<state, flight, task, writer>>
    BY <1>5 DEF Miss, SecondMiss, TakeSlot, Generate, Answered, Cancel
  <2> QED BY <1>0, <1>4, <2>1 DEF state, Plain
<1>6. ASSUME JoinFlight(r) PROVE BooksInv'
  <2>1. /\ UNCHANGED <<state, task, writer>>
        /\ \E m \in Flights : flight' = [flight EXCEPT ![req[r].key] = m]
    BY <1>6 DEF JoinFlight
  <2>2. flight' \in [Keys -> Flights \cup {NoFlight}]
    BY <1>0, <2>1 DEF Plain
  <2> QED BY <1>4, <2>1, <2>2 DEF state
<1>7. ASSUME Leave(r) PROVE BooksInv'
  <2>1. UNCHANGED <<state, task, writer>> /\ flight' = [flight EXCEPT ![req[r].key] = NoFlight]
    BY <1>7 DEF Leave
  <2>2. flight' \in [Keys -> Flights \cup {NoFlight}]
    BY <1>0, <2>1 DEF Plain
  <2> QED BY <1>4, <2>1, <2>2 DEF state
<1>8. ASSUME Store(r) PROVE BooksInv'
  <2>1. /\ req[r].key \in Keys /\ req[r].ver \in Nat /\ req[r].size \in Sizes
        /\ Insert(req[r].key, req[r].ver, req[r].size, req[r].epoch)
    BY <1>0, <1>8 DEF Store, At, WalkOK, ReqType
  <2>2. UNCHANGED <<refreshing, debounce, stopped, flight, task, writer>>
    BY <1>8 DEF Store
  <2>3. Counted' /\ OneRefreshPerKey'
    BY <1>0, <2>1, <2>2, InsertCounted, StillMarked
  <2>4. Plain'
    BY <1>0, <2>2 DEF Plain
  <2> QED BY <2>3, <2>4 DEF BooksInv
<1> QED BY <1>2, <1>3, <1>5, <1>6, <1>7, <1>8

\* The steps of a refresh.
LEMMA TaskBooks ==
    ASSUME BooksInv, IInv', scene' = scene, NEW t \in Refreshers,
           RefreshSlot(t) \/ RefreshGenerate(t) \/ RefreshStore(t) \/ RefreshDone(t)
    PROVE  BooksInv'
<1> DEFINE q == task[t]
<1>0. /\ Plain /\ Counted /\ OneRefreshPerKey /\ EntryShapes /\ EntryShapes'
      /\ TasksOK /\ q \in TaskType /\ WalkOK(q) /\ task \in [Refreshers -> TaskType]
  BY DEF BooksInv, IInv, TasksOK
<1>1. ASSUME RefreshDone(t) PROVE BooksInv'
  <2>1. /\ UNCHANGED <<entries, older, bytes, debounce, stopped, flight, writer>>
        /\ refreshing' \subseteq refreshing
    BY <1>1 DEF RefreshDone
  <2>2. Counted' /\ OneRefreshPerKey'
    BY <1>0, <1>1, <2>1, StillCounted, RefreshEnds
  <2>3. Plain'
    BY <1>0, <2>1 DEF Plain
  <2> QED BY <2>2, <2>3 DEF BooksInv
<1>2. ASSUME RefreshSlot(t) \/ RefreshGenerate(t) \/ RefreshStore(t) PROVE OneRefreshPerKey'
  <2>1. t \in Running /\ refreshing' = refreshing
    BY <1>2 DEF RefreshSlot, RefreshGenerate, RefreshStore, state, Running
  <2>2. PICK n : task' = [task EXCEPT ![t] = n] /\ n.at # "idle" /\ n.key = q.key
    <3>1. CASE RefreshSlot(t)
      <4> DEFINE n == [q EXCEPT !.at = "gen", !.epoch = epoch]
      <4>1. task' = [task EXCEPT ![t] = n]
        BY <1>0, <3>1 DEF RefreshSlot
      <4>2. n.at # "idle" /\ n.key = q.key
        BY <1>0 DEF TaskType
      <4> QED BY <4>1, <4>2
    <3>2. CASE RefreshGenerate(t)
      <4>1. PICK size \in Sizes :
              task' = [task EXCEPT ![t].at = "read", ![t].ver = disk[task[t].key], ![t].size = size]
        BY <3>2 DEF RefreshGenerate
      <4> DEFINE n == [q EXCEPT !.at = "read", !.ver = disk[q.key], !.size = size]
      <4>2. task' = [task EXCEPT ![t] = n]
        BY <1>0, <4>1
      <4>3. n.at # "idle" /\ n.key = q.key
        BY <1>0 DEF TaskType
      <4> QED BY <4>2, <4>3
    <3>3. CASE RefreshStore(t)
      <4> DEFINE n == [q EXCEPT !.at = "clear"]
      <4>1. task' = [task EXCEPT ![t] = n]
        BY <1>0, <3>3 DEF RefreshStore
      <4>2. n.at # "idle" /\ n.key = q.key
        BY <1>0 DEF TaskType
      <4> QED BY <4>1, <4>2
    <3> QED BY <1>2, <3>1, <3>2, <3>3
  <2> QED BY <1>0, <2>1, <2>2, RefreshGoesOn
<1>3. ASSUME RefreshSlot(t) \/ RefreshGenerate(t) PROVE BooksInv'
  <2>1. UNCHANGED <<state, flight, writer>>
    BY <1>3 DEF RefreshSlot, RefreshGenerate
  <2>2. Counted'
    BY <1>0, <2>1, StillCounted DEF state
  <2>3. Plain'
    BY <1>0, <2>1 DEF Plain, state
  <2> QED BY <1>2, <1>3, <2>2, <2>3 DEF BooksInv
<1>4. ASSUME RefreshStore(t) PROVE BooksInv'
  <2>1. /\ q.key \in Keys /\ q.ver \in Nat /\ q.size \in Sizes
        /\ Insert(q.key, q.ver, q.size, q.epoch)
    BY <1>0, <1>4 DEF RefreshStore, WalkOK, TaskType
  <2>2. UNCHANGED <<refreshing, debounce, stopped, flight, writer>>
    BY <1>4 DEF RefreshStore
  <2> HIDE DEF q
  <2>3. Counted'
    BY <1>0, <2>1, InsertCounted
  <2>4. Plain'
    BY <1>0, <2>2 DEF Plain
  <2> QED BY <1>2, <1>4, <2>3, <2>4 DEF BooksInv
<1> QED BY <1>1, <1>3, <1>4

\* The steps of writers, of the outside world and of time.
LEMMA OtherBooks ==
    ASSUME BooksInv, IInv', scene' = scene,
           \/ \E w \in Writers : Fire(w) \/ \E p \in Paths : Commit(w, p)
           \/ \E p \in Outside : Change(p)
           \/ RefreshAll \/ Stop
           \/ \E k \in Keys : Age(k)
    PROVE  BooksInv'
<1>0. Plain /\ Counted /\ OneRefreshPerKey /\ EntryShapes
  BY DEF BooksInv, IInv
<1>1. ASSUME UNCHANGED <<refreshing, flight, task>>, Counted',
             debounce' \in BOOLEAN, stopped' \in BOOLEAN,
             writer' \in [Writers -> Paths \cup {NoPath}]
      PROVE  BooksInv'
  <2>1. OneRefreshPerKey'
    BY <1>0, <1>1, StillMarked
  <2>2. Plain'
    BY <1>0, <1>1 DEF Plain
  <2> QED BY <1>1, <2>1, <2>2 DEF BooksInv
<1>2. ASSUME NEW w \in Writers, Fire(w) PROVE BooksInv'
  <2>1. /\ UNCHANGED <<refreshing, stopped, flight, task>> /\ debounce' = ~stopped
        /\ writer' = [writer EXCEPT ![w] = NoPath] /\ Drop(writer[w])
    BY <1>2 DEF Fire
  <2>2. Counted'
    BY <1>0, <2>1, DropCounted
  <2>3. stopped' \in BOOLEAN /\ debounce' \in BOOLEAN /\ writer' \in [Writers -> Paths \cup {NoPath}]
    BY <1>0, <2>1 DEF Plain
  <2> QED BY <1>1, <2>1, <2>2, <2>3
<1>3. ASSUME NEW w \in Writers, NEW p \in Paths, Commit(w, p) PROVE BooksInv'
  <2>1. UNCHANGED <<state, flight, task>> /\ writer' = [writer EXCEPT ![w] = p]
    BY <1>3 DEF Commit
  <2>2. Counted'
    BY <1>0, <2>1, StillCounted DEF state
  <2>3. stopped' \in BOOLEAN /\ debounce' \in BOOLEAN /\ writer' \in [Writers -> Paths \cup {NoPath}]
    BY <1>0, <2>1 DEF Plain, state
  <2> QED BY <1>1, <2>1, <2>2, <2>3 DEF state
<1>4. ASSUME NEW p \in Outside, Change(p) PROVE BooksInv'
  <2>1. /\ UNCHANGED <<entries, older, bytes, refreshing, stopped, flight, task, writer>>
        /\ debounce' = ~stopped
    BY <1>4 DEF Change
  <2>2. Counted'
    BY <1>0, <2>1, StillCounted
  <2>3. stopped' \in BOOLEAN /\ debounce' \in BOOLEAN /\ writer' \in [Writers -> Paths \cup {NoPath}]
    BY <1>0, <2>1 DEF Plain
  <2> QED BY <1>1, <2>1, <2>2, <2>3
<1>5. ASSUME RefreshAll PROVE BooksInv'
  <2>1. PICK due : due = Held \ refreshing
    OBVIOUS
  <2>2. /\ UNCHANGED <<entries, older, bytes, stopped, flight, writer>> /\ debounce' = FALSE
        /\ refreshing' = refreshing \cup due /\ Spawn(due)
    BY <1>5, <2>1, Zenon DEF RefreshAll
  <2>3. due \in SUBSET Keys /\ due \cap refreshing = {}
    BY <2>1 DEF Held
  <2>4. Counted' /\ OneRefreshPerKey'
    BY <1>0, <2>2, <2>3, StillCounted, SpawnMarks
  <2>5. Plain'
    BY <1>0, <2>2, <2>3 DEF Plain
  <2> QED BY <2>4, <2>5 DEF BooksInv
<1>6. ASSUME Stop PROVE BooksInv'
  <2>1. /\ UNCHANGED <<entries, older, bytes, refreshing, flight, task, writer>>
        /\ stopped' = TRUE /\ debounce' = FALSE
    BY <1>6 DEF Stop
  <2>2. Counted'
    BY <1>0, <2>1, StillCounted
  <2> QED BY <1>0, <1>1, <2>1, <2>2 DEF Plain
<1>7. ASSUME NEW k \in Keys, Age(k) PROVE BooksInv'
  <2>1. UNCHANGED <<refreshing, debounce, stopped, flight, task, writer>>
    BY <1>7 DEF Age
  <2>2. Counted'
    BY <1>0, <1>7, AgeCounted
  <2> QED BY <1>0, <1>1, <2>1, <2>2 DEF Plain
<1> QED BY <1>2, <1>3, <1>4, <1>5, <1>6, <1>7

LEMMA NextBooks == BooksInv /\ [Next]_vars => BooksInv'
<1> SUFFICES ASSUME BooksInv, [Next]_vars PROVE BooksInv'
  OBVIOUS
<1>1. IInv /\ IInv'
  BY NextIInv DEF BooksInv
<1>2. CASE Next
  BY <1>1, <1>2, RequestBooks, TaskBooks, OtherBooks DEF Next
<1>3. CASE UNCHANGED vars
  <2>1. Counted' /\ OneRefreshPerKey'
    BY <1>3, StillCounted, StillMarked DEF BooksInv, vars
  <2>2. Plain'
    BY <1>3 DEF BooksInv, Plain, vars
  <2> QED BY <1>1, <2>1, <2>2 DEF BooksInv
<1> QED BY <1>2, <1>3

\* The cache's books are right, for any keys, sizes, budget and number of entries: what it
\* counts is what it holds, within the limits, and a key is marked as refreshing just while one
\* refresh of it runs (insert, invalidate_paths, lookup_fresh and spawn_refresh, cache.rs).
THEOREM BooksStayRight == Spec => []BooksAreKept
<1>1. BooksInv => BooksAreKept
  <2> SUFFICES ASSUME BooksInv PROVE BooksAreKept
    OBVIOUS
  <2>1. bytes \in Nat
    <3>1. Held \in SUBSET Held /\ IsFiniteSet(Held) /\ bytes = SizeOf(Held)
      BY DEF BooksInv, Counted, BytesAreCounted
    <3> QED BY <3>1, WeightsOf DEF BooksInv, IInv
  <2>2. older \subseteq Keys \X Keys
    BY DEF BooksInv, Counted, BytesAreCounted, Held
  <2>3. TypeOK
    BY <2>1, <2>2
    DEF BooksInv, IInv, Plain, TypeOK, Versions, EntryShapes, EntryType,
        RequestsOK, TasksOK, ReqType, TaskType
  <2> QED BY <2>3 DEF BooksAreKept, BooksInv, Counted
<1> QED BY <1>1, InitBooks, NextBooks, PTL DEF Spec


\* Of two suffixes one is part of the other: the keys have one order of use.
LEMMA SuffixesNest ==
    ASSUME NEW ks, OrderOf(Held), ks \subseteq Held, NEW s \in Suffixes(ks), NEW t \in Suffixes(ks)
    PROVE  s \subseteq t \/ t \subseteq s
<1> SUFFICES ASSUME NEW a \in s, a \notin t, NEW b \in t, b \notin s PROVE FALSE
  OBVIOUS
<1>1. a \in ks /\ b \in ks /\ a \in Held /\ b \in Held /\ a # b
  BY DEF Suffixes
<1>2. <<a, b>> \in older \/ <<b, a>> \in older
  BY <1>1 DEF OrderOf
<1> QED BY <1>1, <1>2 DEF Suffixes

\* insert has one outcome: taking the least recently used entries out, one by one, comes to an
\* end, and what is then left is the most that fits.
LEMMA OneKept ==
    ASSUME Counted, NEW k \in Keys, NEW size
    PROVE  \E s : Kept(k, size) = {s}
<1>1. PICK ks : ks = Others(k)
  OBVIOUS
<1>2. ks \subseteq Held /\ IsFiniteSet(ks) /\ OrderOf(Held)
  BY <1>1, CountedIs, FS_Subset DEF Others, Counted
<1>3. PICK B : B = {ks \ s : s \in {u \in Suffixes(ks) : Fits(u, size)}}
  OBVIOUS
<1>4. {} \in Suffixes(ks) /\ Fits({}, size)
  BY DEF Suffixes, Fits
<1>5. B # {} /\ B \in SUBSET SUBSET ks
  BY <1>3, <1>4
<1>6. PICK gone \in B : \A t \in SUBSET gone : t # gone => t \notin B
  BY <1>2, <1>5, Minimal
<1>7. PICK s \in Suffixes(ks) : Fits(s, size) /\ gone = ks \ s
  BY <1>3
<1>8. ASSUME NEW t \in Suffixes(ks), Fits(t, size) PROVE t \subseteq s
  <2>1. SUFFICES ASSUME ~(t \subseteq s) PROVE FALSE
    OBVIOUS
  <2>2. s \subseteq t /\ t \subseteq ks /\ s \subseteq ks
    BY <1>2, <2>1, SuffixesNest DEF Suffixes
  <2>3. ks \ t \in B
    BY <1>3, <1>8
  <2>4. ks \ t \in SUBSET gone /\ ks \ t # gone
    BY <1>7, <2>1, <2>2
  <2> QED BY <1>6, <2>3, <2>4
<1>9. s \in Kept(k, size)
  BY <1>1, <1>7, <1>8 DEF Kept
<1>10. ASSUME NEW t \in Kept(k, size) PROVE t = s
  BY <1>1, <1>7, <1>8 DEF Kept
<1> QED BY <1>9, <1>10

\* insert never waits and never chooses: whatever the cache holds, its eviction ends with one
\* set of entries (the loop over last_used, cache.rs).
THEOREM EvictionIsDetermined ==
    Spec => [](\A k \in Keys, size \in Sizes : \E s : Kept(k, size) = {s})
<1>1. BooksInv => \A k \in Keys, size \in Sizes : \E s : Kept(k, size) = {s}
  BY OneKept DEF BooksInv
<1> QED BY <1>1, InitBooks, NextBooks, PTL DEF Spec
=============================================================================
