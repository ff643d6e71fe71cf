------------------------ MODULE HistoryWritesProofs ------------------------
(***************************************************************************)
(* Reading-history uploads, for any accounts, files and uploads: the       *)
(* account's mutex excludes, and so the quota holds.                       *)
(*                                                                         *)
(* A quota bounds a sum over an account's files.  The sum is a recursive   *)
(* function over the subsets of the set, each taken apart at the element   *)
(* CHOOSE gives; that there is such a function, and what one file's change *)
(* does to the sum, follows from least counterexamples, the subsets of a   *)
(* finite set being well-founded.                                          *)
(***************************************************************************)
EXTENDS HistoryWrites, FiniteSetTheorems, WellFoundedInduction, TLAPS

-----------------------------------------------------------------------------
(* Sums over finite sets (SumFunctionOnSet of Functions).                  *)

\* The element a set is taken apart at, and what remains.
First(s) == CHOOSE x \in s : TRUE
Rest(s) == s \ {First(s)}

\* What g has to be to add up f over every subset of S.
Adds(f, S, g) == g = [s \in SUBSET S |-> IF s = {} THEN 0 ELSE f[First(s)] + g[Rest(s)]]

LEMMA FirstAndRest == ASSUME NEW s, s # {} PROVE First(s) \in s /\ Rest(s) \subseteq s /\ Rest(s) # s
  BY DEF First, Rest

\* A set of subsets of a finite set has a minimal one.
LEMMA Minimal ==
    ASSUME NEW S, IsFiniteSet(S), NEW B \in SUBSET SUBSET S, B # {}
    PROVE  \E s \in B : \A t \in SUBSET s : t # s => t \notin B
  <1>1. FiniteSubsetsOf(S) = SUBSET S BY FS_FiniteSubsetsOfFinite
  <1>2. IsWellFoundedOn(StrictSubsetOrdering(S), SUBSET S)
    BY <1>1, FS_StrictSubsetOrderingWellFounded
  <1>3. PICK s \in B : \A t \in B : ~(<<t, s>> \in StrictSubsetOrdering(S)) BY <1>2, WFMin, Zenon
  <1>4. ASSUME NEW t \in SUBSET s, t # s, t \in B PROVE FALSE
    BY <1>3, <1>4 DEF StrictSubsetOrdering
  <1> QED BY <1>4

\* Functions that add up f agree wherever both are defined.
LEMMA AddsAgree ==
    ASSUME NEW f, NEW S, IsFiniteSet(S), NEW T \in SUBSET S, NEW g, Adds(f, S, g), NEW h, Adds(f, T, h)
    PROVE  \A s \in SUBSET T : g[s] = h[s]
  <1>1. PICK B : B = {s \in SUBSET T : g[s] # h[s]} OBVIOUS
  <1> SUFFICES ASSUME B # {} PROVE FALSE BY <1>1
  <1>2. PICK s \in B : \A t \in SUBSET s : t # s => t \notin B
    <2>1. IsFiniteSet(T) /\ B \in SUBSET SUBSET T BY <1>1, FS_Subset
    <2> QED BY <2>1, Minimal
  <1>3. g[s] = IF s = {} THEN 0 ELSE f[First(s)] + g[Rest(s)] BY <1>1 DEF Adds
  <1>4. h[s] = IF s = {} THEN 0 ELSE f[First(s)] + h[Rest(s)] BY <1>1 DEF Adds
  <1>5. s # {} BY <1>1, <1>3, <1>4
  <1>6. g[Rest(s)] = h[Rest(s)] BY <1>1, <1>2, <1>5, FirstAndRest
  <1> QED BY <1>1, <1>3, <1>4, <1>6

LEMMA SumIs == ASSUME NEW f, NEW S PROVE SumFunctionOnSet(f, S) = (CHOOSE g : Adds(f, S, g))[S]
  BY DEF SumFunctionOnSet, FoldFunctionOnSet, MapThenFoldSet, Adds, First, Rest

\* The sum of a set is any such function's value there.
LEMMA SumOfAdds ==
    ASSUME NEW f, NEW S, IsFiniteSet(S), NEW T \in SUBSET S, NEW g, Adds(f, S, g), NEW h, Adds(f, T, h)
    PROVE  SumFunctionOnSet(f, T) = g[T]
  <1>1. PICK k : k = CHOOSE i : Adds(f, T, i) OBVIOUS
  <1>2. Adds(f, T, k) BY <1>1
  <1>3. g[T] = k[T] BY <1>2, AddsAgree
  <1> QED BY <1>1, <1>3, SumIs

\* There is one for every finite set.
LEMMA AddsExists ==
    ASSUME NEW f, NEW S, IsFiniteSet(S)
    PROVE  \E g : Adds(f, S, g)
  <1> SUFFICES ASSUME ~\E g : Adds(f, S, g) PROVE FALSE OBVIOUS
  <1>1. PICK B : B = {s \in SUBSET S : ~\E g : Adds(f, s, g)} OBVIOUS
  <1>a. PICK s \in B : \A t \in SUBSET s : t # s => t \notin B
    <2>1. S \in B /\ B \in SUBSET SUBSET S BY <1>1
    <2> QED BY <2>1, Minimal
  <1>b. s \in SUBSET S /\ ~\E g : Adds(f, s, g) BY <1>1
  <1>2. \A t \in SUBSET s : t # s => \E g : Adds(f, t, g) BY <1>1, <1>a, <1>b
  <1>3. IsFiniteSet(s) BY <1>b, FS_Subset
  <1>4. ASSUME NEW t \in SUBSET s, t # s
        PROVE  SumFunctionOnSet(f, t) = IF t = {} THEN 0 ELSE f[First(t)] + SumFunctionOnSet(f, Rest(t))
    <2>1. PICK g : Adds(f, t, g) BY <1>2, <1>4
    <2>2. IsFiniteSet(t) BY <1>3, FS_Subset
    <2>3. SumFunctionOnSet(f, t) = g[t] BY <2>1, <2>2, SumOfAdds
    <2>4. g[t] = IF t = {} THEN 0 ELSE f[First(t)] + g[Rest(t)] BY <2>1 DEF Adds
    <2>5. t # {} => SumFunctionOnSet(f, Rest(t)) = g[Rest(t)]
      <3> SUFFICES ASSUME t # {} PROVE SumFunctionOnSet(f, Rest(t)) = g[Rest(t)] OBVIOUS
      <3>1. Rest(t) \in SUBSET t /\ Rest(t) # s BY FirstAndRest
      <3>2. PICK h : Adds(f, Rest(t), h) BY <1>2, <3>1
      <3> QED BY <2>1, <2>2, <3>1, <3>2, SumOfAdds
    <2> QED BY <2>3, <2>4, <2>5
  <1> DEFINE h == [t \in SUBSET s |-> IF t = {} THEN 0 ELSE f[First(t)] + SumFunctionOnSet(f, Rest(t))]
  <1>5. ASSUME NEW t \in SUBSET s, t # {} PROVE h[Rest(t)] = SumFunctionOnSet(f, Rest(t))
    <2>1. Rest(t) \in SUBSET s /\ Rest(t) # s BY <1>5, FirstAndRest
    <2> QED BY <1>4, <2>1
  <1>6. Adds(f, s, h) BY <1>5 DEF Adds
  <1> QED BY <1>b, <1>6

-----------------------------------------------------------------------------
\* A sum is taken apart at its first element.
LEMMA SumUnfolds ==
    ASSUME NEW f, NEW S, IsFiniteSet(S)
    PROVE  SumFunctionOnSet(f, S) = IF S = {} THEN 0 ELSE f[First(S)] + SumFunctionOnSet(f, Rest(S))
  <1>1. PICK g : Adds(f, S, g) BY AddsExists
  <1>2. SumFunctionOnSet(f, S) = g[S] BY <1>1, SumOfAdds
  <1>3. g[S] = IF S = {} THEN 0 ELSE f[First(S)] + g[Rest(S)] BY <1>1 DEF Adds
  <1>4. S # {} => SumFunctionOnSet(f, Rest(S)) = g[Rest(S)]
    <2> SUFFICES ASSUME S # {} PROVE SumFunctionOnSet(f, Rest(S)) = g[Rest(S)] OBVIOUS
    <2>1. Rest(S) \in SUBSET S /\ IsFiniteSet(Rest(S)) BY FirstAndRest, FS_Subset
    <2>2. PICK h : Adds(f, Rest(S), h) BY <2>1, AddsExists
    <2> QED BY <1>1, <2>1, <2>2, SumOfAdds
  <1> QED BY <1>2, <1>3, <1>4

\* A sum of natural numbers is one.
LEMMA SumType ==
    ASSUME NEW f, NEW S, IsFiniteSet(S), \A x \in S : f[x] \in Nat
    PROVE  SumFunctionOnSet(f, S) \in Nat
  <1>1. PICK B : B = {s \in SUBSET S : SumFunctionOnSet(f, s) \notin Nat} OBVIOUS
  <1> SUFFICES ASSUME B # {} PROVE FALSE BY <1>1
  <1>2. PICK s \in B : \A t \in SUBSET s : t # s => t \notin B
    <2>1. B \in SUBSET SUBSET S BY <1>1
    <2> QED BY <2>1, Minimal
  <1>3. s \in SUBSET S /\ SumFunctionOnSet(f, s) \notin Nat /\ IsFiniteSet(s) BY <1>1, FS_Subset
  <1>4. SumFunctionOnSet(f, s) = IF s = {} THEN 0 ELSE f[First(s)] + SumFunctionOnSet(f, Rest(s))
    BY <1>3, SumUnfolds
  <1>5. s # {} BY <1>3, <1>4
  <1>6. First(s) \in S /\ Rest(s) \in SUBSET s /\ Rest(s) # s BY <1>3, <1>5, FirstAndRest
  <1>7. SumFunctionOnSet(f, Rest(s)) \in Nat BY <1>1, <1>2, <1>3, <1>6
  <1>8. f[First(s)] \in Nat BY <1>6
  <1> QED BY <1>3, <1>4, <1>5, <1>7, <1>8

\* When one value changes, the sum changes as it does.
LEMMA SumChange ==
    ASSUME NEW S, IsFiniteSet(S), NEW f \in [S -> Nat], NEW e \in S, NEW n \in Nat,
           NEW g, g = [f EXCEPT ![e] = n]
    PROVE  SumFunctionOnSet(g, S) + f[e] = SumFunctionOnSet(f, S) + n
  <1> DEFINE Sf(s) == SumFunctionOnSet(f, s)
             Sg(s) == SumFunctionOnSet(g, s)
             Off(s) == IF e \in s THEN Sg(s) + f[e] # Sf(s) + n ELSE Sg(s) # Sf(s)
  <1>1. PICK B : B = {s \in SUBSET S : Off(s)} OBVIOUS
  <1> SUFFICES ASSUME B # {} PROVE FALSE BY <1>1
  <1>2. PICK s \in B : \A t \in SUBSET s : t # s => t \notin B
    <2>1. B \in SUBSET SUBSET S BY <1>1
    <2> QED BY <2>1, Minimal
  <1>3. s \in SUBSET S /\ Off(s) /\ IsFiniteSet(s) BY <1>1, FS_Subset
  <1>4. /\ Sf(s) = IF s = {} THEN 0 ELSE f[First(s)] + Sf(Rest(s))
        /\ Sg(s) = IF s = {} THEN 0 ELSE g[First(s)] + Sg(Rest(s))
    BY <1>3, SumUnfolds
  <1>5. s # {} BY <1>3, <1>4
  <1>6. First(s) \in S /\ Rest(s) \in SUBSET s /\ Rest(s) # s /\ Rest(s) = s \ {First(s)}
    BY <1>3, <1>5, FirstAndRest DEF Rest
  <1>7. ~Off(Rest(s)) BY <1>1, <1>2, <1>3, <1>6
  <1>8. Sf(Rest(s)) \in Nat /\ Sg(Rest(s)) \in Nat
    <2>1. IsFiniteSet(Rest(s)) /\ \A x \in Rest(s) : f[x] \in Nat /\ g[x] \in Nat
      BY <1>3, <1>6, FS_Subset
    <2> QED BY <2>1, SumType
  <1>9. f[First(s)] \in Nat /\ f[e] \in Nat /\ g[First(s)] = IF First(s) = e THEN n ELSE f[First(s)]
    BY <1>6
  <1>10. e \in Rest(s) <=> e \in s /\ First(s) # e BY <1>6
  <1>11. First(s) = e => e \in s BY <1>5, FirstAndRest
  <1> HIDE DEF Sf, Sg
  <1> QED BY <1>3, <1>4, <1>5, <1>7, <1>8, <1>9, <1>10, <1>11

\* A sum of nothing but zeroes is zero.
LEMMA SumZero ==
    ASSUME NEW f, NEW S, IsFiniteSet(S), \A x \in S : f[x] = 0
    PROVE  SumFunctionOnSet(f, S) = 0
  <1>1. PICK B : B = {s \in SUBSET S : SumFunctionOnSet(f, s) # 0} OBVIOUS
  <1> SUFFICES ASSUME B # {} PROVE FALSE BY <1>1
  <1>2. PICK s \in B : \A t \in SUBSET s : t # s => t \notin B
    <2>1. B \in SUBSET SUBSET S BY <1>1
    <2> QED BY <2>1, Minimal
  <1>3. s \in SUBSET S /\ SumFunctionOnSet(f, s) # 0 /\ IsFiniteSet(s) BY <1>1, FS_Subset
  <1>4. SumFunctionOnSet(f, s) = IF s = {} THEN 0 ELSE f[First(s)] + SumFunctionOnSet(f, Rest(s))
    BY <1>3, SumUnfolds
  <1>5. s # {} BY <1>3, <1>4
  <1>6. First(s) \in S /\ Rest(s) \in SUBSET s /\ Rest(s) # s BY <1>3, <1>5, FirstAndRest
  <1>7. SumFunctionOnSet(f, Rest(s)) = 0 BY <1>1, <1>2, <1>3, <1>6
  <1> QED BY <1>3, <1>4, <1>5, <1>6, <1>7

-----------------------------------------------------------------------------
(* The mutex.                                                              *)

Request ==
    [at : {"idle", "begun", "queued", "measuring", "walking", "staging", "committed"},
     path : (Accounts \X Files) \cup {NoPath}, mutex : Mutexes \cup {NoMutex},
     expected : Sizes \cup {NoSize}, replaced : Nat, room : Nat]

\* The part of the state the mutex depends on, by its shape.
Shapes ==
    /\ stored \in [Accounts -> [Files -> Nat]]
    /\ held \in [Accounts -> Mutexes \cup {NoMutex}]
    /\ put \in [Requests -> Request]

\* Whoever waits or writes has the mutex the map has for its account: the map
\* forgets a mutex only when nobody else has a handle on it.
Mapped ==
    \A r \in Requests :
        /\ At(r, "begun") => put[r].path \in Accounts \X Files
        /\ ~At(r, "idle") /\ ~At(r, "begun") =>
             /\ put[r].path \in Accounts \X Files
             /\ put[r].mutex \in Mutexes /\ held[Acct(r)] = put[r].mutex

\* A mutex has one owner.
Exclusive ==
    \A r, o \in Requests : r # o /\ Inside(r) /\ Inside(o) => put[r].mutex # put[o].mutex

IInv == Shapes /\ Mapped /\ Exclusive

LEMMA Invariant == Spec => []IInv
<1>1. Init => IInv
  <2> SUFFICES ASSUME Init PROVE IInv
    OBVIOUS
  <2>1. Idle \in Request
    BY DEF Idle, Request, NoPath, NoMutex, NoSize
  <2>2. \A r \in Requests : put[r].at = "idle"
    BY DEF Init, Idle
  <2> QED
    BY <2>1, <2>2 DEF Init, IInv, Shapes, Mapped, Exclusive, At, Inside
<1>2. ASSUME IInv, [Next]_vars PROVE IInv'
  <2> USE DEF At, Acct
  <2>0. CASE UNCHANGED vars
    BY <1>2, <2>0 DEF vars, IInv, Shapes, Mapped, Exclusive, Inside
  <2>1. ASSUME NEW r \in Requests, NEW a \in Accounts, NEW f \in Files, Begin(r, a, f)
        PROVE  IInv'
    <3>1. PICK n \in Sizes \cup {NoSize} :
            put' = [put EXCEPT ![r] = [Idle EXCEPT !.at = "begun", !.path = <<a, f>>, !.expected = n]]
      BY <2>1 DEF Begin
    <3> DEFINE b == [Idle EXCEPT !.at = "begun", !.path = <<a, f>>, !.expected = n]
    <3>2. b \in Request /\ b.at = "begun" /\ b.path = <<a, f>>
      <4>1. Idle \in Request
        BY DEF Idle, Request, NoPath, NoMutex, NoSize
      <4>2. \A p \in Accounts \X Files :
              LET x == [Idle EXCEPT !.at = "begun", !.path = p, !.expected = n]
              IN  x \in Request /\ x.at = "begun" /\ x.path = p
        BY <4>1 DEF Request
      <4>3. <<a, f>> \in Accounts \X Files
        OBVIOUS
      <4> QED
        BY <4>2, <4>3
    <3> HIDE DEF b
    <3>3. put' = [put EXCEPT ![r] = b] /\ held' = held /\ stored' = stored
      BY <2>1, <3>1 DEF Begin, b
    <3>4. put'[r] = b /\ \A o \in Requests \ {r} : put'[o] = put[o]
      BY <1>2, <3>3 DEF IInv, Shapes
    <3>5. Shapes'
      BY <1>2, <3>2, <3>3 DEF IInv, Shapes
    <3>6. Mapped'
      BY <1>2, <3>2, <3>3, <3>4, <<a, f>> \in Accounts \X Files DEF IInv, Mapped
    <3>7. Exclusive'
      BY <1>2, <3>2, <3>4 DEF IInv, Exclusive, Inside
    <3> QED
      BY <3>5, <3>6, <3>7 DEF IInv
  <2>2. ASSUME NEW r \in Requests, Queue(r) PROVE IInv'
    <3>0. put[r] \in Request /\ put[r].path \in Accounts \X Files /\ Acct(r) \in Accounts
      BY <1>2, <2>2 DEF IInv, Shapes, Mapped, Queue
    <3>1. PICK m \in Mutexes :
            /\ IF held[Acct(r)] = NoMutex
               THEN Handles(m) = {} /\ \A a \in Accounts : held[a] # m
               ELSE m = held[Acct(r)]
            /\ held' = [held EXCEPT ![Acct(r)] = m]
            /\ put' = [put EXCEPT ![r].at = "queued", ![r].mutex = m]
      BY <2>2 DEF Queue
    <3> DEFINE b == [put[r] EXCEPT !.at = "queued", !.mutex = m]
    <3>2. b \in Request /\ b.at = "queued" /\ b.path = put[r].path /\ b.mutex = m
      BY <3>0 DEF Request
    <3>3. put' = [put EXCEPT ![r] = b] /\ stored' = stored
      BY <2>2, <3>1, <1>2 DEF Queue, IInv, Shapes
    <3> HIDE DEF b
    <3>4. put'[r] = b /\ \A o \in Requests \ {r} : put'[o] = put[o]
      BY <1>2, <3>3 DEF IInv, Shapes
    <3>5. Shapes'
      BY <1>2, <3>0, <3>1, <3>2, <3>3 DEF IInv, Shapes
    <3>6. ASSUME NEW o \in Requests, o # r, ~At(o, "idle"), ~At(o, "begun")
          PROVE  held'[Acct(o)] = put[o].mutex
      <4>1. put[o].path \in Accounts \X Files /\ put[o].mutex \in Mutexes
            /\ held[Acct(o)] = put[o].mutex /\ Acct(o) \in Accounts
        BY <1>2, <3>6 DEF IInv, Mapped
      <4>2. CASE Acct(o) = Acct(r)
        <5>1. held[Acct(r)] # NoMutex
          BY <4>1, <4>2, HistoryAssumption DEF NoMutex
        <5> QED
          BY <5>1, <4>1, <4>2, <3>0, <3>1, <1>2 DEF IInv, Shapes
      <4>3. CASE Acct(o) # Acct(r)
        BY <4>1, <4>3, <3>0, <3>1, <1>2 DEF IInv, Shapes
      <4> QED
        BY <4>2, <4>3
    <3>7. held'[Acct(r)] = m
      BY <3>0, <3>1, <1>2 DEF IInv, Shapes
    <3>8. Mapped'
      BY <1>2, <3>0, <3>2, <3>4, <3>6, <3>7 DEF IInv, Mapped
    <3>9. Exclusive'
      BY <1>2, <3>2, <3>4 DEF IInv, Exclusive, Inside
    <3> QED
      BY <3>5, <3>8, <3>9 DEF IInv
  <2>3. ASSUME NEW r \in Requests, Acquire(r) PROVE IInv'
    <3>0. put[r] \in Request /\ put[r].at = "queued"
      BY <1>2, <2>3 DEF IInv, Shapes, Acquire
    <3> DEFINE b == [put[r] EXCEPT !.at = "measuring"]
    <3>1. b \in Request /\ b.at = "measuring" /\ b.path = put[r].path /\ b.mutex = put[r].mutex
      BY <3>0 DEF Request
    <3>2. put' = [put EXCEPT ![r] = b] /\ stored' = stored /\ held' = held
      BY <2>3 DEF Acquire
    <3> HIDE DEF b
    <3>3. put'[r] = b /\ \A o \in Requests \ {r} : put'[o] = put[o]
      BY <1>2, <3>2 DEF IInv, Shapes
    <3>4. Shapes'
      BY <1>2, <3>1, <3>2 DEF IInv, Shapes
    <3>5. Mapped'
      BY <1>2, <3>0, <3>1, <3>2, <3>3 DEF IInv, Mapped
    <3>6. \A o \in Requests \ {r} : Inside(o) => put[o].mutex # put[r].mutex
      BY <2>3 DEF Acquire, Handles
    <3>7. Exclusive'
      BY <1>2, <3>1, <3>3, <3>6 DEF IInv, Exclusive, Inside
    <3> QED
      BY <3>4, <3>5, <3>7 DEF IInv
  <2>4. ASSUME NEW r \in Requests, Before(r) \/ Measure(r) \/ Publish(r) PROVE IInv'
    <3>0. put[r] \in Request /\ Inside(r) /\ put[r].path \in Accounts \X Files
          /\ Acct(r) \in Accounts /\ put[r].path[2] \in Files
      BY <1>2, <2>4 DEF IInv, Shapes, Mapped, Before, Measure, Publish, Inside
    <3>1. \E b \in Request :
            /\ put' = [put EXCEPT ![r] = b]
            /\ b.at \in {"walking", "staging", "committed"}
            /\ b.path = put[r].path /\ b.mutex = put[r].mutex
      <4>1. CASE Before(r)
        <5> DEFINE b == [put[r] EXCEPT !.at = "walking", !.replaced = stored[Acct(r)][put[r].path[2]]]
        <5>1. stored[Acct(r)][put[r].path[2]] \in Nat
          BY <1>2, <3>0 DEF IInv, Shapes
        <5>2. b \in Request /\ b.at = "walking" /\ b.path = put[r].path /\ b.mutex = put[r].mutex
          BY <3>0, <5>1 DEF Request
        <5>3. put' = [put EXCEPT ![r] = b]
          BY <4>1, <1>2 DEF Before, IInv, Shapes
        <5> QED
          BY <5>2, <5>3
      <4>2. CASE Measure(r)
        <5>0. PICK room \in 0..MaxTotal :
                put' = [put EXCEPT ![r].at = "staging", ![r].room = room]
          BY <4>2 DEF Measure
        <5> DEFINE b == [put[r] EXCEPT !.at = "staging", !.room = room]
        <5>1. room \in Nat
          OBVIOUS
        <5>2. b \in Request /\ b.at = "staging" /\ b.path = put[r].path /\ b.mutex = put[r].mutex
          BY <3>0, <5>1 DEF Request
        <5>3. put' = [put EXCEPT ![r] = b]
          BY <5>0, <1>2 DEF IInv, Shapes
        <5> QED
          BY <5>2, <5>3
      <4>3. CASE Publish(r)
        <5> DEFINE b == [put[r] EXCEPT !.at = "committed"]
        <5>2. b \in Request /\ b.at = "committed" /\ b.path = put[r].path /\ b.mutex = put[r].mutex
          BY <3>0 DEF Request
        <5>3. put' = [put EXCEPT ![r] = b]
          BY <4>3 DEF Publish
        <5> QED
          BY <5>2, <5>3
      <4> QED
        BY <2>4, <4>1, <4>2, <4>3
    <3>2. PICK b \in Request :
            /\ put' = [put EXCEPT ![r] = b]
            /\ b.at \in {"walking", "staging", "committed"}
            /\ b.path = put[r].path /\ b.mutex = put[r].mutex
      BY <3>1
    <3>3. held' = held /\ stored' \in [Accounts -> [Files -> Nat]]
      <4>1. CASE Before(r) \/ Measure(r)
        BY <4>1, <1>2 DEF Before, Measure, IInv, Shapes
      <4>2. CASE Publish(r)
        <5>1. PICK n \in Sizes : stored' = [stored EXCEPT ![Acct(r)][put[r].path[2]] = n]
          BY <4>2 DEF Publish
        <5>2. n \in Nat
          BY HistoryAssumption
        <5> QED
          BY <5>1, <5>2, <4>2, <3>0, <1>2 DEF Publish, IInv, Shapes
      <4> QED
        BY <2>4, <4>1, <4>2
    <3>4. put'[r] = b /\ \A o \in Requests \ {r} : put'[o] = put[o]
      BY <1>2, <3>2 DEF IInv, Shapes
    <3>5. Shapes'
      BY <1>2, <3>2, <3>3 DEF IInv, Shapes
    <3>6. Mapped'
      BY <1>2, <3>0, <3>2, <3>3, <3>4 DEF IInv, Mapped, Inside
    <3>7. Exclusive'
      BY <1>2, <3>0, <3>2, <3>4 DEF IInv, Exclusive, Inside
    <3> QED
      BY <3>5, <3>6, <3>7 DEF IInv
  <2>5. ASSUME NEW r \in Requests, End(r) PROVE IInv'
    <3>1. Idle \in Request /\ Idle.at = "idle"
      BY DEF Idle, Request, NoPath, NoMutex, NoSize
    <3> HIDE DEF Idle
    <3>2. put' = [put EXCEPT ![r] = Idle] /\ stored' = stored /\ held' = Forgotten(r)
      BY <2>5 DEF End
    <3>3. put'[r] = Idle /\ \A o \in Requests \ {r} : put'[o] = put[o]
      BY <1>2, <3>2 DEF IInv, Shapes
    <3>4. Shapes'
      BY <1>2, <3>1, <3>2 DEF IInv, Shapes, Forgotten
    <3>5. ASSUME NEW o \in Requests, o # r, ~At(o, "idle"), ~At(o, "begun")
          PROVE  held'[Acct(o)] = put[o].mutex
      <4>1. Acct(o) \in Accounts /\ held[Acct(o)] = put[o].mutex
        BY <1>2, <3>5 DEF IInv, Mapped
      <4>2. CASE Inside(r) /\ Handles(put[r].mutex) = {r}
        <5>1. Acct(r) \in Accounts /\ held[Acct(r)] = put[r].mutex
          BY <1>2, <4>2 DEF IInv, Mapped, Inside
        <5>2. Acct(o) # Acct(r)
          BY <4>1, <4>2, <5>1, <3>5 DEF Handles
        <5> QED
          BY <4>1, <4>2, <5>1, <5>2, <3>2, <1>2 DEF Forgotten, IInv, Shapes
      <4>3. CASE ~(Inside(r) /\ Handles(put[r].mutex) = {r})
        BY <4>1, <4>3, <3>2 DEF Forgotten
      <4> QED
        BY <4>2, <4>3
    <3>6. Mapped'
      BY <1>2, <3>1, <3>3, <3>5 DEF IInv, Mapped
    <3>7. Exclusive'
      BY <1>2, <3>1, <3>3 DEF IInv, Exclusive, Inside
    <3> QED
      BY <3>4, <3>6, <3>7 DEF IInv
  <2>6. ASSUME NEW a \in Accounts, NEW f \in Files, Delete(a, f) PROVE IInv'
    BY <1>2, <2>6 DEF Delete, IInv, Shapes, Mapped, Exclusive, Inside
  <2> QED
    BY <1>2, <2>0, <2>1, <2>2, <2>3, <2>4, <2>5, <2>6 DEF Next, Step
<1> QED
  BY <1>1, <1>2, PTL DEF Spec

\* At most one upload of an account is between its measure and its end, however
\* many accounts, uploads and mutexes there are (AccountWriteLocks::lock and
\* AccountWriteGuard::drop).
THEOREM OneWriter == Spec => []OneHistoryWriter
<1>1. IInv => OneHistoryWriter
  <2> SUFFICES ASSUME IInv, NEW r \in Requests, NEW o \in Requests,
                      r # o, Inside(r), Inside(o), Acct(r) = Acct(o)
               PROVE  FALSE
    BY DEF OneHistoryWriter
  <2>1. put[r].mutex = held[Acct(r)] /\ put[o].mutex = held[Acct(o)]
    BY DEF IInv, Mapped, Inside, At
  <2> QED
    BY <2>1 DEF IInv, Exclusive
<1> QED
  BY <1>1, Invariant, PTL

-----------------------------------------------------------------------------
(* The quota.                                                              *)

\* A write lock is of a file of an account (put_inner).
LEMMA LockedType == IInv /\ locked \subseteq Accounts \X Files /\ Next => (locked \subseteq Accounts \X Files)'
  <1> SUFFICES ASSUME IInv, locked \subseteq Accounts \X Files, Next
               PROVE  locked' \subseteq Accounts \X Files
    OBVIOUS
  <1>1. ASSUME NEW r \in Requests, NEW a \in Accounts, NEW f \in Files, Begin(r, a, f)
        PROVE  locked' \subseteq Accounts \X Files
    BY <1>1 DEF Begin
  <1>2. ASSUME NEW r \in Requests, End(r) PROVE locked' \subseteq Accounts \X Files
    BY <1>2 DEF End
  <1>3. ASSUME NEW r \in Requests, Step(r) \/ Acquire(r) PROVE locked' \subseteq Accounts \X Files
    BY <1>3 DEF Step, Acquire, Queue, Before, Measure, Publish
  <1>4. ASSUME NEW a \in Accounts, NEW f \in Files, Delete(a, f)
        PROVE  locked' \subseteq Accounts \X Files
    BY <1>4 DEF Delete
  <1> QED BY <1>1, <1>2, <1>3, <1>4 DEF Next

\* Uploads, locks, mutexes and stored sizes keep their types, of any accounts, files and uploads
\* (put_inner, AccountWriteLocks::lock, delete_file).
THEOREM TypeCorrect == Spec => []TypeOK
  <1>1. Init => locked \subseteq Accounts \X Files BY DEF Init
  <1>2. IInv /\ locked \subseteq Accounts \X Files /\ [Next]_vars => (locked \subseteq Accounts \X Files)'
    BY LockedType DEF vars
  <1>3. IInv /\ locked \subseteq Accounts \X Files => TypeOK BY DEF IInv, Shapes, Request, TypeOK
  <1> QED BY <1>1, <1>2, <1>3, Invariant, PTL DEF Spec

\* Requests under way have their paths' locks, each its own.
PathsOK ==
    /\ \A r \in Requests : ~At(r, "idle") => put[r].path \in locked \cap (Accounts \X Files)
    /\ \A r, o \in Requests : r # o /\ ~At(r, "idle") /\ ~At(o, "idle") => put[r].path # put[o].path

\* The file a request is to replace, as it is.
Old(r) == stored[Acct(r)][put[r].path[2]]

\* What a request measured stays true until it publishes: its file is as it was, and the rest of
\* the account's tree leaves the room it was given.
RoomOK ==
    \A r \in Requests :
        /\ put[r].at = "walking" => put[r].replaced = Old(r)
        /\ put[r].at = "staging" => HistoryBytes(Acct(r)) - Old(r) + put[r].room <= MaxTotal

\* A request in progress goes on from where it is; its path stays.
LEMMA GoesOn ==
    ASSUME IInv, NEW r \in Requests, Step(r) \/ Acquire(r)
    PROVE  /\ put[r].at # "idle" /\ locked' = locked
           /\ \A o \in Requests : put'[o].path = put[o].path
           /\ put'[r].at # "idle" /\ \A o \in Requests \ {r} : put'[o] = put[o]
  <1>0. put \in [Requests -> Request] /\ put[r] \in Request BY DEF IInv, Shapes
  <1>1. locked' = locked BY DEF Step, Acquire, Queue, Before, Measure, Publish
  <1>2. ASSUME NEW b, put' = [put EXCEPT ![r] = b], b.path = put[r].path, b.at # "idle", put[r].at # "idle"
        PROVE  /\ put[r].at # "idle"
               /\ \A o \in Requests : put'[o].path = put[o].path
               /\ put'[r].at # "idle" /\ \A o \in Requests \ {r} : put'[o] = put[o]
    BY <1>0, <1>2
  <1>3. CASE Queue(r)
    <2>1. PICK m \in Mutexes : put' = [put EXCEPT ![r].at = "queued", ![r].mutex = m] BY <1>3 DEF Queue
    <2> DEFINE b == [put[r] EXCEPT !.at = "queued", !.mutex = m]
    <2>2. put' = [put EXCEPT ![r] = b] BY <1>0, <2>1
    <2>3. b.path = put[r].path /\ b.at = "queued" /\ put[r].at = "begun" BY <1>0, <1>3 DEF Request, Queue, At
    <2> QED BY <1>1, <1>2, <2>2, <2>3
  <1>4. CASE Acquire(r)
    <2> DEFINE b == [put[r] EXCEPT !.at = "measuring"]
    <2>1. put' = [put EXCEPT ![r] = b] BY <1>4 DEF Acquire
    <2>2. b.path = put[r].path /\ b.at = "measuring" /\ put[r].at = "queued" BY <1>0, <1>4 DEF Request, Acquire, At
    <2> QED BY <1>1, <1>2, <2>1, <2>2
  <1>5. CASE Before(r)
    <2> DEFINE b == [put[r] EXCEPT !.at = "walking", !.replaced = stored[Acct(r)][put[r].path[2]]]
    <2>1. put' = [put EXCEPT ![r] = b] BY <1>0, <1>5 DEF Before
    <2>2. b.path = put[r].path /\ b.at = "walking" /\ put[r].at = "measuring" BY <1>0, <1>5 DEF Request, Before, At
    <2> QED BY <1>1, <1>2, <2>1, <2>2
  <1>6. CASE Measure(r)
    <2>1. PICK room : put' = [put EXCEPT ![r].at = "staging", ![r].room = room] BY <1>6 DEF Measure
    <2> DEFINE b == [put[r] EXCEPT !.at = "staging", !.room = room]
    <2>2. put' = [put EXCEPT ![r] = b] BY <1>0, <2>1
    <2>3. b.path = put[r].path /\ b.at = "staging" /\ put[r].at = "walking" BY <1>0, <1>6 DEF Request, Measure, At
    <2> QED BY <1>1, <1>2, <2>2, <2>3
  <1>7. CASE Publish(r)
    <2> DEFINE b == [put[r] EXCEPT !.at = "committed"]
    <2>1. put' = [put EXCEPT ![r] = b] BY <1>7 DEF Publish
    <2>2. b.path = put[r].path /\ b.at = "committed" /\ put[r].at = "staging" BY <1>0, <1>7 DEF Request, Publish, At
    <2> QED BY <1>1, <1>2, <2>1, <2>2
  <1> QED BY <1>3, <1>4, <1>5, <1>6, <1>7 DEF Step

LEMMA PathsKept == ASSUME IInv, PathsOK, Next PROVE PathsOK'
  <1> USE DEF At
  <1>0. put \in [Requests -> Request] BY DEF IInv, Shapes
  <1>1. ASSUME NEW r \in Requests, NEW a \in Accounts, NEW f \in Files, Begin(r, a, f) PROVE PathsOK'
    <2>1. PICK n : put' = [put EXCEPT ![r] = [Idle EXCEPT !.at = "begun", !.path = <<a, f>>, !.expected = n]]
      BY <1>1 DEF Begin
    <2>2. put'[r].path = <<a, f>> /\ \A o \in Requests \ {r} : put'[o] = put[o]
      BY <1>0, <2>1 DEF Idle
    <2>3. locked' = locked \cup {<<a, f>>} /\ <<a, f>> \notin locked BY <1>1 DEF Begin
    <2> QED BY <2>2, <2>3 DEF PathsOK
  <1>2. ASSUME NEW r \in Requests, Step(r) \/ Acquire(r) PROVE PathsOK'
    BY <1>2, GoesOn DEF PathsOK
  <1>3. ASSUME NEW r \in Requests, End(r) PROVE PathsOK'
    <2>1. put' = [put EXCEPT ![r] = Idle] /\ locked' = locked \ {put[r].path} /\ put[r].at # "idle"
      BY <1>3 DEF End
    <2>2. put'[r].at = "idle" /\ \A o \in Requests \ {r} : put'[o] = put[o] BY <1>0, <2>1 DEF Idle
    <2> QED BY <2>1, <2>2 DEF PathsOK
  <1>4. ASSUME NEW a \in Accounts, NEW f \in Files, Delete(a, f) PROVE PathsOK'
    BY <1>4 DEF Delete, PathsOK
  <1> QED BY <1>1, <1>2, <1>3, <1>4 DEF Next

\* One file's size changes the sum of its account, and no other.
LEMMA BytesChange ==
    ASSUME IInv, NEW a \in Accounts, NEW f \in Files, NEW n \in Nat, stored' = [stored EXCEPT ![a][f] = n]
    PROVE  /\ HistoryBytes(a)' + stored[a][f] = HistoryBytes(a) + n
           /\ stored'[a][f] = n
           /\ \A b \in Accounts \ {a} : HistoryBytes(b)' = HistoryBytes(b) /\ stored'[b] = stored[b]
           /\ \A g \in Files \ {f} : stored'[a][g] = stored[a][g]
  <1>1. stored[a] \in [Files -> Nat] /\ IsFiniteSet(Files) BY HistoryAssumption DEF IInv, Shapes
  <1>2. stored'[a] = [stored[a] EXCEPT ![f] = n] /\ \A b \in Accounts \ {a} : stored'[b] = stored[b]
    BY DEF IInv, Shapes
  <1>3. SumFunctionOnSet(stored'[a], Files) + stored[a][f] = SumFunctionOnSet(stored[a], Files) + n
    BY <1>1, <1>2, SumChange
  <1> QED BY <1>1, <1>2, <1>3 DEF HistoryBytes

\* An account's sum is a number, and no file in it is larger.
LEMMA BytesCover ==
    ASSUME IInv, NEW a \in Accounts, NEW f \in Files
    PROVE  HistoryBytes(a) \in Nat /\ stored[a][f] \in Nat /\ stored[a][f] <= HistoryBytes(a)
  <1>1. stored[a] \in [Files -> Nat] /\ IsFiniteSet(Files) BY HistoryAssumption DEF IInv, Shapes
  <1>2. PICK g : g = [stored[a] EXCEPT ![f] = 0] OBVIOUS
  <1>3. g \in [Files -> Nat] BY <1>1, <1>2
  <1>4. SumFunctionOnSet(g, Files) + stored[a][f] = SumFunctionOnSet(stored[a], Files) + 0
    BY <1>1, <1>2, SumChange
  <1>5. SumFunctionOnSet(g, Files) \in Nat /\ SumFunctionOnSet(stored[a], Files) \in Nat
    BY <1>1, <1>3, SumType
  <1>6. stored[a][f] \in Nat BY <1>1
  <1> QED BY <1>4, <1>5, <1>6 DEF HistoryBytes

\* Requests that measure or write are in different accounts.
LEMMA OtherAccount ==
    ASSUME IInv, NEW r \in Requests, NEW o \in Requests, r # o, Inside(r), Inside(o)
    PROVE  Acct(r) # Acct(o)
  BY DEF IInv, Exclusive, Mapped, Inside, At

RoomInv == IInv /\ PathsOK /\ RoomOK /\ QuotaHolds

\* A step that leaves the files alone leaves the rooms of the requests it is not about.
LEMMA RoomStays ==
    ASSUME RoomInv, NEW r \in Requests, stored' = stored, \A o \in Requests \ {r} : put'[o] = put[o],
           put'[r].at \notin {"walking", "staging"}
    PROVE  RoomOK' /\ QuotaHolds'
  <1>1. \A a \in Accounts : HistoryBytes(a)' = HistoryBytes(a) BY DEF HistoryBytes
  <1>2. QuotaHolds' BY <1>1 DEF RoomInv, QuotaHolds
  <1>3. ASSUME NEW o \in Requests, o # r,  put[o].at \in {"walking", "staging"}
        PROVE  /\ put[o].at = "walking" => put[o].replaced = Old(o)'
               /\ put[o].at = "staging" => HistoryBytes(Acct(o))' - Old(o)' + put[o].room <= MaxTotal
    <2>1. Old(o)' = Old(o) /\ HistoryBytes(Acct(o))' = HistoryBytes(Acct(o)) 
      BY <1>3 DEF Old, HistoryBytes, Acct
    <2> QED BY <2>1 DEF RoomInv, RoomOK
  <1> QED BY <1>2, <1>3 DEF RoomOK

LEMMA RoomKept == ASSUME RoomInv, Next PROVE RoomOK' /\ QuotaHolds'
  <1> USE DEF At
  <1>0. /\ put \in [Requests -> Request] /\ stored \in [Accounts -> [Files -> Nat]]
        /\ IInv /\ PathsOK /\ RoomOK /\ QuotaHolds
    BY DEF RoomInv, IInv, Shapes
  <1>a. ASSUME NEW r \in Requests, put[r].at # "idle"
        PROVE  Acct(r) \in Accounts /\ put[r].path[2] \in Files /\ put[r].path = <<Acct(r), put[r].path[2]>>
    BY <1>0, <1>a DEF PathsOK, Acct
  <1>1. ASSUME NEW r \in Requests, NEW a \in Accounts, NEW f \in Files, Begin(r, a, f)
        PROVE  RoomOK' /\ QuotaHolds'
    <2>1. PICK n : put' = [put EXCEPT ![r] = [Idle EXCEPT !.at = "begun", !.path = <<a, f>>, !.expected = n]]
      BY <1>1 DEF Begin
    <2>2. put'[r].at = "begun" /\ \A o \in Requests \ {r} : put'[o] = put[o]
      BY <1>0, <2>1 DEF Idle
    <2> QED BY <1>1, <2>2, RoomStays DEF Begin
  <1>2. ASSUME NEW r \in Requests, Queue(r) \/ Acquire(r) PROVE RoomOK' /\ QuotaHolds'
    <2>1. stored' = stored BY <1>2 DEF Queue, Acquire
    <2>2. CASE Queue(r)
      <3>1. PICK m : put' = [put EXCEPT ![r].at = "queued", ![r].mutex = m] BY <2>2 DEF Queue
      <3>2. put'[r].at = "queued" BY <1>0, <3>1 DEF Request
      <3> QED BY <1>0, <2>1, <2>2, <3>2, GoesOn, RoomStays DEF Step
    <2>3. CASE Acquire(r)
      <3>1. put'[r].at = "measuring" BY <1>0, <2>3 DEF Acquire, Request
      <3> QED BY <1>0, <2>1, <2>3, <3>1, GoesOn, RoomStays
    <2> QED BY <1>2, <2>2, <2>3
  <1>3. ASSUME NEW r \in Requests, End(r) PROVE RoomOK' /\ QuotaHolds'
    <2>1. put' = [put EXCEPT ![r] = Idle] /\ stored' = stored BY <1>3 DEF End
    <2>2. put'[r].at = "idle" /\ \A o \in Requests \ {r} : put'[o] = put[o] BY <1>0, <2>1 DEF Idle
    <2> QED BY <2>1, <2>2, RoomStays
  <1>4. ASSUME NEW r \in Requests, Before(r) \/ Measure(r) PROVE RoomOK' /\ QuotaHolds'
    <2>1. stored' = stored /\ put[r].at \in {"measuring", "walking"} BY <1>4 DEF Before, Measure
    <2>2. /\ \A o \in Requests : put'[o].path = put[o].path
          /\ \A o \in Requests \ {r} : put'[o] = put[o]
      BY <1>0, <1>4, GoesOn DEF Step
    <2>3. \A a \in Accounts : HistoryBytes(a)' = HistoryBytes(a) BY <2>1 DEF HistoryBytes
    <2>4. QuotaHolds' BY <1>0, <2>3 DEF QuotaHolds
    <2>5. \A o \in Requests : put[o].at # "idle" => Old(o)' = Old(o) /\ HistoryBytes(Acct(o))' = HistoryBytes(Acct(o))
      BY <2>1, <2>2, <2>3 DEF Old, HistoryBytes, Acct
    <2>6. CASE Before(r)
      <3>1. put'[r].at = "walking" /\ put'[r].replaced = Old(r) BY <1>0, <2>6 DEF Before, Request, Old
      <3> QED BY <1>0, <2>1, <2>2, <2>4, <2>5, <3>1 DEF RoomOK
    <2>7. CASE Measure(r)
      <3>1. put'[r].at = "staging" /\ put'[r].room = Room(r) BY <1>0, <2>7 DEF Measure, Request
      <3>2. put[r].replaced = Old(r) BY <1>0, <2>7 DEF Measure, RoomOK
      <3>3. HistoryBytes(Acct(r)) \in Nat /\ Old(r) \in Nat /\ Old(r) <= HistoryBytes(Acct(r))
        BY <1>0, <1>a, <2>1, BytesCover DEF Old
      <3>4. HistoryBytes(Acct(r)) <= MaxTotal /\ MaxTotal \in Nat
        BY <1>0, <1>a, <2>1, HistoryAssumption DEF QuotaHolds
      <3>5. Room(r) = MaxTotal - (HistoryBytes(Acct(r)) - Old(r)) BY <3>2, <3>3, <3>4 DEF Room, Monus
      <3>6. HistoryBytes(Acct(r)) - Old(r) + Room(r) <= MaxTotal BY <3>3, <3>4, <3>5
      <3> QED BY <1>0, <2>1, <2>2, <2>4, <2>5, <3>1, <3>6 DEF RoomOK
    <2> QED BY <1>4, <2>6, <2>7
  <1>5. ASSUME NEW r \in Requests, Publish(r) PROVE RoomOK' /\ QuotaHolds'
    <2>0. put[r].at = "staging" /\ Inside(r) BY <1>5 DEF Publish, Inside
    <2>1. PICK n \in Sizes : /\ Check(n, put[r].room)
                             /\ stored' = [stored EXCEPT ![Acct(r)][put[r].path[2]] = n]
      BY <1>5 DEF Publish
    <2>2. /\ \A o \in Requests : put'[o].path = put[o].path
          /\ \A o \in Requests \ {r} : put'[o] = put[o]
      BY <1>0, <1>5, GoesOn DEF Step
    <2>3. put'[r].at = "committed" BY <1>0, <1>5 DEF Publish
    <2>4. n \in Nat /\ n <= put[r].room /\ put[r].room \in Nat
      BY <1>0, <2>1, HistoryAssumption DEF Check, Request
    <2>5. Acct(r) \in Accounts /\ put[r].path[2] \in Files BY <1>a, <2>0
    <2>7. PICK a, f : a = Acct(r) /\ f = put[r].path[2] OBVIOUS
    <2>8. /\ HistoryBytes(a)' + stored[a][f] = HistoryBytes(a) + n
          /\ \A b \in Accounts \ {a} : HistoryBytes(b)' = HistoryBytes(b) /\ stored'[b] = stored[b]
      <3>1. a \in Accounts /\ f \in Files /\ stored' = [stored EXCEPT ![a][f] = n] BY <2>1, <2>5, <2>7
      <3> QED BY <1>0, <2>4, <3>1, BytesChange
    <2>9. HistoryBytes(a) - stored[a][f] + put[r].room <= MaxTotal BY <1>0, <2>0, <2>7 DEF RoomOK, Old
    <2>10. HistoryBytes(a)' <= MaxTotal
      <3>1. HistoryBytes(a)' \in Nat
        <4>1. stored'[a] \in [Files -> Nat] BY <1>0, <2>1, <2>4, <2>5, <2>7
        <4>2. SumFunctionOnSet(stored'[a], Files) \in Nat BY <4>1, HistoryAssumption, SumType
        <4> QED BY <4>2 DEF HistoryBytes
      <3>2. HistoryBytes(a) \in Nat /\ stored[a][f] \in Nat BY <1>0, <2>5, <2>7, BytesCover
      <3>3. MaxTotal \in Nat BY HistoryAssumption
      <3>4. HistoryBytes(a)' + stored[a][f] = HistoryBytes(a) + n BY <2>8
      <3> QED BY <2>4, <2>9, <3>1, <3>2, <3>3, <3>4
    <2>11. QuotaHolds' BY <1>0, <2>8, <2>10 DEF QuotaHolds
    <2>12. ASSUME NEW o \in Requests, o # r, put[o].at \in {"walking", "staging"}
           PROVE  Old(o)' = Old(o) /\ HistoryBytes(Acct(o))' = HistoryBytes(Acct(o))
      <3>1. Acct(o) # a /\ Acct(o) \in Accounts BY <1>0, <1>a, <2>0, <2>7, <2>12, OtherAccount DEF Inside
      <3>2. stored'[Acct(o)] = stored[Acct(o)] /\ put'[o] = put[o] BY <2>2, <2>8, <2>12, <3>1
      <3> QED BY <3>2 DEF Old, Acct, HistoryBytes
    <2>13. RoomOK' BY <1>0, <2>2, <2>3, <2>12 DEF RoomOK
    <2> QED BY <2>11, <2>13
  <1>6. ASSUME NEW a \in Accounts, NEW f \in Files, Delete(a, f) PROVE RoomOK' /\ QuotaHolds'
    <2>1. stored' = [stored EXCEPT ![a][f] = 0] /\ put' = put /\ <<a, f>> \notin locked BY <1>6 DEF Delete
    <2>2. /\ HistoryBytes(a)' + stored[a][f] = HistoryBytes(a) + 0
          /\ \A b \in Accounts \ {a} : HistoryBytes(b)' = HistoryBytes(b) /\ stored'[b] = stored[b]
          /\ \A g \in Files \ {f} : stored'[a][g] = stored[a][g]
      BY <1>0, <2>1, BytesChange
    <2>3. HistoryBytes(a) \in Nat /\ stored[a][f] \in Nat BY <1>0, BytesCover
    <2>4. HistoryBytes(a)' \in Nat
      <3>1. stored'[a] \in [Files -> Nat] BY <1>0, <2>1
      <3>2. SumFunctionOnSet(stored'[a], Files) \in Nat BY <3>1, HistoryAssumption, SumType
      <3> QED BY <3>2 DEF HistoryBytes
    <2>5. HistoryBytes(a)' <= HistoryBytes(a) BY <2>2, <2>3, <2>4
    <2>6. QuotaHolds'
      <3>1. HistoryBytes(a)' <= MaxTotal
        <4>1. HistoryBytes(a) <= MaxTotal BY <1>0 DEF QuotaHolds
        <4>2. MaxTotal \in Nat BY HistoryAssumption
        <4> QED BY <2>3, <2>4, <2>5, <4>1, <4>2
      <3>2. ASSUME NEW b \in Accounts, b # a PROVE HistoryBytes(b)' <= MaxTotal
        BY <1>0, <2>2, <3>2 DEF QuotaHolds
      <3> QED BY <3>1, <3>2 DEF QuotaHolds
    <2>7. ASSUME NEW o \in Requests, put[o].at \in {"walking", "staging"}
          PROVE  Old(o)' = Old(o) /\ HistoryBytes(Acct(o))' <= HistoryBytes(Acct(o))
      <3>1. Acct(o) \in Accounts /\ put[o].path = <<Acct(o), put[o].path[2]>> /\ put[o].path[2] \in Files
        BY <1>a, <2>7
      <3>2. put[o].path # <<a, f>> BY <1>0, <2>1, <2>7 DEF PathsOK
      <3>3. put'[o] = put[o] BY <2>1
      <3>4. PICK b, g : b = Acct(o) /\ g = put[o].path[2] OBVIOUS
      <3>5. stored'[b][g] = stored[b][g] BY <2>2, <3>1, <3>2, <3>4
      <3>6. HistoryBytes(b)' <= HistoryBytes(b) /\ HistoryBytes(b) \in Nat
        BY <1>0, <2>2, <2>5, <3>1, <3>4, BytesCover
      <3>7. (Old(o)' = stored'[b][g]) /\ Old(o) = stored[b][g] BY <3>3, <3>4 DEF Old, Acct
      <3>8. HistoryBytes(Acct(o))' = HistoryBytes(b)' BY <3>3, <3>4 DEF Acct, HistoryBytes
      <3> QED BY <3>4, <3>5, <3>6, <3>7, <3>8
    <2>8. ASSUME NEW o \in Requests, put[o].at = "staging"
          PROVE  HistoryBytes(Acct(o))' - Old(o)' + put[o].room <= MaxTotal
      <3>1. HistoryBytes(Acct(o)) - Old(o) + put[o].room <= MaxTotal BY <1>0, <2>8 DEF RoomOK
      <3>2. HistoryBytes(Acct(o)) \in Nat /\ Old(o) \in Nat /\ put[o].room \in Nat
        BY <1>0, <1>a, <2>8, BytesCover DEF Old, Request
      <3>3. HistoryBytes(Acct(o))' \in Int
        <4>1. PICK b : b = Acct(o) OBVIOUS
        <4>2. b \in Accounts BY <1>a, <2>8, <4>1
        <4>3. stored'[b] \in [Files -> Nat] BY <1>0, <2>1, <4>2
        <4>4. SumFunctionOnSet(stored'[b], Files) \in Nat BY <4>3, HistoryAssumption, SumType
        <4>5. HistoryBytes(Acct(o))' = SumFunctionOnSet(stored'[b], Files) BY <2>1, <4>1 DEF Acct, HistoryBytes
        <4> QED BY <4>4, <4>5
      <3>4. Old(o)' = Old(o) /\ HistoryBytes(Acct(o))' <= HistoryBytes(Acct(o)) BY <2>7, <2>8
      <3>5. MaxTotal \in Nat BY HistoryAssumption
      <3> QED BY <3>1, <3>2, <3>3, <3>4, <3>5
    <2>9. RoomOK' BY <1>0, <2>1, <2>7, <2>8 DEF RoomOK
    <2> QED BY <2>6, <2>9
  <1> QED BY <1>1, <1>2, <1>3, <1>4, <1>5, <1>6 DEF Next, Step

\* An account's history never outgrows its cap, for any accounts, files and uploads, though the
\* room of each upload was measured long before its file is there (put_inner, history_caps).
THEOREM QuotaIsHeld == Spec => []QuotaHolds
  <1>1. Init => PathsOK /\ RoomOK /\ QuotaHolds
    <2> SUFFICES ASSUME Init PROVE PathsOK /\ RoomOK /\ QuotaHolds OBVIOUS
    <2>1. \A r \in Requests : put[r].at = "idle" BY DEF Init, Idle
    <2>2. \A a \in Accounts : HistoryBytes(a) = 0
      <3> SUFFICES ASSUME NEW a \in Accounts PROVE HistoryBytes(a) = 0 OBVIOUS
      <3>1. \A f \in Files : stored[a][f] = 0 BY DEF Init
      <3>2. PICK f : f = stored[a] OBVIOUS
      <3>3. SumFunctionOnSet(f, Files) = 0 BY <3>1, <3>2, HistoryAssumption, SumZero
      <3> QED BY <3>2, <3>3 DEF HistoryBytes
    <2>3. MaxTotal \in Nat BY HistoryAssumption
    <2> QED BY <2>1, <2>2, <2>3 DEF PathsOK, RoomOK, QuotaHolds, At
  <1>2. RoomInv /\ [Next]_vars => (PathsOK /\ RoomOK /\ QuotaHolds)'
    <2>1. CASE UNCHANGED vars
      BY <2>1 DEF vars, RoomInv, PathsOK, RoomOK, QuotaHolds, HistoryBytes, Old, Acct, At
    <2> QED BY <2>1, PathsKept, RoomKept DEF RoomInv
  <1> QED BY <1>1, <1>2, Invariant, PTL DEF Spec, RoomInv
=============================================================================
