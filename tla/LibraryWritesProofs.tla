-------------------------- MODULE LibraryWritesProofs --------------------------
(* The path locks exclude, for any folders, requests and methods.            *)
EXTENDS LibraryWrites, SequenceTheorems, FiniteSetTheorems, TLAPS

Dirs == {<<f>> : f \in Folders}
OnFiles == {"put", "delete", "move", "copy", "prune", "entry"}
OnDirs == {"rmdir", "rename", "mkdir"}

\* A step names two files or two folders.
Steps == [do : OnFiles, from : Files, to : Files] \cup [do : OnDirs, from : Dirs, to : Dirs]
Locks(s) == s.do \in {"put", "copy", "delete", "rmdir", "move", "rename"}

Request_ == [todo : Seq(Steps), at : {"free", "ready", "locked", "siblings gone", "refused"},
             held : SUBSET Paths, changed : SUBSET Paths]

Shapes ==
    /\ fs = [p \in Files |-> fs[p]]
    /\ op \in [Writers -> Request_]
    /\ claim \in [at : {"none", "sent", "fetched", "read", "settling", "checked", "locked", "installed"},
                  of : Folders \cup {""}, stamp : {claim.stamp}, read : {claim.read}]
    /\ claim.at # "none" => claim.of \in Folders

Holds(w) == op[w].at \in {"locked", "siblings gone"}

\* A request holds the keys of the step it is at, and nothing between two steps.
HeldForItsStep ==
    \A w \in Writers :
        /\ Holds(w) => op[w].todo # <<>> /\ Locks(Do(w)) /\ op[w].held = Keys(Do(w))
        /\ ~Holds(w) => op[w].held = {}
        /\ op[w].at = "siblings gone" => Do(w).do = "delete" /\ Do(w).from[2] = "cbz"

Exclusive ==
    /\ \A v, w \in Writers : v # w => \A k \in op[v].held, l \in op[w].held : ~Conflicts(k, l)
    /\ \A w \in Writers : \A k \in op[w].held, l \in CollectorKeys : ~Conflicts(k, l)

IInv == Shapes /\ HeldForItsStep /\ Exclusive

-----------------------------------------------------------------------------
(* Paths *)

LEMMA DirsAndFiles ==
    /\ Paths = Files \cup Dirs
    /\ \A p \in Files : Len(p) = 2 /\ p[1] \in Folders /\ p[2] \in Names /\ p = <<p[1], p[2]>>
    /\ \A d \in Dirs : Len(d) = 1 /\ d[1] \in Folders /\ d = <<d[1]>>
  BY DEF Paths, Files, Dirs, Names

LEMMA Prefixes ==
    ASSUME NEW f, NEW n
    PROVE  /\ SubSeq(<<f>>, 1, 1) = <<f>>
           /\ SubSeq(<<f, n>>, 1, 1) = <<f>>
           /\ SubSeq(<<f, n>>, 1, 2) = <<f, n>>
<1> DEFINE S == {f, n}
<1>1. <<f>> \in Seq(S) /\ <<f, n>> \in Seq(S) /\ Len(<<f>>) = 1 /\ Len(<<f, n>>) = 2
      /\ <<f>>[1] = f /\ <<f, n>>[1] = f /\ <<f, n>>[2] = n
  OBVIOUS
<1>2. ASSUME NEW t \in Seq(S), NEW m \in {1, 2}, m <= Len(t)
      PROVE  SubSeq(t, 1, m) \in Seq(S) /\ Len(SubSeq(t, 1, m)) = m
             /\ \A i \in 1..m : SubSeq(t, 1, m)[i] = t[i]
  <2>1. \A i \in 1..m : t[i] \in S
    BY <1>2
  <2> HIDE DEF S
  <2>2. 1 \in Int /\ m \in Int
    OBVIOUS
  <2>3. SubSeq(t, 1, m) \in Seq(S) /\ Len(SubSeq(t, 1, m)) = (IF 1 <= m THEN m - 1 + 1 ELSE 0)
        /\ \A i \in 1 .. m - 1 + 1 : SubSeq(t, 1, m)[i] = t[1 + i - 1]
    BY <2>1, <2>2, SubSeqProperties
  <2> QED
    BY <2>2, <2>3
<1> HIDE DEF S
<1>3. \A t, u \in Seq(S), m \in {1, 2} :
        m <= Len(t) /\ Len(u) = m /\ (\A i \in 1..m : t[i] = u[i]) => SubSeq(t, 1, m) = u
  <2> SUFFICES ASSUME NEW t \in Seq(S), NEW u \in Seq(S), NEW m \in {1, 2},
                      m <= Len(t), Len(u) = m, \A i \in 1..m : t[i] = u[i]
               PROVE  SubSeq(t, 1, m) = u
    OBVIOUS
  <2>1. SubSeq(t, 1, m) \in Seq(S) /\ Len(SubSeq(t, 1, m)) = Len(u)
        /\ \A i \in 1..Len(SubSeq(t, 1, m)) : SubSeq(t, 1, m)[i] = u[i]
    BY <1>2
  <2> QED
    BY <2>1, SeqEqual
<1>4. /\ \A i \in 1..1 : <<f>>[i] = <<f>>[i] /\ <<f, n>>[i] = <<f>>[i]
      /\ \A i \in 1..2 : <<f, n>>[i] = <<f, n>>[i]
      /\ 1 <= Len(<<f>>) /\ 1 <= Len(<<f, n>>) /\ 2 <= Len(<<f, n>>) /\ 1 \in {1, 2} /\ 2 \in {1, 2}
  BY <1>1
<1> QED
  BY <1>1, <1>3, <1>4, Zenon

LEMMA ConflictsOfFiles == ASSUME NEW p \in Files, NEW q \in Files PROVE Conflicts(p, q) <=> p = q
<1>1. PICK f \in Folders, m \in Names, g \in Folders, n \in Names : p = <<f, m>> /\ q = <<g, n>>
  BY DEF Files
<1>2. SubSeq(p, 1, 2) = p /\ SubSeq(q, 1, 2) = q
  BY <1>1, Prefixes
<1> QED
  BY <1>1, <1>2 DEF Conflicts

LEMMA ConflictsInDirs ==
    ASSUME NEW d \in Dirs, NEW p \in Files
    PROVE  (Conflicts(d, p) <=> d[1] = p[1]) /\ (Conflicts(p, d) <=> d[1] = p[1])
<1>1. PICK f \in Folders, g \in Folders, n \in Names : d = <<f>> /\ p = <<g, n>>
  BY DEF Files, Dirs
<1>2. SubSeq(d, 1, 1) = d /\ SubSeq(p, 1, 1) = <<g>>
  BY <1>1, Prefixes
<1> QED
  BY <1>1, <1>2 DEF Conflicts

LEMMA ConflictsOfDirs == ASSUME NEW d \in Dirs, NEW e \in Dirs PROVE Conflicts(d, e) <=> d = e
<1>1. PICK f \in Folders, g \in Folders : d = <<f>> /\ e = <<g>>
  BY DEF Dirs
<1>2. SubSeq(d, 1, 1) = d /\ SubSeq(e, 1, 1) = e
  BY <1>1, Prefixes
<1> QED
  BY <1>1, <1>2 DEF Conflicts

LEMMA CoversIs ==
    ASSUME NEW k \in Paths, NEW p \in Files, Covers(k, p)
    PROVE  (k \in Files /\ k = p) \/ (k \in Dirs /\ k[1] = p[1])
<1>1. CASE k \in Files
  <2>1. Len(k) = 2 /\ SubSeq(p, 1, 2) = p
    BY <1>1 DEF Files
  <2> QED
    BY <1>1, <2>1 DEF Covers
<1>2. CASE k \in Dirs
  <2>1. PICK f \in Folders, g \in Folders, n \in Names : k = <<f>> /\ p = <<g, n>>
    BY <1>2 DEF Files, Dirs
  <2>2. Len(k) = 1 /\ SubSeq(p, 1, 1) = <<g>>
    BY <2>1, Prefixes
  <2>3. <<g>> = <<f>>
    BY <2>1, <2>2 DEF Covers
  <2> QED
    BY <1>2, <2>1, <2>3
<1> QED
  BY <1>1, <1>2, DirsAndFiles

\* A step of a request is on files or on folders, and what it locks is what it names.
LEMMA KeysArePaths ==
    ASSUME NEW s \in Steps, Locks(s)
    PROVE  Keys(s) \subseteq Paths /\ Keys(s) = (IF s.do \in {"put", "copy"} THEN {s.to}
                                                 ELSE IF s.do \in {"delete", "rmdir"} THEN {s.from}
                                                 ELSE {s.from, s.to})
  BY DirsAndFiles DEF Keys, Locks, Steps, OnFiles, OnDirs

-----------------------------------------------------------------------------
(* Requests *)

LEMMA ProgramIsSteps ==
    ASSUME NEW m \in {"put", "delete", "move", "copy"}, NEW p \in Paths, NEW q \in Paths, Len(p) = Len(q),
           m = "put" => Len(p) = 2
    PROVE  Program(m, p, q) \in Seq(Steps)
<1> USE DEF Step
<1>1. \A do \in OnFiles, a, b \in Files : Step(do, a, b) \in Steps
  BY DEF Steps
<1>2. \A do \in OnDirs, a, b \in Dirs : Step(do, a, b) \in Steps
  BY DEF Steps
<1>3. (Len(p) = 2 /\ p \in Files /\ q \in Files) \/ (Len(p) = 1 /\ p \in Dirs /\ q \in Dirs)
  <2>1. p \in Files \cup Dirs /\ q \in Files \cup Dirs
    BY DirsAndFiles
  <2>2. \A a \in Files : Len(a) = 2
    BY DirsAndFiles
  <2>3. \A a \in Dirs : Len(a) = 1
    BY DirsAndFiles
  <2>4. CASE p \in Files
    <3>1. Len(p) = 2
      BY <2>2, <2>4
    <3>2. q \notin Dirs
      <4>1. q \in Dirs => 1 = 2
        BY <2>3, <3>1, Zenon
      <4>2. 1 # 2
        OBVIOUS
      <4> QED
        BY <4>1, <4>2, Zenon
    <3> QED
      BY <2>1, <2>4, <3>1, <3>2
  <2>5. CASE p \in Dirs
    <3>1. Len(p) = 1
      BY <2>3, <2>5
    <3>2. q \notin Files
      <4>1. q \in Files => 1 = 2
        BY <2>2, <3>1, Zenon
      <4>2. 1 # 2
        OBVIOUS
      <4> QED
        BY <4>1, <4>2, Zenon
    <3> QED
      BY <2>1, <2>5, <3>1, <3>2
  <2> QED
    BY <2>1, <2>4, <2>5
<1>4. \A a \in Files : DeleteIf(a) \in Seq(Steps)
  BY <1>1 DEF DeleteIf, OnFiles
<1>5. CASE Len(p) = 2
  <2>1. /\ Step("put", q, q) \in Steps /\ Step("delete", p, p) \in Steps /\ Step("move", p, q) \in Steps
        /\ Step("copy", p, q) \in Steps /\ DeleteIf(q) \in Seq(Steps)
    BY <1>1, <1>3, <1>4, <1>5 DEF OnFiles
  <2> QED
    BY <1>5, <2>1 DEF Program
<1>6. CASE Len(p) = 1
  <2>1. /\ Step("rmdir", p, p) \in Steps /\ Step("rmdir", q, q) \in Steps /\ Step("rename", p, q) \in Steps
    BY <1>2, <1>3, <1>6 DEF OnDirs
  <2>2. p[1] \in Folders /\ q[1] \in Folders /\ <<q[1]>> \in Dirs
    BY <1>3, <1>6, DirsAndFiles DEF Dirs
  <2>3. /\ Archive(p[1]) \in Files /\ Sidecar(p[1]) \in Files /\ Archive(q[1]) \in Files /\ Sidecar(q[1]) \in Files
    BY <2>2 DEF Archive, Sidecar, Files, Names
  <2>4. Copied(p[1], q[1]) \in Seq(Steps)
    <3>1. /\ Step("prune", Archive(p[1]), Archive(q[1])) \in Steps /\ Step("prune", Sidecar(p[1]), Sidecar(q[1])) \in Steps
          /\ Step("mkdir", <<q[1]>>, <<q[1]>>) \in Steps
          /\ Step("entry", Archive(p[1]), Archive(q[1])) \in Steps /\ Step("entry", Sidecar(p[1]), Sidecar(q[1])) \in Steps
      BY <1>1, <1>2, <2>2, <2>3 DEF OnFiles, OnDirs
    <3> HIDE DEF Step
    <3> QED
      BY <3>1 DEF Copied
  <2> HIDE DEF Step
  <2> QED
    BY <1>6, <2>1, <2>4 DEF Program
<1> QED
  BY <1>3, <1>5, <1>6

\* A request that goes to r and holds nothing there; the collector takes no new lock.
LEMMA LetsGo ==
    ASSUME IInv, NEW w \in Writers, NEW r \in Request_, op' = [op EXCEPT ![w] = r],
           r.at \in {"free", "ready", "refused"}, r.held = {},
           fs' = [p \in Files |-> fs'[p]], UNCHANGED claim
    PROVE  IInv'
<1>1. op' \in [Writers -> Request_] /\ op'[w] = r /\ \A v \in Writers : v # w => op'[v] = op[v]
  BY DEF IInv, Shapes
<1>2. Shapes'
  BY <1>1 DEF IInv, Shapes
<1>3. HeldForItsStep'
  BY <1>1 DEF IInv, HeldForItsStep, Holds, Do
<1>4. Exclusive'
  BY <1>1 DEF IInv, Exclusive, CollectorKeys
<1> QED
  BY <1>2, <1>3, <1>4 DEF IInv

\* A request that goes on under the locks it holds.
LEMMA GoesOn ==
    ASSUME IInv, NEW w \in Writers, NEW r \in Request_, op' = [op EXCEPT ![w] = r], Holds(w),
           r.at \in {"locked", "siblings gone"}, r.held = op[w].held, r.todo = op[w].todo,
           r.at = "siblings gone" => Do(w).do = "delete" /\ Do(w).from[2] = "cbz",
           fs' = [p \in Files |-> fs'[p]], UNCHANGED claim
    PROVE  IInv'
<1>1. op' \in [Writers -> Request_] /\ op'[w] = r /\ \A v \in Writers : v # w => op'[v] = op[v]
  BY DEF IInv, Shapes
<1>2. Shapes'
  BY <1>1 DEF IInv, Shapes
<1>3. HeldForItsStep'
  BY <1>1 DEF IInv, HeldForItsStep, Holds, Do
<1>4. Exclusive'
  BY <1>1 DEF IInv, Exclusive, CollectorKeys
<1> QED
  BY <1>2, <1>3, <1>4 DEF IInv

LEMMA NextStepIs ==
    ASSUME IInv, NEW w \in Writers, op[w].todo # <<>>, NEW c \in SUBSET Paths
    PROVE  \E r \in Request_ : NextStep(w, c) = [op EXCEPT ![w] = r] /\ r.at = "ready" /\ r.held = {}
<1>1. op[w] \in Request_ /\ op \in [Writers -> Request_]
  BY DEF IInv, Shapes
<1>2. Tail(op[w].todo) \in Seq(Steps)
  <2>1. op[w].todo \in Seq(Steps)
    BY <1>1 DEF Request_
  <2> QED
    BY <2>1, HeadTailProperties
<1> DEFINE r == [op[w] EXCEPT !.todo = Tail(@), !.at = "ready", !.held = {}, !.changed = @ \cup c]
<1>3. r \in Request_ /\ r.at = "ready" /\ r.held = {}
  BY <1>1, <1>2 DEF Request_
<1>4. NextStep(w, c) = [op EXCEPT ![w] = r]
  BY <1>1 DEF NextStep
<1> QED
  BY <1>3, <1>4

LEMMA RefusedIs ==
    ASSUME IInv, NEW w \in Writers
    PROVE  \E r \in Request_ : Refused(w) = [op EXCEPT ![w] = r] /\ r.at = "refused" /\ r.held = {}
<1>1. op[w] \in Request_ /\ op \in [Writers -> Request_]
  BY DEF IInv, Shapes
<1> DEFINE r == [op[w] EXCEPT !.todo = <<>>, !.at = "refused", !.held = {}]
<1>2. r \in Request_ /\ r.at = "refused" /\ r.held = {}
  BY <1>1, EmptySeq DEF Request_
<1>3. Refused(w) = [op EXCEPT ![w] = r]
  BY <1>1 DEF Refused
<1> QED
  BY <1>2, <1>3

LEMMA ConflictsBothWays ==
    ASSUME NEW k \in Paths, NEW l \in Paths
    PROVE  Conflicts(k, l) <=> Conflicts(l, k)
<1>1. k \in Files \cup Dirs /\ l \in Files \cup Dirs
  BY DirsAndFiles
<1>2. CASE k \in Files /\ l \in Files
  BY <1>2, ConflictsOfFiles
<1>3. CASE k \in Dirs /\ l \in Dirs
  BY <1>3, ConflictsOfDirs
<1>4. CASE (k \in Dirs /\ l \in Files) \/ (k \in Files /\ l \in Dirs)
  BY <1>4, ConflictsInDirs
<1> QED
  BY <1>1, <1>2, <1>3, <1>4

LEMMA StepAt ==
    ASSUME IInv, NEW w \in Writers
    PROVE  /\ op[w].todo # <<>> => Do(w) \in Steps
           /\ Holds(w) => Do(w) \in Steps /\ Locks(Do(w)) /\ op[w].held = Keys(Do(w)) /\ op[w].todo # <<>>
           /\ Do(w) \in Steps /\ Do(w).do \in OnFiles => Do(w).from \in Files /\ Do(w).to \in Files
           /\ Do(w) \in Steps /\ Do(w).do \in OnDirs => Do(w).from \in Dirs /\ Do(w).to \in Dirs
<1>1. op[w].todo \in Seq(Steps)
  BY DEF IInv, Shapes, Request_
<1>2. op[w].todo # <<>> => Do(w) \in Steps
  BY <1>1, HeadTailProperties DEF Do
<1>3. OnFiles \cap OnDirs = {}
  BY DEF OnFiles, OnDirs
<1>4. \A s \in Steps : (s.do \in OnFiles => s.from \in Files /\ s.to \in Files)
                       /\ (s.do \in OnDirs => s.from \in Dirs /\ s.to \in Dirs)
  BY <1>3 DEF Steps
<1> QED
  BY <1>2, <1>4 DEF IInv, HeldForItsStep

LEMMA LockKeeps == ASSUME IInv, NEW w \in Writers, Lock(w) PROVE IInv'
<1>0. Do(w) \in Steps /\ Locks(Do(w)) /\ UNCHANGED <<fs, claim>>
      /\ op \in [Writers -> Request_] /\ op[w] \in Request_ /\ fs' = [p \in Files |-> fs'[p]]
  BY StepAt DEF Lock, Locks, IInv, Shapes
<1>1. CASE op' = NextStep(w, {})
  <2>1. op[w].todo # <<>> /\ {} \in SUBSET Paths
    BY DEF Lock
  <2>2. PICK r \in Request_ : op' = [op EXCEPT ![w] = r] /\ r.at = "ready" /\ r.held = {}
    BY <1>1, <2>1, NextStepIs
  <2> QED
    BY <1>0, <2>2, LetsGo
<1>2. CASE op' = Refused(w)
  BY <1>0, <1>2, RefusedIs, LetsGo
<1>3. CASE CanLock(Keys(Do(w))) /\ op[w].at = "ready"
           /\ op' = [op EXCEPT ![w].at = "locked", ![w].held = Keys(Do(w))]
  <2> DEFINE r == [op[w] EXCEPT !.at = "locked", !.held = Keys(Do(w))]
  <2>1. Keys(Do(w)) \subseteq Paths
    BY <1>0, KeysArePaths
  <2>2. r \in Request_ /\ r.at = "locked" /\ r.held = Keys(Do(w)) /\ r.todo = op[w].todo
    BY <1>0, <2>1 DEF Request_
  <2>3. op' = [op EXCEPT ![w] = r]
    BY <1>0, <1>3
  <2> HIDE DEF r
  <2>4. op' \in [Writers -> Request_] /\ op'[w] = r /\ \A v \in Writers : v # w => op'[v] = op[v]
    BY <1>0, <2>2, <2>3
  <2>5. Shapes'
    BY <1>0, <2>4 DEF IInv, Shapes
  <2>6. HeldForItsStep'
    <3>1. Do(w)' = Do(w) /\ op[w].todo # <<>>
      BY <2>2, <2>4 DEF Do, Lock
    <3>2. \A v \in Writers : v # w => Do(v)' = Do(v) /\ op'[v] = op[v]
      BY <2>4 DEF Do
    <3>3. op'[w].todo # <<>> /\ Locks(Do(w)') /\ op'[w].held = Keys(Do(w)') /\ op'[w].at = "locked"
      BY <1>0, <2>2, <2>4, <3>1
    <3> QED
      BY <3>2, <3>3 DEF IInv, HeldForItsStep, Holds
  <2>7. \A v \in Writers : op[v].held \subseteq Paths
    BY DEF IInv, Shapes, Request_
  <2>8. CollectorKeys \subseteq Paths /\ CollectorKeys' = CollectorKeys
    BY <1>0, DirsAndFiles DEF CollectorKeys, IInv, Shapes, Sidecar, Files, Names
  <2>9. \A k \in Keys(Do(w)), h \in Held : ~Conflicts(h, k) /\ ~Conflicts(k, h)
    BY <1>3, <2>1, <2>7, <2>8, ConflictsBothWays DEF CanLock, Held
  <2>10. Exclusive'
    BY <2>2, <2>4, <2>8, <2>9 DEF IInv, Exclusive, Held
  <2> QED
    BY <2>5, <2>6, <2>10 DEF IInv
<1> QED
  BY <1>1, <1>2, <1>3 DEF Lock

LEMMA Ended ==
    ASSUME IInv, NEW w \in Writers, NEW c \in SUBSET Paths, op[w].todo # <<>>, op' = NextStep(w, c) \/ op' = Refused(w),
           fs' = [p \in Files |-> fs'[p]], UNCHANGED claim
    PROVE  IInv'
<1>1. CASE op' = NextStep(w, c)
  <2>1. PICK r \in Request_ : op' = [op EXCEPT ![w] = r] /\ r.at = "ready" /\ r.held = {}
    BY <1>1, NextStepIs
  <2> QED
    BY <2>1, LetsGo
<1>2. CASE op' = Refused(w)
  <2>1. PICK r \in Request_ : op' = [op EXCEPT ![w] = r] /\ r.at = "refused" /\ r.held = {}
    BY <1>2, RefusedIs
  <2> QED
    BY <2>1, LetsGo
<1> QED
  BY <1>1, <1>2

LEMMA WriteKeeps == ASSUME IInv, NEW w \in Writers, Write(w) PROVE IInv'
<1> USE DEF OnFiles, OnDirs
<1>0. op \in [Writers -> Request_] /\ op[w] \in Request_ /\ fs = [p \in Files |-> fs[p]]
  BY DEF IInv, Shapes
<1>1. CASE Lock(w)
  BY <1>1, LockKeeps
<1>2. CASE Put(w)
  <2>1. op[w].todo # <<>> /\ Do(w).to \in Files /\ {Do(w).to} \in SUBSET Paths
    BY <1>2, StepAt, DirsAndFiles DEF Put, Locked, Holds
  <2>2. fs' = [p \in Files |-> fs'[p]] /\ UNCHANGED claim
    BY <1>0, <1>2, <2>1 DEF Put
  <2> QED
    BY <1>2, <2>1, <2>2, Ended DEF Put
<1>3. CASE DeleteSidecars(w)
  <2>1. Do(w).from \in Files /\ Do(w).do = "delete" /\ op[w].todo # <<>> /\ op[w].at = "locked"
    BY <1>3, StepAt DEF DeleteSidecars, Locked, Holds
  <2>2. Sidecar(Do(w).from[1]) \in Files /\ Sidecar(Do(w).from[1]) \in Paths
    BY <2>1, DirsAndFiles DEF Sidecar, Files, Names
  <2> DEFINE r == [op[w] EXCEPT !.at = "siblings gone", !.changed = @ \cup {Sidecar(Do(w).from[1])}]
  <2>3. r \in Request_ /\ r.at = "siblings gone" /\ r.held = op[w].held /\ r.todo = op[w].todo
    BY <1>0, <2>2 DEF Request_
  <2>4. op' = [op EXCEPT ![w] = r] /\ UNCHANGED claim /\ Do(w).from[2] = "cbz"
    BY <1>0, <1>3 DEF DeleteSidecars
  <2> HIDE DEF r
  <2>5. fs' = [p \in Files |-> fs'[p]]
    BY <1>0, <1>3, <2>2 DEF DeleteSidecars
  <2> QED
    BY <2>1, <2>3, <2>4, <2>5, GoesOn DEF Holds
<1>4. CASE Delete(w)
  <2>1. Holds(w) /\ Do(w).do = "delete"
    BY <1>4 DEF Delete, Locked, Holds, IInv, HeldForItsStep
  <2>2. op[w].todo # <<>> /\ Do(w).from \in Files /\ {Do(w).from} \in SUBSET Paths
    BY <2>1, StepAt, DirsAndFiles
  <2>3. fs' = [p \in Files |-> fs'[p]] /\ UNCHANGED claim /\ op' = NextStep(w, {Do(w).from})
    BY <1>0, <1>4, <2>2 DEF Delete
  <2> QED
    BY <2>2, <2>3, Ended
<1>5. CASE RemoveEntry(w)
  <2>1. Do(w).from \in Dirs /\ op[w].todo # <<>> /\ op[w].at = "locked"
    BY <1>5, StepAt DEF RemoveEntry, Locked, Holds
  <2>2. PICK n \in Names : fs' = [fs EXCEPT ![<<Do(w).from[1], n>>] = None]
                           /\ op' = [op EXCEPT ![w].changed = @ \cup {<<Do(w).from[1], n>>}]
    BY <1>5 DEF RemoveEntry
  <2>3. <<Do(w).from[1], n>> \in Files /\ <<Do(w).from[1], n>> \in Paths
    BY <2>1, DirsAndFiles DEF Files
  <2> DEFINE r == [op[w] EXCEPT !.changed = @ \cup {<<Do(w).from[1], n>>}]
  <2>4. r \in Request_ /\ r.at = op[w].at /\ r.held = op[w].held /\ r.todo = op[w].todo
    BY <1>0, <2>3 DEF Request_
  <2>5. op' = [op EXCEPT ![w] = r] /\ UNCHANGED claim
    BY <1>0, <1>5, <2>2 DEF RemoveEntry
  <2> HIDE DEF r
  <2>6. fs' = [p \in Files |-> fs'[p]]
    BY <1>0, <2>2, <2>3
  <2> QED
    BY <2>1, <2>4, <2>5, <2>6, GoesOn DEF Holds
<1>6. CASE RemoveFolder(w)
  <2>1. op[w].todo # <<>> /\ Do(w).from \in Dirs /\ {Do(w).from} \in SUBSET Paths
    BY <1>6, StepAt, DirsAndFiles DEF RemoveFolder, Locked, Holds
  <2>2. fs' = [p \in Files |-> fs'[p]] /\ UNCHANGED claim /\ op' = NextStep(w, {Do(w).from})
    BY <1>0, <1>6 DEF RemoveFolder
  <2> QED
    BY <2>1, <2>2, Ended
<1>7. CASE Move(w)
  <2>1. op[w].todo # <<>> /\ Do(w).from \in Files /\ Do(w).to \in Files /\ {Do(w).from, Do(w).to} \in SUBSET Paths
    BY <1>7, StepAt, DirsAndFiles DEF Move, Locked, Holds
  <2>2. fs' = [p \in Files |-> fs'[p]] /\ UNCHANGED claim
    BY <1>0, <1>7, <2>1 DEF Move
  <2> QED
    BY <1>7, <2>1, <2>2, Ended DEF Move
<1>8. CASE Copy(w)
  <2>1. op[w].todo # <<>> /\ Do(w).to \in Files /\ {Do(w).to} \in SUBSET Paths
    BY <1>8, StepAt, DirsAndFiles DEF Copy, Locked, Holds
  <2>2. fs' = [p \in Files |-> fs'[p]] /\ UNCHANGED claim
    BY <1>0, <1>8, <2>1 DEF Copy
  <2> QED
    BY <1>8, <2>1, <2>2, Ended DEF Copy
<1>9. CASE Rename(w)
  <2>1. op[w].todo # <<>> /\ Do(w).from \in Dirs /\ Do(w).to \in Dirs
    BY <1>9, StepAt DEF Rename, Locked, Holds
  <2>2. {<<Do(w).from[1]>>, <<Do(w).to[1]>>} \in SUBSET Paths
    BY <2>1, DirsAndFiles
  <2>3. fs' = [p \in Files |-> fs'[p]] /\ UNCHANGED claim
    BY <1>0, <1>9, <2>1 DEF Rename
  <2> QED
    BY <1>9, <2>1, <2>2, <2>3, Ended DEF Rename
<1>10. CASE Finish(w) \/ Answer(w)
  <2>1. Free \in Request_ /\ Free.at = "free" /\ Free.held = {}
    BY EmptySeq DEF Free, Request_
  <2>2. op' = [op EXCEPT ![w] = Free] /\ UNCHANGED <<fs, claim>>
    BY <1>10 DEF Finish, Answer
  <2> QED
    BY <1>0, <2>1, <2>2, LetsGo
<1>11. CASE CopyFolder(w)
  <2> DEFINE s == Do(w)
             instead == CASE s.do = "prune" -> IF fs[s.from] = None THEN DeleteIf(s.to) ELSE <<>>
                          [] s.do = "entry" -> IF fs[s.from] = None THEN <<>>
                                               ELSE DeleteIf(s.to) \o <<Step("copy", s.from, s.to)>>
                          [] s.do = "mkdir" -> <<>>
             r == [op[w] EXCEPT !.todo = instead \o Tail(@)]
  <2>1. op[w].at = "ready" /\ op[w].todo # <<>> /\ s.do \in {"prune", "entry", "mkdir"} /\ UNCHANGED <<fs, claim>>
        /\ op' = [op EXCEPT ![w].todo = instead \o Tail(@)]
    BY <1>11 DEF CopyFolder
  <2>2. s \in Steps /\ (s.do \in {"prune", "entry"} => s.from \in Files /\ s.to \in Files)
    BY <2>1, StepAt
  <2>3. s.do \in {"prune", "entry"} => DeleteIf(s.to) \in Seq(Steps) /\ Step("copy", s.from, s.to) \in Steps
    <3>1. s.do \in {"prune", "entry"} => Step("delete", s.to, s.to) \in Steps /\ Step("copy", s.from, s.to) \in Steps
      BY <2>2 DEF Step, Steps
    <3> QED
      BY <3>1 DEF DeleteIf
  <2>4. instead \in Seq(Steps)
    <3>1. CASE s.do = "prune"
      <4>1. instead = IF fs[s.from] = None THEN DeleteIf(s.to) ELSE <<>>
        BY <3>1
      <4> HIDE DEF instead
      <4> QED
        BY <2>3, <3>1, <4>1
    <3>2. CASE s.do = "entry"
      <4>1. instead = IF fs[s.from] = None THEN <<>> ELSE DeleteIf(s.to) \o <<Step("copy", s.from, s.to)>>
        BY <3>2
      <4> HIDE DEF instead
      <4> QED
        BY <2>3, <3>2, <4>1
    <3>3. CASE s.do = "mkdir"
      BY <3>3
    <3> QED
      BY <2>1, <3>1, <3>2, <3>3
  <2> HIDE DEF instead
  <2>5. Tail(op[w].todo) \in Seq(Steps)
    <3>1. op[w].todo \in Seq(Steps)
      BY <1>0 DEF Request_
    <3> QED
      BY <2>1, <3>1, HeadTailProperties
  <2>6. instead \o Tail(op[w].todo) \in Seq(Steps)
    BY <2>4, <2>5
  <2>7. op[w].held = {}
    BY <2>1 DEF IInv, HeldForItsStep, Holds
  <2>8. r \in Request_ /\ r.at = "ready" /\ r.held = {}
    BY <1>0, <2>1, <2>6, <2>7 DEF Request_
  <2>9. op' = [op EXCEPT ![w] = r]
    BY <1>0, <2>1
  <2> HIDE DEF r
  <2> QED
    BY <1>0, <2>1, <2>8, <2>9, LetsGo
<1> QED
  BY <1>1, <1>2, <1>3, <1>4, <1>5, <1>6, <1>7, <1>8, <1>9, <1>10, <1>11 DEF Write

LEMMA RequestKeeps ==
    ASSUME IInv, scene \in Scenes, NEW w \in Writers, NEW m \in scene.methods, NEW p \in InUse, NEW q \in InUse,
           Request(w, m, p, q)
    PROVE  IInv'
<1>0. op \in [Writers -> Request_] /\ op[w] \in Request_ /\ fs = [o \in Files |-> fs[o]]
      /\ UNCHANGED <<fs, claim>> /\ op[w].at = "free"
  BY DEF IInv, Shapes, Request
<1>1. m \in {"put", "delete", "move", "copy"} /\ p \in Paths /\ q \in Paths
  BY LibraryAssumption DEF Scene, InUse
<1>2. Len(p) = Len(q) /\ (m = "put" => Len(p) = 2)
  BY DEF Request
<1>3. Program(m, p, q) \in Seq(Steps)
  BY <1>1, <1>2, ProgramIsSteps
<1> DEFINE r == [op[w] EXCEPT !.at = "ready", !.todo = Program(m, p, q)]
<1>4. op[w].held = {}
  BY <1>0 DEF IInv, HeldForItsStep, Holds
<1>5. r \in Request_ /\ r.at = "ready" /\ r.held = {}
  BY <1>0, <1>3, <1>4 DEF Request_
<1>6. op' = [op EXCEPT ![w] = r]
  BY <1>0 DEF Request
<1> HIDE DEF r
<1> QED
  BY <1>0, <1>5, <1>6, LetsGo

-----------------------------------------------------------------------------
(* The collector *)

\* The collector takes no new lock.
LEMMA ClaimGoesOn ==
    ASSUME IInv, UNCHANGED op, fs' = [p \in Files |-> fs'[p]],
           claim' \in [at : {"none", "sent", "fetched", "read", "settling", "checked", "locked", "installed"},
                       of : Folders \cup {""}, stamp : {claim'.stamp}, read : {claim'.read}],
           claim'.at # "none" => claim'.of \in Folders, claim'.at # "locked" \/ UNCHANGED claim
    PROVE  IInv'
<1>1. Shapes'
  BY DEF IInv, Shapes
<1>2. HeldForItsStep'
  BY DEF IInv, HeldForItsStep, Holds, Do
<1>3. Exclusive'
  BY DEF IInv, Exclusive, CollectorKeys
<1> QED
  BY <1>1, <1>2, <1>3 DEF IInv

LEMMA CollectorKeeps ==
    ASSUME IInv, scene \in Scenes,
           (\E f \in scene.folders : Submit(f) \/ Hear(f))
             \/ Read \/ Delivered \/ Collect \/ Check \/ LockSidecar \/ Install \/ Record
    PROVE  IInv'
<1> DEFINE Ats == {"none", "sent", "fetched", "read", "settling", "checked", "locked", "installed"}
<1>0. claim \in [at : Ats, of : Folders \cup {""}, stamp : {claim.stamp}, read : {claim.read}]
      /\ (claim.at # "none" => claim.of \in Folders) /\ fs = [p \in Files |-> fs[p]]
  BY DEF IInv, Shapes
<1>1. scene.folders \subseteq Folders
  BY LibraryAssumption DEF Scene
<1>2. CASE claim' = NoClaim /\ UNCHANGED <<fs, op>>
  BY <1>0, <1>2, ClaimGoesOn DEF NoClaim
<1>3. CASE UNCHANGED <<fs, op, claim>>
  BY <1>0, <1>3, ClaimGoesOn
<1>4. CASE \E f \in scene.folders : Submit(f)
  <2>1. PICK f \in scene.folders : Submit(f)
    BY <1>4
  <2> DEFINE c == [at |-> "sent", of |-> f, stamp |-> fs[Archive(f)], read |-> None]
  <2>2. claim' = c /\ UNCHANGED <<fs, op>> /\ f \in Folders
    BY <1>1, <2>1 DEF Submit
  <2>3. c \in [at : Ats, of : Folders \cup {""}, stamp : {c.stamp}, read : {c.read}] /\ c.at = "sent" /\ c.of = f
    BY <2>2
  <2> HIDE DEF c
  <2> QED
    BY <1>0, <2>2, <2>3, ClaimGoesOn
<1>5. CASE Read \/ Delivered \/ Collect
  <2>1. claim.of \in Folders /\ UNCHANGED <<fs, op>>
    BY <1>0, <1>5 DEF Read, Delivered, Collect
  <2>2. claim' \in [at : Ats, of : Folders \cup {""}, stamp : {claim'.stamp}, read : {claim'.read}]
        /\ claim'.of = claim.of /\ claim'.at # "locked"
    <3>1. CASE Read
      <4> DEFINE c == [claim EXCEPT !.at = IF scene.remote THEN "fetched" ELSE "read", !.read = fs[Archive(claim.of)]]
      <4>1. c.stamp = claim.stamp /\ c.read = fs[Archive(claim.of)] /\ c.at \in {"fetched", "read"} /\ c.of = claim.of
            /\ c \in [at : Ats, of : Folders \cup {""}, stamp : {claim.stamp}, read : {fs[Archive(claim.of)]}]
        BY <1>0
      <4>2. claim' = c
        BY <3>1 DEF Read
      <4> HIDE DEF c
      <4> QED
        BY <4>1, <4>2
    <3>2. CASE Delivered
      <4> DEFINE c == [claim EXCEPT !.at = "read", !.stamp = fs[Archive(claim.of)]]
      <4>1. c.read = claim.read /\ c.stamp = fs[Archive(claim.of)] /\ c.at = "read" /\ c.of = claim.of
            /\ c \in [at : Ats, of : Folders \cup {""}, stamp : {fs[Archive(claim.of)]}, read : {claim.read}]
        BY <1>0
      <4>2. claim' = c
        BY <3>2 DEF Delivered
      <4> HIDE DEF c
      <4> QED
        BY <4>1, <4>2
    <3>3. CASE Collect
      BY <1>0, <3>3 DEF Collect
    <3> QED
      BY <1>5, <3>1, <3>2, <3>3
  <2> QED
    BY <1>0, <2>1, <2>2, ClaimGoesOn
<1>6. CASE Check
  BY <1>0, <1>2, <1>6, ClaimGoesOn DEF Check
<1>7. CASE Install
  <2>1. claim.of \in Folders /\ Sidecar(claim.of) \in Files
    BY <1>0, <1>7 DEF Install, Sidecar, Files, Names
  <2> QED
    BY <1>0, <1>2, <1>7, <2>1, ClaimGoesOn DEF Install
<1>8. CASE Record
  BY <1>2, <1>8 DEF Record
<1>9. CASE claim.at = "checked" /\ CanLock({Sidecar(claim.of)}) /\ claim' = [claim EXCEPT !.at = "locked"]
           /\ UNCHANGED <<fs, op>>
  <2>1. claim'.at = "locked" /\ claim'.of = claim.of /\ claim.of \in Folders /\ CollectorKeys' = {Sidecar(claim.of)}
    BY <1>0, <1>9 DEF CollectorKeys
  <2>2. Shapes'
    BY <1>0, <1>9, <2>1 DEF IInv, Shapes
  <2>3. HeldForItsStep'
    BY <1>9 DEF IInv, HeldForItsStep, Holds, Do
  <2>4. \A w \in Writers : \A k \in op[w].held : ~Conflicts(k, Sidecar(claim.of))
    BY <1>9 DEF CanLock, Held
  <2>5. Exclusive'
    BY <1>9, <2>1, <2>4 DEF IInv, Exclusive
  <2> QED
    BY <2>2, <2>3, <2>5 DEF IInv
<1>10. CASE LockSidecar
  BY <1>2, <1>9, <1>10 DEF LockSidecar
<1>11. CASE \E f \in scene.folders : Hear(f)
  BY <1>2, <1>3, <1>11 DEF Hear
<1> QED
  BY <1>4, <1>5, <1>6, <1>7, <1>8, <1>10, <1>11

\* A request holds the keys of its step, and no two holders' keys conflict.
LEMMA Invariant == Spec => [](IInv /\ scene \in Scenes)
<1>1. Init => IInv /\ scene \in Scenes
  <2> SUFFICES ASSUME Init PROVE IInv /\ scene \in Scenes
    OBVIOUS
  <2>1. Free \in Request_ /\ Free.at = "free" /\ Free.held = {}
    BY EmptySeq DEF Free, Request_
  <2>2. op = [w \in Writers |-> Free] /\ claim = NoClaim /\ fs = [p \in Files |-> fs[p]] /\ scene \in Scenes
    BY DEF Init
  <2>3. Shapes
    BY <2>1, <2>2 DEF Shapes, NoClaim
  <2>4. HeldForItsStep /\ Exclusive
    BY <2>1, <2>2 DEF HeldForItsStep, Exclusive, Holds
  <2> QED
    BY <2>2, <2>3, <2>4 DEF IInv
<1>2. IInv /\ scene \in Scenes /\ [Next]_vars => (IInv /\ scene \in Scenes)'
  <2> SUFFICES ASSUME IInv, scene \in Scenes, [Next]_vars PROVE IInv' /\ scene' \in Scenes
    OBVIOUS
  <2>1. scene' = scene
    BY DEF Next, vars
  <2>2. CASE UNCHANGED vars
    BY <2>2 DEF vars, IInv, Shapes, HeldForItsStep, Exclusive, Holds, Do, CollectorKeys
  <2>3. CASE Next
    BY <2>3, RequestKeeps, WriteKeeps, CollectorKeeps DEF Next
  <2> QED
    BY <2>1, <2>2, <2>3
<1> QED
  BY <1>1, <1>2, PTL DEF Spec

-----------------------------------------------------------------------------
(* Who writes where *)

\* A step writes under the keys it holds; the DELETE of an archive also takes its sidecar.
LEMMA Touches ==
    ASSUME IInv, NEW w \in Writers, Write(w), NEW p \in Files, fs'[p] # fs[p]
    PROVE  \/ \E l \in op[w].held : l = p \/ (l \in Dirs /\ l[1] = p[1])
           \/ /\ Locked(w, "delete") /\ Do(w).from = Archive(p[1]) /\ p = Sidecar(p[1])
              /\ Archive(p[1]) \in op[w].held
<1> USE DEF OnFiles, OnDirs
<1>0. fs = [q \in Files |-> fs[q]]
  BY DEF IInv, Shapes
<1>a. Holds(w) => Do(w) \in Steps /\ op[w].held = Keys(Do(w)) /\ Locks(Do(w))
  BY StepAt
<1>b. Holds(w) /\ Do(w).do \in {"put", "copy"} => op[w].held = {Do(w).to} /\ Do(w).to \in Files
  BY <1>a, StepAt, KeysArePaths
<1>c. Holds(w) /\ Do(w).do = "delete" => op[w].held = {Do(w).from} /\ Do(w).from \in Files
  BY <1>a, StepAt, KeysArePaths
<1>d. Holds(w) /\ Do(w).do = "rmdir" => op[w].held = {Do(w).from} /\ Do(w).from \in Dirs
  BY <1>a, StepAt, KeysArePaths
<1>e. Holds(w) /\ Do(w).do = "move" => op[w].held = {Do(w).from, Do(w).to} /\ Do(w).from \in Files /\ Do(w).to \in Files
  BY <1>a, StepAt, KeysArePaths
<1>f. Holds(w) /\ Do(w).do = "rename" => op[w].held = {Do(w).from, Do(w).to} /\ Do(w).from \in Dirs /\ Do(w).to \in Dirs
  BY <1>a, StepAt, KeysArePaths
<1>1. CASE Lock(w) \/ RemoveFolder(w) \/ CopyFolder(w) \/ Finish(w) \/ Answer(w)
  BY <1>1 DEF Lock, RemoveFolder, CopyFolder, Finish, Answer
<1>2. CASE Put(w)
  <2>1. op[w].held = {Do(w).to} /\ Do(w).to \in Files
    BY <1>2, <1>b DEF Put, Locked, Holds
  <2>2. p = Do(w).to
    BY <1>0, <1>2, <2>1 DEF Put
  <2> QED
    BY <2>1, <2>2
<1>3. CASE DeleteSidecars(w)
  <2>1. op[w].held = {Do(w).from} /\ Do(w).from \in Files /\ Do(w).from[2] = "cbz" /\ Locked(w, "delete")
    BY <1>3, <1>c DEF DeleteSidecars, Locked, Holds
  <2>2. Sidecar(Do(w).from[1]) \in Files
    BY <2>1, DirsAndFiles DEF Sidecar, Files, Names
  <2>3. p = Sidecar(Do(w).from[1])
    BY <1>0, <1>3, <2>2 DEF DeleteSidecars
  <2>4. p[1] = Do(w).from[1]
    BY <2>3 DEF Sidecar
  <2>5. Do(w).from = Archive(p[1])
    BY <2>1, <2>4, DirsAndFiles DEF Archive
  <2> QED
    BY <2>1, <2>3, <2>4, <2>5
<1>4. CASE Delete(w)
  <2>1. op[w].held = {Do(w).from} /\ Do(w).from \in Files
    BY <1>4, <1>c DEF Delete, Locked, Holds, IInv, HeldForItsStep
  <2>2. p = Do(w).from
    BY <1>0, <1>4, <2>1 DEF Delete
  <2> QED
    BY <2>1, <2>2
<1>5. CASE RemoveEntry(w)
  <2>1. op[w].held = {Do(w).from} /\ Do(w).from \in Dirs
    BY <1>5, <1>d DEF RemoveEntry, Locked, Holds
  <2>2. PICK n \in Names : fs' = [fs EXCEPT ![<<Do(w).from[1], n>>] = None]
    BY <1>5 DEF RemoveEntry
  <2>3. <<Do(w).from[1], n>> \in Files
    BY <2>1, DirsAndFiles DEF Files
  <2>4. p = <<Do(w).from[1], n>>
    BY <1>0, <2>2, <2>3
  <2>5. p[1] = Do(w).from[1]
    BY <2>4
  <2> QED
    BY <2>1, <2>5
<1>6. CASE Move(w)
  <2>1. op[w].held = {Do(w).from, Do(w).to} /\ Do(w).from \in Files /\ Do(w).to \in Files
    BY <1>6, <1>e DEF Move, Locked, Holds
  <2>2. p \in {Do(w).from, Do(w).to}
    BY <1>0, <1>6, <2>1 DEF Move
  <2> QED
    BY <2>1, <2>2
<1>7. CASE Copy(w)
  <2>1. op[w].held = {Do(w).to} /\ Do(w).to \in Files
    BY <1>7, <1>b DEF Copy, Locked, Holds
  <2>2. p = Do(w).to
    BY <1>0, <1>7, <2>1 DEF Copy
  <2> QED
    BY <2>1, <2>2
<1>8. CASE Rename(w)
  <2>1. op[w].held = {Do(w).from, Do(w).to} /\ Do(w).from \in Dirs /\ Do(w).to \in Dirs
    BY <1>8, <1>f DEF Rename, Locked, Holds
  <2>2. p[1] = Do(w).from[1] \/ p[1] = Do(w).to[1]
    BY <1>0, <1>8 DEF Rename
  <2> QED
    BY <2>1, <2>2
<1> QED
  BY <1>1, <1>2, <1>3, <1>4, <1>5, <1>6, <1>7, <1>8 DEF Write

LEMMA OthersStand ==
    ASSUME IInv, NEW w \in Writers, Write(w), NEW v \in Writers, v # w
    PROVE  op'[v] = op[v]
<1>1. CASE Lock(w)
  BY <1>1 DEF Lock, NextStep, Refused, IInv, Shapes
<1>2. CASE Put(w) \/ Move(w) \/ Copy(w) \/ Rename(w)
  BY <1>2 DEF Put, Move, Copy, Rename, NextStep, Refused, IInv, Shapes
<1>3. CASE DeleteSidecars(w) \/ Delete(w) \/ RemoveEntry(w) \/ RemoveFolder(w)
  BY <1>3 DEF DeleteSidecars, Delete, RemoveEntry, RemoveFolder, NextStep, IInv, Shapes
<1>4. CASE CopyFolder(w) \/ Finish(w) \/ Answer(w)
  BY <1>4 DEF CopyFolder, Finish, Answer, IInv, Shapes
<1> QED
  BY <1>1, <1>2, <1>3, <1>4 DEF Write

\* A key that covers a file conflicts with the file, and with every folder it is in.
LEMMA CoveringConflicts ==
    ASSUME NEW k \in Paths, NEW p \in Files, Covers(k, p) \/ (k \in Dirs /\ k[1] = p[1]) \/ k = p
    PROVE  /\ Conflicts(k, p)
           /\ \A l \in Dirs : l[1] = p[1] => Conflicts(k, l)
           /\ k # p => Conflicts(k, Archive(p[1]))
<1>1. CASE k = p
  BY <1>1, ConflictsOfFiles, ConflictsInDirs
<1>2. CASE k \in Dirs /\ k[1] = p[1]
  <2>1. Archive(p[1]) \in Files /\ Archive(p[1])[1] = p[1]
    BY DirsAndFiles DEF Archive, Files, Names
  <2>2. \A l \in Dirs : l[1] = p[1] => l = k
    BY <1>2, DirsAndFiles
  <2> QED
    BY <1>2, <2>1, <2>2, ConflictsInDirs, ConflictsOfDirs
<1> QED
  BY <1>1, <1>2, CoversIs

\* The collector writes the sidecar it holds.
LEMMA InstallsUnderItsKey ==
    ASSUME IInv, NEW p \in Files, fs'[p] # fs[p],
           (\E f \in scene.folders : Submit(f) \/ Hear(f))
             \/ Read \/ Delivered \/ Collect \/ Check \/ LockSidecar \/ Install \/ Record
    PROVE  p \in CollectorKeys /\ p[2] = "mokuro"
<1>1. Install
  BY DEF Submit, Hear, Read, Delivered, Collect, Check, LockSidecar, Record
<1>2. claim.at = "locked" /\ claim.of \in Folders /\ Sidecar(claim.of) \in Files
  BY <1>1 DEF Install, IInv, Shapes, Sidecar, Files, Names
<1>3. p = Sidecar(claim.of)
  BY <1>1, <1>2 DEF Install, IInv, Shapes
<1> QED
  BY <1>2, <1>3 DEF CollectorKeys, Sidecar

\* While a request holds a folder or an archive (PathWriteLocks::try_lock_all), nobody
\* else writes under it: no upload, copy, move or deletion, and no installed sidecar.
THEOREM HolderIsAlone == Spec => HolderAlone
<1>1. IInv /\ [Next]_vars => [HolderWrites]_vars
  <2> SUFFICES ASSUME IInv, Next PROVE HolderWrites
    OBVIOUS
  <2> SUFFICES ASSUME NEW w \in Writers, NEW k \in Paths, NEW p \in Files,
                      k \in op[w].held, Covers(k, p), fs'[p] # fs[p], k = p => p[2] = "cbz"
               PROVE  Write(w)
    BY DEF HolderWrites
  <2>1. /\ Conflicts(k, p) /\ (k # p => Conflicts(k, Archive(p[1])))
        /\ \A l \in Dirs : l[1] = p[1] => Conflicts(k, l)
    BY CoveringConflicts
  <2>2. CASE \E v \in Writers, m \in scene.methods, a, b \in InUse : Request(v, m, a, b)
    BY <2>2 DEF Request
  <2>3. CASE \E v \in Writers : Write(v)
    <3>1. PICK v \in Writers : Write(v)
      BY <2>3
    <3>2. \A l \in op[v].held : v # w => ~Conflicts(k, l)
      BY DEF IInv, Exclusive
    <3>3. CASE \E l \in op[v].held : l = p \/ (l \in Dirs /\ l[1] = p[1])
      BY <2>1, <3>1, <3>2, <3>3
    <3>4. CASE p = Sidecar(p[1]) /\ Archive(p[1]) \in op[v].held
      <4>1. p[2] # "cbz"
        BY <3>4 DEF Sidecar
      <4> QED
        BY <2>1, <3>1, <3>2, <3>4, <4>1
    <3> QED
      BY <3>1, <3>3, <3>4, Touches
  <2>4. CASE (\E f \in scene.folders : Submit(f) \/ Hear(f))
               \/ Read \/ Delivered \/ Collect \/ Check \/ LockSidecar \/ Install \/ Record
    <3>1. p \in CollectorKeys /\ p[2] = "mokuro"
      BY <2>4, InstallsUnderItsKey
    <3> QED
      BY <2>1, <3>1 DEF IInv, Exclusive
  <2> QED
    BY <2>2, <2>3, <2>4 DEF Next
<1> QED
  BY <1>1, Invariant, PTL DEF Spec, HolderAlone

\* While the collector holds a sidecar's key (collect.rs, install), no request writes that
\* sidecar, but for the DELETE of its archive, which takes sidecars without their locks.
THEOREM CollectorIsAlone == Spec => CollectorAlone
<1> DEFINE Alone == \A w \in Writers :
                      /\ claim.at = "locked" /\ op'[w] # op[w]
                      /\ ~(Locked(w, "delete") /\ Do(w).from = Archive(claim.of))
                      => fs'[Sidecar(claim.of)] = fs[Sidecar(claim.of)]
<1>1. IInv /\ [Next]_vars => [Alone]_vars
  <2> SUFFICES ASSUME IInv, Next, NEW w \in Writers, claim.at = "locked", op'[w] # op[w],
                      ~(Locked(w, "delete") /\ Do(w).from = Archive(claim.of)),
                      fs'[Sidecar(claim.of)] # fs[Sidecar(claim.of)]
               PROVE  FALSE
    OBVIOUS
  <2> DEFINE p == Sidecar(claim.of)
  <2>1. p \in Files /\ p \in Paths /\ p[1] = claim.of /\ CollectorKeys = {p}
    BY DirsAndFiles DEF IInv, Shapes, Sidecar, Files, Names, CollectorKeys
  <2>2. CASE \E v \in Writers, m \in scene.methods, a, b \in InUse : Request(v, m, a, b)
    BY <2>2 DEF Request
  <2>3. CASE \E v \in Writers : Write(v)
    <3>1. PICK v \in Writers : Write(v)
      BY <2>3
    <3>2. v = w
      BY <3>1, OthersStand
    <3>3. fs'[p] # fs[p]
      OBVIOUS
    <3>4. \A l \in op[w].held : l \in Paths /\ ~Conflicts(l, p)
      BY <2>1 DEF IInv, Exclusive, Shapes, Request_
    <3> HIDE DEF p
    <3>5. CASE \E l \in op[w].held : l = p \/ (l \in Dirs /\ l[1] = p[1])
      BY <2>1, <3>4, <3>5, CoveringConflicts
    <3> QED
      BY <2>1, <3>1, <3>2, <3>3, <3>5, Touches
  <2>4. CASE (\E f \in scene.folders : Submit(f) \/ Hear(f))
               \/ Read \/ Delivered \/ Collect \/ Check \/ LockSidecar \/ Install \/ Record
    BY <2>4 DEF Submit, Hear, Read, Delivered, Collect, Check, LockSidecar, Install, Record
  <2> QED
    BY <2>2, <2>3, <2>4 DEF Next
<1> QED
  BY <1>1, Invariant, PTL DEF Spec, CollectorAlone

-----------------------------------------------------------------------------
(* The stamp                                                               *)

\* There is always another size or time for an archive to have.
StampsLast == \A S : IsFiniteSet(S) => \E v \in Versions : v \notin S

\* While results are collected, archives are uploaded and deleted.  (A MOVE could bring the
\* claimed archive back, stamp and all, after the processor read another in its place.)
UploadsAndDeletes == \A s \in Scenes : s.collects => s.methods \subseteq {"put", "delete"}

PlainSteps == {s \in Steps : s.do \in {"put", "delete", "rmdir"}}
OnlyPlain == \A w \in Writers : op[w].todo \in Seq(PlainSteps)

\* The archive that was read is the one the claim is stamped with, or that one is gone and no
\* upload brings it back.
ReadAsStamped ==
    /\ claim.at # "none" => scene.collects
    /\ scene.collects => OnlyPlain
    /\ ~scene.remote =>
         /\ claim.at # "fetched"
         /\ claim.at \in {"sent", "read", "settling"} => claim.stamp # None
         /\ claim.at \in {"read", "settling"} /\ fs[Archive(claim.of)] = claim.stamp
              => claim.read = claim.stamp

\* A new archive's stamp is none there is, and not the claim's.
LEMMA FreshIsNew ==
    ASSUME StampsLast, IsFiniteSet(Folders), IInv
    PROVE  Fresh \in Versions /\ Fresh # claim.stamp
<1>1. IsFiniteSet(Names)
  <2>1. Names = {"cbz"} \cup {"mokuro"}
    BY DEF Names
  <2> QED BY <2>1, FS_Singleton, FS_Union
<1>2. IsFiniteSet(Files)
  BY <1>1, FS_Product DEF Files
<1>3. IsFiniteSet({fs[p] : p \in Files})
  <2>1. PICK T : T = {fs[p] : p \in Files}
    OBVIOUS
  <2>2. fs \in Surjection(Files, T)
    BY <2>1 DEF Surjection, IInv, Shapes
  <2> QED BY <1>2, <2>1, <2>2, FS_Surjection
<1>4. IsFiniteSet({claim.stamp, claim.read})
  <2>1. PICK a : a = claim.stamp
    OBVIOUS
  <2>2. PICK b : b = claim.read
    OBVIOUS
  <2>3. IsFiniteSet({a}) /\ IsFiniteSet({b})
    BY ONLY FS_Singleton
  <2>4. IsFiniteSet({a} \cup {b})
    BY ONLY <2>3, FS_Union
  <2>5. {a} \cup {b} = {a, b}
    BY ONLY TRUE
  <2>6. IsFiniteSet({a, b})
    BY <2>4, <2>5, Zenon
  <2> QED BY <2>1, <2>2, <2>6, Zenon
<1>5. PICK S : S = {fs[p] : p \in Files} \cup {claim.stamp, claim.read}
  OBVIOUS
<1>6. IsFiniteSet(S)
  BY <1>3, <1>4, <1>5, FS_Union
<1>7. \E v \in Versions : v \notin S
  BY <1>6 DEF StampsLast
<1>8. Fresh = CHOOSE v \in Versions : v \notin S
  BY <1>5 DEF Fresh
<1> QED BY <1>5, <1>7, <1>8

\* With nothing but uploads and deletes sent, nothing else is done.
LEMMA RequestIsPlain ==
    ASSUME IInv, scene \in Scenes, OnlyPlain, NEW w \in Writers, NEW m \in {"put", "delete"},
           NEW p \in InUse, NEW q \in InUse, Request(w, m, p, q)
    PROVE  OnlyPlain'
<1>1. Program(m, p, q) \in Seq(Steps)
  BY ProgramIsSteps DEF Request, InUse
<1>2. PICK s : Program(m, p, q) = <<s>> /\ s.do \in {"put", "delete", "rmdir"}
  BY DEF Program, Step
<1>3. s \in PlainSteps
  <2>1. Head(<<s>>) \in Steps
    BY <1>1, <1>2, HeadTailProperties
  <2> QED BY <1>2, <2>1 DEF PlainSteps
<1>4. Program(m, p, q) \in Seq(PlainSteps)
  BY <1>2, <1>3
<1>5. op' = [op EXCEPT ![w].at = "ready", ![w].todo = Program(m, p, q)] /\ op \in [Writers -> Request_]
  BY DEF Request, IInv, Shapes
<1>6. \A v \in Writers : op'[v].todo = IF v = w THEN Program(m, p, q) ELSE op[v].todo
  BY <1>5 DEF Request_
<1> QED BY <1>4, <1>6 DEF OnlyPlain

LEMMA WriteIsPlain ==
    ASSUME IInv, OnlyPlain, NEW w \in Writers, Write(w)
    PROVE  OnlyPlain'
<1>0. /\ op \in [Writers -> Request_] /\ op[w].todo \in Seq(PlainSteps)
      /\ op[w].todo # <<>> => Do(w) \in PlainSteps /\ Tail(op[w].todo) \in Seq(PlainSteps)
      /\ Holds(w) => op[w].todo # <<>>
  <2>1. op[w].todo \in Seq(PlainSteps)
    BY DEF OnlyPlain
  <2> QED BY <2>1, HeadTailProperties DEF IInv, Shapes, HeldForItsStep, Do
<1>1. ASSUME op'[w].todo \in Seq(PlainSteps)
      PROVE  OnlyPlain'
  <2>1. \A v \in Writers : v # w => op'[v] = op[v]
    BY OthersStand
  <2> QED BY <1>1, <2>1 DEF OnlyPlain
<1>2. \A c : NextStep(w, c)[w].todo = Tail(op[w].todo)
  BY <1>0 DEF NextStep, Request_
<1>3. Refused(w)[w].todo = <<>> /\ <<>> \in Seq(PlainSteps)
  BY <1>0, EmptySeq DEF Refused, Request_
<1>4. CASE Lock(w)
  <2>1. op[w].todo # <<>>
    BY <1>4 DEF Lock
  <2>2. \/ op' = NextStep(w, {}) \/ op' = Refused(w)
        \/ op' = [op EXCEPT ![w].at = "locked", ![w].held = Keys(Do(w))]
    BY <1>4 DEF Lock
  <2>3. op'[w].todo \in {Tail(op[w].todo), <<>>, op[w].todo}
    BY <1>0, <1>2, <1>3, <2>2 DEF Request_
  <2> QED BY <1>0, <1>1, <1>3, <2>1, <2>3
<1>5. CASE Put(w) \/ Move(w) \/ Copy(w) \/ Rename(w) \/ Delete(w) \/ RemoveFolder(w)
  <2>1. Holds(w)
    BY <1>5 DEF Put, Move, Copy, Rename, Delete, RemoveFolder, Locked, Holds
  <2>2. (\E c : op' = NextStep(w, c)) \/ op' = Refused(w)
    BY <1>5 DEF Put, Move, Copy, Rename, Delete, RemoveFolder
  <2> QED BY <1>0, <1>1, <1>2, <1>3, <2>1, <2>2
<1>6. CASE DeleteSidecars(w) \/ RemoveEntry(w)
  <2>1. op'[w].todo = op[w].todo
    <3>1. op[w] \in Request_
      BY <1>0
    <3>2. \A c : /\ [op[w] EXCEPT !.at = "siblings gone", !.changed = @ \cup c].todo = op[w].todo
                /\ [op[w] EXCEPT !.changed = @ \cup c].todo = op[w].todo
      BY <3>1 DEF Request_
    <3>3. CASE DeleteSidecars(w)
      <4>1. PICK c : op' = [op EXCEPT ![w].at = "siblings gone", ![w].changed = @ \cup c]
        BY <3>3 DEF DeleteSidecars
      <4>2. op'[w] = [op[w] EXCEPT !.at = "siblings gone", !.changed = @ \cup c]
        BY <1>0, <4>1
      <4> QED BY <3>2, <4>2
    <3>4. CASE RemoveEntry(w)
      <4>1. PICK c : op' = [op EXCEPT ![w].changed = @ \cup c]
        BY <3>4 DEF RemoveEntry
      <4>2. op'[w] = [op[w] EXCEPT !.changed = @ \cup c]
        BY <1>0, <4>1
      <4> QED BY <3>2, <4>2
    <3> QED BY <1>6, <3>3, <3>4
  <2> QED BY <1>0, <1>1, <2>1
<1>7. ~CopyFolder(w)
  BY <1>0 DEF CopyFolder, PlainSteps
<1>8. CASE Finish(w) \/ Answer(w)
  <2>1. op'[w] = Free
    BY <1>0, <1>8 DEF Finish, Answer
  <2> QED BY <1>1, <1>3, <2>1 DEF Free
<1> QED BY <1>4, <1>5, <1>6, <1>7, <1>8 DEF Write

\* An archive stays, goes, or is a new one.
LEMMA ArchiveStaysOrIsNew ==
    ASSUME IInv, OnlyPlain, NEW w \in Writers, Write(w), NEW f \in Folders
    PROVE  fs'[Archive(f)] \in {fs[Archive(f)], None, Fresh}
<1>0. fs = [p \in Files |-> fs[p]] /\ Archive(f) \in Files
  BY DEF IInv, Shapes, Archive, Files, Names
<1>1. CASE Lock(w) \/ RemoveFolder(w) \/ CopyFolder(w) \/ Finish(w) \/ Answer(w)
  BY <1>1 DEF Lock, RemoveFolder, CopyFolder, Finish, Answer
<1>2. CASE Put(w)
  <2>1. PICK p : p = Do(w).to
    OBVIOUS
  <2>2. CASE p = Archive(f)
    <3>1. p[2] = "cbz"
      BY <2>2 DEF Archive
    <3> QED BY <1>0, <1>2, <2>1, <2>2, <3>1 DEF Put
  <2>3. CASE p # Archive(f)
    BY <1>0, <1>2, <2>1, <2>3 DEF Put
  <2> QED BY <2>2, <2>3
<1>3. CASE DeleteSidecars(w)
  BY <1>0, <1>3 DEF DeleteSidecars
<1>4. CASE Delete(w)
  BY <1>0, <1>4 DEF Delete
<1>5. CASE RemoveEntry(w)
  BY <1>0, <1>5 DEF RemoveEntry
<1>6. CASE Move(w) \/ Copy(w) \/ Rename(w)
  <2>1. Holds(w) /\ Do(w).do \in {"move", "copy", "rename"}
    BY <1>6 DEF Move, Copy, Rename, Locked, Holds
  <2>2. Do(w) \in PlainSteps
    <3>1. op[w].todo \in Seq(PlainSteps) /\ op[w].todo # <<>>
      BY <2>1 DEF OnlyPlain, IInv, HeldForItsStep
    <3> QED BY <3>1, HeadTailProperties DEF Do
  <2> QED BY <2>1, <2>2 DEF PlainSteps
<1> QED BY <1>1, <1>2, <1>3, <1>4, <1>5, <1>6 DEF Write

\* Each step of a request keeps what was read as stamped.
LEMMA WriteKeepsReading ==
    ASSUME StampsLast, IsFiniteSet(Folders), IInv, ReadAsStamped, scene' = scene,
           NEW w \in Writers, Write(w)
    PROVE  ReadAsStamped'
<1>1. claim' = claim
  BY DEF Write, Lock, Put, DeleteSidecars, Delete, RemoveEntry, RemoveFolder, Move, Copy, Rename,
         CopyFolder, Finish, Answer
<1>2. scene.collects => OnlyPlain'
  BY WriteIsPlain DEF ReadAsStamped
<1>3. ASSUME ~scene.remote, claim.at \in {"read", "settling"},
             fs'[Archive(claim.of)] = claim.stamp
      PROVE  claim.read = claim.stamp
  <2>1. OnlyPlain /\ claim.of \in Folders /\ claim.stamp # None
    BY <1>3 DEF ReadAsStamped, IInv, Shapes
  <2>2. fs'[Archive(claim.of)] \in {fs[Archive(claim.of)], None, Fresh}
    BY <2>1, ArchiveStaysOrIsNew
  <2>3. fs[Archive(claim.of)] = claim.stamp
    BY <1>3, <2>1, <2>2, FreshIsNew
  <2> QED BY <1>3, <2>3 DEF ReadAsStamped
<1> QED BY <1>1, <1>2, <1>3 DEF ReadAsStamped

\* So does each step of the claim, and a check that passes then passes what was read.
LEMMA CollectorKeepsReading ==
    ASSUME IInv, ReadAsStamped, scene' = scene,
           (\E f \in scene.folders : Submit(f) \/ Hear(f))
             \/ Read \/ Delivered \/ Collect \/ Check \/ LockSidecar \/ Install \/ Record
    PROVE  ReadAsStamped'
<1>1. op' = op
  BY DEF Submit, Hear, Read, Delivered, Collect, Check, LockSidecar, Install, Record
<1>2. OnlyPlain' <=> OnlyPlain
  BY <1>1 DEF OnlyPlain
<1>3. claim = [at |-> claim.at, of |-> claim.of, stamp |-> claim.stamp, read |-> claim.read]
  BY DEF IInv, Shapes
<1>4. CASE claim'.at = "none"
  BY <1>2, <1>4 DEF ReadAsStamped
<1>5. CASE \E f \in scene.folders : Submit(f)
  <2>1. PICK f \in scene.folders : Submit(f)
    BY <1>5
  <2>2. /\ scene.collects /\ claim'.at = "sent" /\ claim'.stamp = fs[Archive(f)]
        /\ fs[Archive(f)] # None
    BY <2>1 DEF Submit
  <2> QED BY <1>2, <2>2 DEF ReadAsStamped
<1>6. CASE Read
  <2>1. /\ claim.at = "sent" /\ fs' = fs /\ claim'.of = claim.of /\ claim'.stamp = claim.stamp
        /\ claim'.read = fs[Archive(claim.of)]
        /\ claim'.at = IF scene.remote THEN "fetched" ELSE "read"
    BY <1>3, <1>6 DEF Read
  <2> QED BY <1>2, <2>1 DEF ReadAsStamped
<1>7. CASE Delivered
  <2>1. claim.at = "fetched" /\ claim'.at = "read"
    BY <1>3, <1>7 DEF Delivered
  <2> QED BY <1>2, <2>1 DEF ReadAsStamped
<1>8. CASE Collect
  <2>1. /\ claim.at = "read" /\ claim'.at = "settling" /\ fs' = fs /\ claim'.of = claim.of
        /\ claim'.stamp = claim.stamp /\ claim'.read = claim.read
    BY <1>3, <1>8 DEF Collect
  <2> QED BY <1>2, <2>1 DEF ReadAsStamped
<1>9. CASE Check \/ LockSidecar \/ Install \/ Record
  <2>1. \A x : [claim EXCEPT !.at = x].at = x
    BY <1>3
  <2>2. /\ claim.at \in {"settling", "checked", "locked", "installed"}
        /\ claim' = NoClaim \/ \E x \in {"checked", "locked", "installed"} : claim' = [claim EXCEPT !.at = x]
    <3>1. CASE Check
      BY <3>1 DEF Check
    <3>2. CASE LockSidecar
      BY <3>2 DEF LockSidecar
    <3>3. CASE Install
      BY <3>3 DEF Install
    <3>4. CASE Record
      BY <3>4 DEF Record
    <3> QED BY <1>9, <3>1, <3>2, <3>3, <3>4
  <2>3. claim'.at \in {"none", "checked", "locked", "installed"}
    <3>1. CASE claim' = NoClaim
      <4>1. NoClaim.at = "none"
        BY DEF NoClaim
      <4> QED BY <3>1, <4>1
    <3>2. CASE \E x \in {"checked", "locked", "installed"} : claim' = [claim EXCEPT !.at = x]
      <4>1. PICK x \in {"checked", "locked", "installed"} : claim' = [claim EXCEPT !.at = x]
        BY <3>2
      <4>2. claim'.at = x
        BY <2>1, <4>1, Zenon
      <4> QED BY <4>1, <4>2
    <3> QED BY <2>2, <3>1, <3>2
  <2> QED BY <1>2, <2>2, <2>3 DEF ReadAsStamped
<1>10. CASE \E f \in scene.folders : Hear(f)
  <2>1. fs' = fs /\ (claim' = claim \/ claim' = NoClaim)
    BY <1>10 DEF Hear
  <2>2. NoClaim.at = "none"
    BY DEF NoClaim
  <2>3. CASE claim' = claim
    BY <1>2, <2>1, <2>3 DEF ReadAsStamped
  <2> QED BY <1>4, <2>1, <2>2, <2>3
<1> QED BY <1>5, <1>6, <1>7, <1>8, <1>9, <1>10

\* A result of an archive that was replaced is thrown away, however uploads and deletes race the
\* reading, the check and each other, for a processor that reads in the library
\* (collect.rs, install; put.rs, after_commit).
THEOREM StaleIsDiscarded ==
    ASSUME IsFiniteSet(Folders), StampsLast, UploadsAndDeletes
    PROVE  Spec => StaleResultDiscarded
<1> DEFINE Passed == ~scene.remote /\ claim.at = "settling" /\ claim'.at = "checked"
                       => fs[Archive(claim.of)] = claim.read
<1>1. Init => ReadAsStamped
  <2> SUFFICES ASSUME Init PROVE ReadAsStamped
    OBVIOUS
  <2>1. claim.at = "none" /\ \A w \in Writers : op[w].todo = <<>>
    BY DEF Init, NoClaim, Free
  <2> QED BY <2>1, EmptySeq DEF ReadAsStamped, OnlyPlain
<1>2. IInv /\ scene \in Scenes /\ ReadAsStamped /\ [Next]_vars => ReadAsStamped'
  <2> SUFFICES ASSUME IInv, scene \in Scenes, ReadAsStamped, [Next]_vars PROVE ReadAsStamped'
    OBVIOUS
  <2>1. CASE UNCHANGED vars
    BY <2>1 DEF vars, ReadAsStamped, OnlyPlain
  <2>2. scene' = scene
    BY DEF Next, vars
  <2>3. ASSUME NEW w \in Writers, NEW m \in scene.methods, NEW p \in InUse, NEW q \in InUse,
               Request(w, m, p, q)
        PROVE  ReadAsStamped'
    <3>1. claim' = claim /\ fs' = fs
      BY <2>3 DEF Request
    <3>2. scene.collects => OnlyPlain'
      <4> SUFFICES ASSUME scene.collects PROVE OnlyPlain'
        OBVIOUS
      <4>1. OnlyPlain /\ m \in {"put", "delete"}
        BY DEF UploadsAndDeletes, ReadAsStamped
      <4> QED BY <2>3, <4>1, RequestIsPlain
    <3> QED BY <2>2, <3>1, <3>2 DEF ReadAsStamped
  <2> QED BY <2>1, <2>2, <2>3, WriteKeepsReading, CollectorKeepsReading DEF Next
<1>3. IInv /\ ReadAsStamped /\ [Next]_vars => [Passed]_vars
  <2> SUFFICES ASSUME IInv, ReadAsStamped, Next, ~scene.remote, claim.at = "settling",
                      claim'.at = "checked"
               PROVE  fs[Archive(claim.of)] = claim.read
    OBVIOUS
  <2>a. claim' # claim
    OBVIOUS
  <2>1. ASSUME NEW w \in Writers, Write(w) \/ \E m \in scene.methods, p, q \in InUse : Request(w, m, p, q)
        PROVE  FALSE
    <3>1. ~\E m \in scene.methods, p, q \in InUse : Request(w, m, p, q)
      BY <2>a DEF Request
    <3>2. ~Write(w)
      BY <2>a DEF Write, Lock, Put, DeleteSidecars, Delete, RemoveEntry, RemoveFolder, Move, Copy,
                  Rename, CopyFolder, Finish, Answer
    <3> QED BY <2>1, <3>1, <3>2
  <2>2. CASE Check
    <3>1. StampHolds
      BY <2>2 DEF Check, NoClaim
    <3> QED BY <3>1 DEF StampHolds, ReadAsStamped
  <2>3. ~Read /\ ~Delivered /\ ~Collect /\ ~LockSidecar /\ ~Install /\ ~Record
    BY DEF Read, Delivered, Collect, LockSidecar, Install, Record
  <2>4. ASSUME NEW f \in scene.folders, Submit(f) \/ Hear(f) PROVE FALSE
    BY <2>a, <2>4 DEF Submit, Hear, NoClaim
  <2> QED BY <2>1, <2>2, <2>3, <2>4 DEF Next
<1> QED BY <1>1, <1>2, <1>3, Invariant, PTL DEF Spec, StaleResultDiscarded
=============================================================================
