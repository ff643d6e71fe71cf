---------------------------- MODULE LibraryWrites ----------------------------
(***************************************************************************)
(* Writes to the library over WebDAV (crates/bunko-dav/src/write_locks.rs, *)
(* methods/put.rs, methods/write.rs) beside the installation of an OCR     *)
(* result (crates/bunko-server/src/ocr/collect.rs, sched/settle.rs).       *)
(*                                                                         *)
(* A series folder holds one volume: an archive and its sidecar.  A        *)
(* request is a list of steps, each under path locks of its own that are   *)
(* refused, not waited for.  The archive's stamp (size and time) is its    *)
(* version; a sidecar is known by the version it was read from.            *)
(***************************************************************************)
EXTENDS Integers, FiniteSets, Sequences

CONSTANTS
    Folders,
    Writers,       \* concurrent WebDAV requests
    Versions,      \* stamps an archive may have (bound)
    Scenes         \* what one behaviour may meet (see Scene)

\* The folders in use, the methods sent, whether a result is collected, and whether its
\* processor fetches the archive.
Scene == [folders : SUBSET Folders, methods : SUBSET {"put", "delete", "move", "copy"},
          collects : BOOLEAN, remote : BOOLEAN]

ASSUME LibraryAssumption == Versions \subseteq Nat \ {0} /\ Scenes \subseteq Scene

VARIABLES
    scene,     \* what this behaviour meets, fixed from the start
    fs,        \* file -> what is there
    dirs,      \* folders there are
    rows,      \* folders whose sidecar has a provenance row
    op,        \* writer -> its request
    claim,     \* the claimed volume and its result
    news       \* folders whose archive came or went, not yet heard by the scheduler

vars == <<scene, fs, dirs, rows, op, claim, news>>

Names == {"cbz", "mokuro"}
Files == Folders \X Names
Archive(f) == <<f, "cbz">>
Sidecar(f) == <<f, "mokuro">>
None == 0
Theirs == -1       \* a sidecar some client sent

Step(do, from, to) == [do |-> do, from |-> from, to |-> to]
Free == [todo |-> <<>>, at |-> "free", held |-> {}, changed |-> {}]
NoClaim == [at |-> "none", of |-> "", stamp |-> None, read |-> None]

Init ==
    /\ scene \in Scenes
    /\ fs = [p \in Files |-> IF p[2] = "cbz" THEN 1 ELSE None]
    /\ dirs = Folders
    /\ rows = {}
    /\ op = [w \in Writers |-> Free]
    /\ claim = NoClaim
    /\ news = {}

-----------------------------------------------------------------------------
\* PathWriteLocks: keys are paths; one conflicts with those above and below it.

\* Mutant: only the same path conflicts.
ConflictsEqual(a, b) == a = b

Conflicts(a, b) ==
    LET n == IF Len(a) < Len(b) THEN Len(a) ELSE Len(b)
    IN  SubSeq(a, 1, n) = SubSeq(b, 1, n)

CollectorKeys == IF claim.at = "locked" THEN {Sidecar(claim.of)} ELSE {}
Held == CollectorKeys \cup UNION {op[w].held : w \in Writers}

\* try_lock_all: every key or none.
CanLock(keys) ==
    /\ \A k \in keys : \A h \in Held : ~Conflicts(h, k)
    /\ \A k, l \in keys : k # l => ~Conflicts(k, l)

-----------------------------------------------------------------------------
\* What the requests do.

Do(w) == Head(op[w].todo)
\* This step is over: its guard is dropped, the next one is up.
NextStep(w, changed) ==
    [op EXCEPT ![w].todo = Tail(@), ![w].at = "ready", ![w].held = {}, ![w].changed = @ \cup changed]
\* 423, or an error of the file system: the guards are dropped, the rest is left.
Refused(w) == [op EXCEPT ![w].todo = <<>>, ![w].at = "refused", ![w].held = {}]

DeleteIf(p) == IF fs[p] # None THEN <<Step("delete", p, p)>> ELSE <<>>
Copied(f, g) ==
    <<Step("prune", Archive(f), Archive(g)), Step("prune", Sidecar(f), Sidecar(g)),
      Step("mkdir", <<g>>, <<g>>),
      Step("entry", Archive(f), Archive(g)), Step("entry", Sidecar(f), Sidecar(g))>>

\* What a request is made of, by what its look-ups find.
Program(method, p, q) ==
    CASE method = "put" -> <<Step("put", q, q)>>
      [] method = "delete" -> <<Step(IF Len(p) = 1 THEN "rmdir" ELSE "delete", p, p)>>
      [] method = "move" /\ Len(p) = 2 -> <<Step("move", p, q)>>
      [] method = "copy" /\ Len(p) = 2 -> DeleteIf(q) \o <<Step("copy", p, q)>>
      [] method = "move" /\ Len(p) = 1 ->
           (IF q[1] \in dirs THEN <<Step("rmdir", q, q)>> ELSE <<>>) \o <<Step("rename", p, q)>>
      [] method = "copy" /\ Len(p) = 1 -> Copied(p[1], q[1])

There(p) == IF Len(p) = 1 THEN p[1] \in dirs ELSE fs[p] # None
\* put_inner, delete and copy_move up to their first lock.
Request(w, method, p, q) ==
    /\ op[w].at = "free"
    /\ IF method = "put" THEN p = q /\ Len(p) = 2 /\ p[1] \in dirs ELSE There(p)
    /\ IF method \in {"put", "delete"} THEN p = q
       ELSE /\ p # q /\ Len(p) = Len(q)
            /\ Len(p) = 2 => p[2] = q[2] /\ q[1] \in dirs
    /\ op' = [op EXCEPT ![w].at = "ready", ![w].todo = Program(method, p, q)]
    /\ UNCHANGED <<fs, dirs, rows, claim, news>>

\* Mutant: a PUT locks the volume's archive, whichever of its files it writes.
KeysOfVolume(s) ==
    CASE s.do = "put" -> {Archive(s.to[1])}
      [] s.do = "copy" -> {s.to}
      [] s.do \in {"delete", "rmdir"} -> {s.from}
      [] s.do \in {"move", "rename"} -> {s.from, s.to}

Keys(s) ==
    CASE s.do \in {"put", "copy"} -> {s.to}
      [] s.do \in {"delete", "rmdir"} -> {s.from}
      [] s.do \in {"move", "rename"} -> {s.from, s.to}

\* A step takes its locks, is refused, or finds nothing to delete.
Lock(w) ==
    /\ op[w].at = "ready" /\ op[w].todo # <<>>
    /\ Do(w).do \in {"put", "copy", "delete", "rmdir", "move", "rename"}
    /\ op' = IF Do(w).do \in {"delete", "rmdir"} /\ ~There(Do(w).from) THEN NextStep(w, {})
             ELSE IF CanLock(Keys(Do(w)))
                  THEN [op EXCEPT ![w].at = "locked", ![w].held = Keys(Do(w))]
                  ELSE Refused(w)
    /\ UNCHANGED <<fs, dirs, rows, claim, news>>

Locked(w, do) == op[w].at = "locked" /\ Do(w).do = do
\* A stamp no archive has or had as far as anybody remembers.
Fresh == CHOOSE v \in Versions : v \notin {fs[p] : p \in Files} \cup {claim.stamp, claim.read}
ForgetSidecar(p) == IF p[2] = "mokuro" THEN {p[1]} ELSE {}

\* Staging::commit and after_commit; a body cut short publishes nothing.
Put(w) ==
    /\ Locked(w, "put")
    /\ LET p == Do(w).to
       IN  \/ /\ fs' = [fs EXCEPT ![p] = IF p[2] = "cbz" THEN Fresh ELSE Theirs]
              /\ dirs' = dirs \cup {p[1]}
              /\ rows' = rows \ ForgetSidecar(p)
              /\ op' = NextStep(w, {p})
           \/ op' = Refused(w) /\ UNCHANGED <<fs, dirs, rows>>
    /\ UNCHANGED <<claim, news>>

\* delete_file: the sidecars of an archive go first, unlocked ...
DeleteSidecars(w) ==
    /\ Locked(w, "delete") /\ Do(w).from[2] = "cbz"
    /\ fs' = [fs EXCEPT ![Sidecar(Do(w).from[1])] = None]
    /\ op' = [op EXCEPT ![w].at = "siblings gone", ![w].changed = @ \cup {Sidecar(Do(w).from[1])}]
    /\ UNCHANGED <<dirs, rows, claim, news>>

\* ... then the file and its records.
Delete(w) ==
    /\ \/ op[w].at = "siblings gone"
       \/ Locked(w, "delete") /\ Do(w).from[2] # "cbz"
    /\ fs' = [fs EXCEPT ![Do(w).from] = None]
    /\ rows' = rows \ {Do(w).from[1]}
    /\ op' = NextStep(w, {Do(w).from})
    /\ UNCHANGED <<dirs, claim, news>>

\* remove_dir_all takes one entry after the other.
RemoveEntry(w) ==
    /\ Locked(w, "rmdir")
    /\ \E n \in Names :
         /\ fs[<<Do(w).from[1], n>>] # None
         /\ fs' = [fs EXCEPT ![<<Do(w).from[1], n>>] = None]
         /\ op' = [op EXCEPT ![w].changed = @ \cup {<<Do(w).from[1], n>>}]
    /\ UNCHANGED <<dirs, rows, claim, news>>

RemoveFolder(w) ==
    /\ Locked(w, "rmdir")
    /\ \A n \in Names : fs[<<Do(w).from[1], n>>] = None
    /\ dirs' = dirs \ {Do(w).from[1]}
    /\ rows' = rows \ {Do(w).from[1]}
    /\ op' = NextStep(w, {Do(w).from})
    /\ UNCHANGED <<fs, claim, news>>

\* move_file: one rename, the sidecars stay.
Move(w) ==
    /\ Locked(w, "move")
    /\ LET p == Do(w).from  q == Do(w).to
       IN  IF fs[p] = None THEN op' = Refused(w) /\ UNCHANGED <<fs, dirs, rows>>
           ELSE /\ fs' = [fs EXCEPT ![p] = None, ![q] = fs[p]]
                /\ dirs' = dirs \cup {q[1]}
                /\ rows' = rows \ ({p[1]} \cup ForgetSidecar(q))
                /\ op' = NextStep(w, {p, q})
    /\ UNCHANGED <<claim, news>>

\* copy_file: the copy keeps the source's times, and so its stamp.
Copy(w) ==
    /\ Locked(w, "copy")
    /\ LET p == Do(w).from  q == Do(w).to
       IN  IF fs[p] = None THEN op' = Refused(w) /\ UNCHANGED <<fs, dirs, rows>>
           ELSE /\ fs' = [fs EXCEPT ![q] = fs[p]]
                /\ dirs' = dirs \cup {q[1]}
                /\ rows' = rows \ ForgetSidecar(q)
                /\ op' = NextStep(w, {q})
    /\ UNCHANGED <<claim, news>>

\* move_folder: one rename, refused onto a folder somebody filled meanwhile.
Rename(w) ==
    /\ Locked(w, "rename")
    /\ LET f == Do(w).from[1]  g == Do(w).to[1]
       IN  IF f \notin dirs \/ \E n \in Names : fs[<<g, n>>] # None
           THEN op' = Refused(w) /\ UNCHANGED <<fs, dirs, rows>>
           ELSE /\ fs' = [p \in Files |-> IF p[1] = g THEN fs[<<f, p[2]>>]
                                          ELSE IF p[1] = f THEN None ELSE fs[p]]
                /\ dirs' = (dirs \ {f}) \cup {g}
                /\ rows' = (rows \ {f, g}) \cup (IF f \in rows THEN {g} ELSE {})
                /\ op' = NextStep(w, {<<f>>, <<g>>})
    /\ UNCHANGED <<claim, news>>

\* copy_folder's own work, under no lock: what the source lacks goes from the
\* destination, the folder is made, each entry becomes a delete and a copy.
CopyFolder(w) ==
    /\ op[w].at = "ready" /\ op[w].todo # <<>>
    /\ LET s == Do(w)
           instead == CASE s.do = "prune" -> IF fs[s.from] = None THEN DeleteIf(s.to) ELSE <<>>
                        [] s.do = "entry" -> IF fs[s.from] = None THEN <<>>
                                             ELSE DeleteIf(s.to) \o <<Step("copy", s.from, s.to)>>
                        [] s.do = "mkdir" -> <<>>
       IN  /\ s.do \in {"prune", "entry", "mkdir"}
           /\ dirs' = IF s.do = "mkdir" THEN dirs \cup {s.to[1]} ELSE dirs
           /\ op' = [op EXCEPT ![w].todo = instead \o Tail(@)]
    /\ UNCHANGED <<fs, rows, claim, news>>

\* Effects::fire, when every step went through.
Finish(w) ==
    /\ op[w].at = "ready" /\ op[w].todo = <<>>
    /\ news' = IF scene.collects THEN news \cup {p[1] : p \in op[w].changed} ELSE news
    /\ op' = [op EXCEPT ![w] = Free]
    /\ UNCHANGED <<fs, dirs, rows, claim>>

\* A refused request is answered; nothing is reported.
Answer(w) ==
    /\ op[w].at = "refused"
    /\ op' = [op EXCEPT ![w] = Free]
    /\ UNCHANGED <<fs, dirs, rows, claim, news>>

-----------------------------------------------------------------------------
\* The claim of one volume, and the helper that installs its result.

\* submit: a volume that owes a sidecar, stamped with the archive there is.
Submit(f) ==
    /\ scene.collects /\ claim.at = "none" /\ fs[Archive(f)] # None /\ fs[Sidecar(f)] = None
    /\ claim' = [at |-> "sent", of |-> f, stamp |-> fs[Archive(f)], read |-> None]
    /\ UNCHANGED <<fs, dirs, rows, op, news>>

\* The processor opens the archive, or fetches it.
Read ==
    /\ claim.at = "sent" /\ fs[Archive(claim.of)] # None
    /\ claim' = [claim EXCEPT !.at = IF scene.remote THEN "fetched" ELSE "read", !.read = fs[Archive(claim.of)]]
    /\ UNCHANGED <<fs, dirs, rows, op, news>>

\* download_delivered: the claim is stamped with the archive there is now.
Delivered ==
    /\ claim.at = "fetched"
    /\ claim' = [claim EXCEPT !.at = "read", !.stamp = fs[Archive(claim.of)]]
    /\ UNCHANGED <<fs, dirs, rows, op, news>>

\* archive_arrived, archive_removed: cancel_stale_jobs stops the session unless it
\* holds another claim that is not stale.
Hear(f) ==
    /\ f \in news
    /\ news' = news \ {f}
    /\ \/ UNCHANGED claim
       \/ /\ claim.of = f /\ claim.at \in {"sent", "fetched", "read"}
          /\ claim.stamp # fs[Archive(f)]
          /\ claim' = NoClaim
    /\ UNCHANGED <<fs, dirs, rows, op>>

\* collect hands the result to a helper.
Collect ==
    /\ claim.at = "read"
    /\ claim' = [claim EXCEPT !.at = "settling"]
    /\ UNCHANGED <<fs, dirs, rows, op, news>>

\* Mutant: an archive that is there is the one.
StampPresent == fs[Archive(claim.of)] # None

StampHolds ==
    IF claim.stamp = None THEN fs[Archive(claim.of)] # None ELSE fs[Archive(claim.of)] = claim.stamp

\* install: the archive is still the one, or the result is discarded ...
Check ==
    /\ claim.at = "settling"
    /\ claim' = IF StampHolds THEN [claim EXCEPT !.at = "checked"] ELSE NoClaim
    /\ UNCHANGED <<fs, dirs, rows, op, news>>

\* ... the sidecar's lock, or Busy when patience ends, or a bad result ...
LockSidecar ==
    /\ claim.at = "checked"
    /\ \/ CanLock({Sidecar(claim.of)}) /\ claim' = [claim EXCEPT !.at = "locked"]
       \/ claim' = NoClaim
    /\ UNCHANGED <<fs, dirs, rows, op, news>>

\* ... into place, beside a sidecar that is there; the guard is dropped ...
Install ==
    /\ claim.at = "locked"
    /\ IF claim.of \in dirs
       THEN /\ fs' = [fs EXCEPT ![Sidecar(claim.of)] = IF @ = None THEN claim.read ELSE @]
            /\ claim' = [claim EXCEPT !.at = "installed"]
       ELSE claim' = NoClaim /\ UNCHANGED fs
    /\ UNCHANGED <<dirs, rows, op, news>>

\* ... and record_written.
Record ==
    /\ claim.at = "installed"
    /\ rows' = rows \cup {claim.of}
    /\ claim' = NoClaim
    /\ UNCHANGED <<fs, dirs, op, news>>

Paths == Files \cup {<<f>> : f \in Folders}
InUse == {p \in Paths : p[1] \in scene.folders}

Write(w) ==
    \/ Lock(w) \/ Put(w) \/ DeleteSidecars(w) \/ Delete(w) \/ RemoveEntry(w) \/ RemoveFolder(w)
    \/ Move(w) \/ Copy(w) \/ Rename(w) \/ CopyFolder(w) \/ Finish(w) \/ Answer(w)

Next ==
    /\ UNCHANGED scene
    /\ \/ \E w \in Writers :
            \/ \E m \in scene.methods, p, q \in InUse : Request(w, m, p, q)
            \/ Write(w)
       \/ \E f \in scene.folders : Submit(f) \/ Hear(f)
       \/ Read \/ Delivered \/ Collect \/ Check \/ LockSidecar \/ Install \/ Record

Spec == Init /\ [][Next]_vars

-----------------------------------------------------------------------------
TypeOK ==
    /\ scene \in Scenes
    /\ fs \in [Files -> Versions \cup {None, Theirs}]
    /\ dirs \subseteq Folders /\ rows \subseteq Folders /\ news \subseteq Folders
    /\ \A w \in Writers :
         /\ op[w].at \in {"free", "ready", "locked", "siblings gone", "refused"}
         /\ op[w].held \subseteq Paths /\ op[w].changed \subseteq Paths
    /\ claim.at \in {"none", "sent", "fetched", "read", "settling", "checked", "locked", "installed"}
    /\ claim.stamp \in Versions \cup {None} /\ claim.read \in Versions \cup {None}
    \* Nothing is in a folder that is not there.
    /\ \A p \in Files : fs[p] # None => p[1] \in dirs

Covers(k, p) == SubSeq(p, 1, Len(k)) = k
\* Under a held folder and at a held archive only its holder writes: a folder's
\* DELETE or MOVE never meets an upload, a copy or an installed sidecar inside it,
\* though it takes several steps.  (An archive's DELETE takes its sidecars without
\* their locks.)
HolderWrites ==
    \A w \in Writers, k \in Paths, p \in Files :
        (k \in op[w].held /\ Covers(k, p) /\ fs'[p] # fs[p] /\ (k = p => p[2] = "cbz"))
            => Write(w)
HolderAlone == [][HolderWrites]_vars

\* The same for the collector: no request writes the sidecar's path while its
\* result moves into place, but for the DELETE of the archive.
CollectorAlone ==
    [][\A w \in Writers :
         /\ claim.at = "locked" /\ op'[w] # op[w]
         /\ ~(Locked(w, "delete") /\ Do(w).from = Archive(claim.of))
         => fs'[Sidecar(claim.of)] = fs[Sidecar(claim.of)]]_vars

\* "a stale result is never installed" (tests/ocr_sched.rs:676): whatever is uploaded and
\* deleted, the check that the archive is the one the claim read lets only results of that
\* archive pass, for a processor that reads it in the library (a fetched one is stamped anew
\* once its download ended, whatever was replaced meanwhile).
StaleResultDiscarded ==
    [][~scene.remote /\ claim.at = "settling" /\ claim'.at = "checked"
           => fs[Archive(claim.of)] = claim.read]_vars
=============================================================================
