----------------------------- MODULE ReleaseSwitch -----------------------------
(***************************************************************************)
(* How a release replaces itself and is undone: Installer::run and switch, *)
(* after_restart and rollback of mokuro-bunko/src/autoupdate.rs, with the  *)
(* executable's copies (bunko-update/src/lib.rs), the marker and the       *)
(* blocked file (bunko-update/src/auto.rs).  Every file operation is a     *)
(* step of its own; the machine may lose power before any of them, a       *)
(* written file may then be torn, and the operations of scene.faulty may   *)
(* fail.  The error of a step of the switch or of the rollback is handled; *)
(* that of an undo, of a block and of a file that is removed is ignored,   *)
(* and the code goes on as if it had been done.                            *)
(*                                                                         *)
(* A version is a number, a pack is the release it belongs to.  The pack's *)
(* directory has one name (the torch version stays), so .prev-<name> and   *)
(* the installed pack are one place each.  The other copies of the program *)
(* in a Windows or macOS install, the models and the download are left     *)
(* out; a directory that could not be removed is there as it was.          *)
(***************************************************************************)
EXTENDS Integers, Sequences

CONSTANTS
    Versions,      \* the releases there will be, in order; the first is installed
    FirstPack,     \* the release of the pack installed at first, 0: none
    Scenes         \* what one behaviour may meet (see Scene)

\* Whether the owner installs releases by hand too, the file operations that may fail and how
\* many do, how often the power fails, and whether it may fail in the middle of a write.
Scene == [byHand : BOOLEAN, faulty : SUBSET STRING, faults : Nat, crashes : Nat, torn : BOOLEAN]

First == CHOOSE v \in Versions : \A w \in Versions : v <= w

ASSUME ReleasesAreNumbered ==
    /\ Versions \subseteq Nat \ {0} /\ Versions # {}
    /\ FirstPack \in {0, First}
    /\ Scenes \subseteq Scene

VARIABLES
    scene,       \* what this behaviour meets, fixed from the start
    exe,         \* the executable there is
    previous,    \* .mokuro-bunko-previous
    pack,        \* the installed backend pack
    prev,        \* .prev-<name>
    staging,     \* .staging-<variant>
    marker,      \* <storage>/.update.json
    blocked,     \* <storage>/.update-blocked.json: the version, or 0
    running,     \* the release of the process, 0: none runs
    todo,        \* the steps before it, none: it serves
    hand,        \* the marker it made or took
    report,      \* what the status says of the update
    latest,      \* the newest release published
    undone,      \* versions rolled back and not installed by hand since
    began,       \* what was there when the attempt began, and whether it was undone without an error
    stuck,       \* the operations that failed and were passed over
    checked,     \* the releases that proved themselves: their pack loaded, or they have none
    risked,      \* those another install began over before that, or that could not be undone
    mixed,       \* those installed over a pack that was not the running release's own
    unwritten,   \* versions whose block could not be written
    faults, crashes

disk == <<exe, previous, pack, prev, staging, marker, blocked>>
history == <<began, stuck, checked, risked, mixed, unwritten>>
vars == <<scene, disk, running, todo, hand, report, latest, undone, history, faults, crashes>>

None == 0
Torn == -1
NoMarker == [kind |-> "none", from |-> 0, to |-> 0, pack |-> FALSE, prev_pack |-> FALSE]
TornMarker == [NoMarker EXCEPT !.kind = "torn"]
Marker == [kind : {"none", "torn", "binary", "rollback"}, from : Versions \cup {0}, to : Versions \cup {0},
           pack : BOOLEAN, prev_pack : BOOLEAN]
NoAttempt == [exe |-> 0, pack |-> 0, marker |-> NoMarker, clean |-> TRUE]

\* The ways through, each a sequence of steps.
Switch    == <<"backup", "aside", "place", "mark", "commit">>
UndoAll   == <<"unplace", "unmove", "unmark", "drop">>
UndoPack  == <<"unplace", "unmove", "drop">>
UndoMove  == <<"unmove", "drop">>
\* Mutant: only the executable goes back.
RollbackExe == <<"block", "restore_exe">>
Rollback  == <<"unplace", "restore", "block", "restore_exe">>
GoBack    == <<"mark_back", "restart">>
Proven    == <<"drop_kept", "drop", "unblock">>

Steps == {"take", "probe", "restart", "clear", "restore", "block", "restore_exe", "mark_back", "drop_kept",
          "unblock", "unplace", "unmove", "unmark", "drop"} \cup {Switch[i] : i \in 1..Len(Switch)}
\* What is undone of a switch that failed.
UndoSteps == {"unplace", "unmove", "unmark"}

Serving == running # 0 /\ todo = <<>>
At(step) == running # 0 /\ todo # <<>> /\ Head(todo) = step
\* A fault is spent; the step did not happen.
Fails(step) == step \in scene.faulty /\ faults < scene.faults /\ faults' = faults + 1
Same == UNCHANGED <<latest, undone, checked, risked, mixed, unwritten, crashes>>
\* A step that did what it should: the next one, and no fault.
Goes == todo' = Tail(todo) /\ UNCHANGED <<running, hand, report, began, stuck, faults>> /\ Same
\* A step of the switch that did not: what was done is undone.
Undoes(steps) == todo' = steps /\ UNCHANGED <<running, hand, report, began, stuck>> /\ Same
\* A step that did not, and whose error is ignored (let _ = ...): the next one.
Ignored(step) ==
    /\ Fails(step) /\ todo' = Tail(todo)
    /\ stuck' = stuck \cup {step}
    /\ began' = IF step \in UndoSteps /\ began # NoAttempt THEN [began EXCEPT !.clean = FALSE] ELSE began
    /\ UNCHANGED <<running, hand, report>> /\ Same

Init ==
    /\ scene \in Scenes
    /\ exe = First /\ running = First /\ pack = FirstPack
    /\ previous = None /\ prev = None /\ staging = None
    /\ marker = NoMarker /\ hand = NoMarker /\ blocked = 0
    /\ todo = <<>> /\ report = "none" /\ latest = First
    /\ undone = {} /\ began = NoAttempt /\ checked = {First}
    /\ stuck = {} /\ risked = {} /\ mixed = {} /\ unwritten = {}
    /\ faults = 0 /\ crashes = 0

\* A newer release is published.
Publish(v) ==
    /\ v > latest /\ latest' = v
    /\ UNCHANGED <<disk, running, todo, hand, report, undone, history, faults, crashes>>

-----------------------------------------------------------------------------
(* The switch *)

\* Installer::run: the newest release is fetched and staged beside the running one, and its
\* pack if one is installed here (prefetch).
SetsOut(hands) ==
    /\ staging' = IF pack = None THEN None ELSE latest
    /\ todo' = Switch \o (IF hands THEN <<"clear", "restart">> ELSE <<"restart">>)
    /\ hand' = [kind |-> "binary", from |-> running, to |-> latest, pack |-> pack # None, prev_pack |-> pack # None]
    /\ began' = [exe |-> exe, pack |-> pack, marker |-> marker, clean |-> TRUE]
    /\ undone' = IF hands THEN undone \ {latest} ELSE undone
    /\ risked' = risked \cup ({running} \ checked)
    /\ mixed' = IF pack \in {None, running} THEN mixed \ {latest} ELSE mixed \cup {latest}
    /\ UNCHANGED <<exe, previous, pack, prev, marker, blocked, running, report, latest, stuck, checked, unwritten,
                   faults, crashes>>

\* Mutant: the block is not looked at.
InstallAnyway(hands) == Serving /\ latest > running /\ SetsOut(hands)

\* stage refuses what is not newer.  try_auto passes over the blocked version; an install by
\* hand does not.
Install(hands) == Serving /\ latest > running /\ (hands \/ blocked # latest) /\ SetsOut(hands)

\* backup_running: the old copy goes first, if it can; a copy that failed may leave a part.
Backup ==
    /\ At("backup")
    /\ UNCHANGED <<exe, pack, prev, staging, marker, blocked>>
    /\ \/ previous' = exe /\ Goes
       \/ previous' \in {previous, None, Torn} /\ Fails("backup") /\ Undoes(<<>>)

\* switch_pack: the installed pack moves to .prev-<name>, whatever was there goes.
\* Mutant: the pack in use is deleted, not kept.
AsideDeletes ==
    /\ At("aside")
    /\ UNCHANGED <<exe, previous, staging, marker, blocked>>
    /\ \/ pack' = None /\ prev' = None /\ Goes
       \/ prev' \in {prev, None} /\ UNCHANGED pack /\ Fails("aside") /\ Undoes(<<"drop">>)

Aside ==
    /\ At("aside")
    /\ UNCHANGED <<exe, previous, staging, marker, blocked>>
    /\ \/ hand.pack /\ prev' = pack /\ pack' = None /\ Goes
       \/ ~hand.pack /\ UNCHANGED <<pack, prev>> /\ Goes
       \/ hand.pack /\ prev' \in {prev, None} /\ UNCHANGED pack /\ Fails("aside") /\ Undoes(<<"drop">>)

\* Mutant: a pack that cannot be placed leaves the old one aside.
PlaceForgets ==
    /\ At("place")
    /\ UNCHANGED <<exe, previous, prev, marker, blocked>>
    /\ \/ hand.pack /\ pack' = staging /\ staging' = None /\ Goes
       \/ ~hand.pack /\ UNCHANGED <<pack, staging>> /\ Goes
       \/ hand.pack /\ UNCHANGED <<pack, staging>> /\ Fails("place") /\ Undoes(<<"drop">>)

Place ==
    /\ At("place")
    /\ UNCHANGED <<exe, previous, prev, marker, blocked>>
    /\ \/ hand.pack /\ pack' = staging /\ staging' = None /\ Goes
       \/ ~hand.pack /\ UNCHANGED <<pack, staging>> /\ Goes
       \/ hand.pack /\ UNCHANGED <<pack, staging>> /\ Fails("place") /\ Undoes(UndoMove)

\* Marker::write; a write that failed may leave a part.
Mark ==
    /\ At("mark")
    /\ UNCHANGED <<exe, previous, pack, prev, staging, blocked>>
    /\ \/ marker' = hand /\ Goes
       \/ marker' \in {marker, TornMarker} /\ Fails("mark") /\ Undoes(UndoPack)

\* Staged::commit: the executable is replaced in one rename.
Commit ==
    /\ At("commit")
    /\ UNCHANGED <<previous, pack, prev, staging, marker, blocked>>
    /\ \/ exe' = hand.to /\ Goes
       \/ UNCHANGED exe /\ Fails("commit") /\ Undoes(UndoAll)

\* undo_pack: the pack that was placed goes (and in a rollback, to .failed-).
Unplace ==
    /\ At("unplace")
    /\ UNCHANGED <<exe, previous, prev, staging, marker, blocked>>
    /\ \/ pack' = (IF hand.pack THEN None ELSE pack) /\ Goes
       \/ hand.pack /\ UNCHANGED pack /\ Ignored("unplace")

\* ... and the one kept comes back, if there was one and its place is free (also
\* restore of a rollback).
KeptComesBack ==
    IF hand.prev_pack /\ prev # None /\ pack = None
      THEN pack' = prev /\ prev' = None
      ELSE UNCHANGED <<pack, prev>>

Unmove ==
    /\ At("unmove")
    /\ UNCHANGED <<exe, previous, staging, marker, blocked>>
    /\ \/ KeptComesBack /\ Goes
       \/ hand.prev_pack /\ UNCHANGED <<pack, prev>> /\ Ignored("unmove")

Unmark ==
    /\ At("unmark")
    /\ UNCHANGED <<exe, previous, pack, prev, staging, blocked>>
    /\ \/ marker' = NoMarker /\ Goes
       \/ UNCHANGED marker /\ Ignored("unmark")

\* drop_previous: after a failed switch, and when the release has proven itself.
Drop ==
    /\ At("drop")
    /\ UNCHANGED <<exe, pack, prev, staging, marker, blocked>>
    /\ \/ previous' = None /\ Goes
       \/ UNCHANGED previous /\ Ignored("drop")

\* Blocked::clear: an install by hand lifts the block before it restarts, and a
\* start finds a block that is history.
Clear ==
    /\ At("clear")
    /\ UNCHANGED <<exe, previous, pack, prev, staging, marker>>
    /\ \/ blocked' = 0 /\ Goes
       \/ UNCHANGED blocked /\ Ignored("clear")

-----------------------------------------------------------------------------
(* The next start *)

\* A process of the executable there is now begins, if that is whole; after_restart
\* comes first.
Starts ==
    /\ running' = IF exe = Torn THEN 0 ELSE exe
    /\ todo' = IF exe = Torn THEN <<>> ELSE <<"take">>
    /\ hand' = NoMarker /\ report' = "none" /\ began' = NoAttempt
    /\ UNCHANGED <<disk, latest, undone, stuck, checked, risked, mixed, unwritten, faults, crashes>>

Restart == At("restart") /\ Starts
Start == running = 0 /\ Starts

\* What the marker m asks of a start.
Asks(m) ==
    CASE m.kind \in {"none", "torn"} -> IF blocked # 0 /\ blocked <= running THEN <<"clear">> ELSE <<>>
      [] m.kind = "rollback" -> <<"block">>
      [] m.kind = "binary" /\ m.to # running -> <<"block">>
      [] m.kind = "binary" /\ m.to = running /\ m.pack -> <<"probe">>
      [] OTHER -> Proven

\* Marker::take: read and removed, if it can be; a torn one says nothing.  Without a
\* marker a block on a version at or below this one is history.
Take ==
    /\ At("take")
    /\ hand' = marker /\ todo' = Asks(marker)
    /\ \/ marker' = NoMarker /\ UNCHANGED <<stuck, faults>>
       \/ marker.kind # "none" /\ UNCHANGED marker /\ Fails("take") /\ stuck' = stuck \cup {"take"}
    /\ report' = IF marker.kind \in {"none", "torn"} /\ blocked > running THEN "blocked" ELSE "none"
    /\ checked' = IF Asks(marker) = Proven THEN checked \cup {running} ELSE checked
    /\ UNCHANGED <<exe, previous, pack, prev, staging, blocked, running, latest, undone, began, risked, mixed,
                   unwritten, crashes>>

\* Mutant: a pack that does not load is tried again at the next start.
ProbeTriesAgain ==
    /\ At("probe")
    /\ \/ pack = running /\ todo' = Proven /\ checked' = checked \cup {running} /\ UNCHANGED marker
       \/ todo' = <<"restart">> /\ marker' = hand /\ UNCHANGED checked
    /\ UNCHANGED <<exe, previous, pack, prev, staging, blocked, running, hand, report, latest, undone, began,
                   stuck, risked, mixed, unwritten, faults, crashes>>

\* probe_child: install-ocr --probe.  A release opens only its own pack, and that
\* may fail too.
Probe ==
    /\ At("probe")
    /\ \/ pack = running /\ todo' = Proven /\ checked' = checked \cup {running}
       \/ todo' = Rollback /\ UNCHANGED checked
    /\ UNCHANGED <<disk, running, hand, report, latest, undone, began, stuck, risked, mixed, unwritten,
                   faults, crashes>>

\* The kept copies go, the release is said to be there.
DropKept ==
    /\ At("drop_kept")
    /\ UNCHANGED <<exe, previous, pack, staging, marker, blocked>>
    /\ \/ prev' = (IF hand.prev_pack THEN None ELSE prev) /\ Goes
       \/ UNCHANGED prev /\ Ignored("drop_kept")

Unblock ==
    /\ At("unblock")
    /\ report' = "updated" /\ todo' = <<>>
    /\ \/ blocked' = 0 /\ UNCHANGED <<stuck, faults>>
       \/ UNCHANGED blocked /\ Fails("unblock") /\ stuck' = stuck \cup {"unblock"}
    /\ UNCHANGED <<exe, previous, pack, prev, staging, marker, running, hand, began>> /\ Same

\* rollback: the pack that was kept comes back.
Restore ==
    /\ At("restore")
    /\ UNCHANGED <<exe, previous, staging, marker, blocked>>
    /\ \/ KeptComesBack /\ Goes
       \/ UNCHANGED <<pack, prev>> /\ Fails("restore") /\ Undoes(Tail(todo))

\* Blocked::write: by rollback, and at the start that finds its marker, or finds
\* that the update did not take.  One that fails leaves what was there, or nothing
\* that can be read; nobody looks.
Judged == IF hand.kind = "rollback" THEN hand.from ELSE hand.to

Block ==
    /\ At("block")
    /\ \/ blocked' = Judged /\ UNCHANGED faults
       \/ blocked' \in {blocked, 0} /\ Fails("block")
    /\ unwritten' = IF blocked' = Judged THEN unwritten \ {Judged} ELSE unwritten \cup {Judged}
    /\ todo' = Tail(todo)
    /\ report' = IF Tail(todo) = <<>> THEN "blocked" ELSE report
    /\ UNCHANGED <<exe, previous, pack, prev, staging, marker, running, hand, latest, undone, began, stuck, checked,
                   risked, mixed, crashes>>

\* restore_previous, whose copy may stay; when it fails, rollback returns and
\* after_restart goes on.
RestoreExe ==
    /\ At("restore_exe")
    /\ UNCHANGED <<pack, prev, staging, marker, blocked, running, hand, report, latest, began, stuck, checked, mixed,
                   unwritten, crashes>>
    /\ \/ /\ previous # None /\ exe' = previous
          /\ \/ previous' = None /\ UNCHANGED faults
             \/ UNCHANGED previous /\ Fails("drop")
          /\ todo' = GoBack /\ undone' = undone \cup {hand.to} /\ UNCHANGED risked
       \/ /\ IF previous = None THEN UNCHANGED faults ELSE Fails("restore_exe")
          /\ todo' = Proven /\ risked' = risked \cup {running} /\ UNCHANGED <<exe, previous, undone>>

MarkBack ==
    /\ At("mark_back")
    /\ UNCHANGED <<exe, previous, pack, prev, staging, blocked>>
    /\ \/ /\ marker' = [kind |-> "rollback", from |-> hand.to, to |-> hand.from,
                        pack |-> hand.prev_pack, prev_pack |-> FALSE]
          /\ Goes
       \/ marker' \in {marker, TornMarker} /\ Fails("mark_back") /\ Undoes(Tail(todo))

\* The power fails: a file being written may be torn (a block that is torn reads
\* as none).
Tears(step) == scene.torn /\ At(step)

Crash ==
    /\ running # 0 /\ crashes < scene.crashes /\ crashes' = crashes + 1
    /\ running' = 0 /\ todo' = <<>> /\ hand' = NoMarker /\ report' = "none" /\ began' = NoAttempt
    /\ marker' \in IF Tears("mark") \/ Tears("mark_back") THEN {marker, TornMarker} ELSE {marker}
    /\ blocked' \in IF Tears("block") THEN {blocked, 0} ELSE {blocked}
    /\ previous' \in IF Tears("backup") THEN {previous, None, Torn} ELSE {previous}
    /\ unwritten' = IF Tears("block") /\ blocked' # Judged THEN unwritten \cup {Judged} ELSE unwritten
    /\ UNCHANGED <<exe, pack, prev, staging, latest, undone, stuck, checked, risked, mixed, faults>>

\* install-ocr, by hand: this release's own pack.
InstallOcr ==
    /\ Serving /\ scene.byHand /\ pack \notin {None, running}
    /\ pack' = running /\ checked' = checked \cup {running} /\ began' = NoAttempt
    /\ UNCHANGED <<exe, previous, prev, staging, marker, blocked, running, todo, hand, report, latest, undone,
                   stuck, risked, mixed, unwritten, faults, crashes>>

-----------------------------------------------------------------------------
SwitchStep == Backup \/ Aside \/ Place \/ Mark \/ Commit \/ Unplace \/ Unmove \/ Unmark \/ Drop \/ Clear
StartStep == Restart \/ Start \/ Take \/ Probe \/ DropKept \/ Unblock \/ Restore \/ Block \/ RestoreExe \/ MarkBack

Next ==
    /\ UNCHANGED scene
    /\ \/ \E v \in Versions : Publish(v)
       \/ Install(FALSE) \/ (scene.byHand /\ Install(TRUE))
       \/ SwitchStep \/ StartStep
       \/ Crash \/ InstallOcr

Spec == Init /\ [][Next]_vars

\* The process goes on with what it began, its supervisor starts it again after a
\* power failure (systemd, run.bat, the tray), and a check comes every 12 hours.
Fairness ==
    WF_vars((SwitchStep \/ StartStep) /\ UNCHANGED scene) /\ WF_vars(Install(FALSE) /\ UNCHANGED scene)
FairSpec == Spec /\ Fairness

-----------------------------------------------------------------------------
TypeOK ==
    /\ scene \in Scenes
    /\ exe \in Versions \cup {Torn}
    /\ previous \in Versions \cup {None, Torn}
    /\ {pack, prev, staging, blocked, running} \subseteq Versions \cup {0}
    /\ marker \in Marker /\ hand \in Marker
    /\ \A i \in 1..Len(todo) : todo[i] \in Steps
    /\ report \in {"none", "updated", "blocked"}
    /\ latest \in Versions /\ undone \cup checked \cup risked \cup mixed \cup unwritten \subseteq Versions
    /\ stuck \subseteq Steps
    /\ faults \in 0..scene.faults /\ crashes \in 0..scene.crashes

\* "On an error nothing has changed" (switch): an attempt that ended in an error,
\* and not in a crash, leaves the program, the pack and the marker that were there
\* (or a torn one, which says nothing).  When the undo itself fails, and that is
\* ignored, the program is still the old one and its pack is in place or kept.
FailureChangesNothing ==
    Serving /\ began # NoAttempt =>
        /\ exe = began.exe
        /\ began.pack \in {pack, prev}
        /\ began.clean => pack = began.pack /\ marker \in {began.marker, NoMarker, TornMarker}

\* Until a release has proven itself, the program it replaced is there to go back
\* to, whole, and so is a pack, whatever crash or error came before: also when the
\* power failed while it was probed and it serves unproven, until the next install
\* begins over it.  A program is put back in part only after a marker that could
\* not be removed had a release undone a second time.
Settled == checked \cup risked
CanGoBack ==
    /\ exe = Torn => "take" \in stuck
    /\ exe \notin Settled \cup {Torn} => previous \in Settled
    /\ exe \notin Settled \cup mixed /\ pack = exe => prev \notin {None, exe}

\* The power held, and if a file operation failed it was not one that moves the pack or the
\* program back, nor the removal of the marker.
Undisturbed ==
    crashes = 0 /\ (faults = 0 \/ scene.faulty \cap {"unplace", "unmove", "restore", "restore_exe", "take"} = {})

\* "A release is one unit": a process that serves has its own release's pack, or
\* none, and has loaded it before it serves with it, after any error of the switch and any
\* rollback that went through.
OneUnit == Undisturbed /\ Serving /\ pack # None => pack = running /\ running \in checked

\* A version that was rolled back is not installed by itself again, though files cannot be
\* written or the power fails at any step of the rollback, but for a version whose block could
\* not be written, or was torn by the power failure (an unreadable block blocks nothing).
NoRetryOfUndone == [][Install(FALSE) => latest \notin undone \ unwritten]_vars

\* "A broken release never loops": left alone, the machine ends up serving, but for a program
\* that was put back in part (CanGoBack).
SettlesDown == ~scene.byHand => <>[]Serving \/ <>(exe = Torn)
================================================================================
