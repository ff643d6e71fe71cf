---------------------------- MODULE MCReleaseSwitch ----------------------------
(* ReleaseSwitch for TLC: three releases, one after the other.              *)
EXTENDS ReleaseSwitch

Three == 1..3
Switching == {"backup", "aside", "place", "mark", "commit"}
\* Those that leave no pack, no program and no marker where it should not be (Undisturbed).
Harmless == Switching \cup {"drop", "clear", "block", "mark_back", "drop_kept", "unblock"}
Any == Harmless \cup {"unplace", "unmove", "unmark", "restore", "restore_exe", "take"}

\* Two errors that are undone or do no harm; two errors anywhere and two power failures, with
\* an owner who installs by hand; the same with torn files and nobody there.
AllScenes ==
    {[byHand |-> TRUE, faulty |-> Harmless, faults |-> 2, crashes |-> 0, torn |-> FALSE],
     [byHand |-> TRUE, faulty |-> Any, faults |-> 2, crashes |-> 2, torn |-> FALSE],
     [byHand |-> FALSE, faulty |-> Any, faults |-> 2, crashes |-> 2, torn |-> TRUE]}
================================================================================
