-------------------------- MODULE ReleaseSwitchProofs --------------------------
(***************************************************************************)
(* What a switch, its undo, the start after it and the rollback keep, for  *)
(* any releases, faults and power failures.  The invariant says, for each  *)
(* place the process can be at (what it has left to do), which copies are  *)
(* where.                                                                  *)
(***************************************************************************)
EXTENDS ReleaseSwitch, SequenceTheorems, WellFoundedInduction, TLAPS

\* Where the process is, by what it has left to do.
Where(t) ==
    CASE t = <<>> -> "idle"
      [] t \in {<<"backup", "aside", "place", "mark", "commit", "restart">>,
               <<"backup", "aside", "place", "mark", "commit", "clear", "restart">>} -> "backup"
      [] t \in {<<"aside", "place", "mark", "commit", "restart">>,
               <<"aside", "place", "mark", "commit", "clear", "restart">>} -> "aside"
      [] t \in {<<"place", "mark", "commit", "restart">>,
               <<"place", "mark", "commit", "clear", "restart">>} -> "place"
      [] t \in {<<"mark", "commit", "restart">>,
               <<"mark", "commit", "clear", "restart">>} -> "mark"
      [] t \in {<<"commit", "restart">>,
               <<"commit", "clear", "restart">>} -> "commit"
      [] t = <<"clear", "restart">> -> "clear"
      [] t = <<"restart">> -> "leave"
      [] t = <<"unplace", "unmove", "unmark", "drop">> -> "unplace_all"
      [] t = <<"unmove", "unmark", "drop">> -> "unmove_all"
      [] t = <<"unmark", "drop">> -> "unmark"
      [] t = <<"unplace", "unmove", "drop">> -> "unplace_pack"
      [] t = <<"unmove", "drop">> -> "unmove_pack"
      [] t = <<"drop">> -> "drop"
      [] t = <<"take">> -> "take"
      [] t = <<"clear">> -> "forget"
      [] t = <<"probe">> -> "probe"
      [] t = <<"block">> -> "halt"
      [] t = <<"drop_kept", "drop", "unblock">> -> "proven"
      [] t = <<"drop", "unblock">> -> "proven_drop"
      [] t = <<"unblock">> -> "unblock"
      [] t = <<"unplace", "restore", "block", "restore_exe">> -> "rollback"
      [] t = <<"restore", "block", "restore_exe">> -> "restore"
      [] t = <<"block", "restore_exe">> -> "block"
      [] t = <<"restore_exe">> -> "return"
      [] t = <<"mark_back", "restart">> -> "back"
      [] OTHER -> "nowhere"
stage == Where(todo)

Switching == {"backup", "aside", "place", "mark", "commit"}
Undoing   == {"unplace_all", "unmove_all", "unmark", "unplace_pack", "unmove_pack", "drop"}
Leaving   == {"clear", "leave"}
Proving   == {"proven", "proven_drop", "unblock"}
Rolling   == {"rollback", "restore", "block", "return"}
Starting  == {"take", "forget", "probe", "halt"} \cup Proving \cup Rolling

\* Every variable in range, and a marker that names two releases.
Names(m) ==
    /\ m \in Marker
    /\ m.kind \in {"binary", "rollback"} => m.from \in Versions /\ m.to \in Versions
    /\ m.kind = "binary" => m.from # m.to /\ (m.prev_pack <=> m.pack)
Shapes ==
    /\ scene \in Scenes
    /\ exe \in Versions \cup {Torn} /\ running \in Versions \cup {0} /\ latest \in Versions
    /\ previous \in Versions \cup {None, Torn}
    /\ pack \in Versions \cup {0} /\ prev \in Versions \cup {0} /\ staging \in Versions \cup {0}
    /\ blocked \in Versions \cup {0}
    /\ Names(marker) /\ Names(hand)
    /\ stage # "nowhere" /\ (running = 0 => stage = "idle")
    /\ report \in {"none", "updated", "blocked"}
    /\ undone \subseteq Versions /\ checked \subseteq Versions /\ risked \subseteq Versions
    /\ mixed \subseteq Versions /\ unwritten \subseteq Versions
    /\ stuck \subseteq Steps /\ stuck \subseteq scene.faulty /\ (stuck # {} => faults # 0)
    /\ faults \in 0..scene.faults /\ crashes \in 0..scene.crashes
    /\ \/ began = NoAttempt
       \/ began \in [exe : Versions, pack : Versions \cup {0}, marker : Marker, clean : BOOLEAN]

\* Every marker could be removed at the start that read it.
Taken == "take" \notin stuck
\* The marker says that the executable there is a release nobody has looked at.
Announced == marker.kind = "binary" /\ marker.to = exe

\* The attempt is the one that began with what is running.
Attempt ==
    /\ hand.kind = "binary" /\ hand.from = running /\ hand.to > running
    /\ (hand.pack <=> began.pack # None)
    /\ began # NoAttempt /\ began.exe = running
\* Its pack is placed, the one before it kept.
Placed == IF hand.pack THEN pack = hand.to /\ prev = began.pack ELSE pack = None
\* The marker says what it said when the attempt began, or nothing.
Unsaid == began.clean => marker \in {began.marker, NoMarker, TornMarker}

\* While the files are switched and while the switch is undone: what is where, what the marker
\* says, and that whatever is set aside is what was there when the attempt began.
SwitchOK ==
    /\ stage \in Switching \cup Undoing \cup Leaving => hand.kind = "binary"
    /\ stage \in Switching \cup Undoing => Attempt /\ exe = running
    /\ stage \in {"backup", "aside"} => pack = began.pack
    /\ stage \in {"backup", "aside", "place", "mark", "unplace_pack", "unmove_pack", "drop"} => Unsaid
    /\ stage \in {"backup", "aside", "place"} /\ hand.pack => staging = hand.to
    /\ stage \in Switching \ {"backup"} => previous = exe
    /\ stage = "place" => pack = None /\ (hand.pack => prev = began.pack)
    /\ stage \in {"mark", "commit", "unplace_all", "unplace_pack"} => Placed
    /\ stage \in {"unmove_all", "unmove_pack"} =>
          IF hand.pack THEN prev = began.pack /\ (began.clean => pack = None) ELSE pack = None
    /\ stage \in {"unmark", "drop"} => began.pack \in {pack, prev} /\ (began.clean => pack = began.pack)
    /\ stage \in {"commit", "unplace_all", "unmove_all", "unmark"} => marker = hand
    /\ stage \in Leaving /\ running = hand.from => exe = hand.to /\ marker = hand
    /\ stage \in Leaving /\ running # hand.from =>
          stage = "leave" /\ running = hand.to /\ (Taken => marker.kind # "binary")

\* While a start looks at the marker, proves the release or rolls it back.
StartOK ==
    /\ stage \in Starting => exe = running
    /\ stage \in Starting \cup {"back"} => began = NoAttempt
    /\ stage \in (Starting \ {"take"}) \cup {"back"} => marker = NoMarker \/ (~Taken /\ marker = hand)
    /\ stage \in {"probe", "back"} \cup Proving \cup Rolling => hand.kind = "binary"
    /\ stage \in {"probe", "back"} \cup Proving \cup Rolling => hand.to = running
    /\ stage = "probe" => hand.pack
    /\ stage \in {"probe"} \cup Rolling /\ Taken => previous = hand.from
    /\ stage = "halt" => hand.kind \in {"binary", "rollback"}
    /\ stage = "back" /\ Taken => exe = hand.from

\* Between attempts, and over them.
RestOK ==
    /\ Serving => exe = running
    /\ Serving /\ began # NoAttempt =>
          /\ exe = began.exe /\ began.pack \in {pack, prev}
          /\ (began.clean => pack = began.pack) /\ Unsaid
    /\ Taken /\ Announced => previous = marker.from
    /\ Taken /\ (Serving \/ stage \in Switching \cup Undoing) => ~Announced
    /\ exe = Torn => ~Taken

WaysOK == Shapes /\ SwitchOK /\ StartOK /\ RestOK

-----------------------------------------------------------------------------
(* The way back *)

\* A release that is neither proven nor given up leaves a settled program behind it, and, if it
\* was installed over its predecessor's own pack, that pack too.
BackOK ==
    /\ previous \in Settled \cup {None, Torn}
    /\ exe \notin Settled \cup {Torn} => previous \in Settled
    /\ stage \in Switching \cup Undoing \cup Proving => running \in Settled
    /\ stage \in Switching /\ hand.to \notin mixed => began.pack \in {None, running}
    /\ exe \notin Settled \cup mixed =>
        /\ pack = exe => prev \notin {None, exe}
        /\ Announced /\ marker.prev_pack => prev # exe
        /\ stage \in {"probe", "rollback", "restore"} /\ hand.prev_pack => prev # exe

-----------------------------------------------------------------------------
(* One unit *)

Fits == pack # None => pack = exe /\ exe \in checked
\* The release that was there before m was one unit.
WasOne(m) == m.prev_pack => prev = m.from /\ m.from \in checked

\* At each place, which pack is whose: what serves fits, and what a rollback would bring back was
\* one unit.
Unit ==
    /\ running # 0
    /\ stage \in {"idle", "forget", "halt", "back"} \cup Proving => Fits
    /\ stage \in Switching \cup Undoing /\ began.pack # None =>
          began.pack = running /\ running \in checked
    /\ stage \in {"unmove_all", "unmove_pack"} => pack = None
    /\ stage \in {"unmark", "drop"} => pack = began.pack
    /\ stage \in Leaving =>
          IF running = hand.from
            THEN (hand.pack => prev = hand.from /\ hand.from \in checked) /\ (~hand.pack => pack = None)
            ELSE Fits
    /\ stage = "take" =>
          IF marker.kind = "binary"
            THEN exe = marker.to /\ WasOne(marker) /\ (~marker.pack => pack = None)
            ELSE Fits
    /\ stage \in {"probe", "rollback", "restore"} => WasOne(hand) /\ hand.pack
    /\ stage = "restore" => pack = None
    /\ stage \in {"block", "return"} => pack = None \/ (pack = hand.from /\ hand.from \in checked)
UnitOK == Undisturbed => Unit

-----------------------------------------------------------------------------
(* A release that was undone stays undone *)

\* Undone, and its block could be written.
Shut == undone \ unwritten
\* If the newest release is one of those, it is v.
NewestIs(v) == latest \in Shut => latest = v
\* The release m announces or puts away.
Subject(m) == IF m.kind = "rollback" THEN m.from ELSE m.to

\* The record of an undone release moves from the marker to what the start has in hand to the
\* blocked version, and is in one of them until a newer release comes.
UndoneOK ==
    /\ marker.kind = "binary" => marker.to <= latest
    /\ hand.kind = "binary" => hand.to <= latest
    /\ \A v \in undone : v <= latest
    /\ marker.kind \in {"binary", "rollback"} => NewestIs(Subject(marker))
    /\ stage # "idle" /\ hand.kind \in {"binary", "rollback"} => NewestIs(Subject(hand))
    /\ stage = "forget" => blocked <= running
    /\ stage = "return" => blocked = hand.to \/ hand.to \in unwritten
    /\ NewestIs(blocked) \/ latest <= exe

IInv == WaysOK /\ BackOK /\ UnitOK /\ UndoneOK

-----------------------------------------------------------------------------
(* From place to place *)

\* The place of each way of going on.
LEMMA Wheres ==
    /\ Where(<<>>) = "idle"
    /\ Where(<<"backup", "aside", "place", "mark", "commit", "restart">>) = "backup"
    /\ Where(<<"backup", "aside", "place", "mark", "commit", "clear", "restart">>) = "backup"
    /\ Where(<<"aside", "place", "mark", "commit", "restart">>) = "aside"
    /\ Where(<<"aside", "place", "mark", "commit", "clear", "restart">>) = "aside"
    /\ Where(<<"place", "mark", "commit", "restart">>) = "place"
    /\ Where(<<"place", "mark", "commit", "clear", "restart">>) = "place"
    /\ Where(<<"mark", "commit", "restart">>) = "mark"
    /\ Where(<<"mark", "commit", "clear", "restart">>) = "mark"
    /\ Where(<<"commit", "restart">>) = "commit"
    /\ Where(<<"commit", "clear", "restart">>) = "commit"
    /\ Where(<<"clear", "restart">>) = "clear"
    /\ Where(<<"restart">>) = "leave"
    /\ Where(<<"unplace", "unmove", "unmark", "drop">>) = "unplace_all"
    /\ Where(<<"unmove", "unmark", "drop">>) = "unmove_all"
    /\ Where(<<"unmark", "drop">>) = "unmark"
    /\ Where(<<"unplace", "unmove", "drop">>) = "unplace_pack"
    /\ Where(<<"unmove", "drop">>) = "unmove_pack"
    /\ Where(<<"drop">>) = "drop"
    /\ Where(<<"take">>) = "take"
    /\ Where(<<"clear">>) = "forget"
    /\ Where(<<"probe">>) = "probe"
    /\ Where(<<"block">>) = "halt"
    /\ Where(<<"drop_kept", "drop", "unblock">>) = "proven"
    /\ Where(<<"drop", "unblock">>) = "proven_drop"
    /\ Where(<<"unblock">>) = "unblock"
    /\ Where(<<"unplace", "restore", "block", "restore_exe">>) = "rollback"
    /\ Where(<<"restore", "block", "restore_exe">>) = "restore"
    /\ Where(<<"block", "restore_exe">>) = "block"
    /\ Where(<<"restore_exe">>) = "return"
    /\ Where(<<"mark_back", "restart">>) = "back"
BY DEF Where

\* What is left of it after a step.
LEMMA Tails ==
    /\ Tail(<<"backup", "aside", "place", "mark", "commit", "restart">>)
          = <<"aside", "place", "mark", "commit", "restart">>
    /\ Tail(<<"backup", "aside", "place", "mark", "commit", "clear", "restart">>)
          = <<"aside", "place", "mark", "commit", "clear", "restart">>
    /\ Tail(<<"aside", "place", "mark", "commit", "restart">>) = <<"place", "mark", "commit", "restart">>
    /\ Tail(<<"aside", "place", "mark", "commit", "clear", "restart">>)
          = <<"place", "mark", "commit", "clear", "restart">>
    /\ Tail(<<"place", "mark", "commit", "restart">>) = <<"mark", "commit", "restart">>
    /\ Tail(<<"place", "mark", "commit", "clear", "restart">>) = <<"mark", "commit", "clear", "restart">>
    /\ Tail(<<"mark", "commit", "restart">>) = <<"commit", "restart">>
    /\ Tail(<<"mark", "commit", "clear", "restart">>) = <<"commit", "clear", "restart">>
    /\ Tail(<<"commit", "restart">>) = <<"restart">>
    /\ Tail(<<"commit", "clear", "restart">>) = <<"clear", "restart">>
    /\ Tail(<<"clear", "restart">>) = <<"restart">>
    /\ Tail(<<"restart">>) = <<>>
    /\ Tail(<<"unplace", "unmove", "unmark", "drop">>) = <<"unmove", "unmark", "drop">>
    /\ Tail(<<"unmove", "unmark", "drop">>) = <<"unmark", "drop">>
    /\ Tail(<<"unmark", "drop">>) = <<"drop">>
    /\ Tail(<<"unplace", "unmove", "drop">>) = <<"unmove", "drop">>
    /\ Tail(<<"unmove", "drop">>) = <<"drop">>
    /\ Tail(<<"drop">>) = <<>>
    /\ Tail(<<"take">>) = <<>>
    /\ Tail(<<"clear">>) = <<>>
    /\ Tail(<<"probe">>) = <<>>
    /\ Tail(<<"block">>) = <<>>
    /\ Tail(<<"drop_kept", "drop", "unblock">>) = <<"drop", "unblock">>
    /\ Tail(<<"drop", "unblock">>) = <<"unblock">>
    /\ Tail(<<"unblock">>) = <<>>
    /\ Tail(<<"unplace", "restore", "block", "restore_exe">>) = <<"restore", "block", "restore_exe">>
    /\ Tail(<<"restore", "block", "restore_exe">>) = <<"block", "restore_exe">>
    /\ Tail(<<"block", "restore_exe">>) = <<"restore_exe">>
    /\ Tail(<<"restore_exe">>) = <<>>
    /\ Tail(<<"mark_back", "restart">>) = <<"restart">>
OBVIOUS

\* There are no other ways of going on.
LEMMA Only ==
    ASSUME NEW t, Where(t) # "nowhere"
    PROVE  \/ t = <<>>
           \/ t = <<"backup", "aside", "place", "mark", "commit", "restart">>
           \/ t = <<"backup", "aside", "place", "mark", "commit", "clear", "restart">>
           \/ t = <<"aside", "place", "mark", "commit", "restart">>
           \/ t = <<"aside", "place", "mark", "commit", "clear", "restart">>
           \/ t = <<"place", "mark", "commit", "restart">>
           \/ t = <<"place", "mark", "commit", "clear", "restart">>
           \/ t = <<"mark", "commit", "restart">>
           \/ t = <<"mark", "commit", "clear", "restart">>
           \/ t = <<"commit", "restart">>
           \/ t = <<"commit", "clear", "restart">>
           \/ t = <<"clear", "restart">>
           \/ t = <<"restart">>
           \/ t = <<"unplace", "unmove", "unmark", "drop">>
           \/ t = <<"unmove", "unmark", "drop">>
           \/ t = <<"unmark", "drop">>
           \/ t = <<"unplace", "unmove", "drop">>
           \/ t = <<"unmove", "drop">>
           \/ t = <<"drop">>
           \/ t = <<"take">>
           \/ t = <<"clear">>
           \/ t = <<"probe">>
           \/ t = <<"block">>
           \/ t = <<"drop_kept", "drop", "unblock">>
           \/ t = <<"drop", "unblock">>
           \/ t = <<"unblock">>
           \/ t = <<"unplace", "restore", "block", "restore_exe">>
           \/ t = <<"restore", "block", "restore_exe">>
           \/ t = <<"block", "restore_exe">>
           \/ t = <<"restore_exe">>
           \/ t = <<"mark_back", "restart">>
BY DEF Where

\* The process serves when nothing is left.
LEMMA Idle ==
    ASSUME NEW t, Where(t) # "nowhere"
    PROVE  t = <<>> <=> Where(t) = "idle"
BY DEF Where

\* Where a step is made, and where it leads.
LEMMA Moves ==
    ASSUME NEW t, Where(t) # "nowhere", t # <<>>
    PROVE  /\ Head(t) = "backup" => Where(t) = "backup" /\ Where(Tail(t)) = "aside"
           /\ Head(t) = "aside" => Where(t) = "aside" /\ Where(Tail(t)) = "place"
           /\ Head(t) = "place" => Where(t) = "place" /\ Where(Tail(t)) = "mark"
           /\ Head(t) = "mark" => Where(t) = "mark" /\ Where(Tail(t)) = "commit"
           /\ Head(t) = "commit" => Where(t) = "commit" /\ Where(Tail(t)) \in {"clear", "leave"}
           /\ Head(t) = "clear" =>
                 \/ Where(t) = "clear" /\ Where(Tail(t)) = "leave"
                 \/ Where(t) = "forget" /\ Where(Tail(t)) = "idle"
           /\ Head(t) = "restart" => Where(t) = "leave" /\ Where(Tail(t)) = "idle"
           /\ Head(t) = "unplace" =>
                 \/ Where(t) = "unplace_all" /\ Where(Tail(t)) = "unmove_all"
                 \/ Where(t) = "unplace_pack" /\ Where(Tail(t)) = "unmove_pack"
                 \/ Where(t) = "rollback" /\ Where(Tail(t)) = "restore"
           /\ Head(t) = "unmove" =>
                 \/ Where(t) = "unmove_all" /\ Where(Tail(t)) = "unmark"
                 \/ Where(t) = "unmove_pack" /\ Where(Tail(t)) = "drop"
           /\ Head(t) = "unmark" => Where(t) = "unmark" /\ Where(Tail(t)) = "drop"
           /\ Head(t) = "drop" =>
                 \/ Where(t) = "drop" /\ Where(Tail(t)) = "idle"
                 \/ Where(t) = "proven_drop" /\ Where(Tail(t)) = "unblock"
           /\ Head(t) = "take" => Where(t) = "take" /\ Where(Tail(t)) = "idle"
           /\ Head(t) = "probe" => Where(t) = "probe" /\ Where(Tail(t)) = "idle"
           /\ Head(t) = "block" =>
                 \/ Where(t) = "halt" /\ Where(Tail(t)) = "idle"
                 \/ Where(t) = "block" /\ Where(Tail(t)) = "return"
           /\ Head(t) = "drop_kept" => Where(t) = "proven" /\ Where(Tail(t)) = "proven_drop"
           /\ Head(t) = "unblock" => Where(t) = "unblock" /\ Where(Tail(t)) = "idle"
           /\ Head(t) = "restore" => Where(t) = "restore" /\ Where(Tail(t)) = "block"
           /\ Head(t) = "restore_exe" => Where(t) = "return" /\ Where(Tail(t)) = "idle"
           /\ Head(t) = "mark_back" => Where(t) = "back" /\ Where(Tail(t)) = "leave"
<1>1. CASE t = <<"backup", "aside", "place", "mark", "commit", "restart">>
  BY <1>1, Wheres, Tails
<1>2. CASE t = <<"backup", "aside", "place", "mark", "commit", "clear", "restart">>
  BY <1>2, Wheres, Tails
<1>3. CASE t = <<"aside", "place", "mark", "commit", "restart">>
  BY <1>3, Wheres, Tails
<1>4. CASE t = <<"aside", "place", "mark", "commit", "clear", "restart">>
  BY <1>4, Wheres, Tails
<1>5. CASE t = <<"place", "mark", "commit", "restart">>
  BY <1>5, Wheres, Tails
<1>6. CASE t = <<"place", "mark", "commit", "clear", "restart">>
  BY <1>6, Wheres, Tails
<1>7. CASE t = <<"mark", "commit", "restart">>
  BY <1>7, Wheres, Tails
<1>8. CASE t = <<"mark", "commit", "clear", "restart">>
  BY <1>8, Wheres, Tails
<1>9. CASE t = <<"commit", "restart">>
  BY <1>9, Wheres, Tails
<1>10. CASE t = <<"commit", "clear", "restart">>
  BY <1>10, Wheres, Tails
<1>11. CASE t = <<"clear", "restart">>
  BY <1>11, Wheres, Tails
<1>12. CASE t = <<"restart">>
  BY <1>12, Wheres, Tails
<1>13. CASE t = <<"unplace", "unmove", "unmark", "drop">>
  BY <1>13, Wheres, Tails
<1>14. CASE t = <<"unmove", "unmark", "drop">>
  BY <1>14, Wheres, Tails
<1>15. CASE t = <<"unmark", "drop">>
  BY <1>15, Wheres, Tails
<1>16. CASE t = <<"unplace", "unmove", "drop">>
  BY <1>16, Wheres, Tails
<1>17. CASE t = <<"unmove", "drop">>
  BY <1>17, Wheres, Tails
<1>18. CASE t = <<"drop">>
  BY <1>18, Wheres, Tails
<1>19. CASE t = <<"take">>
  BY <1>19, Wheres, Tails
<1>20. CASE t = <<"probe">>
  BY <1>20, Wheres, Tails
<1>21. CASE t = <<"block">>
  BY <1>21, Wheres, Tails
<1>22. CASE t = <<"drop_kept", "drop", "unblock">>
  BY <1>22, Wheres, Tails
<1>23. CASE t = <<"drop", "unblock">>
  BY <1>23, Wheres, Tails
<1>24. CASE t = <<"unblock">>
  BY <1>24, Wheres, Tails
<1>25. CASE t = <<"unplace", "restore", "block", "restore_exe">>
  BY <1>25, Wheres, Tails
<1>26. CASE t = <<"restore", "block", "restore_exe">>
  BY <1>26, Wheres, Tails
<1>27. CASE t = <<"block", "restore_exe">>
  BY <1>27, Wheres, Tails
<1>28. CASE t = <<"restore_exe">>
  BY <1>28, Wheres, Tails
<1>29. CASE t = <<"mark_back", "restart">>
  BY <1>29, Wheres, Tails
<1>30. CASE t = <<"clear">>
  BY <1>30, Wheres, Tails
<1> QED
  BY <1>1, <1>2, <1>3, <1>4, <1>5, <1>6, <1>7, <1>8, <1>9, <1>10, <1>11, <1>12, <1>13, <1>14, <1>15,
     <1>16, <1>17, <1>18, <1>19, <1>20, <1>21, <1>22, <1>23, <1>24, <1>25, <1>26, <1>27, <1>28, <1>29,
     <1>30, Only

\* The two lists an install makes.
Words == {"backup", "aside", "place", "mark", "commit", "clear", "restart"}
\* A switch that begins is at its backup, whether it clears a block in the end or not.
LEMMA Lists ==
    /\ Where(Switch \o <<"restart">>) = "backup"
    /\ Where(Switch \o <<"clear", "restart">>) = "backup"
<1> DEFINE quiet == <<"restart">>
           clears == <<"clear", "restart">>
           a == Switch \o quiet
           b == Switch \o clears
<1>1. Switch \in Seq(Words) /\ quiet \in Seq(Words) /\ clears \in Seq(Words)
  BY DEF Words, Switch
<1>2. /\ Len(Switch) = 5 /\ Switch[1] = "backup" /\ Switch[2] = "aside" /\ Switch[3] = "place"
      /\ Switch[4] = "mark" /\ Switch[5] = "commit"
  BY DEF Switch
<1>3. Len(quiet) = 1 /\ quiet[1] = "restart" /\ Len(clears) = 2 /\ clears[1] = "clear" /\ clears[2] = "restart"
  OBVIOUS
<1> HIDE DEF quiet, clears
<1>4. a \in Seq(Words) /\ Len(a) = 6 /\ \A i \in 1..6 : a[i] = IF i <= 5 THEN Switch[i] ELSE quiet[i - 5]
  <2>1. /\ a \in Seq(Words) /\ Len(a) = Len(Switch) + Len(quiet)
        /\ \A i \in 1..Len(Switch) + Len(quiet) :
              a[i] = IF i <= Len(Switch) THEN Switch[i] ELSE quiet[i - Len(Switch)]
    BY <1>1, ConcatProperties
  <2> QED
    BY <1>2, <1>3, <2>1
<1>5. b \in Seq(Words) /\ Len(b) = 7 /\ \A i \in 1..7 : b[i] = IF i <= 5 THEN Switch[i] ELSE clears[i - 5]
  <2>1. /\ b \in Seq(Words) /\ Len(b) = Len(Switch) + Len(clears)
        /\ \A i \in 1..Len(Switch) + Len(clears) :
              b[i] = IF i <= Len(Switch) THEN Switch[i] ELSE clears[i - Len(Switch)]
    BY <1>1, ConcatProperties
  <2> QED
    BY <1>2, <1>3, <2>1
<1> HIDE DEF a, b
<1>6. a = <<"backup", "aside", "place", "mark", "commit", "restart">>
  <2>1. <<"backup", "aside", "place", "mark", "commit", "restart">> \in Seq(Words)
    BY DEF Words
  <2>2. /\ a[1] = "backup" /\ a[2] = "aside" /\ a[3] = "place" /\ a[4] = "mark" /\ a[5] = "commit"
        /\ a[6] = "restart"
    BY <1>2, <1>3, <1>4
  <2> QED
    BY <1>4, <2>1, <2>2, SeqEqual
<1>7. b = <<"backup", "aside", "place", "mark", "commit", "clear", "restart">>
  <2>1. <<"backup", "aside", "place", "mark", "commit", "clear", "restart">> \in Seq(Words)
    BY DEF Words
  <2>2. /\ b[1] = "backup" /\ b[2] = "aside" /\ b[3] = "place" /\ b[4] = "mark" /\ b[5] = "commit"
        /\ b[6] = "clear" /\ b[7] = "restart"
    BY <1>2, <1>3, <1>5
  <2> QED
    BY <1>5, <2>1, <2>2, SeqEqual
<1> QED
  BY <1>6, <1>7, Wheres DEF a, b, quiet, clears

\* The places of the ways back.
LEMMA WaysBack ==
    /\ Where(UndoAll) = "unplace_all" /\ Where(UndoPack) = "unplace_pack" /\ Where(UndoMove) = "unmove_pack"
    /\ Where(Rollback) = "rollback" /\ Where(GoBack) = "back" /\ Where(Proven) = "proven"
BY Wheres DEF UndoAll, UndoPack, UndoMove, Rollback, GoBack, Proven

-----------------------------------------------------------------------------
(* Each step, by the place it is made at and the place it leads to *)

\* An error that is passed over, and one of an undo, which spoils it.
Slips(step) == Fails(step) /\ stuck' = stuck \cup {step} /\ UNCHANGED began
Spoils(step) ==
    /\ Fails(step) /\ stuck' = stuck \cup {step}
    /\ began' = IF began # NoAttempt THEN [began EXCEPT !.clean = FALSE] ELSE began

BackupDone ==
    /\ running # 0
    /\ stage = "backup"
    /\ \/ previous' = exe /\ stage' = "aside" /\ UNCHANGED faults
       \/ previous' \in {previous, None, Torn} /\ stage' = "idle" /\ Fails("backup")
    /\ UNCHANGED <<exe, pack, prev, staging, marker, blocked, running, hand, report, began, latest,
                   undone, checked, risked, mixed, unwritten, stuck, crashes>>

AsideDone ==
    /\ running # 0
    /\ stage = "aside"
    /\ \/ hand.pack /\ prev' = pack /\ pack' = None /\ stage' = "place" /\ UNCHANGED faults
       \/ ~hand.pack /\ UNCHANGED <<pack, prev>> /\ stage' = "place" /\ UNCHANGED faults
       \/ hand.pack /\ prev' \in {prev, None} /\ UNCHANGED pack /\ stage' = "drop" /\ Fails("aside")
    /\ UNCHANGED <<exe, previous, staging, marker, blocked, running, hand, report, began, latest,
                   undone, checked, risked, mixed, unwritten, stuck, crashes>>

PlaceDone ==
    /\ running # 0
    /\ stage = "place"
    /\ \/ hand.pack /\ pack' = staging /\ staging' = None /\ stage' = "mark" /\ UNCHANGED faults
       \/ ~hand.pack /\ UNCHANGED <<pack, staging>> /\ stage' = "mark" /\ UNCHANGED faults
       \/ hand.pack /\ UNCHANGED <<pack, staging>> /\ stage' = "unmove_pack" /\ Fails("place")
    /\ UNCHANGED <<exe, previous, prev, marker, blocked, running, hand, report, began, latest,
                   undone, checked, risked, mixed, unwritten, stuck, crashes>>

MarkDone ==
    /\ running # 0
    /\ stage = "mark"
    /\ \/ marker' = hand /\ stage' = "commit" /\ UNCHANGED faults
       \/ marker' \in {marker, TornMarker} /\ stage' = "unplace_pack" /\ Fails("mark")
    /\ UNCHANGED <<exe, previous, pack, prev, staging, blocked, running, hand, report, began,
                   latest, undone, checked, risked, mixed, unwritten, stuck, crashes>>

CommitDone ==
    /\ running # 0
    /\ stage = "commit"
    /\ \/ exe' = hand.to /\ stage' \in Leaving /\ UNCHANGED faults
       \/ UNCHANGED exe /\ stage' = "unplace_all" /\ Fails("commit")
    /\ UNCHANGED <<previous, pack, prev, staging, marker, blocked, running, hand, report, began,
                   latest, undone, checked, risked, mixed, unwritten, stuck, crashes>>

UnplaceDone ==
    /\ running # 0
    /\ \/ stage = "unplace_all" /\ stage' = "unmove_all"
       \/ stage = "unplace_pack" /\ stage' = "unmove_pack"
       \/ stage = "rollback" /\ stage' = "restore"
    /\ \/ pack' = (IF hand.pack THEN None ELSE pack) /\ UNCHANGED <<faults, stuck, began>>
       \/ hand.pack /\ UNCHANGED pack /\ Spoils("unplace")
    /\ UNCHANGED <<exe, previous, prev, staging, marker, blocked, running, hand, report, latest,
                   undone, checked, risked, mixed, unwritten, crashes>>

UnmoveDone ==
    /\ running # 0
    /\ \/ stage = "unmove_all" /\ stage' = "unmark"
       \/ stage = "unmove_pack" /\ stage' = "drop"
    /\ \/ KeptComesBack /\ UNCHANGED <<faults, stuck, began>>
       \/ hand.prev_pack /\ UNCHANGED <<pack, prev>> /\ Spoils("unmove")
    /\ UNCHANGED <<exe, previous, staging, marker, blocked, running, hand, report, latest, undone,
                   checked, risked, mixed, unwritten, crashes>>

UnmarkDone ==
    /\ running # 0
    /\ stage = "unmark" /\ stage' = "drop"
    /\ \/ marker' = NoMarker /\ UNCHANGED <<faults, stuck, began>>
       \/ UNCHANGED marker /\ Spoils("unmark")
    /\ UNCHANGED <<exe, previous, pack, prev, staging, blocked, running, hand, report, latest,
                   undone, checked, risked, mixed, unwritten, crashes>>

DropDone ==
    /\ running # 0
    /\ \/ stage = "drop" /\ stage' = "idle"
       \/ stage = "proven_drop" /\ stage' = "unblock"
    /\ \/ previous' = None /\ UNCHANGED <<faults, stuck>>
       \/ UNCHANGED previous /\ Slips("drop")
    /\ UNCHANGED <<exe, pack, prev, staging, marker, blocked, running, hand, report, began, latest,
                   undone, checked, risked, mixed, unwritten, crashes>>

ClearDone ==
    /\ running # 0
    /\ \/ stage = "clear" /\ stage' = "leave"
       \/ stage = "forget" /\ stage' = "idle"
    /\ \/ blocked' = 0 /\ UNCHANGED <<faults, stuck>>
       \/ UNCHANGED blocked /\ Slips("clear")
    /\ UNCHANGED <<exe, previous, pack, prev, staging, marker, running, hand, report, began, latest,
                   undone, checked, risked, mixed, unwritten, crashes>>

TakeDone ==
    /\ running # 0
    /\ stage = "take" /\ exe = running /\ hand' = marker
    /\ \/ marker' = NoMarker /\ UNCHANGED <<faults, stuck>>
       \/ UNCHANGED marker /\ Slips("take")
    /\ report' \in {"none", "blocked"}
    /\ checked' \in {checked, checked \cup {running}}
    /\ \/ marker.kind \in {"none", "torn"} /\ stage' = "idle"
       \/ marker.kind \in {"none", "torn"} /\ blocked <= running /\ stage' = "forget"
       \/ marker.kind = "rollback" /\ stage' = "halt"
       \/ marker.kind = "binary" /\ marker.to # running /\ stage' = "halt"
       \/ marker.kind = "binary" /\ marker.to = running /\ marker.pack /\ stage' = "probe"
       \/ /\ marker.kind = "binary" /\ marker.to = running /\ ~marker.pack
          /\ stage' = "proven" /\ running \in checked'
    /\ UNCHANGED <<exe, previous, pack, prev, staging, blocked, running, began, latest, undone,
                   risked, mixed, unwritten, crashes>>

ProbeDone ==
    /\ running # 0
    /\ stage = "probe"
    /\ \/ pack = running /\ stage' = "proven" /\ checked' = checked \cup {running}
       \/ stage' = "rollback" /\ UNCHANGED checked
    /\ UNCHANGED <<exe, previous, pack, prev, staging, marker, blocked, running, hand, report,
                   began, latest, undone, risked, mixed, unwritten, stuck, crashes, faults>>

DropKeptDone ==
    /\ running # 0
    /\ stage = "proven" /\ stage' = "proven_drop"
    /\ \/ prev' = (IF hand.prev_pack THEN None ELSE prev) /\ UNCHANGED <<faults, stuck>>
       \/ UNCHANGED prev /\ Slips("drop_kept")
    /\ UNCHANGED <<exe, previous, pack, staging, marker, blocked, running, hand, report, began,
                   latest, undone, checked, risked, mixed, unwritten, crashes>>

UnblockDone ==
    /\ running # 0
    /\ stage = "unblock" /\ stage' = "idle" /\ report' = "updated"
    /\ \/ blocked' = 0 /\ UNCHANGED <<faults, stuck>>
       \/ UNCHANGED blocked /\ Slips("unblock")
    /\ UNCHANGED <<exe, previous, pack, prev, staging, marker, running, hand, began, latest, undone,
                   checked, risked, mixed, unwritten, crashes>>

RestoreDone ==
    /\ running # 0
    /\ stage = "restore" /\ stage' = "block"
    /\ \/ KeptComesBack /\ UNCHANGED faults
       \/ UNCHANGED <<pack, prev>> /\ Fails("restore")
    /\ UNCHANGED <<exe, previous, staging, marker, blocked, running, hand, report, began, latest,
                   undone, checked, risked, mixed, unwritten, stuck, crashes>>

BlockDone ==
    /\ running # 0
    /\ \/ stage = "halt" /\ stage' = "idle"
       \/ stage = "block" /\ stage' = "return"
    /\ report' \in {"blocked", report}
    /\ \/ blocked' = Judged /\ UNCHANGED faults
       \/ blocked' \in {blocked, 0} /\ Fails("block")
    /\ unwritten' = IF blocked' = Judged THEN unwritten \ {Judged} ELSE unwritten \cup {Judged}
    /\ UNCHANGED <<exe, previous, pack, prev, staging, marker, running, hand, began, latest, undone,
                   checked, risked, mixed, stuck, crashes>>

RestoreExeDone ==
    /\ running # 0
    /\ stage = "return"
    /\ \/ /\ previous # None /\ exe' = previous /\ stage' = "back"
          /\ \/ previous' = None /\ UNCHANGED faults
             \/ UNCHANGED previous /\ Fails("drop")
          /\ undone' = undone \cup {hand.to} /\ UNCHANGED risked
       \/ /\ IF previous = None THEN UNCHANGED faults ELSE Fails("restore_exe")
          /\ stage' = "proven" /\ risked' = risked \cup {running} /\ UNCHANGED <<exe, previous, undone>>
    /\ UNCHANGED <<pack, prev, staging, marker, blocked, running, hand, report, began, latest,
                   checked, mixed, unwritten, stuck, crashes>>

MarkBackDone ==
    /\ running # 0
    /\ stage = "back" /\ stage' = "leave"
    /\ \/ /\ marker' = [kind |-> "rollback", from |-> hand.to, to |-> hand.from,
                        pack |-> hand.prev_pack, prev_pack |-> FALSE]
          /\ UNCHANGED faults
       \/ marker' \in {marker, TornMarker} /\ Fails("mark_back")
    /\ UNCHANGED <<exe, previous, pack, prev, staging, blocked, running, hand, report, began,
                   latest, undone, checked, risked, mixed, unwritten, stuck, crashes>>

InstallDone(hands) ==
    /\ running # 0
    /\ stage = "idle" /\ exe = running /\ latest > running /\ stage' = "backup"
    /\ hands \/ blocked # latest
    /\ staging' = IF pack = None THEN None ELSE latest
    /\ hand' = [kind |-> "binary", from |-> running, to |-> latest, pack |-> pack # None,
                prev_pack |-> pack # None]
    /\ began' = [exe |-> exe, pack |-> pack, marker |-> marker, clean |-> TRUE]
    /\ undone' = IF hands THEN undone \ {latest} ELSE undone
    /\ risked' = risked \cup ({running} \ checked)
    /\ mixed' = IF pack \in {None, running} THEN mixed \ {latest} ELSE mixed \cup {latest}
    /\ ~(Taken /\ Announced)
    /\ UNCHANGED <<exe, previous, pack, prev, marker, blocked, running, report, latest, checked,
                   unwritten, stuck, crashes, faults>>

InstallOcrDone ==
    /\ running # 0
    /\ stage = "idle" /\ exe = running /\ stage' = "idle"
    /\ pack # None /\ pack' = running /\ checked' = checked \cup {running} /\ began' = NoAttempt
    /\ UNCHANGED <<exe, previous, prev, staging, marker, blocked, running, hand, report, latest,
                   undone, risked, mixed, unwritten, stuck, crashes, faults>>

USE DEF Switching, Undoing, Leaving, Proving, Rolling, Starting, None, Torn

\* A step is made where its name is first on the list.
LEMMA Here ==
    ASSUME WaysOK, NEW step, At(step)
    PROVE  running # 0 /\ todo # <<>> /\ Head(todo) = step /\ Where(todo) # "nowhere" /\ Where(<<>>) = "idle"
BY Wheres DEF At, WaysOK, Shapes, stage

\* Each action is its step from place to place.

\* Copying the running executable to `previous` does what its entry in the table of places says.
LEMMA BackupDoes ==
    ASSUME WaysOK, Backup
    PROVE  BackupDone
<1>1. At("backup") /\ running # 0
  BY DEF Backup, At
<1>2. stage = "backup" /\ Where(Tail(todo)) = "aside" /\ Where(<<>>) = "idle"
  BY <1>1, Here, Moves DEF stage
<1> QED
  BY <1>1, <1>2 DEF Backup, BackupDone, Same, stage, Goes, Undoes

\* Moving the installed pack aside does what its entry in the table of places says.
LEMMA AsideDoes ==
    ASSUME WaysOK, Aside
    PROVE  AsideDone
<1>1. At("aside") /\ running # 0
  BY DEF Aside, At
<1>2. stage = "aside" /\ Where(Tail(todo)) = "place" /\ Where(<<"drop">>) = "drop"
  BY <1>1, Here, Moves, Wheres DEF stage
<1> QED
  BY <1>1, <1>2 DEF Aside, AsideDone, Same, stage, Goes, Undoes

\* Putting the staged pack in place does what its entry in the table of places says.
LEMMA PlaceDoes ==
    ASSUME WaysOK, Place
    PROVE  PlaceDone
<1>1. At("place") /\ running # 0
  BY DEF Place, At
<1>2. stage = "place" /\ Where(Tail(todo)) = "mark"
  BY <1>1, Here, Moves DEF stage
<1> QED
  BY <1>1, <1>2, WaysBack DEF Place, PlaceDone, Same, stage, Goes, Undoes

\* Writing the marker does what its entry in the table of places says.
LEMMA MarkDoes ==
    ASSUME WaysOK, Mark
    PROVE  MarkDone
<1>1. At("mark") /\ running # 0
  BY DEF Mark, At
<1>2. stage = "mark" /\ Where(Tail(todo)) = "commit"
  BY <1>1, Here, Moves DEF stage
<1> QED
  BY <1>1, <1>2, WaysBack DEF Mark, MarkDone, Same, stage, Goes, Undoes

\* Replacing the executable does what its entry in the table of places says.
LEMMA CommitDoes ==
    ASSUME WaysOK, Commit
    PROVE  CommitDone
<1>1. At("commit") /\ running # 0
  BY DEF Commit, At
<1>2. stage = "commit" /\ Where(Tail(todo)) \in Leaving
  BY <1>1, Here, Moves DEF stage
<1> QED
  BY <1>1, <1>2, WaysBack DEF Commit, CommitDone, Same, stage, Goes, Undoes

\* Taking the placed pack away again does what its entry in the table of places says.
LEMMA UnplaceDoes ==
    ASSUME WaysOK, Unplace
    PROVE  UnplaceDone
<1>1. At("unplace") /\ running # 0
  BY DEF Unplace, At
<1>2. \/ stage = "unplace_all" /\ Where(Tail(todo)) = "unmove_all"
      \/ stage = "unplace_pack" /\ Where(Tail(todo)) = "unmove_pack"
      \/ stage = "rollback" /\ Where(Tail(todo)) = "restore"
  BY <1>1, Here, Moves DEF stage
<1> QED
  BY <1>1, <1>2 DEF Unplace, UnplaceDone, Same, stage, Goes, Ignored, Spoils, UndoSteps

\* Putting the pack back from aside does what its entry in the table of places says.
LEMMA UnmoveDoes ==
    ASSUME WaysOK, Unmove
    PROVE  UnmoveDone
<1>1. At("unmove") /\ running # 0
  BY DEF Unmove, At
<1>2. \/ stage = "unmove_all" /\ Where(Tail(todo)) = "unmark"
      \/ stage = "unmove_pack" /\ Where(Tail(todo)) = "drop"
  BY <1>1, Here, Moves DEF stage
<1> QED
  BY <1>1, <1>2 DEF Unmove, UnmoveDone, Same, stage, Goes, Ignored, Spoils, UndoSteps

\* Removing the marker on the way back does what its entry in the table of places says.
LEMMA UnmarkDoes ==
    ASSUME WaysOK, Unmark
    PROVE  UnmarkDone
<1>1. At("unmark") /\ running # 0
  BY DEF Unmark, At
<1>2. stage = "unmark" /\ Where(Tail(todo)) = "drop"
  BY <1>1, Here, Moves DEF stage
<1> QED
  BY <1>1, <1>2 DEF Unmark, UnmarkDone, Same, stage, Goes, Ignored, Spoils, UndoSteps

\* Dropping the program kept aside does what its entry in the table of places says.
LEMMA DropDoes ==
    ASSUME WaysOK, Drop
    PROVE  DropDone
<1>1. At("drop") /\ running # 0
  BY DEF Drop, At
<1>2. \/ stage = "drop" /\ Where(Tail(todo)) = "idle"
      \/ stage = "proven_drop" /\ Where(Tail(todo)) = "unblock"
  BY <1>1, Here, Moves DEF stage
<1> QED
  BY <1>1, <1>2 DEF Drop, DropDone, Same, stage, Goes, Ignored, Slips, UndoSteps

\* Clearing a block does what its entry in the table of places says.
LEMMA ClearDoes ==
    ASSUME WaysOK, Clear
    PROVE  ClearDone
<1>1. At("clear") /\ running # 0
  BY DEF Clear, At
<1>2. \/ stage = "clear" /\ Where(Tail(todo)) = "leave"
      \/ stage = "forget" /\ Where(Tail(todo)) = "idle"
  BY <1>1, Here, Moves DEF stage
<1> QED
  BY <1>1, <1>2 DEF Clear, ClearDone, Same, stage, Goes, Ignored, Slips, UndoSteps

\* The start that takes the marker does what its entry in the table of places says.
LEMMA TakeDoes ==
    ASSUME WaysOK, Take
    PROVE  TakeDone
<1>1. At("take") /\ running # 0
  BY DEF Take, At
<1>2. stage = "take"
  BY <1>1, Here, Moves DEF stage
<1>3. exe = running /\ marker.kind \in {"none", "torn", "binary", "rollback"} /\ marker.pack \in BOOLEAN
  BY <1>2 DEF WaysOK, StartOK, Shapes, Names, Marker
<1>4. stage' = Where(Asks(marker))
  BY DEF Take, stage
<1>5. \/ marker.kind \in {"none", "torn"} /\ stage' = "idle"
      \/ marker.kind \in {"none", "torn"} /\ blocked <= running /\ stage' = "forget"
      \/ marker.kind = "rollback" /\ stage' = "halt"
      \/ marker.kind = "binary" /\ marker.to # running /\ stage' = "halt"
      \/ marker.kind = "binary" /\ marker.to = running /\ marker.pack /\ stage' = "probe"
      \/ /\ marker.kind = "binary" /\ marker.to = running /\ ~marker.pack
         /\ stage' = "proven" /\ Asks(marker) = Proven
  BY <1>3, <1>4, Wheres, WaysBack DEF Asks
<1>6. checked' \in {checked, checked \cup {running}} /\ (Asks(marker) = Proven => running \in checked')
  BY DEF Take
<1> QED
  BY <1>1, <1>2, <1>3, <1>5, <1>6 DEF Take, TakeDone, Slips

\* The probe of a new release does what its entry in the table of places says.
LEMMA ProbeDoes ==
    ASSUME WaysOK, Probe
    PROVE  ProbeDone
<1>1. At("probe") /\ running # 0
  BY DEF Probe, At
<1>2. stage = "probe"
  BY <1>1, Here, Moves DEF stage
<1> QED
  BY <1>1, <1>2, WaysBack DEF Probe, ProbeDone, Same, stage, disk

\* Dropping the pack kept aside does what its entry in the table of places says.
LEMMA DropKeptDoes ==
    ASSUME WaysOK, DropKept
    PROVE  DropKeptDone
<1>1. At("drop_kept") /\ running # 0
  BY DEF DropKept, At
<1>2. stage = "proven" /\ Where(Tail(todo)) = "proven_drop"
  BY <1>1, Here, Moves DEF stage
<1> QED
  BY <1>1, <1>2 DEF DropKept, DropKeptDone, Same, stage, Goes, Ignored, Slips, UndoSteps

\* Lifting the block of a proven release does what its entry in the table of places says.
LEMMA UnblockDoes ==
    ASSUME WaysOK, Unblock
    PROVE  UnblockDone
<1>1. At("unblock") /\ running # 0
  BY DEF Unblock, At
<1>2. stage = "unblock" /\ Where(<<>>) = "idle"
  BY <1>1, Here, Moves DEF stage
<1> QED
  BY <1>1, <1>2 DEF Unblock, UnblockDone, Same, stage, Slips

\* Putting the pack back in a rollback does what its entry in the table of places says.
LEMMA RestoreDoes ==
    ASSUME WaysOK, Restore
    PROVE  RestoreDone
<1>1. At("restore") /\ running # 0
  BY DEF Restore, At
<1>2. stage = "restore" /\ Where(Tail(todo)) = "block"
  BY <1>1, Here, Moves DEF stage
<1> QED
  BY <1>1, <1>2 DEF Restore, RestoreDone, Same, stage, Goes, Undoes

\* Blocking the release that failed does what its entry in the table of places says.
LEMMA BlockDoes ==
    ASSUME WaysOK, Block
    PROVE  BlockDone
<1>1. At("block") /\ running # 0
  BY DEF Block, At
<1>2. \/ stage = "halt" /\ Where(Tail(todo)) = "idle"
      \/ stage = "block" /\ Where(Tail(todo)) = "return"
  BY <1>1, Here, Moves DEF stage
<1> QED
  BY <1>1, <1>2 DEF Block, BlockDone, Same, stage

\* Putting the executable back in a rollback does what its entry in the table of places says.
LEMMA RestoreExeDoes ==
    ASSUME WaysOK, RestoreExe
    PROVE  RestoreExeDone
<1>1. At("restore_exe") /\ running # 0
  BY DEF RestoreExe, At
<1>2. stage = "return"
  BY <1>1, Here, Moves DEF stage
<1> QED
  BY <1>1, <1>2, WaysBack DEF RestoreExe, RestoreExeDone, Same, stage

\* Writing the marker back does what its entry in the table of places says.
LEMMA MarkBackDoes ==
    ASSUME WaysOK, MarkBack
    PROVE  MarkBackDone
<1>1. At("mark_back") /\ running # 0
  BY DEF MarkBack, At
<1>2. stage = "back" /\ Where(Tail(todo)) = "leave"
  BY <1>1, Here, Moves DEF stage
<1> QED
  BY <1>1, <1>2 DEF MarkBack, MarkBackDone, Same, stage, Goes, Undoes

\* An install, by hand or not, does what its entry in the table of places says.
LEMMA InstallDoes ==
    ASSUME NEW hands \in BOOLEAN, WaysOK, Install(hands)
    PROVE  InstallDone(hands)
<1>1. Serving
  BY DEF Install
<1>2. stage = "idle" /\ exe = running /\ running # 0 /\ ~(Taken /\ Announced)
  BY <1>1, Wheres DEF stage, WaysOK, RestOK, Serving
<1>3. stage' = "backup"
  BY Lists DEF Install, SetsOut, stage
<1> QED
  BY <1>1, <1>2, <1>3 DEF Install, SetsOut, InstallDone

\* An install of the pack alone does what its entry in the table of places says.
LEMMA InstallOcrDoes ==
    ASSUME WaysOK, InstallOcr
    PROVE  InstallOcrDone
<1>1. Serving
  BY DEF InstallOcr
<1>2. stage = "idle" /\ exe = running /\ running # 0
  BY <1>1, Wheres DEF stage, WaysOK, RestOK, Serving
<1> QED
  BY <1>1, <1>2 DEF InstallOcr, Serving, InstallOcrDone, stage
-----------------------------------------------------------------------------
(* The copies stay where they are said to be *)

\* Versions are positive, and faults and power failures are counted.
LEMMA Ranges ==
    ASSUME Shapes
    PROVE  /\ Versions \subseteq Nat \ {0} /\ scene.faults \in Nat /\ scene.crashes \in Nat
           /\ faults \in Nat /\ crashes \in Nat
BY ReleasesAreNumbered DEF Shapes, Scene

\* A process that serves has nothing left to do.
LEMMA Rests ==
    ASSUME Serving
    PROVE  stage = "idle" /\ running # 0
BY Wheres DEF Serving, stage

\* An attempt, as it is remembered.
AnAttempt == [exe : Versions, pack : Versions \cup {0}, marker : Marker, clean : BOOLEAN]

\* An error that is passed over is counted, and remembered; none but that of the marker's removal
\* leaves a marker.
LEMMA Slipped ==
    ASSUME Shapes, UNCHANGED scene,
           NEW step \in {"take", "drop", "clear", "drop_kept", "unblock"}, Slips(step)
    PROVE  /\ stuck' \subseteq Steps /\ stuck' \subseteq scene'.faulty /\ faults' # 0
           /\ faults' \in 0..scene'.faults
           /\ (Taken' => Taken) /\ (step # "take" => (Taken' <=> Taken)) /\ (step = "take" => ~Taken')
<1>1. step \in Steps
  BY DEF Steps
<1> HIDE DEF Steps
<1> QED
  BY <1>1, Ranges DEF Slips, Fails, Shapes, Taken

\* One of an undo is, too, and the attempt did not end clean.
LEMMA Spoiled ==
    ASSUME Shapes, UNCHANGED scene, NEW step \in UndoSteps, Spoils(step)
    PROVE  /\ stuck' \subseteq Steps /\ stuck' \subseteq scene'.faulty /\ faults' # 0
           /\ faults' \in 0..scene'.faults /\ (Taken' <=> Taken)
           /\ began' = NoAttempt \/ began' \in AnAttempt
           /\ began = NoAttempt => began' = NoAttempt
           /\ began # NoAttempt =>
                 /\ began' # NoAttempt /\ began'.exe = began.exe /\ began'.pack = began.pack
                 /\ began'.clean = FALSE
<1>1. step \in Steps /\ step # "take"
  BY DEF Steps, UndoSteps
<1>2. began = NoAttempt \/ began \in AnAttempt
  BY DEF Shapes, AnAttempt
<1>3. ASSUME began # NoAttempt
      PROVE  /\ began' \in AnAttempt /\ began'.exe = began.exe /\ began'.pack = began.pack
             /\ began'.clean = FALSE
  BY <1>2, <1>3 DEF Spoils, AnAttempt
<1>4. ASSUME began # NoAttempt PROVE began' # NoAttempt
  <2>1. began'.exe \in Versions
    BY <1>3, <1>4 DEF AnAttempt
  <2>2. NoAttempt.exe = 0
    BY DEF NoAttempt
  <2> QED
    BY <2>1, <2>2, Ranges
<1>5. began = NoAttempt => began' = NoAttempt
  BY DEF Spoils
<1> HIDE DEF Steps
<1>6. /\ stuck' \subseteq Steps /\ stuck' \subseteq scene'.faulty /\ faults' # 0
      /\ faults' \in 0..scene'.faults /\ (Taken' <=> Taken)
  BY <1>1, Ranges DEF Spoils, Fails, Shapes, Taken
<1> QED
  BY <1>3, <1>4, <1>5, <1>6

\* Each step keeps them, one conjunct at a time.

\* Copying the running executable to `previous` leaves every copy where the new place says.
LEMMA BackupWays ==
    ASSUME WaysOK, UNCHANGED scene, BackupDone
    PROVE  WaysOK'
<1>1. Taken' <=> Taken
  BY DEF BackupDone, Taken
<1>2. Shapes'
  BY Ranges DEF BackupDone, WaysOK, Fails, Shapes
<1>3. SwitchOK'
  BY <1>1, Ranges DEF BackupDone, WaysOK, SwitchOK, Attempt, Placed, Unsaid, Shapes
<1>4. StartOK'
  BY <1>1, Ranges DEF BackupDone, WaysOK, StartOK, SwitchOK, RestOK
<1>5. Serving' => stage' = "idle"
  BY Wheres DEF Serving, stage
<1>6. RestOK'
  BY <1>1, <1>5, Ranges DEF BackupDone, WaysOK, SwitchOK, StartOK, RestOK, Attempt, Placed, Unsaid,
     Announced, Shapes, Names, NoMarker, TornMarker
<1> QED
  BY <1>2, <1>3, <1>4, <1>6 DEF WaysOK

\* Moving the installed pack aside leaves every copy where the new place says.
LEMMA AsideWays ==
    ASSUME WaysOK, UNCHANGED scene, AsideDone
    PROVE  WaysOK'
<1>1. Taken' <=> Taken
  BY DEF AsideDone, Taken
<1>2. Shapes'
  BY Ranges DEF AsideDone, WaysOK, Fails, Shapes
<1>3. SwitchOK'
  BY <1>1, Ranges DEF AsideDone, WaysOK, SwitchOK, Attempt, Placed, Unsaid, Shapes
<1>4. StartOK'
  BY <1>1, Ranges DEF AsideDone, WaysOK, StartOK, SwitchOK, RestOK
<1>5. Serving' => stage' = "idle"
  BY Wheres DEF Serving, stage
<1>6. RestOK'
  BY <1>1, <1>5, Ranges DEF AsideDone, WaysOK, SwitchOK, StartOK, RestOK, Attempt, Placed, Unsaid, Announced,
     Shapes, Names, NoMarker, TornMarker
<1> QED
  BY <1>2, <1>3, <1>4, <1>6 DEF WaysOK

\* Putting the staged pack in place leaves every copy where the new place says.
LEMMA PlaceWays ==
    ASSUME WaysOK, UNCHANGED scene, PlaceDone
    PROVE  WaysOK'
<1>1. Taken' <=> Taken
  BY DEF PlaceDone, Taken
<1>2. Shapes'
  BY Ranges DEF PlaceDone, WaysOK, Fails, Shapes
<1>3. SwitchOK'
  BY <1>1, Ranges DEF PlaceDone, WaysOK, SwitchOK, Attempt, Placed, Unsaid, Shapes
<1>4. StartOK'
  BY <1>1, Ranges DEF PlaceDone, WaysOK, StartOK, SwitchOK, RestOK
<1>5. Serving' => stage' = "idle"
  BY Wheres DEF Serving, stage
<1>6. RestOK'
  BY <1>1, <1>5, Ranges DEF PlaceDone, WaysOK, SwitchOK, StartOK, RestOK, Attempt, Placed, Unsaid, Announced,
     Shapes, Names, NoMarker, TornMarker
<1> QED
  BY <1>2, <1>3, <1>4, <1>6 DEF WaysOK

\* Writing the marker leaves every copy where the new place says.
LEMMA MarkWays ==
    ASSUME WaysOK, UNCHANGED scene, MarkDone
    PROVE  WaysOK'
<1>1. Taken' <=> Taken
  BY DEF MarkDone, Taken
<1>2. Shapes'
  <2>1. Names(marker') /\ Names(hand')
    BY DEF MarkDone, Shapes, WaysOK, Names, Marker, TornMarker, NoMarker
  <2> QED
    BY <2>1, Ranges DEF MarkDone, Shapes, WaysOK, Fails
<1>3. SwitchOK'
  BY <1>1, Ranges DEF MarkDone, WaysOK, SwitchOK, Attempt, Placed, Unsaid, Shapes, NoMarker, TornMarker
<1>4. StartOK'
  BY <1>1, Ranges DEF MarkDone, WaysOK, StartOK, SwitchOK, RestOK
<1>5. Serving' => stage' = "idle"
  BY Wheres DEF Serving, stage
<1>6. RestOK'
  BY <1>1, <1>5, Ranges DEF MarkDone, WaysOK, SwitchOK, StartOK, RestOK, Attempt, Placed, Unsaid, Announced,
     Shapes, Names, NoMarker, TornMarker
<1> QED
  BY <1>2, <1>3, <1>4, <1>6 DEF WaysOK

\* Replacing the executable leaves every copy where the new place says.
LEMMA CommitWays ==
    ASSUME WaysOK, UNCHANGED scene, CommitDone
    PROVE  WaysOK'
<1>1. Taken' <=> Taken
  BY DEF CommitDone, Taken
<1>2. Shapes'
  BY Ranges DEF CommitDone, WaysOK, Fails, Shapes, Names, SwitchOK
<1>3. SwitchOK'
  BY <1>1, Ranges DEF CommitDone, WaysOK, SwitchOK, Attempt, Placed, Unsaid, Shapes
<1>4. StartOK'
  BY <1>1, Ranges DEF CommitDone, WaysOK, StartOK, SwitchOK, RestOK
<1>5. Serving' => stage' = "idle"
  BY Wheres DEF Serving, stage
<1>6. RestOK'
  BY <1>1, <1>5, Ranges DEF CommitDone, WaysOK, SwitchOK, StartOK, RestOK, Attempt, Placed, Unsaid,
     Announced, Shapes, Names, NoMarker, TornMarker
<1> QED
  BY <1>2, <1>3, <1>4, <1>6 DEF WaysOK

\* Taking the placed pack away again leaves every copy where the new place says.
LEMMA UnplaceWays ==
    ASSUME WaysOK, UNCHANGED scene, UnplaceDone
    PROVE  WaysOK'
<1>1. /\ stuck' \subseteq Steps /\ stuck' \subseteq scene'.faulty /\ (stuck' # {} => faults' # 0)
      /\ faults' \in 0..scene'.faults /\ (Taken' <=> Taken)
      /\ began' = NoAttempt \/ began' \in AnAttempt
      /\ began = NoAttempt => began' = NoAttempt
      /\ began # NoAttempt =>
            /\ began' # NoAttempt /\ began'.exe = began.exe /\ began'.pack = began.pack
            /\ began' = began \/ (Spoils("unplace") /\ began'.clean = FALSE)
  BY Spoiled DEF UnplaceDone, WaysOK, Shapes, UndoSteps, AnAttempt, Taken
<1>2. Shapes'
  BY <1>1, Ranges DEF UnplaceDone, WaysOK, Shapes, AnAttempt
<1>3. SwitchOK'
  <2>1. CASE began' = began /\ pack' = IF hand.pack THEN None ELSE pack
    BY <1>1, <2>1, Ranges DEF UnplaceDone, WaysOK, SwitchOK, Attempt, Placed, Unsaid, Shapes
  <2>2. CASE hand.pack /\ UNCHANGED pack /\ Spoils("unplace")
    <3>1. began # NoAttempt => began'.clean = FALSE
      BY <2>2, Spoiled DEF WaysOK, UndoSteps
    <3> QED
      BY <1>1, <2>2, <3>1, Ranges DEF UnplaceDone, WaysOK, SwitchOK, Attempt, Placed, Unsaid, Shapes
  <2> QED
    BY <2>1, <2>2 DEF UnplaceDone
<1>4. StartOK'
  BY <1>1, Ranges DEF UnplaceDone, WaysOK, StartOK, SwitchOK, RestOK
<1>5. Serving' => stage' = "idle"
  BY Wheres DEF Serving, stage
<1>6. RestOK'
  BY <1>1, <1>5, Ranges DEF UnplaceDone, WaysOK, SwitchOK, StartOK, RestOK, Attempt, Placed, Unsaid,
     Announced, Shapes, Names, NoMarker, TornMarker
<1> QED
  BY <1>2, <1>3, <1>4, <1>6 DEF WaysOK

\* Putting the pack back from aside leaves every copy where the new place says.
LEMMA UnmoveWays ==
    ASSUME WaysOK, UNCHANGED scene, UnmoveDone
    PROVE  WaysOK'
<1>1. /\ stuck' \subseteq Steps /\ stuck' \subseteq scene'.faulty /\ (stuck' # {} => faults' # 0)
      /\ faults' \in 0..scene'.faults /\ (Taken' <=> Taken)
      /\ began' = NoAttempt \/ began' \in AnAttempt
      /\ began = NoAttempt => began' = NoAttempt
      /\ began # NoAttempt =>
            /\ began' # NoAttempt /\ began'.exe = began.exe /\ began'.pack = began.pack
            /\ began' = began \/ (Spoils("unmove") /\ began'.clean = FALSE)
  BY Spoiled DEF UnmoveDone, WaysOK, Shapes, UndoSteps, AnAttempt, Taken
<1>2. Shapes'
  BY <1>1, Ranges DEF UnmoveDone, WaysOK, Shapes, AnAttempt, KeptComesBack
<1>3. SwitchOK'
  <2>1. CASE began' = began /\ KeptComesBack
    BY <1>1, <2>1, Ranges DEF UnmoveDone, WaysOK, SwitchOK, Attempt, Placed, Unsaid, Shapes, Names,
       KeptComesBack
  <2>2. CASE hand.prev_pack /\ UNCHANGED <<pack, prev>> /\ Spoils("unmove")
    <3>1. began # NoAttempt => began'.clean = FALSE
      BY <2>2, Spoiled DEF WaysOK, UndoSteps
    <3> QED
      BY <1>1, <2>2, <3>1, Ranges DEF UnmoveDone, WaysOK, SwitchOK, Attempt, Placed, Unsaid, Shapes, Names,
         KeptComesBack
  <2> QED
    BY <2>1, <2>2 DEF UnmoveDone
<1>4. StartOK'
  BY <1>1, Ranges DEF UnmoveDone, WaysOK, StartOK, SwitchOK, RestOK
<1>5. Serving' => stage' = "idle"
  BY Wheres DEF Serving, stage
<1>6. RestOK'
  BY <1>1, <1>5, Ranges DEF UnmoveDone, WaysOK, SwitchOK, StartOK, RestOK, Attempt, Placed, Unsaid,
     Announced, Shapes, Names, NoMarker, TornMarker
<1> QED
  BY <1>2, <1>3, <1>4, <1>6 DEF WaysOK

\* Removing the marker on the way back leaves every copy where the new place says.
LEMMA UnmarkWays ==
    ASSUME WaysOK, UNCHANGED scene, UnmarkDone
    PROVE  WaysOK'
<1>1. /\ stuck' \subseteq Steps /\ stuck' \subseteq scene'.faulty /\ (stuck' # {} => faults' # 0)
      /\ faults' \in 0..scene'.faults /\ (Taken' <=> Taken)
      /\ began' = NoAttempt \/ began' \in AnAttempt
      /\ began = NoAttempt => began' = NoAttempt
      /\ began # NoAttempt =>
            /\ began' # NoAttempt /\ began'.exe = began.exe /\ began'.pack = began.pack
            /\ began' = began \/ (Spoils("unmark") /\ began'.clean = FALSE)
  BY Spoiled DEF UnmarkDone, WaysOK, Shapes, UndoSteps, AnAttempt, Taken
<1>2. Shapes'
  <2>1. Names(NoMarker)
    BY DEF Names, Marker, NoMarker
  <2>2. Names(marker') /\ Names(hand')
    BY <2>1 DEF UnmarkDone, Shapes, WaysOK
  <2> QED
    BY <1>1, <2>2, Ranges DEF UnmarkDone, Shapes, WaysOK, AnAttempt
<1>3. SwitchOK'
  <2>1. CASE began' = began /\ marker' = NoMarker
    BY <1>1, <2>1, Ranges DEF UnmarkDone, WaysOK, SwitchOK, Attempt, Placed, Unsaid, Shapes, NoMarker,
       TornMarker
  <2>2. CASE UNCHANGED marker /\ Spoils("unmark")
    <3>1. began # NoAttempt => began'.clean = FALSE
      BY <2>2, Spoiled DEF WaysOK, UndoSteps
    <3> QED
      BY <1>1, <2>2, <3>1, Ranges DEF UnmarkDone, WaysOK, SwitchOK, Attempt, Placed, Unsaid, Shapes,
         NoMarker, TornMarker
  <2> QED
    BY <2>1, <2>2 DEF UnmarkDone
<1>4. StartOK'
  BY <1>1, Ranges DEF UnmarkDone, WaysOK, StartOK, SwitchOK, RestOK
<1>5. Serving' => stage' = "idle"
  BY Wheres DEF Serving, stage
<1>6. RestOK'
  BY <1>1, <1>5, Ranges DEF UnmarkDone, WaysOK, SwitchOK, StartOK, RestOK, Attempt, Placed, Unsaid,
     Announced, Shapes, Names, NoMarker, TornMarker
<1> QED
  BY <1>2, <1>3, <1>4, <1>6 DEF WaysOK

\* Dropping the program kept aside leaves every copy where the new place says.
LEMMA DropWays ==
    ASSUME WaysOK, UNCHANGED scene, DropDone
    PROVE  WaysOK'
<1>1. /\ stuck' \subseteq Steps /\ stuck' \subseteq scene'.faulty /\ (stuck' # {} => faults' # 0)
      /\ faults' \in 0..scene'.faults /\ UNCHANGED began
      /\ (Taken' <=> Taken)
  BY Slipped DEF DropDone, WaysOK, Shapes, Slips, Taken
<1>2. Shapes'
  BY <1>1, Ranges DEF DropDone, WaysOK, Shapes
<1>3. SwitchOK'
  BY <1>1, Ranges DEF DropDone, WaysOK, SwitchOK, Attempt, Placed, Unsaid, Shapes
<1>4. StartOK'
  BY <1>1, Ranges DEF DropDone, WaysOK, StartOK, SwitchOK, RestOK
<1>5. Serving' => stage' = "idle"
  BY Wheres DEF Serving, stage
<1>6. RestOK'
  BY <1>1, <1>5, Ranges DEF DropDone, WaysOK, SwitchOK, StartOK, RestOK, Attempt, Placed, Unsaid, Announced,
     Shapes, Names, NoMarker, TornMarker
<1> QED
  BY <1>2, <1>3, <1>4, <1>6 DEF WaysOK

\* Clearing a block leaves every copy where the new place says.
LEMMA ClearWays ==
    ASSUME WaysOK, UNCHANGED scene, ClearDone
    PROVE  WaysOK'
<1>1. /\ stuck' \subseteq Steps /\ stuck' \subseteq scene'.faulty /\ (stuck' # {} => faults' # 0)
      /\ faults' \in 0..scene'.faults /\ UNCHANGED began
      /\ (Taken' <=> Taken)
  BY Slipped DEF ClearDone, WaysOK, Shapes, Slips, Taken
<1>2. Shapes'
  BY <1>1, Ranges DEF ClearDone, WaysOK, Shapes
<1>3. SwitchOK'
  BY <1>1, Ranges DEF ClearDone, WaysOK, SwitchOK, Attempt, Placed, Unsaid, Shapes
<1>4. StartOK'
  BY <1>1, Ranges DEF ClearDone, WaysOK, StartOK, SwitchOK, RestOK
<1>5. Serving' => stage' = "idle"
  BY Wheres DEF Serving, stage
<1>6. RestOK'
  BY <1>1, <1>5, Ranges DEF ClearDone, WaysOK, SwitchOK, StartOK, RestOK, Attempt, Placed, Unsaid, Announced,
     Shapes, Names, NoMarker, TornMarker
<1> QED
  BY <1>2, <1>3, <1>4, <1>6 DEF WaysOK

\* The start that takes the marker leaves every copy where the new place says.
LEMMA TakeWays ==
    ASSUME WaysOK, UNCHANGED scene, TakeDone
    PROVE  WaysOK'
<1>1. /\ stuck' \subseteq Steps /\ stuck' \subseteq scene'.faulty /\ (stuck' # {} => faults' # 0)
      /\ faults' \in 0..scene'.faults /\ UNCHANGED began
      /\ (Taken' => Taken) /\ (Taken' => marker' = NoMarker)
  BY Slipped DEF TakeDone, WaysOK, Shapes, Slips, Taken
<1>2. Shapes'
  <2>1. Names(NoMarker)
    BY DEF Names, Marker, NoMarker
  <2>2. Names(marker') /\ Names(hand')
    BY <2>1 DEF TakeDone, Shapes, WaysOK
  <2> QED
    BY <1>1, <2>2, Ranges DEF TakeDone, Shapes, WaysOK
<1>3. SwitchOK'
  BY <1>1, Ranges DEF TakeDone, WaysOK, SwitchOK, Attempt, Placed, Unsaid, Shapes
<1>4. StartOK'
  BY <1>1, Ranges DEF TakeDone, WaysOK, StartOK, SwitchOK, RestOK, Announced, Shapes, Names, NoMarker
<1>5. Serving' => stage' = "idle"
  BY Wheres DEF Serving, stage
<1>6. RestOK'
  BY <1>1, <1>5, Ranges DEF TakeDone, WaysOK, SwitchOK, StartOK, RestOK, Attempt, Placed, Unsaid, Announced,
     Shapes, Names, NoMarker, TornMarker
<1> QED
  BY <1>2, <1>3, <1>4, <1>6 DEF WaysOK

\* The probe of a new release leaves every copy where the new place says.
LEMMA ProbeWays ==
    ASSUME WaysOK, UNCHANGED scene, ProbeDone
    PROVE  WaysOK'
<1>1. Taken' <=> Taken
  BY DEF ProbeDone, Taken
<1>2. Shapes'
  BY Ranges DEF ProbeDone, WaysOK, Fails, Shapes
<1>3. SwitchOK'
  BY <1>1, Ranges DEF ProbeDone, WaysOK, SwitchOK, Attempt, Placed, Unsaid, Shapes
<1>4. StartOK'
  BY <1>1, Ranges DEF ProbeDone, WaysOK, StartOK, SwitchOK, RestOK
<1>5. Serving' => stage' = "idle"
  BY Wheres DEF Serving, stage
<1>6. RestOK'
  BY <1>1, <1>5, Ranges DEF ProbeDone, WaysOK, SwitchOK, StartOK, RestOK, Attempt, Placed, Unsaid, Announced,
     Shapes, Names, NoMarker, TornMarker
<1> QED
  BY <1>2, <1>3, <1>4, <1>6 DEF WaysOK

\* Dropping the pack kept aside leaves every copy where the new place says.
LEMMA DropKeptWays ==
    ASSUME WaysOK, UNCHANGED scene, DropKeptDone
    PROVE  WaysOK'
<1>1. /\ stuck' \subseteq Steps /\ stuck' \subseteq scene'.faulty /\ (stuck' # {} => faults' # 0)
      /\ faults' \in 0..scene'.faults /\ UNCHANGED began
      /\ (Taken' <=> Taken)
  BY Slipped DEF DropKeptDone, WaysOK, Shapes, Slips, Taken
<1>2. Shapes'
  BY <1>1, Ranges DEF DropKeptDone, WaysOK, Shapes
<1>3. SwitchOK'
  BY <1>1, Ranges DEF DropKeptDone, WaysOK, SwitchOK, Attempt, Placed, Unsaid, Shapes
<1>4. StartOK'
  BY <1>1, Ranges DEF DropKeptDone, WaysOK, StartOK, SwitchOK, RestOK
<1>5. Serving' => stage' = "idle"
  BY Wheres DEF Serving, stage
<1>6. RestOK'
  BY <1>1, <1>5, Ranges DEF DropKeptDone, WaysOK, SwitchOK, StartOK, RestOK, Attempt, Placed, Unsaid,
     Announced, Shapes, Names, NoMarker, TornMarker
<1> QED
  BY <1>2, <1>3, <1>4, <1>6 DEF WaysOK

\* Lifting the block of a proven release leaves every copy where the new place says.
LEMMA UnblockWays ==
    ASSUME WaysOK, UNCHANGED scene, UnblockDone
    PROVE  WaysOK'
<1>1. /\ stuck' \subseteq Steps /\ stuck' \subseteq scene'.faulty /\ (stuck' # {} => faults' # 0)
      /\ faults' \in 0..scene'.faults /\ UNCHANGED began
      /\ (Taken' <=> Taken)
  BY Slipped DEF UnblockDone, WaysOK, Shapes, Slips, Taken
<1>2. Shapes'
  BY <1>1, Ranges DEF UnblockDone, WaysOK, Shapes
<1>3. SwitchOK'
  BY <1>1, Ranges DEF UnblockDone, WaysOK, SwitchOK, Attempt, Placed, Unsaid, Shapes
<1>4. StartOK'
  BY <1>1, Ranges DEF UnblockDone, WaysOK, StartOK, SwitchOK, RestOK
<1>5. Serving' => stage' = "idle"
  BY Wheres DEF Serving, stage
<1>6. RestOK'
  BY <1>1, <1>5, Ranges DEF UnblockDone, WaysOK, SwitchOK, StartOK, RestOK, Attempt, Placed, Unsaid,
     Announced, Shapes, Names, NoMarker, TornMarker
<1> QED
  BY <1>2, <1>3, <1>4, <1>6 DEF WaysOK

\* Putting the pack back in a rollback leaves every copy where the new place says.
LEMMA RestoreWays ==
    ASSUME WaysOK, UNCHANGED scene, RestoreDone
    PROVE  WaysOK'
<1>1. Taken' <=> Taken
  BY DEF RestoreDone, Taken
<1>2. Shapes'
  BY Ranges DEF RestoreDone, WaysOK, Fails, Shapes, KeptComesBack
<1>3. SwitchOK'
  BY <1>1, Ranges DEF RestoreDone, WaysOK, SwitchOK, Attempt, Placed, Unsaid, Shapes
<1>4. StartOK'
  BY <1>1, Ranges DEF RestoreDone, WaysOK, StartOK, SwitchOK, RestOK
<1>5. Serving' => stage' = "idle"
  BY Wheres DEF Serving, stage
<1>6. RestOK'
  BY <1>1, <1>5, Ranges DEF RestoreDone, WaysOK, SwitchOK, StartOK, RestOK, Attempt, Placed, Unsaid,
     Announced, Shapes, Names, NoMarker, TornMarker
<1> QED
  BY <1>2, <1>3, <1>4, <1>6 DEF WaysOK

\* Blocking the release that failed leaves every copy where the new place says.
LEMMA BlockWays ==
    ASSUME WaysOK, UNCHANGED scene, BlockDone
    PROVE  WaysOK'
<1>1. Taken' <=> Taken
  BY DEF BlockDone, Taken
<1>2. Shapes'
  BY Ranges DEF BlockDone, WaysOK, Fails, Shapes, Names, Marker, Judged, StartOK
<1>3. SwitchOK'
  BY <1>1, Ranges DEF BlockDone, WaysOK, SwitchOK, Attempt, Placed, Unsaid, Shapes
<1>4. StartOK'
  BY <1>1, Ranges DEF BlockDone, WaysOK, StartOK, SwitchOK, RestOK
<1>5. Serving' => stage' = "idle"
  BY Wheres DEF Serving, stage
<1>6. RestOK'
  BY <1>1, <1>5, Ranges DEF BlockDone, WaysOK, SwitchOK, StartOK, RestOK, Attempt, Placed, Unsaid, Announced,
     Shapes, Names, NoMarker, TornMarker
<1> QED
  BY <1>2, <1>3, <1>4, <1>6 DEF WaysOK

\* Putting the executable back in a rollback leaves every copy where the new place says.
LEMMA RestoreExeWays ==
    ASSUME WaysOK, UNCHANGED scene, RestoreExeDone
    PROVE  WaysOK'
<1>1. Taken' <=> Taken
  BY DEF RestoreExeDone, Taken
<1>2. Shapes'
  BY Ranges DEF RestoreExeDone, WaysOK, Fails, Shapes, Names, StartOK
<1>3. SwitchOK'
  BY <1>1, Ranges DEF RestoreExeDone, WaysOK, SwitchOK, Attempt, Placed, Unsaid, Shapes
<1>4. StartOK'
  BY <1>1, Ranges DEF RestoreExeDone, WaysOK, StartOK, SwitchOK, RestOK
<1>5. Serving' => stage' = "idle"
  BY Wheres DEF Serving, stage
<1>6. RestOK'
  BY <1>1, <1>5, Ranges DEF RestoreExeDone, WaysOK, SwitchOK, StartOK, RestOK, Attempt, Placed, Unsaid,
     Announced, Shapes, Names, NoMarker, TornMarker
<1> QED
  BY <1>2, <1>3, <1>4, <1>6 DEF WaysOK

\* Writing the marker back leaves every copy where the new place says.
LEMMA MarkBackWays ==
    ASSUME WaysOK, UNCHANGED scene, MarkBackDone
    PROVE  WaysOK'
<1>1. Taken' <=> Taken
  BY DEF MarkBackDone, Taken
<1>2. Shapes'
  <2>1. hand \in Marker /\ hand.from \in Versions /\ hand.to \in Versions /\ Names(marker) /\ Names(hand)
    BY DEF MarkBackDone, Shapes, WaysOK, StartOK, Names
  <2>2. hand.prev_pack \in BOOLEAN
    BY <2>1 DEF Marker
  <2>3. Names([kind |-> "rollback", from |-> hand.to, to |-> hand.from, pack |-> hand.prev_pack,
             prev_pack |-> FALSE])
    BY <2>1, <2>2 DEF Names, Marker
  <2>4. Names(TornMarker)
    BY DEF Names, Marker, NoMarker, TornMarker
  <2>5. Names(marker') /\ Names(hand')
    BY <2>1, <2>3, <2>4 DEF MarkBackDone
  <2> QED
    BY <2>5, Ranges DEF MarkBackDone, Fails, Shapes, WaysOK
<1>3. SwitchOK'
  BY <1>1, Ranges DEF MarkBackDone, WaysOK, SwitchOK, Attempt, Placed, Unsaid, StartOK, Shapes, Names,
     NoMarker, TornMarker
<1>4. StartOK'
  BY <1>1, Ranges DEF MarkBackDone, WaysOK, StartOK, SwitchOK, RestOK
<1>5. Serving' => stage' = "idle"
  BY Wheres DEF Serving, stage
<1>6. RestOK'
  BY <1>1, <1>5, Ranges DEF MarkBackDone, WaysOK, SwitchOK, StartOK, RestOK, Attempt, Placed, Unsaid,
     Announced, Shapes, Names, NoMarker, TornMarker
<1> QED
  BY <1>2, <1>3, <1>4, <1>6 DEF WaysOK
\* An install, by hand or not, leaves every copy where the new place says.
LEMMA InstallWays ==
    ASSUME NEW hands, WaysOK, UNCHANGED scene, InstallDone(hands)
    PROVE  WaysOK'
<1>1. /\ hand'.kind = "binary" /\ hand'.from = running /\ hand'.to = latest
      /\ (hand'.pack <=> pack # None) /\ (hand'.prev_pack <=> pack # None)
  BY DEF InstallDone
<1>2. /\ began'.exe = exe /\ began'.pack = pack /\ began'.marker = marker /\ stage' = "backup"
      /\ UNCHANGED <<exe, previous, pack, prev, marker, running, stuck>>
      /\ latest > running /\ exe = running /\ ~(Taken /\ Announced) /\ running # 0
  BY DEF InstallDone
<1>3. exe \in Versions /\ pack \in Versions \cup {0} /\ marker \in Marker
  BY <1>2 DEF WaysOK, Shapes, Names
<1>4. began' # NoAttempt /\ began' \in AnAttempt
  BY <1>2, <1>3, Ranges DEF NoAttempt, AnAttempt, WaysOK, InstallDone
<1>5. Shapes'
  <2>1. Names(marker') /\ Names(hand')
    BY Ranges DEF InstallDone, Shapes, WaysOK, Names, Marker
  <2>2. /\ undone' \subseteq Versions /\ risked' \subseteq Versions /\ mixed' \subseteq Versions
        /\ staging' \in Versions \cup {0}
    BY <1>3, <1>2 DEF InstallDone, WaysOK, Shapes
  <2> QED
    BY <1>4, <2>1, <2>2, Ranges DEF InstallDone, Shapes, WaysOK, AnAttempt
<1>6. SwitchOK'
  <2>1. Attempt'
    BY <1>1, <1>2, <1>4 DEF Attempt
  <2>2. hand'.pack => staging' = hand'.to
    BY <1>1 DEF InstallDone
  <2> QED
    BY <1>1, <1>2, <2>1, <2>2 DEF SwitchOK, Unsaid
<1>7. StartOK'
  BY <1>2 DEF StartOK
<1>8. ~Serving'
  BY <1>2, Wheres DEF Serving, stage
<1>9. RestOK'
  BY <1>2, <1>8 DEF RestOK, WaysOK, Announced, Taken
<1> QED
  BY <1>5, <1>6, <1>7, <1>9 DEF WaysOK

\* An install of the pack alone leaves every copy where the new place says.
LEMMA InstallOcrWays ==
    ASSUME WaysOK, UNCHANGED scene, InstallOcrDone, Serving
    PROVE  WaysOK'
<1>1. Shapes'
  BY Ranges DEF InstallOcrDone, Shapes, WaysOK
<1>2. SwitchOK' /\ StartOK'
  BY DEF InstallOcrDone, SwitchOK, StartOK
<1>3. RestOK'
  BY DEF InstallOcrDone, RestOK, WaysOK, Announced, Taken
<1> QED
  BY <1>1, <1>2, <1>3 DEF WaysOK

\* A start of the program leaves every copy where the new place says.
LEMMA StartsWays ==
    ASSUME WaysOK, UNCHANGED scene, Starts
    PROVE  WaysOK'
<1>1. /\ exe # Torn => running' = exe /\ stage' = "take"
      /\ exe = Torn => running' = 0 /\ stage' = "idle"
  BY Wheres DEF Starts, stage
<1>2. /\ hand' = NoMarker /\ report' = "none" /\ began' = NoAttempt
      /\ UNCHANGED <<exe, previous, pack, prev, staging, marker, blocked, latest, undone, stuck, checked, risked,
                    mixed, unwritten, faults, crashes>>
  BY DEF Starts, disk
<1>3. Shapes'
  BY <1>1, <1>2, Ranges DEF Shapes, WaysOK, Names, Marker, NoMarker
<1>4. SwitchOK'
  BY <1>1, <1>2 DEF SwitchOK
<1>5. StartOK'
  BY <1>1, <1>2 DEF StartOK
<1>6. Serving' => stage' = "idle" /\ running' # 0
  BY Wheres DEF Serving, stage
<1>7. RestOK'
  BY <1>1, <1>2, <1>6 DEF WaysOK, RestOK, Announced, Taken
<1> QED
  BY <1>3, <1>4, <1>5, <1>7 DEF WaysOK

\* A release that is published leaves every copy where the new place says.
LEMMA PublishWays ==
    ASSUME NEW v \in Versions, WaysOK, UNCHANGED scene, Publish(v)
    PROVE  WaysOK'
<1>1. /\ latest' = v
      /\ UNCHANGED <<exe, previous, pack, prev, staging, marker, blocked, running, todo, hand, report, began,
                     undone, stuck, checked, risked, mixed, unwritten, faults, crashes>>
  BY DEF Publish, disk, history
<1>2. stage' = stage /\ (Serving' <=> Serving)
  BY <1>1 DEF stage, Serving
<1>3. Shapes'
  BY <1>1, <1>2 DEF Shapes, WaysOK
<1>4. SwitchOK' /\ StartOK' /\ RestOK'
  BY <1>1, <1>2 DEF WaysOK, SwitchOK, StartOK, RestOK, Attempt, Placed, Unsaid, Announced, Taken
<1> QED
  BY <1>3, <1>4 DEF WaysOK

\* What a power failure does, by the place it finds the process at.
CrashDone ==
    /\ running # 0 /\ running' = 0 /\ stage' = "idle"
    /\ hand' = NoMarker /\ began' = NoAttempt /\ report' = "none"
    /\ marker' \in {marker, TornMarker}
    /\ previous' = previous \/ (stage = "backup" /\ previous' \in {None, Torn})
    /\ \/ UNCHANGED <<blocked, unwritten>>
       \/ /\ stage \in {"halt", "block"} /\ blocked' \in {blocked, 0}
          /\ unwritten' = IF blocked' # Judged THEN unwritten \cup {Judged} ELSE unwritten
    /\ crashes < scene.crashes /\ crashes' = crashes + 1
    /\ UNCHANGED <<exe, pack, prev, staging, latest, undone, stuck, checked, risked, mixed, faults>>

\* A power failure does what its entry in the table of places says.
LEMMA CrashDoes ==
    ASSUME WaysOK, Crash
    PROVE  CrashDone
<1>1. At("backup") => stage = "backup"
  BY Here, Moves DEF stage
<1>2. At("block") => stage \in {"halt", "block"}
  BY Here, Moves DEF stage
<1>3. stage' = "idle"
  BY Wheres DEF Crash, stage
<1> QED
  BY <1>1, <1>2, <1>3 DEF Crash, CrashDone, Tears

\* A power failure leaves every copy where the new place says.
LEMMA CrashWays ==
    ASSUME WaysOK, UNCHANGED scene, CrashDone
    PROVE  WaysOK'
<1>1. Shapes'
  <2>1. Names(NoMarker) /\ Names(TornMarker)
    BY DEF Names, Marker, TornMarker, NoMarker
  <2>2. unwritten' \subseteq Versions
    BY DEF CrashDone, WaysOK, Shapes, StartOK, Names, Judged
  <2> QED
    BY <2>1, <2>2, Ranges DEF CrashDone, WaysOK, Shapes
<1>2. SwitchOK' /\ StartOK'
  BY DEF CrashDone, SwitchOK, StartOK
<1>3. RestOK'
  BY DEF CrashDone, Serving, WaysOK, RestOK, SwitchOK, Announced, Taken, TornMarker, NoMarker
<1> QED
  BY <1>1, <1>2, <1>3 DEF WaysOK

-----------------------------------------------------------------------------
(* The way back is kept *)

\* Copying the running executable to `previous` keeps the way back.
LEMMA BackupWayBack ==
    ASSUME WaysOK, BackOK, UNCHANGED scene, BackupDone
    PROVE  BackOK'
BY Ranges DEF BackupDone, WaysOK, SwitchOK, StartOK, BackOK, Settled, Attempt, Placed, Announced, Shapes, Names

\* Moving the installed pack aside keeps the way back.
LEMMA AsideWayBack ==
    ASSUME WaysOK, BackOK, UNCHANGED scene, AsideDone
    PROVE  BackOK'
BY Ranges DEF AsideDone, WaysOK, SwitchOK, StartOK, BackOK, Settled, Attempt, Placed, Announced, Shapes, Names

\* Putting the staged pack in place keeps the way back.
LEMMA PlaceWayBack ==
    ASSUME WaysOK, BackOK, UNCHANGED scene, PlaceDone
    PROVE  BackOK'
BY Ranges DEF PlaceDone, WaysOK, SwitchOK, StartOK, BackOK, Settled, Attempt, Placed, Announced, Shapes, Names

\* Writing the marker keeps the way back.
LEMMA MarkWayBack ==
    ASSUME WaysOK, BackOK, UNCHANGED scene, MarkDone
    PROVE  BackOK'
<1>1. exe \in Settled
  BY DEF MarkDone, WaysOK, SwitchOK, BackOK
<1> QED
  BY <1>1 DEF MarkDone, BackOK, Settled

\* Replacing the executable keeps the way back.
LEMMA CommitWayBack ==
    ASSUME WaysOK, BackOK, UNCHANGED scene, CommitDone
    PROVE  BackOK'
BY Ranges DEF CommitDone, WaysOK, SwitchOK, StartOK, BackOK, Settled, Attempt, Placed, Announced, Shapes, Names

\* Taking the placed pack away again keeps the way back.
LEMMA UnplaceWayBack ==
    ASSUME WaysOK, BackOK, UNCHANGED scene, UnplaceDone
    PROVE  BackOK'
BY Ranges DEF UnplaceDone, WaysOK, SwitchOK, StartOK, BackOK, Settled, Attempt, Placed, Announced, Shapes, Names

\* Putting the pack back from aside keeps the way back.
LEMMA UnmoveWayBack ==
    ASSUME WaysOK, BackOK, UNCHANGED scene, UnmoveDone
    PROVE  BackOK'
BY Ranges DEF UnmoveDone, WaysOK, SwitchOK, StartOK, BackOK, Settled, Attempt, Placed, Announced, Shapes,
   Names, KeptComesBack

\* Removing the marker on the way back keeps the way back.
LEMMA UnmarkWayBack ==
    ASSUME WaysOK, BackOK, UNCHANGED scene, UnmarkDone
    PROVE  BackOK'
BY Ranges DEF UnmarkDone, WaysOK, SwitchOK, StartOK, BackOK, Settled, Attempt, Placed, Announced, Shapes,
   Names, NoMarker, TornMarker

\* Dropping the program kept aside keeps the way back.
LEMMA DropWayBack ==
    ASSUME WaysOK, BackOK, UNCHANGED scene, DropDone
    PROVE  BackOK'
BY Ranges DEF DropDone, WaysOK, SwitchOK, StartOK, BackOK, Settled, Attempt, Placed, Announced, Shapes, Names

\* Clearing a block keeps the way back.
LEMMA ClearWayBack ==
    ASSUME WaysOK, BackOK, UNCHANGED scene, ClearDone
    PROVE  BackOK'
BY Ranges DEF ClearDone, WaysOK, SwitchOK, StartOK, BackOK, Settled, Attempt, Placed, Announced, Shapes, Names

\* The start that takes the marker keeps the way back.
LEMMA TakeWayBack ==
    ASSUME WaysOK, BackOK, UNCHANGED scene, TakeDone
    PROVE  BackOK'
BY Ranges DEF TakeDone, WaysOK, SwitchOK, StartOK, BackOK, Settled, Attempt, Placed, Announced, Shapes,
   Names, NoMarker, TornMarker

\* The probe of a new release keeps the way back.
LEMMA ProbeWayBack ==
    ASSUME WaysOK, BackOK, UNCHANGED scene, ProbeDone
    PROVE  BackOK'
BY Ranges DEF ProbeDone, WaysOK, SwitchOK, StartOK, BackOK, Settled, Attempt, Placed, Announced, Shapes, Names

\* Dropping the pack kept aside keeps the way back.
LEMMA DropKeptWayBack ==
    ASSUME WaysOK, BackOK, UNCHANGED scene, DropKeptDone
    PROVE  BackOK'
BY Ranges DEF DropKeptDone, WaysOK, SwitchOK, StartOK, BackOK, Settled, Attempt, Placed, Announced, Shapes,
   Names

\* Lifting the block of a proven release keeps the way back.
LEMMA UnblockWayBack ==
    ASSUME WaysOK, BackOK, UNCHANGED scene, UnblockDone
    PROVE  BackOK'
BY Ranges DEF UnblockDone, WaysOK, SwitchOK, StartOK, BackOK, Settled, Attempt, Placed, Announced, Shapes, Names

\* Putting the pack back in a rollback keeps the way back.
LEMMA RestoreWayBack ==
    ASSUME WaysOK, BackOK, UNCHANGED scene, RestoreDone
    PROVE  BackOK'
BY Ranges DEF RestoreDone, WaysOK, SwitchOK, StartOK, BackOK, Settled, Attempt, Placed, Announced, Shapes,
   Names, KeptComesBack

\* Blocking the release that failed keeps the way back.
LEMMA BlockWayBack ==
    ASSUME WaysOK, BackOK, UNCHANGED scene, BlockDone
    PROVE  BackOK'
BY Ranges DEF BlockDone, WaysOK, SwitchOK, StartOK, BackOK, Settled, Attempt, Placed, Announced, Shapes, Names

\* Putting the executable back in a rollback keeps the way back.
LEMMA RestoreExeWayBack ==
    ASSUME WaysOK, BackOK, UNCHANGED scene, RestoreExeDone
    PROVE  BackOK'
BY Ranges DEF RestoreExeDone, WaysOK, SwitchOK, StartOK, BackOK, Settled, Attempt, Placed, Announced, Shapes,
   Names

\* Writing the marker back keeps the way back.
LEMMA MarkBackWayBack ==
    ASSUME WaysOK, BackOK, UNCHANGED scene, MarkBackDone
    PROVE  BackOK'
BY Ranges DEF MarkBackDone, WaysOK, SwitchOK, StartOK, BackOK, Settled, Attempt, Placed, Announced, Shapes,
   Names, NoMarker, TornMarker

\* An install, by hand or not, keeps the way back.
LEMMA InstallWayBack ==
    ASSUME NEW hands, WaysOK, BackOK, UNCHANGED scene, InstallDone(hands)
    PROVE  BackOK'
BY Ranges DEF InstallDone, WaysOK, SwitchOK, StartOK, BackOK, Settled, Attempt, Placed, Announced, Shapes, Names

\* An install of the pack alone keeps the way back.
LEMMA InstallOcrWayBack ==
    ASSUME WaysOK, BackOK, UNCHANGED scene, InstallOcrDone
    PROVE  BackOK'
BY Ranges DEF InstallOcrDone, WaysOK, SwitchOK, StartOK, BackOK, Settled, Attempt, Placed, Announced, Shapes,
   Names

-----------------------------------------------------------------------------
(* A release stays one unit *)

\* A step that leaves the behaviour undisturbed met it undisturbed.
LEMMA Calm ==
    ASSUME Shapes, UNCHANGED <<scene, crashes>>, faults' \in {faults, faults + 1}, Undisturbed'
    PROVE  Undisturbed
BY Ranges DEF Shapes, Undisturbed

\* A fault of the operations that move things back, or of the marker's removal, disturbs it.
LEMMA Disturbs ==
    ASSUME Shapes, UNCHANGED scene,
           NEW step \in {"unplace", "unmove", "restore", "restore_exe", "take"}, Fails(step)
    PROVE  ~Undisturbed'
<1>1. faults' # 0 /\ step \in scene'.faulty
  BY Ranges DEF Shapes, Fails
<1> QED
  BY <1>1 DEF Undisturbed

\* Every marker was taken, then.
LEMMA CalmTaken ==
    ASSUME Shapes, Undisturbed
    PROVE  Taken
BY DEF Shapes, Undisturbed, Taken

\* Each step keeps the packs with their releases.

\* Copying the running executable to `previous` keeps executable and pack of one release together.
LEMMA BackupUnit ==
    ASSUME WaysOK, UnitOK, UNCHANGED scene, BackupDone
    PROVE  UnitOK'
<1> SUFFICES ASSUME Undisturbed' PROVE Unit'
  BY DEF UnitOK
<1>1. Unit /\ Taken
  BY Calm, CalmTaken DEF UnitOK, WaysOK, BackupDone, Fails, Slips, Spoils
<1> QED
  BY <1>1, Ranges DEF BackupDone, Unit, WaysOK, SwitchOK, StartOK, RestOK, Attempt, Placed, Fits, WasOne,
     Shapes, Names

\* Moving the installed pack aside keeps executable and pack of one release together.
LEMMA AsideUnit ==
    ASSUME WaysOK, UnitOK, UNCHANGED scene, AsideDone
    PROVE  UnitOK'
<1> SUFFICES ASSUME Undisturbed' PROVE Unit'
  BY DEF UnitOK
<1>1. Unit /\ Taken
  BY Calm, CalmTaken DEF UnitOK, WaysOK, AsideDone, Fails, Slips, Spoils
<1> QED
  BY <1>1, Ranges DEF AsideDone, Unit, WaysOK, SwitchOK, StartOK, RestOK, Attempt, Placed, Fits, WasOne,
     Shapes, Names

\* Putting the staged pack in place keeps executable and pack of one release together.
LEMMA PlaceUnit ==
    ASSUME WaysOK, UnitOK, UNCHANGED scene, PlaceDone
    PROVE  UnitOK'
<1> SUFFICES ASSUME Undisturbed' PROVE Unit'
  BY DEF UnitOK
<1>1. Unit /\ Taken
  BY Calm, CalmTaken DEF UnitOK, WaysOK, PlaceDone, Fails, Slips, Spoils
<1> QED
  BY <1>1, Ranges DEF PlaceDone, Unit, WaysOK, SwitchOK, StartOK, RestOK, Attempt, Placed, Fits, WasOne,
     Shapes, Names

\* Writing the marker keeps executable and pack of one release together.
LEMMA MarkUnit ==
    ASSUME WaysOK, UnitOK, UNCHANGED scene, MarkDone
    PROVE  UnitOK'
<1> SUFFICES ASSUME Undisturbed' PROVE Unit'
  BY DEF UnitOK
<1>1. Unit /\ Taken
  BY Calm, CalmTaken DEF UnitOK, WaysOK, MarkDone, Fails, Slips, Spoils
<1> QED
  BY <1>1, Ranges DEF MarkDone, Unit, WaysOK, SwitchOK, StartOK, RestOK, Attempt, Placed, Fits, WasOne,
     Shapes, Names, NoMarker, TornMarker

\* Replacing the executable keeps executable and pack of one release together.
LEMMA CommitUnit ==
    ASSUME WaysOK, UnitOK, UNCHANGED scene, CommitDone
    PROVE  UnitOK'
<1> SUFFICES ASSUME Undisturbed' PROVE Unit'
  BY DEF UnitOK
<1>1. Unit /\ Taken
  BY Calm, CalmTaken DEF UnitOK, WaysOK, CommitDone, Fails, Slips, Spoils
<1> QED
  BY <1>1, Ranges DEF CommitDone, Unit, WaysOK, SwitchOK, StartOK, RestOK, Attempt, Placed, Fits, WasOne,
     Shapes, Names

\* Taking the placed pack away again keeps executable and pack of one release together.
LEMMA UnplaceUnit ==
    ASSUME WaysOK, UnitOK, UNCHANGED scene, UnplaceDone
    PROVE  UnitOK'
<1> SUFFICES ASSUME Undisturbed' PROVE Unit'
  BY DEF UnitOK
<1>1. Unit /\ Taken
  BY Calm, CalmTaken DEF UnitOK, WaysOK, UnplaceDone, Fails, Slips, Spoils
<1>2. ~Spoils("unplace")
  BY Disturbs DEF WaysOK, Spoils
<1> QED
  BY <1>1, <1>2, Ranges DEF UnplaceDone, Unit, WaysOK, SwitchOK, StartOK, RestOK, Attempt, Placed, Fits,
     WasOne, Shapes, Names

\* Putting the pack back from aside keeps executable and pack of one release together.
LEMMA UnmoveUnit ==
    ASSUME WaysOK, UnitOK, UNCHANGED scene, UnmoveDone
    PROVE  UnitOK'
<1> SUFFICES ASSUME Undisturbed' PROVE Unit'
  BY DEF UnitOK
<1>1. Unit /\ Taken
  BY Calm, CalmTaken DEF UnitOK, WaysOK, UnmoveDone, Fails, Slips, Spoils
<1>2. ~Spoils("unmove")
  BY Disturbs DEF WaysOK, Spoils
<1> QED
  BY <1>1, <1>2, Ranges DEF UnmoveDone, Unit, WaysOK, SwitchOK, StartOK, RestOK, Attempt, Placed, Fits,
     WasOne, Shapes, Names, KeptComesBack

\* Removing the marker on the way back keeps executable and pack of one release together.
LEMMA UnmarkUnit ==
    ASSUME WaysOK, UnitOK, UNCHANGED scene, UnmarkDone
    PROVE  UnitOK'
<1> SUFFICES ASSUME Undisturbed' PROVE Unit'
  BY DEF UnitOK
<1>1. Unit /\ Taken
  BY Calm, CalmTaken DEF UnitOK, WaysOK, UnmarkDone, Fails, Slips, Spoils
<1>2. began # NoAttempt => began'.pack = began.pack
  BY Spoiled DEF UnmarkDone, WaysOK, UndoSteps
<1>3. began'.pack = began.pack
  BY <1>2 DEF UnmarkDone, WaysOK, SwitchOK, Attempt, Spoils
<1> QED
  BY <1>1, <1>3 DEF UnmarkDone, Unit

\* Dropping the program kept aside keeps executable and pack of one release together.
LEMMA DropUnit ==
    ASSUME WaysOK, UnitOK, UNCHANGED scene, DropDone
    PROVE  UnitOK'
<1> SUFFICES ASSUME Undisturbed' PROVE Unit'
  BY DEF UnitOK
<1>1. Unit /\ Taken
  BY Calm, CalmTaken DEF UnitOK, WaysOK, DropDone, Fails, Slips, Spoils
<1> QED
  BY <1>1, Ranges DEF DropDone, Unit, WaysOK, SwitchOK, StartOK, RestOK, Attempt, Placed, Fits, WasOne,
     Shapes, Names

\* Clearing a block keeps executable and pack of one release together.
LEMMA ClearUnit ==
    ASSUME WaysOK, UnitOK, UNCHANGED scene, ClearDone
    PROVE  UnitOK'
<1> SUFFICES ASSUME Undisturbed' PROVE Unit'
  BY DEF UnitOK
<1>1. Unit /\ Taken
  BY Calm, CalmTaken DEF UnitOK, WaysOK, ClearDone, Fails, Slips, Spoils
<1> QED
  BY <1>1, Ranges DEF ClearDone, Unit, WaysOK, SwitchOK, StartOK, RestOK, Attempt, Placed, Fits, WasOne,
     Shapes, Names

\* The start that takes the marker keeps executable and pack of one release together.
LEMMA TakeUnit ==
    ASSUME WaysOK, UnitOK, UNCHANGED scene, TakeDone
    PROVE  UnitOK'
<1> SUFFICES ASSUME Undisturbed' PROVE Unit'
  BY DEF UnitOK
<1>1. Unit /\ Taken
  BY Calm, CalmTaken DEF UnitOK, WaysOK, TakeDone, Fails, Slips, Spoils
<1>2. ~Slips("take")
  BY Disturbs DEF WaysOK, Slips
<1> QED
  BY <1>1, <1>2, Ranges DEF TakeDone, Unit, WaysOK, SwitchOK, StartOK, RestOK, Attempt, Placed, Fits, WasOne,
     Shapes, Names, NoMarker, TornMarker

\* The probe of a new release keeps executable and pack of one release together.
LEMMA ProbeUnit ==
    ASSUME WaysOK, UnitOK, UNCHANGED scene, ProbeDone
    PROVE  UnitOK'
<1> SUFFICES ASSUME Undisturbed' PROVE Unit'
  BY DEF UnitOK
<1>1. Unit /\ Taken
  BY Calm, CalmTaken DEF UnitOK, WaysOK, ProbeDone, Fails, Slips, Spoils
<1> QED
  BY <1>1, Ranges DEF ProbeDone, Unit, WaysOK, SwitchOK, StartOK, RestOK, Attempt, Placed, Fits, WasOne,
     Shapes, Names

\* Dropping the pack kept aside keeps executable and pack of one release together.
LEMMA DropKeptUnit ==
    ASSUME WaysOK, UnitOK, UNCHANGED scene, DropKeptDone
    PROVE  UnitOK'
<1> SUFFICES ASSUME Undisturbed' PROVE Unit'
  BY DEF UnitOK
<1>1. Unit /\ Taken
  BY Calm, CalmTaken DEF UnitOK, WaysOK, DropKeptDone, Fails, Slips, Spoils
<1> QED
  BY <1>1, Ranges DEF DropKeptDone, Unit, WaysOK, SwitchOK, StartOK, RestOK, Attempt, Placed, Fits, WasOne,
     Shapes, Names

\* Lifting the block of a proven release keeps executable and pack of one release together.
LEMMA UnblockUnit ==
    ASSUME WaysOK, UnitOK, UNCHANGED scene, UnblockDone
    PROVE  UnitOK'
<1> SUFFICES ASSUME Undisturbed' PROVE Unit'
  BY DEF UnitOK
<1>1. Unit /\ Taken
  BY Calm, CalmTaken DEF UnitOK, WaysOK, UnblockDone, Fails, Slips, Spoils
<1> QED
  BY <1>1, Ranges DEF UnblockDone, Unit, WaysOK, SwitchOK, StartOK, RestOK, Attempt, Placed, Fits, WasOne,
     Shapes, Names

\* Putting the pack back in a rollback keeps executable and pack of one release together.
LEMMA RestoreUnit ==
    ASSUME WaysOK, UnitOK, UNCHANGED scene, RestoreDone
    PROVE  UnitOK'
<1> SUFFICES ASSUME Undisturbed' PROVE Unit'
  BY DEF UnitOK
<1>1. Unit /\ Taken
  BY Calm, CalmTaken DEF UnitOK, WaysOK, RestoreDone, Fails, Slips, Spoils
<1>2. ~Fails("restore")
  BY Disturbs DEF WaysOK
<1> QED
  BY <1>1, <1>2, Ranges DEF RestoreDone, Unit, WaysOK, SwitchOK, StartOK, RestOK, Attempt, Placed, Fits,
     WasOne, Shapes, Names, KeptComesBack

\* Blocking the release that failed keeps executable and pack of one release together.
LEMMA BlockUnit ==
    ASSUME WaysOK, UnitOK, UNCHANGED scene, BlockDone
    PROVE  UnitOK'
<1> SUFFICES ASSUME Undisturbed' PROVE Unit'
  BY DEF UnitOK
<1>1. Unit /\ Taken
  BY Calm, CalmTaken DEF UnitOK, WaysOK, BlockDone, Fails, Slips, Spoils
<1> QED
  BY <1>1, Ranges DEF BlockDone, Unit, WaysOK, SwitchOK, StartOK, RestOK, Attempt, Placed, Fits, WasOne,
     Shapes, Names

\* Putting the executable back in a rollback keeps executable and pack of one release together.
LEMMA RestoreExeUnit ==
    ASSUME WaysOK, UnitOK, UNCHANGED scene, RestoreExeDone
    PROVE  UnitOK'
<1> SUFFICES ASSUME Undisturbed' PROVE Unit'
  BY DEF UnitOK
<1>1. Unit /\ Taken
  BY Calm, CalmTaken DEF UnitOK, WaysOK, RestoreExeDone, Fails, Slips, Spoils
<1>2. ~Fails("restore_exe")
  BY Disturbs DEF WaysOK
<1> QED
  BY <1>1, <1>2, Ranges DEF RestoreExeDone, Unit, WaysOK, SwitchOK, StartOK, RestOK, Attempt, Placed, Fits,
     WasOne, Shapes, Names

\* Writing the marker back keeps executable and pack of one release together.
LEMMA MarkBackUnit ==
    ASSUME WaysOK, UnitOK, UNCHANGED scene, MarkBackDone
    PROVE  UnitOK'
<1> SUFFICES ASSUME Undisturbed' PROVE Unit'
  BY DEF UnitOK
<1>1. Unit /\ Taken
  BY Calm, CalmTaken DEF UnitOK, WaysOK, MarkBackDone, Fails, Slips, Spoils
<1> QED
  BY <1>1, Ranges DEF MarkBackDone, Unit, WaysOK, SwitchOK, StartOK, RestOK, Attempt, Placed, Fits, WasOne,
     Shapes, Names, NoMarker, TornMarker

\* An install, by hand or not, keeps executable and pack of one release together.
LEMMA InstallUnit ==
    ASSUME NEW hands, WaysOK, UnitOK, UNCHANGED scene, InstallDone(hands)
    PROVE  UnitOK'
<1> SUFFICES ASSUME Undisturbed' PROVE Unit'
  BY DEF UnitOK
<1>1. Unit /\ Taken
  BY Calm, CalmTaken DEF UnitOK, WaysOK, InstallDone, Fails, Slips, Spoils
<1> QED
  BY <1>1, Ranges DEF InstallDone, Unit, WaysOK, SwitchOK, StartOK, RestOK, Attempt, Placed, Fits, WasOne,
     Shapes, Names

\* An install of the pack alone keeps executable and pack of one release together.
LEMMA InstallOcrUnit ==
    ASSUME WaysOK, UnitOK, UNCHANGED scene, InstallOcrDone
    PROVE  UnitOK'
<1> SUFFICES ASSUME Undisturbed' PROVE Unit'
  BY DEF UnitOK
<1>1. Unit /\ Taken
  BY Calm, CalmTaken DEF UnitOK, WaysOK, InstallOcrDone, Fails, Slips, Spoils
<1> QED
  BY <1>1, Ranges DEF InstallOcrDone, Unit, WaysOK, SwitchOK, StartOK, RestOK, Attempt, Placed, Fits, WasOne,
     Shapes, Names

-----------------------------------------------------------------------------
(* What was undone stays undone *)

\* Copying the running executable to `previous` keeps what was undone undone.
LEMMA BackupUndone ==
    ASSUME WaysOK, UndoneOK, UNCHANGED scene, BackupDone
    PROVE  UndoneOK'
BY Ranges DEF BackupDone, WaysOK, SwitchOK, StartOK, RestOK, UndoneOK, NewestIs, Shut, Subject, Shapes, Names

\* Moving the installed pack aside keeps what was undone undone.
LEMMA AsideUndone ==
    ASSUME WaysOK, UndoneOK, UNCHANGED scene, AsideDone
    PROVE  UndoneOK'
BY Ranges DEF AsideDone, WaysOK, SwitchOK, StartOK, RestOK, UndoneOK, NewestIs, Shut, Subject, Shapes, Names

\* Putting the staged pack in place keeps what was undone undone.
LEMMA PlaceUndone ==
    ASSUME WaysOK, UndoneOK, UNCHANGED scene, PlaceDone
    PROVE  UndoneOK'
BY Ranges DEF PlaceDone, WaysOK, SwitchOK, StartOK, RestOK, UndoneOK, NewestIs, Shut, Subject, Shapes, Names

\* Writing the marker keeps what was undone undone.
LEMMA MarkUndone ==
    ASSUME WaysOK, UndoneOK, UNCHANGED scene, MarkDone
    PROVE  UndoneOK'
BY Ranges DEF MarkDone, WaysOK, SwitchOK, StartOK, RestOK, UndoneOK, NewestIs, Shut, Subject, Shapes, Names,
   NoMarker, TornMarker

\* Replacing the executable keeps what was undone undone.
LEMMA CommitUndone ==
    ASSUME WaysOK, UndoneOK, UNCHANGED scene, CommitDone
    PROVE  UndoneOK'
BY Ranges DEF CommitDone, WaysOK, SwitchOK, StartOK, RestOK, UndoneOK, NewestIs, Shut, Subject, Shapes, Names

\* Taking the placed pack away again keeps what was undone undone.
LEMMA UnplaceUndone ==
    ASSUME WaysOK, UndoneOK, UNCHANGED scene, UnplaceDone
    PROVE  UndoneOK'
BY Ranges DEF UnplaceDone, WaysOK, SwitchOK, StartOK, RestOK, UndoneOK, NewestIs, Shut, Subject, Shapes, Names

\* Putting the pack back from aside keeps what was undone undone.
LEMMA UnmoveUndone ==
    ASSUME WaysOK, UndoneOK, UNCHANGED scene, UnmoveDone
    PROVE  UndoneOK'
BY Ranges DEF UnmoveDone, WaysOK, SwitchOK, StartOK, RestOK, UndoneOK, NewestIs, Shut, Subject, Shapes, Names

\* Removing the marker on the way back keeps what was undone undone.
LEMMA UnmarkUndone ==
    ASSUME WaysOK, UndoneOK, UNCHANGED scene, UnmarkDone
    PROVE  UndoneOK'
BY Ranges DEF UnmarkDone, WaysOK, SwitchOK, StartOK, RestOK, UndoneOK, NewestIs, Shut, Subject, Shapes,
   Names, NoMarker, TornMarker

\* Dropping the program kept aside keeps what was undone undone.
LEMMA DropUndone ==
    ASSUME WaysOK, UndoneOK, UNCHANGED scene, DropDone
    PROVE  UndoneOK'
BY Ranges DEF DropDone, WaysOK, SwitchOK, StartOK, RestOK, UndoneOK, NewestIs, Shut, Subject, Shapes, Names

\* Clearing a block keeps what was undone undone.
LEMMA ClearUndone ==
    ASSUME WaysOK, UndoneOK, UNCHANGED scene, ClearDone
    PROVE  UndoneOK'
BY Ranges DEF ClearDone, WaysOK, SwitchOK, StartOK, RestOK, UndoneOK, NewestIs, Shut, Subject, Shapes, Names

\* The start that takes the marker keeps what was undone undone.
LEMMA TakeUndone ==
    ASSUME WaysOK, UndoneOK, UNCHANGED scene, TakeDone
    PROVE  UndoneOK'
BY Ranges DEF TakeDone, WaysOK, SwitchOK, StartOK, RestOK, UndoneOK, NewestIs, Shut, Subject, Shapes, Names,
   NoMarker, TornMarker

\* The probe of a new release keeps what was undone undone.
LEMMA ProbeUndone ==
    ASSUME WaysOK, UndoneOK, UNCHANGED scene, ProbeDone
    PROVE  UndoneOK'
BY Ranges DEF ProbeDone, WaysOK, SwitchOK, StartOK, RestOK, UndoneOK, NewestIs, Shut, Subject, Shapes, Names

\* Dropping the pack kept aside keeps what was undone undone.
LEMMA DropKeptUndone ==
    ASSUME WaysOK, UndoneOK, UNCHANGED scene, DropKeptDone
    PROVE  UndoneOK'
BY Ranges DEF DropKeptDone, WaysOK, SwitchOK, StartOK, RestOK, UndoneOK, NewestIs, Shut, Subject, Shapes, Names

\* Lifting the block of a proven release keeps what was undone undone.
LEMMA UnblockUndone ==
    ASSUME WaysOK, UndoneOK, UNCHANGED scene, UnblockDone
    PROVE  UndoneOK'
BY Ranges DEF UnblockDone, WaysOK, SwitchOK, StartOK, RestOK, UndoneOK, NewestIs, Shut, Subject, Shapes, Names

\* Putting the pack back in a rollback keeps what was undone undone.
LEMMA RestoreUndone ==
    ASSUME WaysOK, UndoneOK, UNCHANGED scene, RestoreDone
    PROVE  UndoneOK'
BY Ranges DEF RestoreDone, WaysOK, SwitchOK, StartOK, RestOK, UndoneOK, NewestIs, Shut, Subject, Shapes, Names

\* Blocking the release that failed keeps what was undone undone.
LEMMA BlockUndone ==
    ASSUME WaysOK, UndoneOK, UNCHANGED scene, BlockDone
    PROVE  UndoneOK'
BY Ranges DEF BlockDone, WaysOK, SwitchOK, StartOK, RestOK, UndoneOK, NewestIs, Shut, Subject, Shapes, Names,
   NoMarker, Judged

\* Putting the executable back in a rollback keeps what was undone undone.
LEMMA RestoreExeUndone ==
    ASSUME WaysOK, UndoneOK, UNCHANGED scene, RestoreExeDone
    PROVE  UndoneOK'
BY Ranges DEF RestoreExeDone, WaysOK, SwitchOK, StartOK, RestOK, UndoneOK, NewestIs, Shut, Subject, Shapes,
   Names, NoMarker, Judged

\* Writing the marker back keeps what was undone undone.
LEMMA MarkBackUndone ==
    ASSUME WaysOK, UndoneOK, UNCHANGED scene, MarkBackDone
    PROVE  UndoneOK'
BY Ranges DEF MarkBackDone, WaysOK, SwitchOK, StartOK, RestOK, UndoneOK, NewestIs, Shut, Subject, Shapes,
   Names, NoMarker, TornMarker

\* An install, by hand or not, keeps what was undone undone.
LEMMA InstallUndone ==
    ASSUME NEW hands, WaysOK, UndoneOK, UNCHANGED scene, InstallDone(hands)
    PROVE  UndoneOK'
BY Ranges DEF InstallDone, WaysOK, SwitchOK, StartOK, RestOK, UndoneOK, NewestIs, Shut, Subject, Shapes, Names

\* An install of the pack alone keeps what was undone undone.
LEMMA InstallOcrUndone ==
    ASSUME WaysOK, UndoneOK, UNCHANGED scene, InstallOcrDone
    PROVE  UndoneOK'
BY Ranges DEF InstallOcrDone, WaysOK, SwitchOK, StartOK, RestOK, UndoneOK, NewestIs, Shut, Subject, Shapes,
   Names

-----------------------------------------------------------------------------
(* The steps with no place of their own *)

\* A start of the program keeps the way back, the release one unit and what was undone undone.
LEMMA StartsRest ==
    ASSUME WaysOK, BackOK, UnitOK, UndoneOK, UNCHANGED scene, Starts, stage = "leave" \/ running = 0
    PROVE  BackOK' /\ UnitOK' /\ UndoneOK'
<1>1. /\ exe # Torn => running' = exe /\ stage' = "take"
      /\ exe = Torn => running' = 0 /\ stage' = "idle"
  BY Wheres DEF Starts, stage
<1>2. /\ hand' = NoMarker /\ began' = NoAttempt
      /\ UNCHANGED <<exe, previous, pack, prev, marker, blocked, latest, undone, stuck, checked, risked, mixed,
                    unwritten, faults, crashes>>
  BY DEF Starts, disk
<1>3. BackOK'
  BY <1>1, <1>2 DEF BackOK, Settled, Announced
<1>4. UnitOK'
  <2> SUFFICES ASSUME Undisturbed' PROVE Unit'
    BY DEF UnitOK
  <2>1. Unit /\ Taken
    BY <1>2, Calm, CalmTaken DEF UnitOK, WaysOK
  <2>2. stage = "leave" /\ running' # 0 /\ running' = exe /\ stage' = "take"
    BY <1>1, <1>2, <2>1, Ranges DEF Unit, WaysOK, RestOK, Shapes
  <2>3. CASE running = hand.from
    <3>1. marker = hand /\ exe = hand.to /\ hand.kind = "binary" /\ (hand.prev_pack <=> hand.pack)
      BY <2>2, <2>3 DEF WaysOK, SwitchOK, Shapes, Names
    <3> QED
      BY <1>1, <1>2, <2>1, <2>2, <2>3, <3>1 DEF Unit, WasOne
  <2>4. CASE running # hand.from
    <3>1. marker.kind # "binary"
      BY <2>1, <2>2, <2>4 DEF WaysOK, SwitchOK
    <3> QED
      BY <1>2, <2>1, <2>2, <2>4, <3>1 DEF Unit, Fits
  <2> QED
    BY <2>3, <2>4
<1>5. UndoneOK'
  BY <1>1, <1>2, Ranges DEF UndoneOK, WaysOK, Shapes, NewestIs, Shut, Subject, NoMarker
<1> QED
  BY <1>3, <1>4, <1>5

\* So does a release that is published.
LEMMA PublishRest ==
    ASSUME NEW v \in Versions, WaysOK, BackOK, UnitOK, UndoneOK, UNCHANGED scene, Publish(v)
    PROVE  BackOK' /\ UnitOK' /\ UndoneOK'
<1>1. /\ latest' = v /\ v > latest
      /\ UNCHANGED <<exe, previous, pack, prev, staging, marker, blocked, running, todo, hand, report, began,
                     undone, stuck, checked, risked, mixed, unwritten, faults, crashes>>
  BY DEF Publish, disk, history
<1>2. stage' = stage
  BY <1>1 DEF stage
<1>3. BackOK'
  BY <1>1, <1>2 DEF BackOK, Settled, Announced
<1>4. UnitOK'
  BY <1>1, <1>2 DEF UnitOK, Unit, Undisturbed, Fits, WasOne
<1>5. UndoneOK'
  BY <1>1, <1>2, Ranges DEF UndoneOK, WaysOK, Shapes, Names, NewestIs, Shut, Subject, Marker
<1> QED
  BY <1>3, <1>4, <1>5

\* So does a power failure.
LEMMA CrashRest ==
    ASSUME WaysOK, BackOK, UnitOK, UndoneOK, UNCHANGED scene, CrashDone
    PROVE  BackOK' /\ UnitOK' /\ UndoneOK'
<1>1. BackOK'
  BY DEF CrashDone, WaysOK, SwitchOK, BackOK, Settled, Announced, NoMarker, TornMarker
<1>2. UnitOK'
  BY Ranges DEF CrashDone, UnitOK, Undisturbed, WaysOK, Shapes
<1>3. UndoneOK'
  BY Ranges DEF CrashDone, UndoneOK, WaysOK, StartOK, Shapes, Names, NewestIs, Shut, Subject, Judged,
     NoMarker, TornMarker
<1> QED
  BY <1>1, <1>2, <1>3

-----------------------------------------------------------------------------
(* The theorems *)

\* There is a first release.
LEMMA Least ==
    ASSUME NEW S, S \subseteq Nat, S # {}
    PROVE  \E x \in S : \A y \in S : x <= y
<1> DEFINE R == OpToRel(<, Nat)
<1>1. IsWellFoundedOn(R, Nat)
  BY NatLessThanWellFounded
<1>2. \A x, y \in Nat : x < y => <<x, y>> \in R
  BY DEF OpToRel
<1> HIDE DEF R
<1>3. PICK x \in S : \A y \in S : ~ (<<y, x>> \in R)
  BY <1>1, WFMin
<1>4. ASSUME NEW y \in S PROVE x <= y
  <2>1. ~(y < x)
    BY <1>2, <1>3
  <2> QED
    BY <2>1
<1> QED
  BY <1>4

\* The invariant holds at the start.
LEMMA Begins ==
    ASSUME Init
    PROVE  IInv
<1>1. First \in Versions
  <2>1. \E v \in Versions : \A w \in Versions : v <= w
    BY ReleasesAreNumbered, Least
  <2> QED
    BY <2>1 DEF First
<1>2. stage = "idle" /\ Serving
  BY <1>1, ReleasesAreNumbered, Wheres DEF Init, stage, Serving
<1>3. Shapes
  <2>1. Names(NoMarker)
    BY DEF Names, NoMarker, Marker
  <2> HIDE DEF Steps
  <2> QED
    BY <1>1, <1>2, <2>1, ReleasesAreNumbered DEF Init, Shapes, Scene
<1>4. SwitchOK /\ StartOK /\ RestOK
  BY <1>1, <1>2, ReleasesAreNumbered DEF Init, SwitchOK, StartOK, RestOK, Announced, NoMarker
<1>5. BackOK
  BY <1>1, <1>2, ReleasesAreNumbered DEF Init, BackOK, Settled, Announced, NoMarker
<1>6. UnitOK
  BY <1>1, <1>2, ReleasesAreNumbered DEF Init, UnitOK, Unit, Fits
<1>7. UndoneOK
  BY <1>1, <1>2, ReleasesAreNumbered DEF Init, UndoneOK, NewestIs, Shut, NoMarker
<1> QED
  BY <1>3, <1>4, <1>5, <1>6, <1>7 DEF IInv, WaysOK

\* Every step keeps the invariant.
LEMMA Continues ==
    ASSUME IInv, [Next]_vars
    PROVE  IInv'
<1> USE DEF IInv
<1>1. CASE UNCHANGED scene /\ Backup
  BY <1>1, BackupDoes, BackupWays, BackupWayBack, BackupUnit, BackupUndone
<1>2. CASE UNCHANGED scene /\ Aside
  BY <1>2, AsideDoes, AsideWays, AsideWayBack, AsideUnit, AsideUndone
<1>3. CASE UNCHANGED scene /\ Place
  BY <1>3, PlaceDoes, PlaceWays, PlaceWayBack, PlaceUnit, PlaceUndone
<1>4. CASE UNCHANGED scene /\ Mark
  BY <1>4, MarkDoes, MarkWays, MarkWayBack, MarkUnit, MarkUndone
<1>5. CASE UNCHANGED scene /\ Commit
  BY <1>5, CommitDoes, CommitWays, CommitWayBack, CommitUnit, CommitUndone
<1>6. CASE UNCHANGED scene /\ Unplace
  BY <1>6, UnplaceDoes, UnplaceWays, UnplaceWayBack, UnplaceUnit, UnplaceUndone
<1>7. CASE UNCHANGED scene /\ Unmove
  BY <1>7, UnmoveDoes, UnmoveWays, UnmoveWayBack, UnmoveUnit, UnmoveUndone
<1>8. CASE UNCHANGED scene /\ Unmark
  BY <1>8, UnmarkDoes, UnmarkWays, UnmarkWayBack, UnmarkUnit, UnmarkUndone
<1>9. CASE UNCHANGED scene /\ Drop
  BY <1>9, DropDoes, DropWays, DropWayBack, DropUnit, DropUndone
<1>10. CASE UNCHANGED scene /\ Clear
  BY <1>10, ClearDoes, ClearWays, ClearWayBack, ClearUnit, ClearUndone
<1>11. CASE UNCHANGED scene /\ Take
  BY <1>11, TakeDoes, TakeWays, TakeWayBack, TakeUnit, TakeUndone
<1>12. CASE UNCHANGED scene /\ Probe
  BY <1>12, ProbeDoes, ProbeWays, ProbeWayBack, ProbeUnit, ProbeUndone
<1>13. CASE UNCHANGED scene /\ DropKept
  BY <1>13, DropKeptDoes, DropKeptWays, DropKeptWayBack, DropKeptUnit, DropKeptUndone
<1>14. CASE UNCHANGED scene /\ Unblock
  BY <1>14, UnblockDoes, UnblockWays, UnblockWayBack, UnblockUnit, UnblockUndone
<1>15. CASE UNCHANGED scene /\ Restore
  BY <1>15, RestoreDoes, RestoreWays, RestoreWayBack, RestoreUnit, RestoreUndone
<1>16. CASE UNCHANGED scene /\ Block
  BY <1>16, BlockDoes, BlockWays, BlockWayBack, BlockUnit, BlockUndone
<1>17. CASE UNCHANGED scene /\ RestoreExe
  BY <1>17, RestoreExeDoes, RestoreExeWays, RestoreExeWayBack, RestoreExeUnit, RestoreExeUndone
<1>18. CASE UNCHANGED scene /\ MarkBack
  BY <1>18, MarkBackDoes, MarkBackWays, MarkBackWayBack, MarkBackUnit, MarkBackUndone
<1>19. CASE UNCHANGED scene /\ Restart
  <2>1. stage = "leave"
    BY <1>19, Here, Moves DEF Restart, stage, At
  <2> QED
    BY <1>19, <2>1, StartsWays, StartsRest DEF Restart
<1>20. CASE UNCHANGED scene /\ Start
  BY <1>20, StartsWays, StartsRest DEF Start
<1>21. ASSUME NEW hands \in BOOLEAN, UNCHANGED scene, Install(hands) PROVE IInv'
  BY <1>21, InstallDoes, InstallWays, InstallWayBack, InstallUnit, InstallUndone
<1>22. ASSUME NEW v \in Versions, UNCHANGED scene, Publish(v) PROVE IInv'
  BY <1>22, PublishWays, PublishRest
<1>23. CASE UNCHANGED scene /\ Crash
  BY <1>23, CrashDoes, CrashWays, CrashRest
<1>24. CASE UNCHANGED scene /\ InstallOcr
  <2>1. Serving
    BY <1>24 DEF InstallOcr
  <2> QED
    BY <1>24, <2>1, InstallOcrDoes, InstallOcrWays, InstallOcrWayBack, InstallOcrUnit, InstallOcrUndone
<1>25. CASE UNCHANGED vars
  <2>1. stage' = stage /\ (Serving' <=> Serving)
    BY <1>25 DEF vars, stage, Serving
  <2>2. WaysOK'
    <3>1. Shapes'
      BY <1>25, <2>1 DEF vars, disk, history, WaysOK, Shapes
    <3>2. SwitchOK' /\ StartOK' /\ RestOK'
      BY <1>25, <2>1 DEF vars, disk, history, WaysOK, SwitchOK, StartOK, RestOK, Attempt, Placed, Unsaid,
         Announced,
         Taken
    <3> QED
      BY <3>1, <3>2 DEF WaysOK
  <2>3. BackOK'
    BY <1>25, <2>1 DEF vars, disk, history, BackOK, Settled, Announced
  <2>4. UnitOK'
    BY <1>25, <2>1 DEF vars, disk, history, UnitOK, Unit, Undisturbed, Fits, WasOne
  <2>5. UndoneOK'
    BY <1>25, <2>1 DEF vars, disk, history, UndoneOK, NewestIs, Shut, Subject
  <2> QED
    BY <2>2, <2>3, <2>4, <2>5
<1> HIDE DEF IInv
<1> QED
  BY <1>1, <1>2, <1>3, <1>4, <1>5, <1>6, <1>7, <1>8, <1>9, <1>10, <1>11, <1>12, <1>13,
     <1>14, <1>15, <1>16, <1>17, <1>18, <1>19, <1>20, <1>21, <1>22, <1>23, <1>24, <1>25
     DEF Next, SwitchStep, StartStep

\* What is known of every place holds throughout.
THEOREM Inductive == Spec => []IInv
BY Begins, Continues, PTL DEF Spec

\* Every variable stays in its range, and what is left to do is made of the steps there are.
THEOREM TypeCorrect == Spec => []TypeOK
<1>1. ASSUME IInv PROVE TypeOK
  <2>1. Shapes
    BY <1>1 DEF IInv, WaysOK
  <2>2. \A i \in 1..Len(todo) : todo[i] \in Steps
    <3>1. /\ Switch[1] = "backup" /\ Switch[2] = "aside" /\ Switch[3] = "place" /\ Switch[4] = "mark"
          /\ Switch[5] = "commit" /\ Len(Switch) = 5
      BY DEF Switch
    <3>2. {"backup", "aside", "place", "mark", "commit"} \subseteq Steps
      BY <3>1 DEF Steps
    <3>3. {"take", "probe", "restart", "clear", "restore", "block", "restore_exe", "mark_back", "drop_kept",
           "unblock", "unplace", "unmove", "unmark", "drop"} \subseteq Steps
      BY DEF Steps
    <3>4. Where(todo) # "nowhere"
      BY <2>1 DEF Shapes, stage
    <3> HIDE DEF Steps
    <3> QED
      BY <3>2, <3>3, <3>4, Only
  <2> HIDE DEF Steps
  <2> QED
    BY <2>1, <2>2 DEF TypeOK, Shapes, Names
<1> QED
  BY <1>1, Inductive, PTL

\* "On an error nothing has changed" (switch): whatever fails, an attempt that ended in an error
\* leaves the program that was there and its pack in place or kept; if the undo itself met no
\* error, the pack is in place and the marker says nothing new.
THEOREM FailureIsHarmless == Spec => []FailureChangesNothing
<1>1. ASSUME IInv PROVE FailureChangesNothing
  BY <1>1 DEF IInv, WaysOK, RestOK, Unsaid, FailureChangesNothing
<1> QED
  BY <1>1, Inductive, PTL

\* "A release is one unit": a process that serves has its own release's pack and has loaded it,
\* after any error of the switch and any rollback that went through.
THEOREM AlwaysOneUnit == Spec => []OneUnit
<1>1. ASSUME IInv PROVE OneUnit
  <2> SUFFICES ASSUME Undisturbed, Serving, pack # None PROVE pack = running /\ running \in checked
    BY DEF OneUnit
  <2>1. stage = "idle" /\ Unit /\ exe = running
    BY <1>1, Rests DEF IInv, WaysOK, RestOK, UnitOK
  <2> QED
    BY <2>1 DEF Unit, Fits
<1> QED
  BY <1>1, Inductive, PTL

\* Until a release has proven itself, or the next install begins over it, or it could not be
\* undone, the program it replaced is there to go back to, whole, and so is a pack, whatever
\* error or power failure came before, one while it was probed included.
THEOREM TheWayBackIsKept == Spec => []CanGoBack
<1>1. ASSUME IInv PROVE CanGoBack
  <2>1. exe = Torn => "take" \in stuck
    BY <1>1 DEF IInv, WaysOK, RestOK, Taken
  <2> QED
    BY <1>1, <2>1 DEF IInv, BackOK, CanGoBack
<1> QED
  BY <1>1, Inductive, PTL

\* A version that was rolled back is not installed by itself again, though files cannot be
\* written, read or removed or the power fails at any step of the rollback, but for one whose
\* block could not be written or was torn.
THEOREM UndoneStaysUndone == Spec => NoRetryOfUndone
<1>1. ASSUME IInv, Install(FALSE) PROVE latest \notin undone \ unwritten
  <2>1. InstallDone(FALSE)
    BY <1>1, InstallDoes DEF IInv
  <2> QED
    BY <1>1, <2>1, Ranges DEF IInv, InstallDone, UndoneOK, NewestIs, Shut, WaysOK, Shapes
<1> QED
  BY <1>1, Inductive, PTL DEF NoRetryOfUndone
===============================================================================
