---------------------------- MODULE HistoryWrites ----------------------------
(***************************************************************************)
(* Reading-history uploads held to an account's quota                      *)
(* (crates/bunko-dav/src/methods/put.rs: put_inner, history_caps;          *)
(* write_locks.rs: AccountWriteLocks; upload.rs: Staging).                 *)
(*                                                                         *)
(* A PUT takes its path's lock or fails, waits for its account, measures   *)
(* the account's tree, stages the body and renames it into place.  The     *)
(* account's mutex lives in a map and is forgotten when nobody is left     *)
(* who holds or waits for it.                                              *)
(***************************************************************************)
EXTENDS Integers, FiniteSets, Functions

CONSTANTS
    Accounts, Files,
    Requests,      \* concurrent PUTs
    Mutexes,       \* mutexes there are room for (bound)
    Sizes,         \* sizes of a body
    MaxFile,       \* max_file_bytes
    MaxTotal       \* max_total_bytes

ASSUME HistoryAssumption ==
    /\ Sizes \subseteq Nat \ {0} /\ MaxFile \in Nat /\ MaxTotal \in Nat
    /\ "no mutex" \notin Mutexes /\ IsFiniteSet(Files)

VARIABLES
    stored,    \* account -> file -> its size, 0 when there is none
    held,      \* account -> its mutex in the map, or NoMutex
    locked,    \* the paths whose write lock is held
    put        \* request -> where it is

vars == <<stored, held, locked, put>>

NoMutex == "no mutex"
NoSize == -1
NoPath == <<"no account", "no file">>
Idle == [at |-> "idle", path |-> NoPath, mutex |-> NoMutex, expected |-> NoSize,
         replaced |-> 0, room |-> 0]

At(r, where) == put[r].at = where
Acct(r) == put[r].path[1]
Inside(r) == put[r].at \in {"measuring", "walking", "staging", "committed"}
\* Who has a handle on the mutex besides the map.
Handles(m) == {r \in Requests : put[r].mutex = m}

Init ==
    /\ stored = [a \in Accounts |-> [f \in Files |-> 0]]
    /\ held = [a \in Accounts |-> NoMutex]
    /\ locked = {}
    /\ put = [r \in Requests |-> Idle]

HistoryBytes(a) == SumFunctionOnSet(stored[a], Files)
Monus(x, y) == IF x > y THEN x - y ELSE 0

-----------------------------------------------------------------------------
\* The path's lock, or 423.
Begin(r, a, f) ==
    /\ At(r, "idle") /\ <<a, f>> \notin locked
    /\ locked' = locked \cup {<<a, f>>}
    /\ \E n \in Sizes \cup {NoSize} :
         put' = [put EXCEPT ![r] = [Idle EXCEPT !.at = "begun", !.path = <<a, f>>, !.expected = n]]
    /\ UNCHANGED <<stored, held>>

\* AccountWriteLocks::lock: a handle on the account's mutex ...
Queue(r) ==
    /\ At(r, "begun")
    /\ \E m \in Mutexes :
         /\ IF held[Acct(r)] = NoMutex
            THEN Handles(m) = {} /\ \A a \in Accounts : held[a] # m
            ELSE m = held[Acct(r)]
         /\ held' = [held EXCEPT ![Acct(r)] = m]
         /\ put' = [put EXCEPT ![r].at = "queued", ![r].mutex = m]
    /\ UNCHANGED <<stored, locked>>

\* Mutant: the turn comes when nobody else waits.
AcquireAlone(r) ==
    /\ At(r, "queued")
    /\ Handles(put[r].mutex) = {r}
    /\ put' = [put EXCEPT ![r].at = "measuring"]
    /\ UNCHANGED <<stored, held, locked>>

\* ... and its turn.
Acquire(r) ==
    /\ At(r, "queued")
    /\ \A o \in Handles(put[r].mutex) : ~Inside(o)
    /\ put' = [put EXCEPT ![r].at = "measuring"]
    /\ UNCHANGED <<stored, held, locked>>

\* The size of the file it replaces ...
Before(r) ==
    /\ At(r, "measuring")
    /\ put' = [put EXCEPT ![r].at = "walking", ![r].replaced = stored[Acct(r)][put[r].path[2]]]
    /\ UNCHANGED <<stored, held, locked>>

\* Mutant: only the file it replaces is measured.
RoomBesideIt(r) == Monus(MaxTotal, put[r].replaced)

\* ... and the room the tree has left, refusing a declared size over a limit.
Room(r) == Monus(MaxTotal, Monus(HistoryBytes(Acct(r)), put[r].replaced))
Check(size, room) == size <= MaxFile /\ size <= room

Measure(r) ==
    /\ At(r, "walking")
    /\ \E room \in 0..MaxTotal :
         /\ room = Room(r)
         /\ put[r].expected # NoSize => Check(put[r].expected, room)
         /\ put' = [put EXCEPT ![r].at = "staging", ![r].room = room]
    /\ UNCHANGED <<stored, held, locked>>

\* The body arrives within its caps, as long as declared, and is renamed into
\* place.
Publish(r) ==
    /\ At(r, "staging")
    /\ \E n \in Sizes :
         /\ Check(n, put[r].room) /\ put[r].expected \in {NoSize, n}
         /\ stored' = [stored EXCEPT ![Acct(r)][put[r].path[2]] = n]
    /\ put' = [put EXCEPT ![r].at = "committed"]
    /\ UNCHANGED <<held, locked>>

\* Mutant: the account is forgotten though others wait.
ForgottenAlways(r) ==
    IF Inside(r) THEN [held EXCEPT ![Acct(r)] = NoMutex] ELSE held

\* AccountWriteGuard::drop: the mutex is free, and forgotten when only the map
\* knows it.  Somebody who still waits has no guard to drop.
Forgotten(r) ==
    IF Inside(r) /\ Handles(put[r].mutex) = {r}
    THEN [held EXCEPT ![Acct(r)] = NoMutex] ELSE held

\* The request is over: answered, refused (413, 507), cut short or stalled (422),
\* or its client gone.  Its guards are dropped, what it staged is removed.
End(r) ==
    /\ ~At(r, "idle")
    /\ held' = Forgotten(r)
    /\ locked' = locked \ {put[r].path}
    /\ put' = [put EXCEPT ![r] = Idle]
    /\ UNCHANGED stored

\* A DELETE of a history file: its path's lock, and no account.
Delete(a, f) ==
    /\ stored[a][f] # 0 /\ <<a, f>> \notin locked
    /\ stored' = [stored EXCEPT ![a][f] = 0]
    /\ UNCHANGED <<held, locked, put>>

Step(r) == Queue(r) \/ Before(r) \/ Measure(r) \/ Publish(r)

Next ==
    \/ \E r \in Requests :
         \/ \E a \in Accounts, f \in Files : Begin(r, a, f)
         \/ Step(r) \/ Acquire(r) \/ End(r)
    \/ \E a \in Accounts, f \in Files : Delete(a, f)

\* A stalled body is cut off after BODY_STALL, so what is inside comes out; the
\* mutex is handed over in the order it was asked for.
Fairness ==
    \A r \in Requests :
        WF_vars(Queue(r)) /\ SF_vars(Acquire(r)) /\ WF_vars(Inside(r) /\ End(r))

Spec == Init /\ [][Next]_vars /\ Fairness

-----------------------------------------------------------------------------
TypeOK ==
    /\ stored \in [Accounts -> [Files -> Nat]]
    /\ held \in [Accounts -> Mutexes \cup {NoMutex}]
    /\ locked \subseteq Accounts \X Files
    /\ put \in [Requests ->
         [at : {"idle", "begun", "queued", "measuring", "walking", "staging", "committed"},
          path : (Accounts \X Files) \cup {NoPath}, mutex : Mutexes \cup {NoMutex},
          expected : Sizes \cup {NoSize}, replaced : Nat, room : Nat]]

\* "the room left is never handed to two files at once" (put.rs:201): an
\* account's history never outgrows its cap, though it is measured long before
\* the file is there.
QuotaHolds == \A a \in Accounts : HistoryBytes(a) <= MaxTotal

\* "One reading-history writer per account at a time" (write_locks.rs:94), while
\* mutexes are forgotten and made anew and clients go away in the queue.
OneHistoryWriter ==
    \A r, o \in Requests : r # o /\ Inside(r) /\ Inside(o) => Acct(r) # Acct(o)

\* A writer that waits for its account gets its turn, unless its client leaves.
EveryWaiterIsServed == \A r \in Requests : At(r, "queued") ~> ~At(r, "queued")
=============================================================================
