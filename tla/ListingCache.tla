----------------------------- MODULE ListingCache -----------------------------
(***************************************************************************)
(* The cache of whole-tree PROPFIND listings (crates/bunko-dav/src/        *)
(* cache.rs) and the WebDAV writes that invalidate it (methods/mod.rs:     *)
(* Effects::fire).                                                         *)
(*                                                                         *)
(* A listing is abstracted to the version of the tree it was walked from:  *)
(* disk[k] counts the changes below key k.  A walk is not atomic, but it   *)
(* shows at least what was there when it began, so it is read in one step. *)
(***************************************************************************)
EXTENDS Integers, Sequences, FiniteSets, Functions

CONSTANTS
    Keys,          \* cached paths, as sequences of names
    Paths,         \* the paths DAV writes change
    Requests,      \* concurrent PROPFIND requests
    Writers,       \* concurrent DAV writes
    Refreshers,    \* background refresh tasks (bound)
    Flights,       \* mutexes of the flights (bound)
    Sizes,         \* compressed sizes of a listing
    Budget,        \* budget_bytes
    MaxEntries,    \* max_entries
    Slots,         \* GENERATION_SLOTS
    RefreshSlots,  \* REFRESH_SLOTS
    Outside,       \* paths changed outside DAV, signalled by schedule_refresh
    Scenes         \* what one behaviour may meet (see Scene)

\* The keys asked for, the paths written and changed, the requests and refreshers that run, the
\* sizes of the listings, and a bound on the changes below one key.
Scene == [keys : SUBSET Keys, paths : SUBSET Paths, outside : SUBSET Outside,
          requests : SUBSET Requests, refreshers : SUBSET Refreshers, sizes : SUBSET Sizes,
          versions : Nat]

ASSUME CacheAssumption ==
    /\ Keys \subseteq Seq(STRING) /\ Paths \cup Outside \subseteq Seq(STRING)
    /\ Sizes \subseteq Nat /\ Budget \in Nat /\ MaxEntries \in Nat \ {0}
    /\ Slots \in Nat /\ RefreshSlots \in Nat /\ Scenes \subseteq Scene

VARIABLES
    scene,       \* what this behaviour meets, fixed from the start
    disk,        \* key -> version of the tree below it
    acked,       \* key -> version below it when the last DAV write of it was done
    entries,     \* key -> its cached listing, or NoEntry
    older,       \* <<a, b>>: both have an entry, and a's was used longer ago (last_used)
    bytes,       \* compressed bytes held
    epoch,       \* invalidations so far
    refreshing,  \* keys with a refresh under way
    debounce,    \* a debounced refresh is armed
    stopped,     \* shutdown
    flight,      \* key -> the mutex of its flight, or NoFlight
    req,         \* request -> where get() is
    task,        \* refresher -> where its refresh is
    writer       \* writer -> the path it committed and has not reported, or NoPath

vars == <<scene, disk, acked, entries, older, bytes, epoch, refreshing, debounce, stopped,
          flight, req, task, writer>>
state == <<entries, older, bytes, epoch, refreshing, debounce, stopped>>

NoEntry == [ver |-> -1, age |-> "none", size |-> 0]
NoFlight == "no flight"
NoPath == <<"no path">>
NoKey == <<"no key">>
IdleReq == [at |-> "idle", key |-> NoKey, since |-> 0, mutex |-> NoFlight,
            epoch |-> 0, ver |-> 0, size |-> 0]
IdleTask == [at |-> "idle", key |-> NoKey, epoch |-> 0, ver |-> 0, size |-> 0]

Cached(k) == entries[k] # NoEntry

\* is_equal_or_child.
IsEqualOrChild(parent, child) ==
    Len(parent) <= Len(child) /\ SubSeq(child, 1, Len(parent)) = parent

\* The listings a change of `path` is in, or is around.
Touched(path) == {k \in Keys : IsEqualOrChild(k, path) \/ IsEqualOrChild(path, k)}

Init ==
    /\ scene \in Scenes
    /\ disk = [k \in Keys |-> 0] /\ acked = [k \in Keys |-> 0]
    /\ entries = [k \in Keys |-> NoEntry]
    /\ older = {} /\ bytes = 0 /\ epoch = 0 /\ refreshing = {}
    /\ debounce = FALSE /\ stopped = FALSE
    /\ flight = [k \in Keys |-> NoFlight]
    /\ req = [r \in Requests |-> IdleReq]
    /\ task = [t \in Refreshers |-> IdleTask]
    /\ writer = [w \in Writers |-> NoPath]

-----------------------------------------------------------------------------
\* insert: refused after a stop or an invalidation, or when the listing alone is
\* over the budget; else the old entry goes, then the least recently used ones
\* until it fits.
Held == {k \in Keys : Cached(k)}
SizeOf(ks) == SumFunctionOnSet([k \in Keys |-> entries[k].size], ks)
Others(k) == Held \ {k}

\* The order of the keys ks, and of k as the one used last.
UsedLast(k, ks) == (older \cap (ks \X ks)) \cup (ks \X {k})

\* What is left of ks when the least recently used ones go first: with each key, all younger ones.
Suffixes(ks) == {s \in SUBSET ks : \A a \in s, b \in ks : <<a, b>> \in older => b \in s}

\* Mutant: only the bytes are bounded.
FitsByBytes(ks, size) == ks = {} \/ SizeOf(ks) + size <= Budget

Fits(ks, size) == ks = {} \/ (SizeOf(ks) + size <= Budget /\ Cardinality(ks) < MaxEntries)

\* As few go as will do.
Kept(k, size) ==
    {s \in Suffixes(Others(k)) : /\ Fits(s, size)
                                 /\ \A t \in Suffixes(Others(k)) : Fits(t, size) => t \subseteq s}

\* Mutant: a listing generated before an invalidation is stored.
RefusedUnraced(size, e) == stopped \/ size > Budget

Refused(size, e) == stopped \/ e # epoch \/ size > Budget

Insert(k, ver, size, e) ==
    IF Refused(size, e)
    THEN UNCHANGED <<entries, older, bytes>>
    ELSE \E kept \in Kept(k, size) :
         /\ entries' = [o \in Keys |->
                          IF o = k THEN [ver |-> ver, age |-> "fresh", size |-> size]
                          ELSE IF o \in kept THEN entries[o] ELSE NoEntry]
         /\ older' = UsedLast(k, kept)
         /\ bytes' = bytes - SizeOf(Held \ kept) + size

\* spawn_refresh, for keys marked as refreshing in the same step.
Spawn(ks) ==
    \E f \in [ks -> {t \in Refreshers : t \in scene.refreshers /\ task[t].at = "idle"}] :
        /\ \A a, b \in ks : f[a] = f[b] => a = b
        /\ task' = [t \in Refreshers |->
                      IF \E k \in ks : f[k] = t
                      THEN [IdleTask EXCEPT !.at = "slot", !.key = CHOOSE k \in ks : f[k] = t]
                      ELSE task[t]]

\* lookup_fresh: an entry that is not past stale_ttl; a stale one is refreshed.
Servable(k) == Cached(k) /\ entries[k].age # "expired"

LookupFresh(k) ==
    /\ Servable(k)
    /\ older' = UsedLast(k, Others(k))
    /\ LET due == IF entries[k].age = "stale" /\ k \notin refreshing THEN {k} ELSE {} IN
       /\ refreshing' = refreshing \cup due
       /\ Spawn(due)

-----------------------------------------------------------------------------
\* get
At(r, where) == req[r].at = where
Answer(r, ver) == req' = [req EXCEPT ![r].at = "answered", ![r].ver = ver]
Inside(r) == req[r].at \in {"slot", "gen", "read", "leave"}

Hit(r, k) ==
    /\ At(r, "idle")
    /\ LookupFresh(k)
    /\ req' = [req EXCEPT ![r] = [IdleReq EXCEPT !.at = "answered", !.key = k,
                                    !.since = acked[k], !.ver = entries[k].ver]]
    /\ UNCHANGED <<disk, acked, entries, bytes, epoch, debounce, stopped, flight, writer>>

Miss(r, k) ==
    /\ At(r, "idle") /\ ~Servable(k)
    /\ req' = [req EXCEPT ![r] = [IdleReq EXCEPT !.at = "join", !.key = k, !.since = acked[k]]]
    /\ UNCHANGED <<disk, acked, state, flight, task, writer>>

JoinFlight(r) ==
    LET k == req[r].key IN
    /\ At(r, "join")
    /\ \E m \in Flights :
         /\ IF flight[k] = NoFlight
            THEN /\ \A o \in Keys : flight[o] # m
                 /\ \A o \in Requests : req[o].mutex # m
            ELSE m = flight[k]
         /\ flight' = [flight EXCEPT ![k] = m]
         /\ req' = [req EXCEPT ![r].at = "wait", ![r].mutex = m]
    /\ UNCHANGED <<disk, acked, state, task, writer>>

\* The flight's turn: the entry may be there by now.
Turn(r) == At(r, "wait") /\ \A o \in Requests : Inside(o) => req[o].mutex # req[r].mutex

SecondHit(r) ==
    LET k == req[r].key IN
    /\ Turn(r)
    /\ LookupFresh(k)
    /\ Answer(r, entries[k].ver)
    /\ UNCHANGED <<disk, acked, entries, bytes, epoch, debounce, stopped, flight, writer>>

SecondMiss(r) ==
    /\ Turn(r) /\ ~Servable(req[r].key)
    /\ req' = [req EXCEPT ![r].at = "slot"]
    /\ UNCHANGED <<disk, acked, state, flight, task, writer>>

TakeSlot(r) ==
    /\ At(r, "slot")
    /\ Cardinality({o \in Requests : At(o, "gen")}) < Slots
    /\ req' = [req EXCEPT ![r].at = "gen", ![r].epoch = epoch]
    /\ UNCHANGED <<disk, acked, state, flight, task, writer>>

Generate(r) ==
    /\ At(r, "gen")
    /\ \E size \in Sizes \cap scene.sizes :
         req' = [req EXCEPT ![r].at = "read", ![r].ver = disk[req[r].key], ![r].size = size]
    /\ UNCHANGED <<disk, acked, state, flight, task, writer>>

Store(r) ==
    /\ At(r, "read")
    /\ Insert(req[r].key, req[r].ver, req[r].size, req[r].epoch)
    /\ req' = [req EXCEPT ![r].at = "leave"]
    /\ UNCHANGED <<disk, acked, epoch, refreshing, debounce, stopped, flight, task, writer>>

\* The flight is forgotten, also one a later request opened.
Leave(r) ==
    /\ At(r, "leave")
    /\ flight' = [flight EXCEPT ![req[r].key] = NoFlight]
    /\ Answer(r, req[r].ver)
    /\ UNCHANGED <<disk, acked, state, task, writer>>

Answered(r) ==
    /\ At(r, "answered")
    /\ req' = [req EXCEPT ![r] = IdleReq]
    /\ UNCHANGED <<disk, acked, state, flight, task, writer>>

\* The client goes away: its future is dropped where it waits.
Cancel(r) ==
    /\ req[r].at \in {"wait", "slot", "gen"}
    /\ req' = [req EXCEPT ![r] = IdleReq]
    /\ UNCHANGED <<disk, acked, state, flight, task, writer>>

-----------------------------------------------------------------------------
\* A background refresh.
RefreshSlot(t) ==
    /\ task[t].at = "slot"
    /\ Cardinality({o \in Refreshers : task[o].at \in {"gen", "read"}}) < RefreshSlots
    /\ task' = [task EXCEPT ![t].at = "gen", ![t].epoch = epoch]
    /\ UNCHANGED <<disk, acked, state, flight, req, writer>>

RefreshGenerate(t) ==
    /\ task[t].at = "gen"
    /\ \E size \in Sizes \cap scene.sizes :
         task' = [task EXCEPT ![t].at = "read", ![t].ver = disk[task[t].key], ![t].size = size]
    /\ UNCHANGED <<disk, acked, state, flight, req, writer>>

RefreshStore(t) ==
    /\ task[t].at = "read"
    /\ Insert(task[t].key, task[t].ver, task[t].size, task[t].epoch)
    /\ task' = [task EXCEPT ![t].at = "clear"]
    /\ UNCHANGED <<disk, acked, epoch, refreshing, debounce, stopped, flight, req, writer>>

RefreshDone(t) ==
    /\ task[t].at = "clear"
    /\ refreshing' = refreshing \ {task[t].key}
    /\ task' = [task EXCEPT ![t] = IdleTask]
    /\ UNCHANGED <<disk, acked, entries, older, bytes, epoch, debounce, stopped, flight, req, writer>>

-----------------------------------------------------------------------------
\* A DAV write is on the disk ...
Bump(path) == disk' = [k \in Keys |-> IF k \in Touched(path) THEN disk[k] + 1 ELSE disk[k]]
Bounded(path) == \A k \in Touched(path) : disk[k] < scene.versions

Commit(w, path) ==
    /\ writer[w] = NoPath /\ Bounded(path)
    /\ Bump(path)
    /\ writer' = [writer EXCEPT ![w] = path]
    /\ UNCHANGED <<acked, state, flight, req, task>>

\* invalidate_paths
Drop(path) ==
    /\ epoch' = epoch + 1
    /\ entries' = [k \in Keys |-> IF k \in Touched(path) THEN NoEntry ELSE entries[k]]
    /\ older' = older \cap ((Held \ Touched(path)) \X (Held \ Touched(path)))
    /\ bytes' = bytes - SizeOf(Held \cap Touched(path))

\* ... its listings are dropped and a refresh is armed (Effects::fire), and the
\* client is answered.
Fire(w) ==
    /\ writer[w] # NoPath
    /\ Drop(writer[w])
    /\ acked' = [k \in Keys |-> IF k \in Touched(writer[w]) THEN disk[k] ELSE acked[k]]
    /\ debounce' = ~stopped
    /\ writer' = [writer EXCEPT ![w] = NoPath]
    /\ UNCHANGED <<disk, refreshing, stopped, flight, req, task>>

\* A change outside DAV, reported by the watcher or the metadata publisher.
Change(path) ==
    /\ Bounded(path)
    /\ Bump(path)
    /\ debounce' = ~stopped
    /\ UNCHANGED <<acked, entries, older, bytes, epoch, refreshing, stopped, flight, req,
                   task, writer>>

\* refresh_all, after the quiet schedule_refresh waits for.
RefreshAll ==
    LET due == Held \ refreshing IN
    /\ debounce
    /\ debounce' = FALSE
    /\ refreshing' = refreshing \cup due
    /\ Spawn(due)
    /\ UNCHANGED <<disk, acked, entries, older, bytes, epoch, stopped, flight, req, writer>>

Stop ==
    /\ ~stopped
    /\ stopped' = TRUE /\ debounce' = FALSE
    /\ UNCHANGED <<disk, acked, entries, older, bytes, epoch, refreshing, flight, req, task, writer>>

\* Time: past ttl an entry is stale, past stale_ttl it is not served.
Age(k) ==
    /\ Servable(k)
    /\ entries' = [entries EXCEPT ![k].age = IF @ = "fresh" THEN "stale" ELSE "expired"]
    /\ UNCHANGED <<disk, acked, older, bytes, epoch, refreshing, debounce, stopped, flight,
                   req, task, writer>>

Next ==
    /\ UNCHANGED scene
    /\ \/ \E r \in Requests \cap scene.requests :
            \/ \E k \in Keys \cap scene.keys : Hit(r, k) \/ Miss(r, k)
            \/ JoinFlight(r) \/ SecondHit(r) \/ SecondMiss(r) \/ TakeSlot(r) \/ Generate(r)
            \/ Store(r) \/ Leave(r) \/ Answered(r) \/ Cancel(r)
       \/ \E t \in Refreshers :
            RefreshSlot(t) \/ RefreshGenerate(t) \/ RefreshStore(t) \/ RefreshDone(t)
       \/ \E w \in Writers : Fire(w) \/ \E p \in Paths \cap scene.paths : Commit(w, p)
       \/ \E p \in Outside \cap scene.outside : Change(p)
       \/ RefreshAll \/ Stop
       \/ \E k \in Keys : Age(k)

Spec == Init /\ [][Next]_vars

-----------------------------------------------------------------------------
TypeOK ==
    /\ scene \in Scenes
    /\ disk \in [Keys -> Nat] /\ acked \in [Keys -> Nat]
    /\ entries \in [Keys -> [ver : Nat, age : {"fresh", "stale", "expired"}, size : Sizes]
                            \cup {NoEntry}]
    /\ older \subseteq Keys \X Keys /\ bytes \in Nat /\ epoch \in Nat
    /\ refreshing \subseteq Keys /\ debounce \in BOOLEAN /\ stopped \in BOOLEAN
    /\ flight \in [Keys -> Flights \cup {NoFlight}]
    /\ req \in [Requests ->
         [at : {"idle", "join", "wait", "slot", "gen", "read", "leave", "answered"},
          key : Keys \cup {NoKey}, since : Nat, mutex : Flights \cup {NoFlight},
          epoch : Nat, ver : Nat, size : Sizes \cup {0}]]
    /\ task \in [Refreshers ->
         [at : {"idle", "slot", "gen", "read", "clear"}, key : Keys \cup {NoKey},
          epoch : Nat, ver : Nat, size : Sizes \cup {0}]]
    /\ writer \in [Writers -> Paths \cup {NoPath}]

\* "a generation that raced an invalidation is not stored" (cache.rs:14): no
\* cached listing predates a DAV write of its tree that was answered, whatever
\* walks were under way when it was reported.
NoListingFromBeforeAWrite == \A k \in Keys : Cached(k) => entries[k].ver >= acked[k]

\* A PROPFIND shows every write that was answered before it was sent, from the
\* cache, from a flight it joined or from its own walk.
ReadsAnsweredWrites ==
    \A r \in Requests : At(r, "answered") => req[r].ver >= req[r].since

\* The bytes counted are those of the entries, within the budget and the number of entries,
\* through replacement, eviction and invalidation, and the entries are in one order of use.
BytesAreCounted ==
    /\ older \subseteq Held \X Held
    /\ \A a, b \in Held : <<a, b>> \in older <=> a # b /\ <<b, a>> \notin older
    /\ \A a, b, c \in Held : <<a, b>> \in older /\ <<b, c>> \in older => <<a, c>> \in older
    /\ bytes = SizeOf(Held)
    /\ bytes <= Budget /\ Cardinality(Held) <= MaxEntries

\* "served stale while one background refresh runs" (cache.rs:10): two refreshes
\* of one key never run at once, and a key marked as refreshing has one.
OneRefreshPerKey ==
    /\ \A s, t \in Refreshers : s # t /\ task[s].at # "idle" /\ task[t].at # "idle" =>
                                task[s].key # task[t].key
    /\ refreshing = {task[t].key : t \in {u \in Refreshers : task[u].at # "idle"}}

\* Neither the cache nor an answer shows a tree from before a write that had
\* been answered.
ListingsAreNew == NoListingFromBeforeAWrite /\ ReadsAnsweredWrites

\* The cache's books are right: its types, its bytes and its marks of the
\* refreshes that run.
BooksAreKept == TypeOK /\ BytesAreCounted /\ OneRefreshPerKey
=============================================================================
