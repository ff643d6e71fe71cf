--------------------------- MODULE MCListingCache ---------------------------
(* ListingCache for TLC: a library with two series.                         *)
EXTENDS ListingCache, TLC

Library == <<"library">>
SeriesA == <<"library", "a">>
SeriesB == <<"library", "b">>
Volume == <<"library", "a", "v1">>
AllKeys == {Library, SeriesA, SeriesB}
WrittenPaths == {Volume, SeriesB}
OutsidePaths == {SeriesA}

\* One series that is written, under two requests, and under a request and a refresher; both
\* series, one changed outside DAV, under refreshers; the whole library under listings of
\* several sizes.
AllScenes ==
    {[keys |-> {SeriesA}, paths |-> {Volume}, outside |-> {}, requests |-> Requests,
      refreshers |-> {}, sizes |-> {1}, versions |-> 2]}
    \cup {[keys |-> {SeriesA}, paths |-> {Volume}, outside |-> {}, requests |-> {r},
           refreshers |-> {t}, sizes |-> {1}, versions |-> 2] : r \in Requests, t \in Refreshers}
    \cup {[keys |-> {SeriesA, SeriesB}, paths |-> {}, outside |-> {SeriesA}, requests |-> {r},
           refreshers |-> Refreshers, sizes |-> {1}, versions |-> 2] : r \in Requests}
    \cup {[keys |-> AllKeys, paths |-> WrittenPaths, outside |-> {}, requests |-> {r},
           refreshers |-> {}, sizes |-> Sizes, versions |-> 1] : r \in Requests}

\* Requests, refreshers and mutexes are interchangeable.
Symmetry == Permutations(Requests) \cup Permutations(Refreshers) \cup Permutations(Flights)
=============================================================================
