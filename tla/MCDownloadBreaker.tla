------------------------- MODULE MCDownloadBreaker -------------------------
(* DownloadBreaker on a small instance; the processors are interchangeable,  *)
(* and so are the jobs.                                                      *)
EXTENDS DownloadBreaker, TLC

\* Two processors over one volume that is replaced; one over two volumes, for long.
AllScenes ==
    {[pids |-> Pids, jobs |-> {j}, time |-> 1, stamps |-> 2] : j \in Jobs}
    \cup {[pids |-> {p}, jobs |-> Jobs, time |-> 7, stamps |-> 1] : p \in Pids}

Symmetry == Permutations(Pids) \cup Permutations(Jobs)
=============================================================================
