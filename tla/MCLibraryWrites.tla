-------------------------- MODULE MCLibraryWrites --------------------------
(* LibraryWrites for TLC: requests are interchangeable.                    *)
EXTENDS LibraryWrites, TLC

Requests == Permutations(Writers)

\* Every method over two folders; a result collected beside uploads and deletes, read in the
\* library or fetched.
AllScenes ==
    {[folders |-> Folders, methods |-> {"put", "delete", "move", "copy"},
      collects |-> FALSE, remote |-> FALSE]}
    \cup {[folders |-> {"s"}, methods |-> {"put", "delete"}, collects |-> TRUE, remote |-> b] :
            b \in BOOLEAN}
=============================================================================
