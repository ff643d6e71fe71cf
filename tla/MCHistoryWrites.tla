-------------------------- MODULE MCHistoryWrites --------------------------
(* HistoryWrites for TLC.                                                  *)
EXTENDS HistoryWrites
=============================================================================
