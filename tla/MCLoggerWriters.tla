--------------------------- MODULE MCLoggerWriters ---------------------------
(* A small instance of LoggerWriters.  Writers, loggers and threads are alike. *)
EXTENDS LoggerWriters, TLC

Alike == Permutations(Writers) \cup Permutations(Loggers) \cup Permutations(Threads)
=============================================================================
