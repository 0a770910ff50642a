---------------------------- MODULE LoggerCallers ----------------------------
(* What the specifications of pkg/logger have in common.                     *)

CONSTANTS Loggers,   \* one is made by New, the others by ForService
          Threads    \* the goroutines that call them
=============================================================================
