-------------------------- MODULE MCLoggerSessions --------------------------
(* Small instances of LoggerSessions: one logger, or one and its child.     *)
EXTENDS LoggerSessions

\* The child has its parent's name.
OneName == [l \in Loggers |-> "api"]
=============================================================================
