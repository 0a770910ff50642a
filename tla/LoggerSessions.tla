--------------------------- MODULE LoggerSessions ---------------------------
(***************************************************************************)
(* pkg/logger sessions: each has a log file of its own and an entry in the *)
(* registry l.sessions until it ends.                                      *)
(*                                                                         *)
(* There are two levels of locks, Logger.mu and Session.mu.  Log and End   *)
(* hold the session's while they take the logger's; CloseAllSessions takes *)
(* the logger's, lets go, and ends the sessions it saw one by one.  A      *)
(* logger made by ForService shares its parent's registry and not its lock.*)
(*                                                                         *)
(* Every section under RLock is one step.  What is written to a file is    *)
(* kept as a sequence of lines; levels and formats are left out.           *)
(***************************************************************************)
EXTENDS LoggerCallers, GoMaps, Sequences, FiniteSets, Naturals

CONSTANTS Service,        \* the name each logger was given
          SessionIDs,
          MaxSessions,    \* bound: session objects ever created
          MaxLines,       \* bound: lines logged to one session
          MaxSecond       \* bound of the clock

ASSUME BoundsAssumption ==
  MaxSessions \in Nat /\ MaxLines \in Nat /\ MaxSecond \in Nat /\ IsFiniteSet(Threads)

VARIABLES clock,    \* time.Now() as file names show it: whole seconds
          active,   \* the registry: session ID -> session
          mu,       \* who holds Logger.mu for writing
          sess,     \* the session objects ever created
          files,    \* LogDir: name -> lines
          call      \* the call each thread is in

vars == <<clock, active, mu, sess, files, call>>

Sessions == 1..MaxSessions
FileName == {Service[l] : l \in Loggers} \X SessionIDs \X (0..MaxSecond)
Line == Sessions \X {"started", "line", "ended"}

\* s is the session of the call; todo the IDs CloseAllSessions has left to
\* end; saw, for history, the sessions behind them when it looked.
Idle == [at |-> "idle", l |-> {}, id |-> {}, s |-> {}, todo |-> {}, saw |-> {}]

Init == /\ clock = 0
        /\ active = EmptyMap
        /\ mu = [l \in Loggers |-> {}]
        /\ sess = EmptyMap
        /\ files = EmptyMap
        /\ call = [t \in Threads |-> Idle]

At(t, step) == call[t].at = step
LoggerOf(t) == CHOOSE l \in call[t].l : TRUE
ID(t) == CHOOSE i \in call[t].id : TRUE
S(t) == CHOOSE s \in call[t].s : TRUE
Parent(t) == sess[S(t)].logger

Enter(t, record) == At(t, "idle") /\ call' = [call EXCEPT ![t] = record]
Goto(t, step) == call' = [call EXCEPT ![t].at = step]
Done(t) == call' = [call EXCEPT ![t] = Idle]

Free(l) == mu[l] = {}
Lock(t, l) == Free(l) /\ mu' = [mu EXCEPT ![l] = {t}]
Unlock(l) == mu' = [mu EXCEPT ![l] = {}]

\* Logger.entry reads the writers under RLock: it waits for a writer.
Entry(l) == Free(l) /\ UNCHANGED mu

Write(s, what) == Put(files, sess[s].file, Append(files[sess[s].file], <<s, what>>))

-----------------------------------------------------------------------------
(* StartSession *)

Starting == {t \in Threads : call[t].at \in {"start", "check"}}

StartSession(t, l, i) ==
  /\ Cardinality(DOMAIN sess) + Cardinality(Starting) < MaxSessions
  /\ Enter(t, [Idle EXCEPT !.at = "start", !.l = {l}, !.id = {i}])
  /\ UNCHANGED <<clock, active, mu, sess, files>>

StartLock(t) ==
  /\ At(t, "start")
  /\ Lock(t, LoggerOf(t))
  /\ Goto(t, "check")
  /\ UNCHANGED <<clock, active, sess, files>>

Exists(i) == i \in DOMAIN active

\* MkdirAll or Create may fail; Create empties a file that is there.
StartCheck(t) ==
  /\ At(t, "check")
  /\ \/ /\ Unlock(LoggerOf(t)) /\ Done(t)
        /\ UNCHANGED <<clock, active, sess, files>>
     \/ LET s == Cardinality(DOMAIN sess) + 1
            name == <<Service[LoggerOf(t)], ID(t), clock>>
        IN  /\ ~Exists(ID(t))
            /\ files' = Put(files, name, <<>>)
            /\ sess' = Put(sess, s, [id |-> ID(t), logger |-> LoggerOf(t), file |-> name,
                                     mu |-> {}, closed |-> FALSE])
            /\ call' = [call EXCEPT ![t].at = "register", ![t].s = {s}]
            /\ UNCHANGED <<clock, active, mu>>

StartRegister_byObject(t) ==
  /\ At(t, "register")
  /\ active' = Put(active, S(t), S(t))
  /\ Goto(t, "header")
  /\ UNCHANGED <<clock, mu, sess, files>>
StartRegister(t) ==
  /\ At(t, "register")
  /\ active' = Put(active, ID(t), S(t))
  /\ Goto(t, "header")
  /\ UNCHANGED <<clock, mu, sess, files>>

\* Through another logger somebody may be ending the session by now: the
\* header is written all the same, or comes too late, to a closed file.
Header(s) == {Write(s, "started")} \cup (IF sess[s].closed THEN {files} ELSE {})

\* The lock is released before the entry is logged, which needs it.
StartHeader_logsLocked(t) ==
  /\ At(t, "header")
  /\ files' \in Header(S(t))
  /\ Goto(t, "startinfo")
  /\ UNCHANGED <<clock, active, mu, sess>>
StartHeader(t) ==
  /\ At(t, "header")
  /\ files' \in Header(S(t))
  /\ Unlock(LoggerOf(t))
  /\ Goto(t, "startinfo")
  /\ UNCHANGED <<clock, active, sess>>

StartInfo(t) ==
  /\ At(t, "startinfo")
  /\ Entry(LoggerOf(t)) /\ Done(t)
  /\ UNCHANGED <<clock, active, sess, files>>

-----------------------------------------------------------------------------
(* Session.Log and Session.End.  A closed session's mutex is still taken,   *)
(* for as long as it takes to see that it is closed.                        *)

\* The sessions that have been registered.
Known == DOMAIN sess \ UNION {call[t].s : t \in {u \in Threads : At(u, "register")}}

\* Those somebody can have a pointer to: one whose StartSession still has its
\* logger's mutex can be got only through another logger.
Reachable == {s \in Known : (\E t \in Threads : At(t, "header") /\ s \in call[t].s) =>
                              \E l \in Loggers : Free(l)}

Log(t, s) ==
  /\ s \in Reachable /\ Len(files[sess[s].file]) <= MaxLines
  /\ Enter(t, [Idle EXCEPT !.at = "log", !.s = {s}])
  /\ UNCHANGED <<clock, active, mu, sess, files>>

LogWrite(t) ==
  /\ At(t, "log") /\ sess[S(t)].mu = {}
  /\ IF sess[S(t)].closed
     THEN Done(t) /\ UNCHANGED <<sess, files>>
     ELSE /\ sess' = [sess EXCEPT ![S(t)].mu = {t}]
          /\ files' = Write(S(t), "line")
          /\ Goto(t, "logentry")
  /\ UNCHANGED <<clock, active, mu>>

LogEntry(t) ==
  /\ At(t, "logentry")
  /\ Entry(Parent(t))
  /\ sess' = [sess EXCEPT ![S(t)].mu = {}]
  /\ Done(t)
  /\ UNCHANGED <<clock, active, files>>

End(t, s) ==
  /\ s \in Reachable
  /\ Enter(t, [Idle EXCEPT !.at = "end", !.s = {s}])
  /\ UNCHANGED <<clock, active, mu, sess, files>>

\* End has returned: to its caller, or to CloseAllSessions.
Ended(t) == IF call[t].saw = {} THEN Done(t)
            ELSE call' = [call EXCEPT ![t].at = "closeall", ![t].s = {}]

EndClose_closesFirst(t) ==
  /\ At(t, "end") /\ sess[S(t)].mu = {}
  /\ IF sess[S(t)].closed
     THEN Ended(t) /\ UNCHANGED <<sess, files>>
     ELSE /\ sess' = [sess EXCEPT ![S(t)].closed = TRUE, ![S(t)].mu = {t}]
          /\ UNCHANGED files
          /\ Goto(t, "endlock")
  /\ UNCHANGED <<clock, active, mu>>
EndClose_peeks(t) ==
  /\ At(t, "end")
  /\ IF sess[S(t)].closed
     THEN Ended(t) /\ UNCHANGED <<sess, files>>
     ELSE /\ sess[S(t)].mu = {}
          /\ sess' = [sess EXCEPT ![S(t)].closed = TRUE, ![S(t)].mu = {t}]
          /\ files' = Write(S(t), "ended")
          /\ Goto(t, "endlock")
  /\ UNCHANGED <<clock, active, mu>>
EndClose(t) ==
  /\ At(t, "end") /\ sess[S(t)].mu = {}
  /\ IF sess[S(t)].closed
     THEN Ended(t) /\ UNCHANGED <<sess, files>>
     ELSE /\ sess' = [sess EXCEPT ![S(t)].closed = TRUE, ![S(t)].mu = {t}]
          /\ files' = Write(S(t), "ended")
          /\ Goto(t, "endlock")
  /\ UNCHANGED <<clock, active, mu>>

EndLock(t) ==
  /\ At(t, "endlock")
  /\ Lock(t, Parent(t))
  /\ Goto(t, "enddelete")
  /\ UNCHANGED <<clock, active, sess, files>>

EndDelete_byObject(t) ==
  /\ At(t, "enddelete")
  /\ active' = Without(active, S(t))
  /\ Unlock(Parent(t))
  /\ Goto(t, "endinfo")
  /\ UNCHANGED <<clock, sess, files>>
EndDelete(t) ==
  /\ At(t, "enddelete")
  /\ active' = Without(active, sess[S(t)].id)
  /\ Unlock(Parent(t))
  /\ Goto(t, "endinfo")
  /\ UNCHANGED <<clock, sess, files>>

EndInfo(t) ==
  /\ At(t, "endinfo")
  /\ Entry(Parent(t))
  /\ sess' = [sess EXCEPT ![S(t)].mu = {}]
  /\ Ended(t)
  /\ UNCHANGED <<clock, active, files>>

-----------------------------------------------------------------------------
(* CloseAllSessions: the IDs are collected under RLock, in no order; each   *)
(* session is looked up again before it is ended.                           *)

CloseAllSessions(t, l) ==
  /\ Enter(t, [Idle EXCEPT !.at = "snapshot", !.l = {l}])
  /\ UNCHANGED <<clock, active, mu, sess, files>>

Snapshot(t) ==
  /\ At(t, "snapshot") /\ Free(LoggerOf(t))
  /\ IF active = EmptyMap THEN Done(t)
     ELSE call' = [call EXCEPT ![t].at = "closeall", ![t].todo = DOMAIN active,
                               ![t].saw = Range(active)]
  /\ UNCHANGED <<clock, active, mu, sess, files>>

CloseNext(t) ==
  /\ At(t, "closeall") /\ Free(LoggerOf(t))
  /\ \E i \in call[t].todo :
       call' = [call EXCEPT ![t].todo = @ \ {i},
                            ![t].at = IF i \in DOMAIN active THEN "end" ELSE @,
                            ![t].s = {active[j] : j \in {i} \cap DOMAIN active}]
  /\ UNCHANGED <<clock, active, mu, sess, files>>

CloseReturn(t) ==
  /\ At(t, "closeall") /\ call[t].todo = {}
  /\ Done(t)
  /\ UNCHANGED <<clock, active, mu, sess, files>>

-----------------------------------------------------------------------------
Tick == /\ clock < MaxSecond
        /\ clock' = clock + 1
        /\ UNCHANGED <<active, mu, sess, files, call>>

Call(t) == \/ \E l \in Loggers, i \in SessionIDs : StartSession(t, l, i)
           \/ \E s \in DOMAIN sess : Log(t, s) \/ End(t, s)
           \/ \E l \in Loggers : CloseAllSessions(t, l)

Step(t) == \/ StartLock(t) \/ StartCheck(t) \/ StartRegister(t)
           \/ StartHeader(t) \/ StartInfo(t)
           \/ LogWrite(t) \/ LogEntry(t)
           \/ EndClose(t) \/ EndLock(t) \/ EndDelete(t) \/ EndInfo(t)
           \/ Snapshot(t) \/ CloseNext(t) \/ CloseReturn(t)

Next == Tick \/ \E t \in Threads : Call(t) \/ Step(t)

\* A call that has begun goes on, and a thread that waits for a mutex gets it
\* in the end: Go's mutexes hand themselves to a waiter they have starved.
Spec == Init /\ [][Next]_vars /\ \A t \in Threads : SF_vars(Step(t))

-----------------------------------------------------------------------------
Session == [id : SessionIDs, logger : Loggers, file : FileName, mu : SUBSET Threads, closed : BOOLEAN]
Calls == [at : {"idle", "start", "check", "register", "header", "startinfo", "log", "logentry",
                "end", "endlock", "enddelete", "endinfo", "snapshot", "closeall"},
          l : SUBSET Loggers, id : SUBSET SessionIDs, s : SUBSET Sessions,
          todo : SUBSET SessionIDs, saw : SUBSET Sessions]

TypeOK ==
  /\ clock \in 0..MaxSecond
  /\ active \in MapsOf(SessionIDs, Sessions)
  /\ mu \in [Loggers -> SUBSET Threads]
  /\ DOMAIN sess \subseteq Sessions /\ \A s \in DOMAIN sess : sess[s] \in Session
  /\ DOMAIN files \subseteq FileName /\ \A f \in DOMAIN files : files[f] \in Seq(Line)
  /\ call \in [Threads -> Calls]

Open(s) == s \in Known /\ ~sess[s].closed
Busy(s) == {t \in Threads : call[t].at \in {"endlock", "enddelete"} /\ call[t].s = {s}}

\* The registry holds every session that is open, under its ID, and of the
\* others only those whose End is still on its way.  A session out of it is
\* one CloseAllSessions does not end; one left in it blocks its ID for ever.
RegistryExact ==
  /\ \A s \in Sessions : Open(s) => \E i \in DOMAIN active : active[i] = s
  /\ \A i \in DOMAIN active : /\ sess[active[i]].id = i
                              /\ sess[active[i]].closed => Busy(active[i]) # {}

\* No other session was given the file of s.
Alone(s) == \A r \in DOMAIN sess : sess[r].file = sess[s].file => r = s

\* A session's file tells its whole story and nothing else: how it started,
\* what was logged, and how it ended if and only if it has, whatever calls
\* overlapped, if they went through one logger.
FileComplete ==
  \A s \in Known : Alone(s) =>
    LET f == files[sess[s].file]
    IN  \A k \in DOMAIN f :
          f[k] = <<s, IF k = 1 THEN "started"
                      ELSE IF k = Len(f) /\ sess[s].closed THEN "ended" ELSE "line">>

\* "CloseAllSessions ends all active sessions": when it returns, every
\* session that was active when it looked is closed and out of the registry,
\* those other threads were ending at the time included.
CloseAllEnds ==
  \A t \in Threads : At(t, "closeall") /\ call[t].todo = {} =>
    \A s \in call[t].saw : sess[s].closed /\ s \notin Range(active)

\* Who has the mutex that the next step of thread t takes.
WaitsFor(t) ==
  LET c == call[t]
      logger == IF \/ c.at \in {"start", "startinfo", "snapshot"}
                   \/ c.at = "closeall" /\ c.todo # {} THEN c.l
                ELSE IF c.at \in {"logentry", "endlock", "endinfo"} THEN {sess[s].logger : s \in c.s}
                ELSE {}
      session == IF c.at \in {"log", "end"} THEN c.s ELSE {}
  IN  UNION ({mu[l] : l \in logger} \cup {sess[s].mu : s \in session})

\* No threads wait for each other in a circle, and none for itself: one that
\* waits for a session's mutex may find that its holder waits too, for a
\* logger's, but whoever holds that waits for nobody.
NoCircularWait ==
  \A t \in Threads : \A u \in WaitsFor(t) : \A v \in WaitsFor(u) : WaitsFor(v) = {}

\* Every call returns: no order of the two levels of locks makes threads wait
\* for each other or for themselves.
CallsReturn == \A t \in Threads : ~At(t, "idle") ~> At(t, "idle")

\* "Concurrency-Safe: Mutex-protected, safe for goroutines" (the package's
\* README): no two threads are at work on the registry, one of them writing.
MapGuarded ==
  \A t, u \in Threads :
    call[t].at \in {"check", "register", "enddelete"} /\
    call[u].at \in {"check", "register", "enddelete"} => t = u
=============================================================================
