--------------------------- MODULE LoggerWriters ----------------------------
(***************************************************************************)
(* pkg/logger writers and levels.                                          *)
(*                                                                         *)
(* l.writers is a Go slice: a backing array and a length.  append writes   *)
(* behind the length while the array has room and moves to an array twice  *)
(* the size when it has none.  ForService copies the slice, that is, the   *)
(* length and a reference to the parent's array, and the configuration.    *)
(* Every operation is one section under the mutex of the logger it is      *)
(* called on, and one step, but for entry: it copies the writers under the *)
(* mutex and writes to them, one after the other, after letting it go.     *)
(***************************************************************************)
EXTENDS LoggerCallers, Naturals, Sequences

CONSTANTS Writers,
          Levels, MaxWriters    \* the levels in use; bound: writers of a logger

ASSUME LevelsAssumption == Levels \subseteq 0..4 /\ Levels # {} /\ MaxWriters \in Nat

VARIABLES array,    \* backing arrays, in the order they were made
          log,      \* the loggers made so far
          entries,  \* the entry each thread is writing
          added,    \* history: the writers each logger was given or inherited
          clashed   \* history: who shared an array with one given another writer

writersVars == <<array, log, entries, added, clashed>>

Room == "room"    \* an element behind every length

\* writers is what is left of the private copy.  For history, to is who got the
\* entry, due who should: what the logger was given, unless overwritten by then.
NoEntry == [by |-> {}, writers |-> <<>>, to |-> <<>>, due |-> <<>>]

WritersInit ==
  /\ array = << <<"stdout">> >>
  /\ \E l \in Loggers, v \in Levels :
       /\ log = [k \in {l} |-> [array |-> 1, len |-> 1, level |-> v]]
       /\ added = [k \in {l} |-> <<"stdout">>]
  /\ clashed = {}
  /\ entries = [t \in Threads |-> NoEntry]

\* append(l.writers, w)
append(l, w) ==
  LET a == array[log[l].array]
      n == log[l].len
  IN  IF n < Len(a)
      THEN /\ array' = [array EXCEPT ![log[l].array][n + 1] = w]
           /\ log' = [log EXCEPT ![l].len = n + 1]
      ELSE /\ array' = Append(array, a \o <<w>> \o [k \in 1..(n - 1) |-> Room])
           /\ log' = [log EXCEPT ![l].len = n + 1, ![l].array = Len(array) + 1]

\* Two loggers that share an array and were given different writers in the
\* same place of it: one overwrote the other's.
Clash(l, k) == /\ log[l].array = log[k].array
               /\ \E n \in DOMAIN added[l] \cap DOMAIN added[k] : added[l][n] # added[k][n]

AddWriter(l, w) ==
  /\ log[l].len < MaxWriters
  /\ append(l, w)
  /\ added' = [added EXCEPT ![l] = Append(@, w)]
  /\ clashed' = clashed \cup {k \in DOMAIN log : \E m \in DOMAIN log : Clash(k, m)'}
  /\ UNCHANGED entries

ForService_unset(l, child) ==
  /\ child \notin DOMAIN log
  /\ log' = [k \in DOMAIN log \cup {child} |-> IF k = child THEN [log[l] EXCEPT !.len = 0] ELSE log[k]]
  /\ added' = [k \in DOMAIN log \cup {child} |-> IF k = child THEN added[l] ELSE added[k]]
  /\ clashed' = clashed \cup (IF l \in clashed THEN {child} ELSE {})
  /\ UNCHANGED <<array, entries>>
ForService_stdoutOnly(l, child) ==
  /\ child \notin DOMAIN log
  /\ log' = [k \in DOMAIN log \cup {child} |-> IF k = child THEN [log[l] EXCEPT !.len = 1] ELSE log[k]]
  /\ added' = [k \in DOMAIN log \cup {child} |-> IF k = child THEN added[l] ELSE added[k]]
  /\ clashed' = clashed \cup (IF l \in clashed THEN {child} ELSE {})
  /\ UNCHANGED <<array, entries>>
ForService(l, child) ==
  /\ child \notin DOMAIN log
  /\ log' = [k \in DOMAIN log \cup {child} |-> IF k = child THEN log[l] ELSE log[k]]
  /\ added' = [k \in DOMAIN log \cup {child} |-> IF k = child THEN added[l] ELSE added[k]]
  /\ clashed' = clashed \cup (IF l \in clashed THEN {child} ELSE {})
  /\ UNCHANGED <<array, entries>>

SetLevel(l, level) ==
  /\ log' = [log EXCEPT ![l].level = level]
  /\ UNCHANGED <<array, entries, added, clashed>>

writers(l) == SubSeq(array[log[l].array], 1, log[l].len)

\* An entry below the logger's level is dropped.
entry(t, l, level) ==
  /\ entries[t] = NoEntry
  /\ level >= log[l].level
  /\ entries' = [entries EXCEPT ![t] =
       [by |-> {l}, writers |-> writers(l), to |-> <<>>,
        due |-> IF l \in clashed THEN writers(l) ELSE added[l]]]
  /\ UNCHANGED <<array, log, added, clashed>>

entryWrite_uncopied(t) ==
  \E l \in entries[t].by :
    LET n == Len(entries[t].to) + 1
    IN  /\ entries' = [entries EXCEPT ![t] =
             IF n <= log[l].len
             THEN [@ EXCEPT !.to = Append(@, writers(l)[n]), !.writers = SubSeq(writers(l), n + 1, log[l].len)]
             ELSE NoEntry]
        /\ UNCHANGED <<array, log, added, clashed>>
entryWrite(t) ==
  /\ entries[t] # NoEntry
  /\ LET e == entries[t]
     IN  entries' = [entries EXCEPT ![t] =
           IF e.writers = <<>> THEN NoEntry
           ELSE [e EXCEPT !.to = Append(e.to, Head(e.writers)), !.writers = Tail(e.writers)]]
  /\ UNCHANGED <<array, log, added, clashed>>

WritersNext ==
  \/ \E l \in DOMAIN log :
       \/ \E w \in Writers : AddWriter(l, w)
       \/ \E child \in Loggers : ForService(l, child)
       \/ \E level \in Levels : SetLevel(l, level)
       \/ \E t \in Threads, level \in Levels : entry(t, l, level)
  \/ \E t \in Threads : entryWrite(t)

WritersSpec == WritersInit /\ [][WritersNext]_writersVars

-----------------------------------------------------------------------------
Given == Writers \cup {"stdout"}
Element == Given \cup {Room}
EntryRecord == [by : SUBSET Loggers, writers : Seq(Element), to : Seq(Element), due : Seq(Element)]

WritersTypeOK ==
  /\ array \in Seq(Seq(Element))
  /\ DOMAIN log \subseteq Loggers /\ DOMAIN added = DOMAIN log /\ clashed \subseteq DOMAIN log
  /\ \A l \in DOMAIN log :
       /\ log[l] \in [array : DOMAIN array, len : Nat \ {0}, level : Levels]
       /\ log[l].len <= Len(array[log[l].array])
       /\ added[l] \in Seq(Given) /\ Len(added[l]) = log[l].len
  /\ entries \in [Threads -> EntryRecord]

\* "AddWriter adds an additional output writer": each logger writes to those
\* it was given or inherited, in that order, and nothing done to another takes
\* one of them away, unless the two shared an array and were given different
\* writers in the same place of it.
WritersKept ==
  \A l \in DOMAIN log \ clashed : writers(l) = added[l]

\* An entry goes to the writers its logger had when it was logged, once each
\* and in that order, whatever AddWriter, ForService and SetLevel do, to any
\* logger, while it is being written.
EntryDelivered ==
  \A t \in Threads : entries[t].to \o entries[t].writers = entries[t].due
=============================================================================
