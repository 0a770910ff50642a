---------------------------- MODULE LoggerProofs ----------------------------
(***************************************************************************)
(* pkg/logger, for any number of loggers, writers, sessions and threads.   *)
(***************************************************************************)
EXTENDS LoggerWriters, LoggerSessions, GoMapsLemmas, SequenceTheorems, FiniteSetTheorems

-----------------------------------------------------------------------------
(* Writers and levels.                                                      *)

\* A logger that has not clashed has the writers it was given in its part of
\* the array it uses;
Kept(l) == \A n \in 1..log[l].len : array[log[l].array][n] = added[l][n]

\* and whoever shares an array with one that was given another writer at the
\* same place is known to have clashed.
ClashesKnown == \A l, k \in DOMAIN log : Clash(l, k) => l \in clashed

OutputInv == /\ WritersTypeOK /\ EntryDelivered /\ ClashesKnown
       /\ \A l \in DOMAIN log \ clashed : Kept(l)

\* What is in a logger's part of its array.
LEMMA LoggerIs ==
  ASSUME WritersTypeOK, NEW l \in DOMAIN log
  PROVE  /\ log[l].array \in 1..Len(array) /\ array[log[l].array] \in Seq(Element)
         /\ log[l].len \in Nat \ {0} /\ log[l].len <= Len(array[log[l].array])
         /\ added[l] \in Seq(Element) /\ Len(added[l]) = log[l].len
         /\ DOMAIN added[l] = 1..log[l].len
<1>1. array \in Seq(Seq(Element)) /\ DOMAIN array = 1..Len(array)
  BY LenProperties DEF WritersTypeOK
<1>2. log[l].array \in DOMAIN array /\ log[l].len \in Nat \ {0} /\ log[l].len <= Len(array[log[l].array])
  BY DEF WritersTypeOK
<1>3. array[log[l].array] \in Seq(Element)
  BY <1>1, <1>2, ElementOfSeq
<1>4. added[l] \in Seq(Given) /\ Len(added[l]) = log[l].len /\ Given \subseteq Element
  BY DEF WritersTypeOK, Element
<1>5. added[l] \in Seq(Element)
  BY <1>4, SeqMonotonic
<1> QED
  BY <1>1, <1>2, <1>3, <1>4, <1>5, LenProperties

\* The writers a logger writes to.
LEMMA WritersAre ==
  ASSUME WritersTypeOK, NEW l \in DOMAIN log
  PROVE  /\ writers(l) \in Seq(Element) /\ Len(writers(l)) = log[l].len
         /\ \A n \in 1..log[l].len : writers(l)[n] = array[log[l].array][n]
         /\ Kept(l) => writers(l) = added[l]
<1> DEFINE a == array[log[l].array]
           len == log[l].len
<1>1. a \in Seq(Element) /\ len \in Nat \ {0} /\ len <= Len(a)
      /\ added[l] \in Seq(Element) /\ Len(added[l]) = len
  BY LoggerIs
<1>2. \A n \in 1..len : a[n] \in Element
  <2>1. Len(a) \in Nat
    BY <1>1, LenProperties
  <2> QED
    BY <1>1, <2>1, ElementOfSeq
<1>3. writers(l) = SubSeq(a, 1, len)
  BY DEF writers
<1>4. Kept(l) <=> \A n \in 1..len : a[n] = added[l][n]
  BY DEF Kept
<1>5. a = array[log[l].array] /\ len = log[l].len
  OBVIOUS
<1> HIDE DEF a, len
<1>6. /\ SubSeq(a, 1, len) \in Seq(Element)
      /\ Len(SubSeq(a, 1, len)) = IF 1 <= len THEN len - 1 + 1 ELSE 0
      /\ \A n \in 1..(len - 1 + 1) : SubSeq(a, 1, len)[n] = a[1 + n - 1]
  BY <1>1, <1>2, SubSeqProperties
<1>7. Len(writers(l)) = len /\ \A n \in 1..len : writers(l)[n] = a[n]
  BY <1>1, <1>3, <1>6
<1>8. Kept(l) => writers(l) = added[l]
  BY <1>1, <1>3, <1>4, <1>6, <1>7, SeqEqual
<1> QED
  BY <1>3, <1>5, <1>6, <1>7, <1>8

\* "append": within the array, or in a new one that holds the same writers.
LEMMA AppendIs ==
  ASSUME WritersTypeOK, NEW l \in DOMAIN log, NEW w \in Writers, append(l, w),
         NEW n, n = log[l].len, NEW b, b = log'[l].array
  PROVE  /\ DOMAIN log' = DOMAIN log
         /\ log'[l] \in [array : DOMAIN array', len : Nat \ {0}, level : Levels]
         /\ log'[l].len = n + 1
         /\ \A k \in DOMAIN log : k # l => log'[k] = log[k]
         /\ array' \in Seq(Seq(Element)) /\ DOMAIN array \subseteq DOMAIN array'
         /\ Len(array'[b]) >= n + 1 /\ array'[b][n + 1] = w
         /\ \A j \in 1..n : array'[b][j] = array[log[l].array][j]
         /\ \A a \in DOMAIN array : Len(array'[a]) = Len(array[a])
         /\ \/ /\ b = log[l].array
               /\ \A a \in DOMAIN array : \A j \in 1..Len(array[a]) :
                    a # b \/ j # n + 1 => array'[a][j] = array[a][j]
            \/ /\ b \notin DOMAIN array
               /\ \A a \in DOMAIN array : array'[a] = array[a]
<1> DEFINE a == log[l].array
           r == log[l]
<1>1. /\ r \in [array : DOMAIN array, len : Nat \ {0}, level : Levels]
      /\ array \in Seq(Seq(Element)) /\ DOMAIN array = 1..Len(array) /\ Len(array) \in Nat
  BY LenProperties DEF WritersTypeOK
<1>2. a \in 1..Len(array) /\ array[a] \in Seq(Element) /\ n \in Nat \ {0} /\ n <= Len(array[a])
      /\ Len(array[a]) \in Nat /\ w \in Element
  BY LoggerIs, LenProperties DEF Element, Given
<1>3. CASE n < Len(array[a])
  <2> DEFINE row == [array[a] EXCEPT ![n + 1] = w]
  <2>1. /\ row \in Seq(Element) /\ Len(row) = Len(array[a])
        /\ \A j \in 1..Len(array[a]) : row[j] = IF j = n + 1 THEN w ELSE array[a][j]
    BY <1>2, <1>3, ExceptSeq, SMTT(60)
  <2>2. array' = [array EXCEPT ![a] = row] /\ log' = [log EXCEPT ![l].len = n + 1]
    BY <1>3 DEF append
  <2> HIDE DEF row
  <2>3. /\ array' \in Seq(Seq(Element)) /\ Len(array') = Len(array)
        /\ \A j \in 1..Len(array) : array'[j] = IF j = a THEN row ELSE array[j]
    BY <1>1, <1>2, <2>1, <2>2, ExceptSeq
  <2>4. DOMAIN array' = DOMAIN array
    BY <1>1, <2>3, LenProperties
  <2>5. /\ DOMAIN log' = DOMAIN log /\ \A k \in DOMAIN log : k # l => log'[k] = log[k]
        /\ log'[l] = [r EXCEPT !.len = n + 1]
    BY <2>2
  <2>6. /\ log'[l] \in [array : DOMAIN array', len : Nat \ {0}, level : Levels]
        /\ log'[l].len = n + 1 /\ log'[l].array = a
    <3> HIDE DEF r
    <3>1. n + 1 \in Nat \ {0}
      BY <1>2
    <3>2. a = r.array
      BY DEF r
    <3> HIDE DEF a
    <3> QED
      BY <1>1, <2>4, <2>5, <3>1, <3>2
  <2>7. array'[a] = row
    BY <1>2, <2>3
  <2>8. /\ b = a /\ b = log[l].array
        /\ \A j \in 1..n : array'[b][j] = array[log[l].array][j]
        /\ Len(array'[b]) >= n + 1 /\ array'[b][n + 1] = w
    BY <1>2, <1>3, <2>1, <2>6, <2>7, SMTT(60)
  <2>9. /\ \A c \in DOMAIN array : Len(array'[c]) = Len(array[c])
        /\ \A c \in DOMAIN array : \A j \in 1..Len(array[c]) :
             c # b \/ j # n + 1 => array'[c][j] = array[c][j]
    BY <1>1, <1>2, <2>1, <2>3, <2>8, ZenonT(60)
  <2> QED
    BY <2>3, <2>4, <2>5, <2>6, <2>8, <2>9
<1>4. CASE ~(n < Len(array[a]))
  <2> DEFINE room == [k \in 1..(n - 1) |-> Room]
             row == array[a] \o <<w>> \o room
  <2>1. n = Len(array[a])
    BY <1>2, <1>4
  <2>2. room \in Seq(Element) /\ Len(room) = n - 1
    <3>1. room \in [1..(n - 1) -> Element] /\ n - 1 \in Nat
      BY <1>2 DEF Element
    <3> QED
      BY <3>1
  <2>3. /\ array[a] \o <<w>> \in Seq(Element) /\ Len(array[a] \o <<w>>) = n + 1
        /\ \A j \in 1..n : (array[a] \o <<w>>)[j] = array[a][j]
        /\ (array[a] \o <<w>>)[n + 1] = w
    <3>1. <<w>> \in Seq(Element) /\ Len(<<w>>) = 1 /\ <<w>>[1] = w
      BY <1>2
    <3>2. /\ array[a] \o <<w>> \in Seq(Element)
          /\ Len(array[a] \o <<w>>) = Len(array[a]) + Len(<<w>>)
          /\ \A j \in 1..(Len(array[a]) + Len(<<w>>)) : (array[a] \o <<w>>)[j] =
               IF j <= Len(array[a]) THEN array[a][j] ELSE <<w>>[j - Len(array[a])]
      BY <1>2, <3>1, ConcatProperties
    <3>3. n + 1 - n = 1 /\ ~(n + 1 <= n)
      BY <1>2, SMTT(60)
    <3> QED
      BY <1>2, <2>1, <3>1, <3>2, <3>3
  <2> DEFINE head == array[a] \o <<w>>
  <2>4. row = head \o room
    OBVIOUS
  <2>5. array' = Append(array, row) /\ log' = [log EXCEPT ![l].len = n + 1, ![l].array = Len(array) + 1]
    BY <1>4 DEF append
  <2> HIDE DEF room, row, head
  <2>6. /\ row \in Seq(Element) /\ Len(row) >= n + 1 /\ row[n + 1] = w
        /\ \A j \in 1..n : row[j] = array[a][j]
    <3>1. head \in Seq(Element) /\ Len(head) = n + 1 /\ head[n + 1] = w
          /\ \A j \in 1..n : head[j] = array[a][j]
      BY <2>3 DEF head
    <3>2. /\ head \o room \in Seq(Element) /\ Len(head \o room) = Len(head) + Len(room)
          /\ \A j \in 1..(Len(head) + Len(room)) : (head \o room)[j] =
               IF j <= Len(head) THEN head[j] ELSE room[j - Len(head)]
      BY <2>2, <3>1, ConcatProperties
    <3>3. Len(row) = (n + 1) + (n - 1)
      BY <2>2, <2>4, <3>1, <3>2
    <3>4. /\ row[n + 1] = w
          /\ \A j \in 1..n : row[j] = array[a][j]
      <4>1. \A j \in 1..(n + 1) : j \in 1..(Len(head) + Len(room)) /\ j <= Len(head)
        <5>1. n \in Nat /\ n >= 1
          BY <1>2
        <5>2. \A j \in 1..(n + 1) : j \in 1..((n + 1) + (n - 1)) /\ j <= n + 1
          BY <5>1
        <5> QED
          BY <2>2, <3>1, <5>2
      <4>2. \A j \in 1..(n + 1) : row[j] = head[j]
        BY <2>4, <3>2, <4>1
      <4>3. n + 1 \in 1..(n + 1) /\ \A j \in 1..n : j \in 1..(n + 1)
        BY <1>2
      <4> QED
        BY <3>1, <4>2, <4>3
    <3>5. Len(row) >= n + 1
      BY <1>2, <3>3
    <3> QED
      BY <2>4, <3>2, <3>4, <3>5
  <2>7. /\ array' \in Seq(Seq(Element)) /\ Len(array') = Len(array) + 1
        /\ \A j \in 1..Len(array) : array'[j] = array[j]
        /\ array'[Len(array) + 1] = row
    BY <1>1, <2>5, <2>6, AppendProperties
  <2>8. DOMAIN array' = 1..(Len(array) + 1)
    BY <2>7, LenProperties
  <2>9. /\ DOMAIN log' = DOMAIN log /\ \A k \in DOMAIN log : k # l => log'[k] = log[k]
        /\ log'[l] = [r EXCEPT !.len = n + 1, !.array = Len(array) + 1]
    BY <2>5
  <2>10. /\ log'[l] \in [array : DOMAIN array', len : Nat \ {0}, level : Levels]
         /\ log'[l].len = n + 1 /\ log'[l].array = Len(array) + 1
    <3> HIDE DEF r
    <3>1. n + 1 \in Nat \ {0} /\ Len(array) + 1 \in DOMAIN array'
      BY <1>1, <1>2, <2>8, SMTT(60)
    <3> HIDE DEF a
    <3> QED
      BY <1>1, <2>9, <3>1
  <2>11. /\ b = Len(array) + 1 /\ b \notin DOMAIN array /\ DOMAIN array \subseteq DOMAIN array'
         /\ Len(array'[b]) >= n + 1 /\ array'[b][n + 1] = w
         /\ \A j \in 1..n : array'[b][j] = array[log[l].array][j]
    BY <1>1, <2>6, <2>7, <2>8, <2>10, SMTT(60)
  <2>12. \A c \in DOMAIN array : array'[c] = array[c]
    BY <1>1, <2>7
  <2> QED
    BY <2>7, <2>9, <2>10, <2>11, <2>12
<1> QED
  BY <1>3, <1>4

\* A logger's new writer can overwrite only what is behind its own part, and
\* whoever had another writer there has clashed from now on.
LEMMA AddWriterKeeps ==
  ASSUME OutputInv, NEW l \in DOMAIN log, NEW w \in Writers, AddWriter(l, w)
  PROVE  OutputInv'
<1> DEFINE n == log[l].len
           b == log'[l].array
<1>1. /\ WritersTypeOK /\ append(l, w) /\ added' = [added EXCEPT ![l] = Append(added[l], w)]
      /\ entries' = entries
      /\ clashed' = clashed \cup {k \in DOMAIN log : \E m \in DOMAIN log : Clash(k, m)'}
  BY DEF AddWriter, OutputInv
<1>2. n = log[l].len /\ b = log'[l].array
  OBVIOUS
<1> HIDE DEF n, b
<1>3. /\ DOMAIN log' = DOMAIN log
      /\ log'[l] \in [array : DOMAIN array', len : Nat \ {0}, level : Levels]
      /\ log'[l].len = n + 1
      /\ \A k \in DOMAIN log : k # l => log'[k] = log[k]
      /\ array' \in Seq(Seq(Element)) /\ DOMAIN array \subseteq DOMAIN array'
      /\ Len(array'[b]) >= n + 1 /\ array'[b][n + 1] = w
      /\ \A j \in 1..n : array'[b][j] = array[log[l].array][j]
      /\ \A a \in DOMAIN array : Len(array'[a]) = Len(array[a])
      /\ \/ /\ b = log[l].array
            /\ \A a \in DOMAIN array : \A j \in 1..Len(array[a]) :
                 a # b \/ j # n + 1 => array'[a][j] = array[a][j]
         \/ /\ b \notin DOMAIN array
            /\ \A a \in DOMAIN array : array'[a] = array[a]
  BY <1>1, <1>2, AppendIs, SMTT(60)
<1>4. \A k \in DOMAIN log :
        /\ log[k].array \in DOMAIN array /\ array[log[k].array] \in Seq(Element)
        /\ log[k].len \in Nat \ {0} /\ log[k].len <= Len(array[log[k].array])
        /\ Len(array[log[k].array]) \in Nat
        /\ DOMAIN added[k] = 1..log[k].len
  <2> TAKE k \in DOMAIN log
  <2>1. DOMAIN array = 1..Len(array)
    BY <1>1, LenProperties DEF WritersTypeOK
  <2> QED
    BY <1>1, <2>1, LoggerIs, LenProperties
<1>5. /\ added'[l] \in Seq(Given) /\ Len(added'[l]) = n + 1 /\ DOMAIN added'[l] = 1..(n + 1)
      /\ \A j \in 1..n : added'[l][j] = added[l][j]
      /\ added'[l][n + 1] = w
      /\ DOMAIN added' = DOMAIN log /\ \A k \in DOMAIN log : k # l => added'[k] = added[k]
  <2>1. added[l] \in Seq(Given) /\ Len(added[l]) = n /\ w \in Given /\ DOMAIN added = DOMAIN log
    BY <1>1, <1>2 DEF WritersTypeOK, Given
  <2>2. added'[l] = Append(added[l], w)
    BY <1>1, <2>1
  <2>3. /\ added'[l] \in Seq(Given) /\ Len(added'[l]) = n + 1
        /\ \A j \in 1..n : added'[l][j] = added[l][j]
        /\ added'[l][n + 1] = w
    BY <2>1, <2>2, AppendProperties
  <2>4. DOMAIN added'[l] = 1..(n + 1)
    BY <2>3, LenProperties
  <2> QED
    BY <1>1, <2>1, <2>3, <2>4
<1>6. WritersTypeOK'
  <2>1. DOMAIN log' \subseteq Loggers /\ DOMAIN added' = DOMAIN log' /\ clashed' \subseteq DOMAIN log'
    BY <1>1, <1>3, <1>5 DEF WritersTypeOK
  <2>2. ASSUME NEW k \in DOMAIN log'
        PROVE  /\ log'[k] \in [array : DOMAIN array', len : Nat \ {0}, level : Levels]
               /\ log'[k].len <= Len(array'[log'[k].array])
               /\ added'[k] \in Seq(Given) /\ Len(added'[k]) = log'[k].len
    <3>1. CASE k = l
      <4>1. n + 1 <= Len(array'[b])
        BY <1>2, <1>3, <1>4, LenProperties
      <4> QED
        BY <1>2, <1>3, <1>5, <3>1, <4>1
    <3>2. CASE k # l
      <4>1. log[k] \in [array : DOMAIN array, len : Nat \ {0}, level : Levels]
            /\ added[k] \in Seq(Given) /\ Len(added[k]) = log[k].len
        BY <1>1, <1>3, <2>2 DEF WritersTypeOK
      <4>2. log[k] \in [array : DOMAIN array', len : Nat \ {0}, level : Levels]
        BY <1>3, <4>1
      <4>3. log[k].len <= Len(array'[log[k].array])
        BY <1>3, <1>4, <2>2
      <4> QED
        BY <1>3, <1>5, <2>2, <3>2, <4>1, <4>2, <4>3
    <3> QED
      BY <3>1, <3>2
  <2>3. entries' \in [Threads -> EntryRecord]
    BY <1>1 DEF WritersTypeOK
  <2> QED
    BY <1>3, <2>1, <2>2, <2>3 DEF WritersTypeOK
<1>7. ClashesKnown'
  BY <1>1, <1>3 DEF ClashesKnown
<1>8. ASSUME NEW k \in DOMAIN log, k \notin clashed'
      PROVE  \A j \in 1..log'[k].len : array'[log'[k].array][j] = added'[k][j]
  <2>1. k \notin clashed /\ \A j \in 1..log[k].len : array[log[k].array][j] = added[k][j]
    BY <1>1, <1>8 DEF OutputInv, Kept
  <2>2. CASE k = l
    <3>1. n \in Nat /\ log'[k].len = n + 1 /\ log'[k].array = b
      BY <1>2, <1>3, <1>4, <2>2
    <3>2. \A j \in 1..n : array'[b][j] = added'[k][j]
      BY <1>2, <1>3, <1>5, <2>1, <2>2
    <3>3. array'[b][n + 1] = added'[k][n + 1]
      BY <1>3, <1>5, <2>2
    <3>4. \A j \in 1..(n + 1) : j \in 1..n \/ j = n + 1
      BY <3>1
    <3> QED
      BY <3>1, <3>2, <3>3, <3>4
  <2>3. CASE k # l
    <3>1. log'[k] = log[k] /\ added'[k] = added[k] /\ DOMAIN added'[k] = 1..log[k].len
      BY <1>3, <1>4, <1>5, <2>3
    <3>2. CASE log[k].array = b
      <4>1. n + 1 \in 1..log[k].len => added'[k][n + 1] = w
        <5>1. ~ Clash(k, l)'
          BY <1>1, <1>8
        <5>2. n + 1 \in 1..(n + 1)
          BY <1>2, <1>4
        <5> QED
          BY <1>2, <1>5, <3>1, <3>2, <5>1, <5>2 DEF Clash
      <4>2. b = log[l].array /\ \A j \in 1..Len(array[b]) : j # n + 1 => array'[b][j] = array[b][j]
        BY <1>3, <1>4, <3>2
      <4>3. \A j \in 1..log[k].len : j \in 1..Len(array[b])
        BY <1>4, <3>2
      <4> QED
        BY <1>3, <2>1, <3>1, <3>2, <4>1, <4>2, <4>3
    <3>3. CASE log[k].array # b
      <4>1. \A j \in 1..log[k].len : j \in 1..Len(array[log[k].array])
        BY <1>4
      <4>2. \A j \in 1..log[k].len : array'[log[k].array][j] = array[log[k].array][j]
        BY <1>3, <1>4, <3>3, <4>1
      <4> QED
        BY <2>1, <3>1, <4>2
    <3> QED
      BY <3>2, <3>3
  <2> QED
    BY <2>2, <2>3
<1>9. EntryDelivered'
  BY <1>1 DEF OutputInv, EntryDelivered
<1> QED
  BY <1>3, <1>6, <1>7, <1>8, <1>9 DEF OutputInv, Kept

\* The child starts with its parent's writers, and with its clashes.
LEMMA ForServiceKeeps ==
  ASSUME OutputInv, NEW l \in DOMAIN log, NEW child \in Loggers, ForService(l, child)
  PROVE  OutputInv'
<1>1. /\ WritersTypeOK /\ child \notin DOMAIN log /\ array' = array /\ entries' = entries
      /\ DOMAIN log' = DOMAIN log \cup {child} /\ DOMAIN added' = DOMAIN log \cup {child}
      /\ log'[child] = log[l] /\ added'[child] = added[l]
      /\ \A k \in DOMAIN log : log'[k] = log[k] /\ added'[k] = added[k]
      /\ clashed' = clashed \cup (IF l \in clashed THEN {child} ELSE {})
  BY DEF ForService, OutputInv
<1>2. clashed \subseteq DOMAIN log
  BY <1>1 DEF WritersTypeOK
<1>3. WritersTypeOK'
  BY <1>1, <1>2 DEF WritersTypeOK
<1>4. ASSUME NEW j \in DOMAIN log', NEW k \in DOMAIN log', Clash(j, k)'
      PROVE  j \in clashed'
  <2> DEFINE of(m) == IF m = child THEN l ELSE m
  <2>1. \A m \in DOMAIN log' : of(m) \in DOMAIN log /\ log'[m] = log[of(m)] /\ added'[m] = added[of(m)]
    BY <1>1
  <2> HIDE DEF of
  <2>2. Clash(of(j), of(k))
    BY <1>1, <1>4, <2>1 DEF Clash
  <2>3. of(j) \in clashed
    BY <2>1, <2>2 DEF OutputInv, ClashesKnown
  <2> QED
    BY <1>1, <2>3 DEF of
<1>5. ASSUME NEW k \in DOMAIN log', k \notin clashed'
      PROVE  Kept(k)'
  <2>1. \A m \in DOMAIN log \ clashed : Kept(m)
    BY DEF OutputInv
  <2> QED
    BY <1>1, <1>5, <2>1 DEF Kept
<1>6. EntryDelivered'
  BY <1>1 DEF OutputInv, EntryDelivered
<1> QED
  BY <1>3, <1>4, <1>5, <1>6 DEF OutputInv, ClashesKnown

\* A level is not a writer.
LEMMA SetLevelKeeps ==
  ASSUME OutputInv, NEW l \in DOMAIN log, NEW level \in Levels, SetLevel(l, level)
  PROVE  OutputInv'
<1>1. /\ WritersTypeOK /\ array' = array /\ entries' = entries /\ added' = added /\ clashed' = clashed
      /\ DOMAIN log' = DOMAIN log
      /\ \A k \in DOMAIN log : log'[k] = IF k = l THEN [log[l] EXCEPT !.level = level] ELSE log[k]
  BY DEF SetLevel, OutputInv
<1>2. \A k \in DOMAIN log : log[k] \in [array : DOMAIN array, len : Nat \ {0}, level : Levels]
  BY <1>1 DEF WritersTypeOK
<1>3. \A k \in DOMAIN log : /\ log'[k] \in [array : DOMAIN array, len : Nat \ {0}, level : Levels]
                            /\ log'[k].array = log[k].array /\ log'[k].len = log[k].len
  BY <1>1, <1>2
<1>4. WritersTypeOK'
  BY <1>1, <1>3 DEF WritersTypeOK
<1>5. ClashesKnown'
  BY <1>1, <1>3 DEF OutputInv, ClashesKnown, Clash
<1>6. \A k \in DOMAIN log' \ clashed' : Kept(k)'
  BY <1>1, <1>3 DEF OutputInv, Kept
<1>7. EntryDelivered'
  BY <1>1 DEF OutputInv, EntryDelivered
<1> QED
  BY <1>4, <1>5, <1>6, <1>7 DEF OutputInv

\* A new entry has all its writers before it.
LEMMA EntryKeeps ==
  ASSUME OutputInv, NEW l \in DOMAIN log, NEW t \in Threads, NEW level \in Levels, entry(t, l, level)
  PROVE  OutputInv'
<1> DEFINE due == IF l \in clashed THEN writers(l) ELSE added[l]
           e == [by |-> {l}, writers |-> writers(l), to |-> <<>>, due |-> due]
<1>1. /\ WritersTypeOK /\ array' = array /\ log' = log /\ added' = added /\ clashed' = clashed
      /\ entries' = [entries EXCEPT ![t] = e]
  BY DEF entry, OutputInv
<1>2. /\ writers(l) \in Seq(Element) /\ due = writers(l)
  BY <1>1, WritersAre DEF OutputInv
<1>3. entries \in [Threads -> EntryRecord] /\ l \in Loggers
  BY <1>1 DEF WritersTypeOK
<1>4. e \in EntryRecord /\ e.to \o e.writers = e.due
  <2>1. <<>> \in Seq(Element) /\ <<>> \o writers(l) = writers(l)
    BY <1>2, EmptySeq, ConcatEmptySeq
  <2> HIDE DEF due
  <2> QED
    BY <1>2, <1>3, <2>1 DEF EntryRecord
<1> HIDE DEF e, due
<1>5. WritersTypeOK'
  BY <1>1, <1>3, <1>4 DEF WritersTypeOK
<1>6. EntryDelivered'
  BY <1>1, <1>3, <1>4 DEF OutputInv, EntryDelivered
<1>7. ClashesKnown' /\ \A k \in DOMAIN log' \ clashed' : Kept(k)'
  BY <1>1 DEF OutputInv, ClashesKnown, Clash, Kept
<1> QED
  BY <1>5, <1>6, <1>7 DEF OutputInv

\* To take the first of what is left and put it behind what was taken leaves
\* both together as they were.
LEMMA TakeFirst ==
  ASSUME NEW T, NEW s \in Seq(T), NEW left \in Seq(T), left # <<>>
  PROVE  Append(s, Head(left)) \o Tail(left) = s \o left
<1>1. Head(left) \in T /\ Tail(left) \in Seq(T)
  BY HeadTailProperties
<1> DEFINE first == <<Head(left)>>
           rest == Tail(left)
<1>2. first \in Seq(T) /\ rest \in Seq(T)
  BY <1>1
<1>3. first \o rest = left
  OBVIOUS
<1>4. Append(s, Head(left)) = s \o first
  BY <1>1, AppendIsConcat
<1> HIDE DEF first, rest
<1>5. (s \o first) \o rest = s \o (first \o rest)
  BY <1>2, ConcatAssociative, SMTT(60)
<1> QED
  BY <1>3, <1>4, <1>5 DEF rest

\* Each write takes one writer from the front.
LEMMA WriteKeeps ==
  ASSUME OutputInv, NEW t \in Threads, entryWrite(t)
  PROVE  OutputInv'
<1> DEFINE r == entries[t]
           next == IF r.writers = <<>> THEN NoEntry
                   ELSE [r EXCEPT !.to = Append(r.to, Head(r.writers)), !.writers = Tail(r.writers)]
<1>1. /\ WritersTypeOK /\ array' = array /\ log' = log /\ added' = added /\ clashed' = clashed
      /\ entries' = [entries EXCEPT ![t] = next]
  <2>1. entries' = [entries EXCEPT ![t] = next]
    BY DEF entryWrite
  <2> HIDE DEF next
  <2> QED
    BY <2>1 DEF entryWrite, OutputInv
<1>2. entries \in [Threads -> EntryRecord] /\ r \in EntryRecord /\ r.to \o r.writers = r.due
  BY <1>1 DEF WritersTypeOK, OutputInv, EntryDelivered
<1>3. next \in EntryRecord /\ next.to \o next.writers = next.due
  <2>1. CASE r.writers = <<>>
    <3>1. <<>> \in Seq(Element) /\ <<>> \o <<>> = <<>>
      BY EmptySeq, ConcatEmptySeq
    <3> QED
      BY <2>1, <3>1 DEF NoEntry, EntryRecord
  <2>2. CASE r.writers # <<>>
    <3> DEFINE to == Append(r.to, Head(r.writers))
               left == Tail(r.writers)
    <3>1. r.writers \in Seq(Element) /\ r.to \in Seq(Element)
      BY <1>2 DEF EntryRecord
    <3>2. Head(r.writers) \in Element /\ left \in Seq(Element)
      BY <2>2, <3>1, HeadTailProperties
    <3>3. to \in Seq(Element)
      BY <3>1, <3>2, AppendProperties
    <3>4. to \o left = r.to \o r.writers
      BY <2>2, <3>1, TakeFirst
    <3>5. next = [r EXCEPT !.to = to, !.writers = left]
      BY <2>2
    <3> HIDE DEF to, left, next
    <3>6. next \in EntryRecord /\ next.to = to /\ next.writers = left /\ next.due = r.due
      BY <1>2, <3>2, <3>3, <3>5 DEF EntryRecord
    <3> QED
      BY <1>2, <3>4, <3>6
  <2> QED
    BY <2>1, <2>2
<1> HIDE DEF next
<1>4. WritersTypeOK'
  BY <1>1, <1>2, <1>3 DEF WritersTypeOK
<1>5. EntryDelivered'
  BY <1>1, <1>2, <1>3 DEF OutputInv, EntryDelivered
<1>6. ClashesKnown' /\ \A k \in DOMAIN log' \ clashed' : Kept(k)'
  BY <1>1 DEF OutputInv, ClashesKnown, Clash, Kept
<1> QED
  BY <1>4, <1>5, <1>6 DEF OutputInv

\* The invariant holds throughout.
LEMMA OutputHolds == WritersSpec => []OutputInv
<1>1. WritersInit => OutputInv
  <2> SUFFICES ASSUME WritersInit PROVE OutputInv
    OBVIOUS
  <2>1. PICK l \in Loggers, v \in Levels :
          /\ log = [k \in {l} |-> [array |-> 1, len |-> 1, level |-> v]]
          /\ added = [k \in {l} |-> <<"stdout">>]
    BY DEF WritersInit
  <2>2. /\ array = << <<"stdout">> >> /\ clashed = {} /\ entries = [t \in Threads |-> NoEntry]
        /\ "stdout" \in Element /\ "stdout" \in Given
    BY DEF WritersInit, Element, Given
  <2>3. /\ array \in Seq(Seq(Element)) /\ DOMAIN array = {1} /\ array[1] = <<"stdout">>
        /\ Len(array[1]) = 1 /\ <<"stdout">>[1] = "stdout"
    BY <2>2
  <2>4. <<"stdout">> \in Seq(Given) /\ Len(<<"stdout">>) = 1
    BY <2>2
  <2>5. /\ DOMAIN log = {l} /\ DOMAIN added = {l} /\ added[l] = <<"stdout">>
        /\ log[l] = [array |-> 1, len |-> 1, level |-> v]
    BY <2>1
  <2>6. NoEntry \in EntryRecord /\ NoEntry.to \o NoEntry.writers = NoEntry.due
    BY EmptySeq, ConcatEmptySeq DEF NoEntry, EntryRecord
  <2>7. WritersTypeOK
    <3>1. log[l] \in [array : DOMAIN array, len : Nat \ {0}, level : Levels]
      BY <2>3, <2>5
    <3>2. log[l].len <= Len(array[log[l].array]) /\ Len(added[l]) = log[l].len
      BY <2>3, <2>4, <2>5, SMTT(60)
    <3>3. entries \in [Threads -> EntryRecord]
      BY <2>2, <2>6
    <3>4. DOMAIN log \subseteq Loggers /\ DOMAIN added = DOMAIN log /\ clashed \subseteq DOMAIN log
      BY <2>2, <2>5
    <3> QED
      BY <2>3, <2>4, <2>5, <3>1, <3>2, <3>3, <3>4 DEF WritersTypeOK
  <2>8. EntryDelivered
    BY <2>2, <2>6 DEF EntryDelivered
  <2>9. ClashesKnown
    BY <2>5 DEF ClashesKnown, Clash
  <2>10. Kept(l)
    BY <2>3, <2>5 DEF Kept
  <2> QED
    BY <2>5, <2>7, <2>8, <2>9, <2>10 DEF OutputInv
<1>2. OutputInv /\ [WritersNext]_writersVars => OutputInv'
  <2> SUFFICES ASSUME OutputInv, [WritersNext]_writersVars PROVE OutputInv'
    OBVIOUS
  <2>1. CASE WritersNext
    BY <2>1, AddWriterKeeps, ForServiceKeeps, SetLevelKeeps, EntryKeeps, WriteKeeps DEF WritersNext
  <2>2. CASE UNCHANGED writersVars
    <3>1. array' = array /\ log' = log /\ entries' = entries /\ added' = added /\ clashed' = clashed
      BY <2>2 DEF writersVars
    <3>2. WritersTypeOK' /\ EntryDelivered'
      BY <3>1 DEF OutputInv, WritersTypeOK, EntryDelivered
    <3>3. ClashesKnown' /\ \A k \in DOMAIN log' \ clashed' : Kept(k)'
      BY <3>1 DEF OutputInv, ClashesKnown, Clash, Kept
    <3> QED
      BY <3>2, <3>3 DEF OutputInv
  <2> QED
    BY <2>1, <2>2
<1> QED
  BY <1>1, <1>2, PTL DEF WritersSpec

\* The arrays, the loggers and the entries keep their types; in particular no
\* logger's part of an array is longer than the array.
THEOREM WritersTypeCorrect == WritersSpec => []WritersTypeOK
<1>1. OutputInv => WritersTypeOK
  BY DEF OutputInv
<1> QED
  BY <1>1, OutputHolds, PTL

\* Whatever loggers share an array, and whichever of them grow in it, a logger
\* writes to the writers it was given unless it has clashed.
THEOREM TheWritersKept == WritersSpec => []WritersKept
<1>1. OutputInv => WritersKept
  BY WritersAre DEF OutputInv, WritersKept
<1> QED
  BY <1>1, OutputHolds, PTL

\* An entry goes to the writers its logger had when it was logged, whatever
\* happens to the logger while the entry is written.
THEOREM TheEntryDelivered == WritersSpec => []EntryDelivered
<1>1. OutputInv => EntryDelivered
  BY DEF OutputInv
<1> QED
  BY <1>1, OutputHolds, PTL

-----------------------------------------------------------------------------
(* Sessions, with any number of loggers: the types.                         *)

\* What thread t, whose call is r, knows of the sessions se.
Stage(t, r, se) ==
  /\ r.at \in {"start", "check", "register", "header", "startinfo"} =>
       (\E l \in Loggers : r.l = {l}) /\ (\E i \in SessionIDs : r.id = {i})
  /\ r.at \in {"register", "header", "startinfo", "log", "logentry",
               "end", "endlock", "enddelete", "endinfo"} =>
       \E s \in DOMAIN se : r.s = {s}
  /\ r.at \in {"snapshot", "closeall"} => r.s = {}
  /\ r.at \in {"snapshot", "closeall"} \/ r.saw # {} => \E l \in Loggers : r.l = {l}
  /\ r.at \in {"start", "check", "register", "header", "startinfo", "log", "logentry"} => r.saw = {}
  /\ r.at = "register" => \A s \in r.s : se[s].id \in r.id /\ ~se[s].closed
  /\ r.at \in {"logentry", "endlock", "enddelete", "endinfo"} => \A s \in r.s : se[s].mu = {t}
  /\ r.at \in {"endlock", "enddelete", "endinfo"} => \A s \in r.s : se[s].closed

\* Sessions are numbered as they are made, and there is a number for each.
Numbered == \E n \in Nat : DOMAIN sess = 1..n
Space == Cardinality(DOMAIN sess) + Cardinality(Starting) <= MaxSessions

\* A session that is being registered is its thread's alone.
Private ==
  /\ Range(active) \subseteq Known
  /\ \A t \in Threads : call[t].saw \subseteq Known /\ (call[t].at # "register" => call[t].s \subseteq Known)
  /\ \A t, u \in Threads : t # u /\ call[t].at = "register" /\ call[u].at = "register" =>
       call[t].s \cap call[u].s = {}

\* Every session was given a file, which stays.
Filed == \A s \in DOMAIN sess : sess[s].file \in DOMAIN files

SessionsInv == /\ TypeOK /\ Numbered /\ Space /\ Private /\ Filed
               /\ \A t \in Threads : Stage(t, call[t], sess)

\* The sessions somebody can have a pointer to.
LEMMA KnownIs ==
  \A s : s \in Known <=> s \in DOMAIN sess /\ \A t \in Threads : call[t].at = "register" => s \notin call[t].s
BY DEF Known, At

\* What a call on its way acts on.
LEMMA CallIs ==
  ASSUME SessionsInv, NEW t \in Threads
  PROVE  /\ call[t] \in Calls
         /\ call[t].at \in {"start", "check", "register", "header", "startinfo"} =>
              /\ call[t].l = {LoggerOf(t)} /\ LoggerOf(t) \in Loggers
              /\ call[t].id = {ID(t)} /\ ID(t) \in SessionIDs
         /\ call[t].at \in {"register", "header", "startinfo", "log", "logentry",
                            "end", "endlock", "enddelete", "endinfo"} =>
              /\ call[t].s = {S(t)} /\ S(t) \in DOMAIN sess
              /\ call[t].at # "register" => S(t) \in Known
<1>1. Stage(t, call[t], sess) /\ call[t] \in Calls
  BY DEF SessionsInv, TypeOK
<1>2. \A l : call[t].l = {l} => LoggerOf(t) = l
  BY DEF LoggerOf
<1>3. \A i : call[t].id = {i} => ID(t) = i
  BY DEF ID
<1>4. \A s : call[t].s = {s} => S(t) = s
  BY DEF S
<1>5. call[t].at # "register" => call[t].s \subseteq Known
  BY DEF SessionsInv, Private
<1> QED
  BY <1>1, <1>2, <1>3, <1>4, <1>5 DEF Stage

\* As many sessions as numbers.
LEMMA NumberedIs ==
  ASSUME NEW n \in Nat
  PROVE  IsFiniteSet(1..n) /\ Cardinality(1..n) = n
BY FS_Interval

\* Who is on the way to make a session.
LEMMA StartingIs ==
  ASSUME NEW t \in Threads, NEW q, call' = [call EXCEPT ![t] = q], call \in [Threads -> Calls]
  PROVE  /\ IsFiniteSet(Starting) /\ IsFiniteSet(Starting') /\ Cardinality(Starting) \in Nat
         /\ q.at \in {"start", "check"} => Starting' = Starting \cup {t}
         /\ q.at \notin {"start", "check"} => Starting' = Starting \ {t}
         /\ t \in Starting <=> call[t].at \in {"start", "check"}
         /\ Cardinality(Starting \ {t}) =
              IF t \in Starting THEN Cardinality(Starting) - 1 ELSE Cardinality(Starting)
         /\ Cardinality(Starting \cup {t}) =
              IF t \in Starting THEN Cardinality(Starting) ELSE Cardinality(Starting) + 1
<1>1. \A u \in Threads : call'[u] = IF u = t THEN q ELSE call[u]
  OBVIOUS
<1>2. Starting = {u \in Threads : call[u].at \in {"start", "check"}}
      /\ Starting' = {u \in Threads : call'[u].at \in {"start", "check"}}
  BY DEF Starting
<1>3. IsFiniteSet(Starting) /\ IsFiniteSet(Starting')
  <2>1. Starting \subseteq Threads /\ Starting' \subseteq Threads
    BY <1>2
  <2> QED
    BY <2>1, FS_Subset, BoundsAssumption
<1>4. /\ q.at \in {"start", "check"} => Starting' = Starting \cup {t}
      /\ q.at \notin {"start", "check"} => Starting' = Starting \ {t}
      /\ t \in Starting <=> call[t].at \in {"start", "check"}
  BY <1>1, <1>2
<1> QED
  BY <1>3, <1>4, FS_CardinalityType, FS_AddElement, FS_RemoveElement

\* A thread that neither begins nor ends registering a session reaches none
\* that nobody reached.
LEMMA KnownStays ==
  ASSUME NEW t \in Threads, NEW q, call' = [call EXCEPT ![t] = q], call \in [Threads -> Calls],
         call[t].at # "register", q.at # "register", DOMAIN sess' = DOMAIN sess
  PROVE  Known' = Known
<1>1. \A u \in Threads : call'[u] = IF u = t THEN q ELSE call[u]
  OBVIOUS
<1>2. \A s : s \in Known' <=> s \in DOMAIN sess' /\ \A u \in Threads : call'[u].at = "register" => s \notin call'[u].s
  BY DEF Known, At
<1> QED
  BY <1>1, <1>2, KnownIs

\* A step of thread t that makes no session and registers none.  It changes
\* only a session whose mutex nobody else has, and never reopens it.
LEMMA StepKeeps ==
  ASSUME SessionsInv, NEW t \in Threads, NEW q \in Calls, call' = [call EXCEPT ![t] = q],
         call[t].at # "register", q.at # "register", q.s \subseteq Known, q.saw \subseteq Known,
         q.at \in {"start", "check"} =>
           \/ call[t].at \in {"start", "check"}
           \/ Cardinality(DOMAIN sess) + Cardinality(Starting) < MaxSessions,
         clock' = clock, mu' \in [Loggers -> SUBSET Threads],
         active' \in MapsOf(SessionIDs, Sessions), Range(active') \subseteq Range(active),
         DOMAIN sess' = DOMAIN sess,
         \A s \in DOMAIN sess :
           \/ sess'[s] = sess[s]
           \/ /\ s \in Known /\ sess[s].mu \subseteq {t}
              /\ sess'[s] \in Session /\ (sess[s].closed => sess'[s].closed)
              /\ sess'[s].id = sess[s].id /\ sess'[s].file = sess[s].file,
         Stage(t, q, sess'),
         DOMAIN files' = DOMAIN files, \A f \in DOMAIN files : files'[f] \in Seq(Line)
  PROVE  SessionsInv'
<1>1. call \in [Threads -> Calls] /\ TypeOK
  BY DEF SessionsInv, TypeOK
<1>2. \A u \in Threads : call'[u] = IF u = t THEN q ELSE call[u]
  BY <1>1
<1>3. Known' = Known
  BY <1>1, KnownStays
<1>4. TypeOK'
  <2>1. call' \in [Threads -> Calls]
    BY <1>1
  <2>2. \A s \in DOMAIN sess : sess'[s] \in Session
    BY <1>1 DEF TypeOK
  <2> QED
    BY <1>1, <2>1, <2>2 DEF TypeOK
<1>5. Numbered'
  BY DEF SessionsInv, Numbered
<1>6. Space'
  <2> DEFINE n == Cardinality(DOMAIN sess)
             m == Cardinality(Starting)
  <2>1. n \in Nat /\ n + m <= MaxSessions /\ MaxSessions \in Nat
    BY NumberedIs, BoundsAssumption DEF SessionsInv, Numbered, Space
  <2>2. /\ m \in Nat
        /\ q.at \in {"start", "check"} => Starting' = Starting \cup {t}
        /\ q.at \notin {"start", "check"} => Starting' = Starting \ {t}
        /\ t \in Starting <=> call[t].at \in {"start", "check"}
        /\ Cardinality(Starting \ {t}) = IF t \in Starting THEN m - 1 ELSE m
        /\ Cardinality(Starting \cup {t}) = IF t \in Starting THEN m ELSE m + 1
    BY <1>1, StartingIs
  <2>3. q.at \in {"start", "check"} => t \in Starting \/ n + m < MaxSessions
    BY <2>2
  <2> HIDE DEF n, m
  <2>4. \/ Cardinality(Starting') \in {m - 1, m}
        \/ Cardinality(Starting') = m + 1 /\ n + m < MaxSessions
    <3>1. CASE q.at \in {"start", "check"}
      BY <2>2, <2>3, <3>1
    <3>2. CASE q.at \notin {"start", "check"}
      BY <2>2, <3>2
    <3> QED
      BY <3>1, <3>2
  <2>5. n + Cardinality(Starting') <= MaxSessions
    BY <2>1, <2>2, <2>4
  <2> QED
    BY <2>5 DEF Space, n
<1>7. Private'
  BY <1>2, <1>3 DEF SessionsInv, Private
<1>8. ASSUME NEW u \in Threads
      PROVE  Stage(u, call'[u], sess')
  <2>1. CASE u = t
    BY <1>2, <2>1
  <2>2. CASE u # t
    <3>1. Stage(u, call[u], sess) /\ call'[u] = call[u]
      BY <1>2, <2>2 DEF SessionsInv
    <3>2. call[u].at = "register" => \A s \in call[u].s : s \notin Known
      BY KnownIs
    <3>3. \A s \in DOMAIN sess : sess[s].mu = {u} => sess'[s] = sess[s]
      BY <2>2
    <3>4. \A s \in DOMAIN sess : /\ sess[s].closed => sess'[s].closed
                                 /\ s \notin Known => sess'[s] = sess[s]
      OBVIOUS
    <3>5. call[u].s \subseteq DOMAIN sess
      BY <1>1 DEF SessionsInv, Private, Known, TypeOK, Stage
    <3>6. call[u].at = "register" => \A s \in call[u].s : sess'[s] = sess[s]
      BY <3>2, <3>4, <3>5
    <3>7. \A s \in call[u].s : sess[s].mu = {u} => sess'[s].mu = {u}
      BY <3>3, <3>5
    <3>8. \A s \in call[u].s : sess[s].closed => sess'[s].closed
      BY <3>4, <3>5
    <3>9. Stage(u, call[u], sess')
      BY <3>1, <3>6, <3>7, <3>8, SMTT(60) DEF Stage
    <3> QED
      BY <3>1, <3>9
  <2> QED
    BY <2>1, <2>2
<1>9. Filed'
  <2>1. \A s \in DOMAIN sess : sess'[s].file = sess[s].file
    OBVIOUS
  <2> QED
    BY <2>1 DEF SessionsInv, Filed
<1>10. \A u \in Threads : Stage(u, call[u], sess)'
  BY <1>8 DEF Stage
<1> QED
  BY <1>4, <1>5, <1>6, <1>7, <1>9, <1>10 DEF SessionsInv

\* A step that leaves the sessions and the files alone.
LEMMA MoveKeeps ==
  ASSUME SessionsInv, NEW t \in Threads, NEW q \in Calls, call' = [call EXCEPT ![t] = q],
         call[t].at # "register", q.at # "register", q.s \subseteq Known, q.saw \subseteq Known,
         q.at \in {"start", "check"} =>
           \/ call[t].at \in {"start", "check"}
           \/ Cardinality(DOMAIN sess) + Cardinality(Starting) < MaxSessions,
         mu' \in [Loggers -> SUBSET Threads],
         active' \in MapsOf(SessionIDs, Sessions), Range(active') \subseteq Range(active),
         UNCHANGED <<clock, sess, files>>, Stage(t, q, sess)
  PROVE  SessionsInv'
<1>1. call \in [Threads -> Calls] /\ TypeOK
  BY DEF SessionsInv, TypeOK
<1>2. Known' = Known /\ sess' = sess /\ files' = files /\ clock' = clock
  BY <1>1, KnownStays
<1>4. \A f \in DOMAIN files : files'[f] \in Seq(Line)
  BY <1>1, <1>2 DEF TypeOK
<1>5. Stage(t, q, sess') /\ DOMAIN sess' = DOMAIN sess /\ DOMAIN files' = DOMAIN files
      /\ \A s \in DOMAIN sess : sess'[s] = sess[s]
  BY <1>2
<1> QED
  BY <1>2, <1>4, <1>5, StepKeeps

-----------------------------------------------------------------------------
(* Sessions of loggers that share one mutex: the registry.                  *)

OneLogger == \A l, k \in Loggers : l = k

\* s is closed and out of the registry ac for good.
Gone(s, se, ac) == se[s].closed /\ s \notin Range(ac)

\* What thread t, whose call is r, knows of the registry: whether it has the
\* mutex; that the ID it registers is free; that the session it ends is still
\* under its ID, or no longer there; and of the sessions CloseAllSessions saw,
\* that they are gone, still to be looked up, or being ended.
Watch(t, r, se, ac, m) ==
  /\ r.at \in {"check", "register", "header", "enddelete"} => \A l \in Loggers : m[l] = {t}
  /\ r.at = "register" => \A i \in r.id : i \notin DOMAIN ac
  /\ r.at \in {"endlock", "enddelete"} =>
       \A s \in r.s : se[s].id \in DOMAIN ac /\ ac[se[s].id] = s
  /\ r.at = "endinfo" => \A s \in r.s : s \notin Range(ac)
  /\ \A s \in r.saw : Gone(s, se, ac) \/ se[s].id \in r.todo \/ r.s = {s}

\* The registry has every open session, under its ID, and of the closed ones
\* those that are being ended.
Listed ==
  /\ \A s \in Known : ~sess[s].closed => s \in Range(active)
  /\ \A i \in DOMAIN active : sess[active[i]].id = i /\ (sess[active[i]].closed => Busy(active[i]) # {})

RegistryInv == Listed /\ \A t \in Threads : Watch(t, call[t], sess, active, mu)

\* The sessions of the registry are those under some ID.
LEMMA RangeIs ==
  \A s : s \in Range(active) <=> \E i \in DOMAIN active : active[i] = s
BY DEF Range

\* No two threads have the mutex of the one logger.
LEMMA OneHolder ==
  ASSUME OneLogger, RegistryInv, NEW t \in Threads, NEW l \in Loggers, mu[l] \subseteq {t},
         NEW u \in Threads, u # t
  PROVE  call[u].at \notin {"check", "register", "header", "enddelete"}
BY DEF RegistryInv, Watch

\* A step that leaves the registry alone, and takes or returns only a mutex
\* that nobody else has.
LEMMA WatchKeeps ==
  ASSUME SessionsInv, OneLogger, RegistryInv,
         NEW t \in Threads, NEW q \in Calls, call' = [call EXCEPT ![t] = q],
         active' = active, Known' = Known,
         UNCHANGED mu \/ \E l \in Loggers : mu[l] \subseteq {t},
         DOMAIN sess \subseteq DOMAIN sess',
         \A s \in DOMAIN sess : /\ sess'[s].id = sess[s].id
                                /\ sess[s].closed => sess'[s].closed
                                /\ sess'[s].closed => sess[s].closed \/ (q.at = "endlock" /\ q.s = {s}),
         call[t].at \in {"endlock", "enddelete"} => q.at \in {"endlock", "enddelete"} /\ q.s = call[t].s,
         Watch(t, q, sess', active', mu')
  PROVE  RegistryInv'
<1>1. call \in [Threads -> Calls]
  BY DEF SessionsInv, TypeOK
<1>2. \A u \in Threads : call'[u] = IF u = t THEN q ELSE call[u]
  BY <1>1
<1>3. Known \subseteq DOMAIN sess /\ Range(active) \subseteq Known
  BY DEF Known, SessionsInv, Private
<1>4. ASSUME NEW u \in Threads, u # t
      PROVE  Watch(u, call[u], sess', active', mu')
  <2>1. Watch(u, call[u], sess, active, mu) /\ Stage(u, call[u], sess) /\ call[u].saw \subseteq DOMAIN sess
    BY <1>3 DEF RegistryInv, SessionsInv, Private
  <2>2. call[u].at \in {"check", "register", "header", "enddelete"} => mu' = mu
    BY <1>4, OneHolder
  <2>3. call[u].at \in {"endlock", "enddelete", "endinfo"} => call[u].s \subseteq DOMAIN sess
    BY <2>1 DEF Stage
  <2>4. \A s \in call[u].saw : Gone(s, sess, active) => Gone(s, sess', active')
    BY <2>1 DEF Gone
  <2> QED
    BY <2>1, <2>2, <2>3, <2>4 DEF Watch
<1>5. \A u \in Threads : Watch(u, call'[u], sess', active', mu')
  BY <1>2, <1>4
<1>6. \A s \in Known : ~sess'[s].closed => s \in Range(active)
  BY <1>3 DEF RegistryInv, Listed
<1>7. ASSUME NEW i \in DOMAIN active
      PROVE  sess'[active[i]].id = i /\ (sess'[active[i]].closed => Busy(active[i])' # {})
  <2> DEFINE s == active[i]
  <2>1. s \in DOMAIN sess
    BY <1>3, RangeIs
  <2>2. sess[s].id = i /\ (sess[s].closed => Busy(s) # {})
    BY DEF RegistryInv, Listed
  <2>3. Busy(s)' = {u \in Threads : call'[u].at \in {"endlock", "enddelete"} /\ call'[u].s = {active'[i]}}
    BY DEF Busy
  <2> HIDE DEF s
  <2>4. ASSUME sess[s].closed
        PROVE  \E u \in Threads : call'[u].at \in {"endlock", "enddelete"} /\ call'[u].s = {s}
    <3>1. PICK u \in Threads : call[u].at \in {"endlock", "enddelete"} /\ call[u].s = {s}
      BY <2>2, <2>4 DEF Busy
    <3> QED
      BY <1>2, <3>1
  <2>5. ASSUME q.at = "endlock" /\ q.s = {s}
        PROVE  \E u \in Threads : call'[u].at \in {"endlock", "enddelete"} /\ call'[u].s = {s}
    BY <1>2, <2>5
  <2>6. sess'[s].closed =>
          \E u \in Threads : call'[u].at \in {"endlock", "enddelete"} /\ call'[u].s = {s}
    BY <2>1, <2>4, <2>5
  <2> QED
    BY <2>1, <2>2, <2>3, <2>6 DEF s
<1>8. Listed'
  BY <1>6, <1>7 DEF Listed
<1>9. \A u \in Threads : Watch(u, call[u], sess, active, mu)'
  BY <1>5 DEF Watch, Gone
<1> QED
  BY <1>8, <1>9 DEF RegistryInv

-----------------------------------------------------------------------------
(* The steps.                                                               *)

\* What a step has to keep.
Keeps == SessionsInv' /\ (OneLogger /\ RegistryInv => RegistryInv')

\* A step that takes or returns a mutex, and moves on.
LEMMA QuietKeeps ==
  ASSUME SessionsInv, NEW t \in Threads, NEW q \in Calls, call' = [call EXCEPT ![t] = q],
         call[t].at # "register", q.at # "register", q.s \subseteq Known, q.saw \subseteq Known,
         q.at \in {"start", "check"} =>
           \/ call[t].at \in {"start", "check"}
           \/ Cardinality(DOMAIN sess) + Cardinality(Starting) < MaxSessions,
         call[t].at \in {"endlock", "enddelete"} => q.at \in {"endlock", "enddelete"} /\ q.s = call[t].s,
         mu' \in [Loggers -> SUBSET Threads],
         UNCHANGED <<clock, active, sess, files>>, Stage(t, q, sess),
         OneLogger /\ RegistryInv =>
           /\ UNCHANGED mu \/ \E l \in Loggers : mu[l] \subseteq {t}
           /\ Watch(t, q, sess, active, mu')
  PROVE  Keeps
<1>1. call \in [Threads -> Calls] /\ active \in MapsOf(SessionIDs, Sessions)
  BY DEF SessionsInv, TypeOK
<1>2. sess' = sess /\ active' = active /\ Known' = Known
  BY <1>1, KnownStays
<1>3. SessionsInv'
  BY <1>1, <1>2, MoveKeeps
<1>4. ASSUME OneLogger, RegistryInv
      PROVE  RegistryInv'
  <2>1. Watch(t, q, sess', active', mu')
    BY <1>2, <1>4
  <2> QED
    BY <1>2, <1>4, <2>1, WatchKeeps
<1> QED
  BY <1>3, <1>4 DEF Keeps

\* A call that is over has nothing to keep up with.
LEMMA IdleIs ==
  /\ Idle \in Calls /\ Idle.at = "idle" /\ Idle.s = {} /\ Idle.saw = {}
  /\ \A t, se : Stage(t, Idle, se)
  /\ \A t, se, ac, m : Watch(t, Idle, se, ac, m)
BY DEF Idle, Calls, Stage, Watch

\* A call that goes on to another step.
LEMMA GotoIs ==
  ASSUME SessionsInv, NEW t \in Threads,
         NEW step \in {"check", "header", "startinfo", "logentry", "endlock", "enddelete", "endinfo"}, Goto(t, step)
  PROVE  \E q \in Calls : /\ call' = [call EXCEPT ![t] = q]
                          /\ q.at = step /\ q.l = call[t].l /\ q.id = call[t].id /\ q.s = call[t].s
                          /\ q.todo = call[t].todo /\ q.saw = call[t].saw
<1> DEFINE q == [call[t] EXCEPT !.at = step]
<1>1. call[t] \in Calls /\ call \in [Threads -> Calls]
  BY DEF SessionsInv, TypeOK
<1>2. q \in Calls /\ q.at = step /\ q.l = call[t].l /\ q.id = call[t].id /\ q.s = call[t].s
      /\ q.todo = call[t].todo /\ q.saw = call[t].saw
  BY <1>1 DEF Calls
<1>3. call' = [call EXCEPT ![t] = q]
  BY <1>1 DEF Goto
<1> HIDE DEF q
<1> QED
  BY <1>2, <1>3

\* End returns to its caller or to CloseAllSessions.
LEMMA EndedIs ==
  ASSUME SessionsInv, NEW t \in Threads, Ended(t)
  PROVE  \E q \in Calls : /\ call' = [call EXCEPT ![t] = q]
                          /\ \/ q = Idle
                             \/ /\ q.at = "closeall" /\ q.l = call[t].l /\ q.s = {}
                                /\ q.todo = call[t].todo /\ q.saw = call[t].saw /\ q.saw # {}
<1> DEFINE q == [call[t] EXCEPT !.at = "closeall", !.s = {}]
<1>1. call[t] \in Calls /\ call \in [Threads -> Calls]
  BY DEF SessionsInv, TypeOK
<1>2. CASE call[t].saw = {}
  BY <1>2, IdleIs DEF Ended, Done
<1>3. CASE call[t].saw # {}
  <2>1. {} \in SUBSET Sessions
    OBVIOUS
  <2>2. q \in Calls /\ q.at = "closeall" /\ q.l = call[t].l /\ q.s = {}
        /\ q.todo = call[t].todo /\ q.saw = call[t].saw
    BY <1>1, <2>1 DEF Calls
  <2>3. call' = [call EXCEPT ![t] = q]
    BY <1>1, <1>3 DEF Ended
  <2> HIDE DEF q
  <2> QED
    BY <1>3, <2>2, <2>3
<1> QED
  BY <1>2, <1>3

\* A mutex that is taken was free.
LEMMA LockIs ==
  ASSUME SessionsInv, NEW t \in Threads, NEW l \in Loggers, Lock(t, l)
  PROVE  mu[l] \subseteq {t} /\ mu' \in [Loggers -> SUBSET Threads] /\ mu'[l] = {t}
BY DEF SessionsInv, TypeOK, Lock, Free

\* StartSession begins only where there is room for its session.
LEMMA StartSessionKeeps ==
  ASSUME SessionsInv, NEW t \in Threads, NEW l \in Loggers, NEW i \in SessionIDs, StartSession(t, l, i)
  PROVE  Keeps
<1> DEFINE q == [Idle EXCEPT !.at = "start", !.l = {l}, !.id = {i}]
<1>1. q \in Calls /\ q.at = "start" /\ q.l = {l} /\ q.id = {i} /\ q.s = {} /\ q.saw = {}
  BY DEF Idle, Calls
<1>2. call' = [call EXCEPT ![t] = q] /\ call[t].at = "idle"
      /\ Cardinality(DOMAIN sess) + Cardinality(Starting) < MaxSessions
      /\ UNCHANGED <<clock, active, mu, sess, files>>
  BY DEF StartSession, Enter, At
<1> HIDE DEF q
<1>3. Stage(t, q, sess) /\ Watch(t, q, sess, active, mu')
  BY <1>1 DEF Stage, Watch
<1>4. mu' \in [Loggers -> SUBSET Threads]
  BY <1>2 DEF SessionsInv, TypeOK
<1> QED
  BY <1>1, <1>2, <1>3, <1>4, QuietKeeps

\* It waits for the logger's mutex.
LEMMA StartLockKeeps ==
  ASSUME SessionsInv, NEW t \in Threads, StartLock(t)
  PROVE  Keeps
<1> DEFINE l == LoggerOf(t)
<1>1. call[t].at = "start" /\ Lock(t, l) /\ Goto(t, "check") /\ UNCHANGED <<clock, active, sess, files>>
  BY DEF StartLock, At
<1>2. l \in Loggers /\ Stage(t, call[t], sess) /\ call[t].s \subseteq Known /\ call[t].saw = {}
  BY <1>1, CallIs DEF SessionsInv, Stage, Private
<1> HIDE DEF l
<1>3. PICK q \in Calls : /\ call' = [call EXCEPT ![t] = q]
                         /\ q.at = "check" /\ q.l = call[t].l /\ q.id = call[t].id /\ q.s = call[t].s
                         /\ q.todo = call[t].todo /\ q.saw = call[t].saw
  BY <1>1, GotoIs
<1>4. Stage(t, q, sess)
  BY <1>1, <1>2, <1>3 DEF Stage
<1>5. mu[l] \subseteq {t} /\ mu' \in [Loggers -> SUBSET Threads] /\ mu'[l] = {t}
  BY <1>1, <1>2, LockIs
<1>6. OneLogger => Watch(t, q, sess, active, mu')
  BY <1>2, <1>3, <1>5 DEF Watch, OneLogger
<1> QED
  BY <1>1, <1>2, <1>3, <1>4, <1>5, <1>6, QuietKeeps

\* The entry of a started session waits for the logger, no more.
LEMMA StartInfoKeeps ==
  ASSUME SessionsInv, NEW t \in Threads, StartInfo(t)
  PROVE  Keeps
<1>1. call[t].at = "startinfo" /\ call' = [call EXCEPT ![t] = Idle]
      /\ UNCHANGED <<clock, active, mu, sess, files>>
  BY DEF StartInfo, At, Entry, Done
<1>2. mu' \in [Loggers -> SUBSET Threads]
  BY <1>1 DEF SessionsInv, TypeOK
<1> QED
  BY <1>1, <1>2, IdleIs, QuietKeeps

\* A call of Log or End begins with a session somebody knows.
LEMMA LogKeeps ==
  ASSUME SessionsInv, NEW t \in Threads, NEW s \in Known, NEW step \in {"log", "end"},
         Enter(t, [Idle EXCEPT !.at = step, !.s = {s}]),
         UNCHANGED <<clock, active, mu, sess, files>>
  PROVE  Keeps
<1> DEFINE q == [Idle EXCEPT !.at = step, !.s = {s}]
<1>1. s \in DOMAIN sess /\ s \in Sessions
  BY DEF Known, SessionsInv, TypeOK
<1>2. q \in Calls /\ q.at = step /\ q.s = {s} /\ q.saw = {}
  BY <1>1 DEF Idle, Calls
<1>3. call' = [call EXCEPT ![t] = q] /\ call[t].at = "idle"
  BY DEF Enter, At
<1> HIDE DEF q
<1>4. Stage(t, q, sess) /\ Watch(t, q, sess, active, mu')
  BY <1>1, <1>2 DEF Stage, Watch
<1>5. mu' \in [Loggers -> SUBSET Threads]
  BY DEF SessionsInv, TypeOK
<1> QED
  BY <1>2, <1>3, <1>4, <1>5, QuietKeeps

\* End waits for the mutex of its session's logger.
LEMMA EndLockKeeps ==
  ASSUME SessionsInv, NEW t \in Threads, EndLock(t)
  PROVE  Keeps
<1> DEFINE l == Parent(t)
<1>1. call[t].at = "endlock" /\ Lock(t, l) /\ Goto(t, "enddelete") /\ UNCHANGED <<clock, active, sess, files>>
  BY DEF EndLock, At
<1>2. l \in Loggers
  BY <1>1, CallIs DEF Parent, SessionsInv, TypeOK, Session
<1>3. Stage(t, call[t], sess) /\ call[t].s \subseteq Known /\ call[t].saw \subseteq Known
  BY <1>1 DEF SessionsInv, Private
<1> HIDE DEF l
<1>4. PICK q \in Calls : /\ call' = [call EXCEPT ![t] = q]
                         /\ q.at = "enddelete" /\ q.l = call[t].l /\ q.id = call[t].id /\ q.s = call[t].s
                         /\ q.todo = call[t].todo /\ q.saw = call[t].saw
  BY <1>1, GotoIs
<1>5. Stage(t, q, sess)
  BY <1>1, <1>3, <1>4 DEF Stage
<1>6. mu[l] \subseteq {t} /\ mu' \in [Loggers -> SUBSET Threads] /\ mu'[l] = {t}
  BY <1>1, <1>2, LockIs
<1>7. ASSUME OneLogger, RegistryInv
      PROVE  Watch(t, q, sess, active, mu')
  <2>1. Watch(t, call[t], sess, active, mu)
    BY <1>7 DEF RegistryInv
  <2>2. \A k \in Loggers : mu'[k] = {t}
    BY <1>2, <1>6, <1>7 DEF OneLogger
  <2> QED
    BY <1>1, <1>4, <2>1, <2>2 DEF Watch
<1> QED
  BY <1>1, <1>2, <1>3, <1>4, <1>5, <1>6, <1>7, QuietKeeps

\* CloseAllSessions begins.
LEMMA CloseAllSessionsKeeps ==
  ASSUME SessionsInv, NEW t \in Threads, NEW l \in Loggers, CloseAllSessions(t, l)
  PROVE  Keeps
<1> DEFINE q == [Idle EXCEPT !.at = "snapshot", !.l = {l}]
<1>1. q \in Calls /\ q.at = "snapshot" /\ q.l = {l} /\ q.s = {} /\ q.saw = {}
  BY DEF Idle, Calls
<1>2. call' = [call EXCEPT ![t] = q] /\ call[t].at = "idle" /\ UNCHANGED <<clock, active, mu, sess, files>>
  BY DEF CloseAllSessions, Enter, At
<1> HIDE DEF q
<1>3. Stage(t, q, sess) /\ Watch(t, q, sess, active, mu')
  BY <1>1 DEF Stage, Watch
<1>4. mu' \in [Loggers -> SUBSET Threads]
  BY <1>2 DEF SessionsInv, TypeOK
<1> QED
  BY <1>1, <1>2, <1>3, <1>4, QuietKeeps

\* What CloseAllSessions sees it has to look up again.
LEMMA SnapshotKeeps ==
  ASSUME SessionsInv, NEW t \in Threads, Snapshot(t)
  PROVE  Keeps
<1> DEFINE q == [call[t] EXCEPT !.at = "closeall", !.todo = DOMAIN active, !.saw = Range(active)]
<1>1. call[t].at = "snapshot" /\ UNCHANGED <<clock, active, mu, sess, files>>
      /\ (active = EmptyMap => call' = [call EXCEPT ![t] = Idle])
      /\ (active # EmptyMap =>
            call' = [call EXCEPT ![t].at = "closeall", ![t].todo = DOMAIN active, ![t].saw = Range(active)])
  BY DEF Snapshot, At, Done
<1>2. call[t] \in Calls /\ call \in [Threads -> Calls] /\ mu' \in [Loggers -> SUBSET Threads]
      /\ DOMAIN active \in SUBSET SessionIDs /\ Range(active) \subseteq Known
      /\ Known \subseteq Sessions /\ call[t].s = {} /\ \E l \in Loggers : call[t].l = {l}
  BY <1>1 DEF SessionsInv, TypeOK, Private, Known, Stage, MapsOf
<1>3. CASE active = EmptyMap
  BY <1>1, <1>2, <1>3, IdleIs, QuietKeeps
<1>4. CASE active # EmptyMap
  <2>0. Range(active) \in SUBSET Sessions
    BY <1>2
  <2>1. q \in Calls /\ q.at = "closeall" /\ q.l = call[t].l /\ q.s = {}
        /\ q.todo = DOMAIN active /\ q.saw = Range(active)
    BY <1>2, <2>0 DEF Calls
  <2>2. call' = [call EXCEPT ![t] = q]
    BY <1>1, <1>2, <1>4
  <2> HIDE DEF q
  <2>3. Stage(t, q, sess)
    BY <1>2, <2>1 DEF Stage
  <2>4. RegistryInv => Watch(t, q, sess, active, mu')
    BY <2>1, RangeIs DEF Watch, RegistryInv, Listed
  <2>5. q.s \subseteq Known /\ q.saw \subseteq Known /\ q.at # "register" /\ q.at \notin {"start", "check"}
    BY <1>2, <2>1
  <2>6. call[t].at = "snapshot" /\ UNCHANGED <<clock, active, mu, sess, files>>
    BY <1>1
  <2>7. mu' \in [Loggers -> SUBSET Threads] /\ q \in Calls
    BY <1>2, <2>1
  <2> QED
    BY <2>2, <2>3, <2>4, <2>5, <2>6, <2>7, QuietKeeps
<1> QED
  BY <1>3, <1>4

\* It returns when it has looked all of them up.
LEMMA CloseReturnKeeps ==
  ASSUME SessionsInv, NEW t \in Threads, CloseReturn(t)
  PROVE  Keeps
<1>1. call[t].at = "closeall" /\ call' = [call EXCEPT ![t] = Idle]
      /\ UNCHANGED <<clock, active, mu, sess, files>>
  BY DEF CloseReturn, At, Done
<1>2. mu' \in [Loggers -> SUBSET Threads]
  BY <1>1 DEF SessionsInv, TypeOK
<1> QED
  BY <1>1, <1>2, IdleIs, QuietKeeps

\* StartSession fails where the file cannot be made, and gives the mutex back.
LEMMA StartFailKeeps ==
  ASSUME SessionsInv, NEW t \in Threads, call[t].at = "check",
         Unlock(LoggerOf(t)), Done(t), UNCHANGED <<clock, active, sess, files>>
  PROVE  Keeps
<1> DEFINE l == LoggerOf(t)
<1>1. l \in Loggers
  BY CallIs
<1>2. mu' = [mu EXCEPT ![l] = {}] /\ call' = [call EXCEPT ![t] = Idle]
  BY DEF Unlock, Done
<1> HIDE DEF l
<1>3. mu' \in [Loggers -> SUBSET Threads]
  BY <1>2 DEF SessionsInv, TypeOK
<1>4. RegistryInv => mu[l] = {t}
  BY <1>1 DEF RegistryInv, Watch
<1>5. RegistryInv => \E k \in Loggers : mu[k] \subseteq {t}
  BY <1>1, <1>4
<1> QED
  BY <1>2, <1>3, <1>5, IdleIs, QuietKeeps

\* Log leaves a closed session as it is.
LEMMA LogClosedKeeps ==
  ASSUME SessionsInv, NEW t \in Threads, call[t].at = "log", Done(t),
         UNCHANGED <<clock, active, mu, sess, files>>
  PROVE  Keeps
<1>1. call' = [call EXCEPT ![t] = Idle]
  BY DEF Done
<1>2. mu' \in [Loggers -> SUBSET Threads]
  BY DEF SessionsInv, TypeOK
<1> QED
  BY <1>1, <1>2, IdleIs, QuietKeeps

\* End of a closed session has waited until whoever ended it was through.
LEMMA EndClosedKeeps ==
  ASSUME SessionsInv, NEW t \in Threads, call[t].at = "end",
         sess[S(t)].mu = {}, sess[S(t)].closed, Ended(t), UNCHANGED <<clock, active, mu, sess, files>>
  PROVE  Keeps
<1> DEFINE s == S(t)
<1>1. call[t].s = {s} /\ s \in DOMAIN sess /\ call[t].saw \subseteq Known
  BY CallIs DEF SessionsInv, Private
<1>2. sess[s].mu = {} /\ sess[s].closed
  OBVIOUS
<1> HIDE DEF s
<1>3. PICK q \in Calls : /\ call' = [call EXCEPT ![t] = q]
                         /\ \/ q = Idle
                            \/ /\ q.at = "closeall" /\ q.l = call[t].l /\ q.s = {}
                               /\ q.todo = call[t].todo /\ q.saw = call[t].saw /\ q.saw # {}
  BY EndedIs
<1>4. mu' \in [Loggers -> SUBSET Threads] /\ mu' = mu
  BY DEF SessionsInv, TypeOK
<1>5. Stage(t, q, sess)
  <2>1. Stage(t, call[t], sess)
    BY DEF SessionsInv
  <2> QED
    BY <1>3, <2>1, IdleIs DEF Stage
<1>6. ASSUME RegistryInv
      PROVE  Watch(t, q, sess, active, mu')
  <2>1. Busy(s) = {}
    <3>1. \A u \in Threads : call[u].at \in {"endlock", "enddelete"} => \A r \in call[u].s : sess[r].mu = {u}
      BY DEF SessionsInv, Stage
    <3> QED
      BY <1>2, <3>1 DEF Busy
  <2>2. Gone(s, sess, active)
    BY <1>2, <1>6, <2>1, RangeIs DEF Gone, RegistryInv, Listed
  <2>3. \A r \in call[t].saw : Gone(r, sess, active) \/ sess[r].id \in call[t].todo
    <3>1. \A r \in call[t].saw : Gone(r, sess, active) \/ sess[r].id \in call[t].todo \/ call[t].s = {r}
      BY <1>6 DEF RegistryInv, Watch
    <3> QED
      BY <1>1, <2>2, <3>1
  <2> QED
    BY <1>3, <2>3, IdleIs DEF Watch
<1>7. q.s \subseteq Known /\ q.saw \subseteq Known /\ q.at # "register" /\ q.at \notin {"start", "check"}
  BY <1>1, <1>3, IdleIs
<1> QED
  BY <1>3, <1>4, <1>5, <1>6, <1>7, QuietKeeps

\* CloseAllSessions looks up the next of the IDs it has seen.
LEMMA CloseNextKeeps ==
  ASSUME SessionsInv, NEW t \in Threads, CloseNext(t)
  PROVE  Keeps
<1>1. PICK i \in call[t].todo :
        call' = [call EXCEPT ![t].todo = @ \ {i},
                             ![t].at = IF i \in DOMAIN active THEN "end" ELSE @,
                             ![t].s = {active[j] : j \in {i} \cap DOMAIN active}]
  BY DEF CloseNext
<1>2. call[t].at = "closeall" /\ UNCHANGED <<clock, active, mu, sess, files>>
  BY DEF CloseNext, At
<1> DEFINE found == {active[j] : j \in {i} \cap DOMAIN active}
           at == IF i \in DOMAIN active THEN "end" ELSE "closeall"
           q == [call[t] EXCEPT !.todo = @ \ {i}, !.at = at, !.s = found]
<1>3. call[t] \in Calls /\ call \in [Threads -> Calls] /\ mu' \in [Loggers -> SUBSET Threads]
      /\ Range(active) \subseteq Known /\ Known \subseteq DOMAIN sess /\ Known \subseteq Sessions
      /\ call[t].s = {} /\ call[t].saw \subseteq Known /\ \E l \in Loggers : call[t].l = {l}
  BY <1>2 DEF SessionsInv, TypeOK, Private, Known, Stage
<1>4. found \subseteq Known /\ found \in SUBSET Sessions
      /\ (i \in DOMAIN active => found = {active[i]}) /\ (i \notin DOMAIN active => found = {})
  BY <1>3, RangeIs
<1>5. call' = [call EXCEPT ![t] = q]
  BY <1>1, <1>2, <1>3
<1> HIDE DEF found
<1>6. at \in {"end", "closeall"} /\ (i \in DOMAIN active <=> at = "end")
  OBVIOUS
<1> HIDE DEF at
<1>7. q \in Calls /\ q.at = at /\ q.l = call[t].l /\ q.s = found /\ q.saw = call[t].saw /\ q.todo = call[t].todo \ {i}
  BY <1>3, <1>4, <1>6 DEF Calls
<1> HIDE DEF q
<1>8. Stage(t, q, sess)
  BY <1>3, <1>4, <1>6, <1>7 DEF Stage
<1>9. ASSUME RegistryInv
      PROVE  Watch(t, q, sess, active, mu')
  <2>1. ASSUME NEW s \in call[t].saw, sess[s].id = i
        PROVE  Gone(s, sess, active) \/ found = {s}
    <3>1. s \in Known /\ (~sess[s].closed => s \in Range(active))
      BY <1>3, <1>9 DEF RegistryInv, Listed
    <3>2. s \in Range(active) => i \in DOMAIN active /\ active[i] = s
      BY <1>9, <2>1, RangeIs DEF RegistryInv, Listed
    <3> QED
      BY <1>4, <3>1, <3>2 DEF Gone
  <2>2. \A s \in call[t].saw : Gone(s, sess, active) \/ sess[s].id \in call[t].todo
    BY <1>3, <1>9 DEF RegistryInv, Watch
  <2>3. \A s \in q.saw : Gone(s, sess, active) \/ sess[s].id \in q.todo \/ q.s = {s}
    BY <1>7, <2>1, <2>2
  <2> QED
    BY <1>6, <1>7, <2>3 DEF Watch
<1>10. q.s \subseteq Known /\ q.saw \subseteq Known /\ q.at # "register" /\ q.at \notin {"start", "check"}
  BY <1>3, <1>4, <1>6, <1>7
<1> QED
  BY <1>2, <1>3, <1>5, <1>7, <1>8, <1>9, <1>10, QuietKeeps

\* A step of the thread that has a session's mutex, or finds it free, on that
\* session.
LEMMA HandKeeps ==
  ASSUME SessionsInv, NEW t \in Threads, NEW q \in Calls, call' = [call EXCEPT ![t] = q],
         call[t].at \notin {"register", "endlock", "enddelete"}, q.at \notin {"start", "check", "register"},
         q.s \subseteq Known, q.saw \subseteq Known,
         NEW s \in Known, sess[s].mu \subseteq {t},
         NEW e \in Session, sess' = [sess EXCEPT ![s] = e],
         e.id = sess[s].id, e.file = sess[s].file, sess[s].closed => e.closed,
         e.closed => sess[s].closed \/ (q.at = "endlock" /\ q.s = {s}),
         UNCHANGED <<clock, active, mu>>,
         DOMAIN files' = DOMAIN files, \A f \in DOMAIN files : files'[f] \in Seq(Line),
         Stage(t, q, sess'), RegistryInv => Watch(t, q, sess', active, mu)
  PROVE  Keeps
<1>1. call \in [Threads -> Calls] /\ active' \in MapsOf(SessionIDs, Sessions)
      /\ mu' \in [Loggers -> SUBSET Threads] /\ clock' = clock /\ active' = active /\ mu' = mu
  BY DEF SessionsInv, TypeOK
<1>2. DOMAIN sess' = DOMAIN sess /\ sess'[s] = e /\ \A r \in DOMAIN sess : r # s => sess'[r] = sess[r]
  BY DEF Known
<1>3. Known' = Known
  BY <1>1, <1>2, KnownStays
<1>4. SessionsInv'
  <2>1. \A r \in DOMAIN sess :
           \/ sess'[r] = sess[r]
           \/ /\ r \in Known /\ sess[r].mu \subseteq {t}
              /\ sess'[r] \in Session /\ (sess[r].closed => sess'[r].closed)
              /\ sess'[r].id = sess[r].id /\ sess'[r].file = sess[r].file
    BY <1>2
  <2>2. Range(active') \subseteq Range(active)
    BY <1>1
  <2> QED
    BY <1>1, <1>2, <2>1, <2>2, StepKeeps
<1>5. ASSUME OneLogger, RegistryInv
      PROVE  RegistryInv'
  <2>1. \A r \in DOMAIN sess :
          /\ sess'[r].id = sess[r].id
          /\ sess[r].closed => sess'[r].closed
          /\ sess'[r].closed => sess[r].closed \/ (q.at = "endlock" /\ q.s = {r})
    BY <1>2
  <2>2. Watch(t, q, sess', active', mu')
    BY <1>1, <1>5
  <2> QED
    BY <1>1, <1>2, <1>3, <1>5, <2>1, <2>2, WatchKeeps
<1> QED
  BY <1>4, <1>5 DEF Keeps

\* A line more leaves the files what they are.
LEMMA WriteIs ==
  ASSUME SessionsInv, NEW s \in DOMAIN sess,
         NEW what \in {"started", "line", "ended"}, files' = Write(s, what)
  PROVE  /\ DOMAIN files' = DOMAIN files
         /\ \A f \in DOMAIN files : files'[f] \in Seq(Line)
         /\ files'[sess[s].file] = Append(files[sess[s].file], <<s, what>>)
         /\ \A f \in DOMAIN files : f # sess[s].file => files'[f] = files[f]
<1> DEFINE name == sess[s].file
           g == Append(files[name], <<s, what>>)
<1>1. s \in Sessions /\ name \in DOMAIN files /\ \A h \in DOMAIN files : files[h] \in Seq(Line)
  BY DEF SessionsInv, TypeOK, Filed
<1>2. DOMAIN files' = DOMAIN files /\ files'[name] = g
      /\ \A h \in DOMAIN files : h # name => files'[h] = files[h]
  BY <1>1 DEF Write, Put
<1>3. g \in Seq(Line)
  <2>1. <<s, what>> \in Line
    BY <1>1 DEF Line
  <2> QED
    BY <1>1, <2>1, AppendProperties
<1> HIDE DEF g
<1>4. \A h \in DOMAIN files : files'[h] \in Seq(Line)
  BY <1>1, <1>2, <1>3
<1> QED
  BY <1>2, <1>4 DEF g

\* A session whose mutex changes hands is the same otherwise.
LEMMA SessionIs ==
  ASSUME NEW r \in Session, NEW m \in SUBSET Threads
  PROVE  \E e \in Session : /\ e = [r EXCEPT !.mu = m]
                            /\ e.id = r.id /\ e.file = r.file /\ e.mu = m /\ e.closed = r.closed
<1> DEFINE e == [r EXCEPT !.mu = m]
<1>1. e \in Session /\ e.id = r.id /\ e.file = r.file /\ e.mu = m /\ e.closed = r.closed
  BY DEF Session
<1>2. e = [r EXCEPT !.mu = m]
  OBVIOUS
<1> HIDE DEF e
<1> QED
  BY <1>1, <1>2

\* Log adds its line to an open session.
LEMMA LogOpenKeeps ==
  ASSUME SessionsInv, NEW t \in Threads, call[t].at = "log", sess[S(t)].mu = {}, ~sess[S(t)].closed,
         sess' = [sess EXCEPT ![S(t)].mu = {t}], files' = Write(S(t), "line"), Goto(t, "logentry"),
         UNCHANGED <<clock, active, mu>>
  PROVE  Keeps
<1> DEFINE s == S(t)
<1>1. call[t].s = {s} /\ s \in Known /\ s \in DOMAIN sess /\ sess[s] \in Session /\ call[t].saw = {}
      /\ call \in [Threads -> Calls]
  BY CallIs DEF SessionsInv, TypeOK, Stage
<1>2. sess[s].mu = {} /\ ~sess[s].closed /\ sess' = [sess EXCEPT ![s].mu = {t}] /\ files' = Write(s, "line")
  OBVIOUS
<1> HIDE DEF s
<1>3. PICK q \in Calls : /\ call' = [call EXCEPT ![t] = q]
                         /\ q.at = "logentry" /\ q.l = call[t].l /\ q.id = call[t].id /\ q.s = call[t].s
                         /\ q.todo = call[t].todo /\ q.saw = call[t].saw
  BY GotoIs
<1>4. PICK e \in Session : /\ e = [sess[s] EXCEPT !.mu = {t}]
                           /\ e.id = sess[s].id /\ e.file = sess[s].file /\ e.mu = {t}
                           /\ e.closed = sess[s].closed
  <2>1. {} \in SUBSET Threads /\ {t} \in SUBSET Threads
    OBVIOUS
  <2>2. sess[s] \in Session
    BY <1>1
  <2> QED
    BY <2>1, <2>2, SessionIs
<1>5. sess' = [sess EXCEPT ![s] = e]
  BY <1>1, <1>2, <1>4
<1>6. DOMAIN sess' = DOMAIN sess /\ sess'[s] = e /\ \A r \in DOMAIN sess : r # s => sess'[r] = sess[r]
  BY <1>1, <1>5
<1>8. DOMAIN files' = DOMAIN files /\ \A f \in DOMAIN files : files'[f] \in Seq(Line)
  BY <1>1, <1>2, WriteIs
<1>9. Stage(t, q, sess')
  <2>1. q.at = "logentry" /\ q.s = {s} /\ q.saw = {} /\ s \in DOMAIN sess' /\ sess'[s].mu = {t}
    BY <1>1, <1>3, <1>4, <1>6
  <2> QED
    BY <2>1 DEF Stage
<1>10. Watch(t, q, sess', active, mu)
  BY <1>1, <1>3 DEF Watch
<1>11. q.s \subseteq Known /\ q.saw \subseteq Known /\ sess[s].mu \subseteq {t}
  BY <1>1, <1>2, <1>3
<1>12. call[t].at \notin {"register", "endlock", "enddelete"} /\ q.at \notin {"start", "check", "register"}
  BY <1>3
<1> QED
  BY <1>1, <1>2, <1>3, <1>4, <1>5, <1>8, <1>9, <1>10, <1>11, <1>12, HandKeeps, ZenonT(60)

\* It holds the session's mutex until its entry is on its way.
LEMMA LogEntryKeeps ==
  ASSUME SessionsInv, NEW t \in Threads, LogEntry(t)
  PROVE  Keeps
<1> DEFINE s == S(t)
<1>0. call[t].at = "logentry" /\ sess' = [sess EXCEPT ![s].mu = {}] /\ call' = [call EXCEPT ![t] = Idle]
      /\ UNCHANGED <<clock, active, files, mu>>
  BY DEF LogEntry, At, Entry, Done
<1>1. call[t].s = {s} /\ s \in Known /\ s \in DOMAIN sess /\ sess[s] \in Session /\ sess[s].mu = {t}
  BY <1>0, CallIs DEF SessionsInv, TypeOK, Stage
<1> HIDE DEF s
<1>2. PICK e \in Session : /\ e = [sess[s] EXCEPT !.mu = {}]
                           /\ e.id = sess[s].id /\ e.file = sess[s].file /\ e.mu = {}
                           /\ e.closed = sess[s].closed
  <2>1. {} \in SUBSET Threads /\ {t} \in SUBSET Threads
    OBVIOUS
  <2>2. sess[s] \in Session
    BY <1>1
  <2> QED
    BY <2>1, <2>2, SessionIs
<1>3. sess' = [sess EXCEPT ![s] = e]
  BY <1>0, <1>1, <1>2
<1>7. \A f \in DOMAIN files : files'[f] \in Seq(Line)
  BY <1>0 DEF SessionsInv, TypeOK
<1>8. Idle.at \notin {"start", "check", "register"} /\ Idle \in Calls
      /\ Idle.s \subseteq Known /\ Idle.saw \subseteq Known /\ sess[s].mu \subseteq {t}
      /\ Stage(t, Idle, sess') /\ Watch(t, Idle, sess', active, mu)
  BY <1>1, IdleIs
<1>9. call[t].at \notin {"register", "endlock", "enddelete"}
  BY <1>0
<1>10. call' = [call EXCEPT ![t] = Idle] /\ UNCHANGED <<clock, active, mu>> /\ DOMAIN files' = DOMAIN files
  BY <1>0
<1> QED
  BY <1>1, <1>2, <1>3, <1>7, <1>8, <1>9, <1>10, HandKeeps

\* End closes an open session, which is still under its ID.
LEMMA EndOpenKeeps ==
  ASSUME SessionsInv, NEW t \in Threads, EndClose(t), ~sess[S(t)].closed
  PROVE  Keeps
<1> DEFINE s == S(t)
<1>0. call[t].at = "end"
  BY DEF EndClose, At
<1>1. call[t].s = {s} /\ s \in Known /\ s \in DOMAIN sess /\ sess[s] \in Session /\ call[t].saw \subseteq Known
      /\ call \in [Threads -> Calls] /\ Known \subseteq DOMAIN sess
  BY <1>0, CallIs DEF SessionsInv, TypeOK, Private, Known
<1>2. sess[s].mu = {} /\ ~sess[s].closed /\ files' = Write(s, "ended") /\ Goto(t, "endlock")
      /\ sess' = [sess EXCEPT ![s].closed = TRUE, ![s].mu = {t}] /\ UNCHANGED <<clock, active, mu>>
  BY DEF EndClose
<1> HIDE DEF s
<1>3. PICK q \in Calls : /\ call' = [call EXCEPT ![t] = q]
                         /\ q.at = "endlock" /\ q.l = call[t].l /\ q.id = call[t].id /\ q.s = call[t].s
                         /\ q.todo = call[t].todo /\ q.saw = call[t].saw
  BY <1>2, GotoIs
<1> DEFINE e == [sess[s] EXCEPT !.closed = TRUE, !.mu = {t}]
<1>4. e \in Session /\ e.id = sess[s].id /\ e.file = sess[s].file /\ e.mu = {t} /\ e.closed
  <2>1. {t} \in SUBSET Threads /\ sess[s] \in Session /\ e = [sess[s] EXCEPT !.closed = TRUE, !.mu = {t}]
    BY <1>1
  <2> HIDE DEF e
  <2> QED
    BY <2>1 DEF Session
<1>5. sess' = [sess EXCEPT ![s] = e]
  BY <1>1, <1>2
<1> HIDE DEF e
<1>6. DOMAIN sess' = DOMAIN sess /\ sess'[s] = e /\ \A r \in DOMAIN sess : r # s => sess'[r] = sess[r]
  BY <1>1, <1>5
<1>8. DOMAIN files' = DOMAIN files /\ \A f \in DOMAIN files : files'[f] \in Seq(Line)
  BY <1>1, <1>2, WriteIs
<1>9. Stage(t, q, sess')
  <2>1. q.at = "endlock" /\ q.s = {s} /\ s \in DOMAIN sess' /\ sess'[s].mu = {t} /\ sess'[s].closed
    BY <1>1, <1>3, <1>4, <1>6
  <2>2. q.saw = call[t].saw /\ q.l = call[t].l /\ Stage(t, call[t], sess)
    BY <1>3 DEF SessionsInv
  <2> QED
    BY <2>1, <2>2 DEF Stage
<1>10. ASSUME RegistryInv
       PROVE  Watch(t, q, sess', active, mu)
  <2>1. sess[s].id \in DOMAIN active /\ active[sess[s].id] = s
    BY <1>1, <1>2, <1>10, RangeIs DEF RegistryInv, Listed
  <2>2. sess'[s].id = sess[s].id
    BY <1>4, <1>6
  <2>3. \A r \in call[t].saw : Gone(r, sess, active) \/ sess[r].id \in call[t].todo \/ call[t].s = {r}
    BY <1>10 DEF RegistryInv, Watch
  <2>4. \A r \in call[t].saw : Gone(r, sess, active) => Gone(r, sess', active)
    BY <1>1, <1>4, <1>6 DEF Gone
  <2>5. \A r \in call[t].saw : sess'[r].id = sess[r].id
    BY <1>1, <1>4, <1>6
  <2>6. \A r \in q.saw : Gone(r, sess', active) \/ sess'[r].id \in q.todo \/ q.s = {r}
    BY <1>3, <2>3, <2>4, <2>5
  <2>7. \A r \in q.s : sess'[r].id \in DOMAIN active /\ active[sess'[r].id] = r
    BY <1>1, <1>3, <2>1, <2>2
  <2> QED
    BY <1>3, <2>6, <2>7 DEF Watch
<1>11. q.s \subseteq Known /\ q.saw \subseteq Known /\ sess[s].mu \subseteq {t}
       /\ q.at = "endlock" /\ q.s = {s}
  BY <1>1, <1>2, <1>3
<1>12. call[t].at \notin {"register", "endlock", "enddelete"} /\ q.at \notin {"start", "check", "register"}
  BY <1>0, <1>3
<1>13. /\ sess[s].closed => e.closed
       /\ e.closed => sess[s].closed \/ (q.at = "endlock" /\ q.s = {s})
       /\ e.id = sess[s].id /\ e.file = sess[s].file /\ e \in Session
  BY <1>4, <1>11
<1>14. UNCHANGED <<clock, active, mu>> /\ call' = [call EXCEPT ![t] = q] /\ s \in Known
       /\ (RegistryInv => Watch(t, q, sess', active, mu))
  BY <1>1, <1>2, <1>3, <1>10
<1> QED
  BY <1>5, <1>8, <1>9, <1>11, <1>12, <1>13, <1>14, HandKeeps

\* End gives its session's mutex back when the session is out of the registry.
LEMMA EndInfoKeeps ==
  ASSUME SessionsInv, NEW t \in Threads, EndInfo(t)
  PROVE  Keeps
<1> DEFINE s == S(t)
<1>0. call[t].at = "endinfo" /\ sess' = [sess EXCEPT ![s].mu = {}] /\ Ended(t)
      /\ UNCHANGED <<clock, active, files, mu>>
  BY DEF EndInfo, At, Entry
<1>1. call[t].s = {s} /\ s \in Known /\ s \in DOMAIN sess /\ sess[s] \in Session /\ sess[s].mu = {t}
      /\ sess[s].closed /\ call[t].saw \subseteq Known /\ Known \subseteq DOMAIN sess
  BY <1>0, CallIs DEF SessionsInv, TypeOK, Stage, Private, Known
<1> HIDE DEF s
<1>2. PICK e \in Session : /\ e = [sess[s] EXCEPT !.mu = {}]
                           /\ e.id = sess[s].id /\ e.file = sess[s].file /\ e.mu = {}
                           /\ e.closed = sess[s].closed
  <2>1. {} \in SUBSET Threads /\ {t} \in SUBSET Threads
    OBVIOUS
  <2>2. sess[s] \in Session
    BY <1>1
  <2> QED
    BY <2>1, <2>2, SessionIs
<1>3. sess' = [sess EXCEPT ![s] = e]
  BY <1>0, <1>1, <1>2
<1>4. DOMAIN sess' = DOMAIN sess
      /\ \A r \in DOMAIN sess :
           sess'[r].id = sess[r].id /\ sess'[r].file = sess[r].file /\ sess'[r].closed = sess[r].closed
  BY <1>1, <1>2, <1>3
<1>5. PICK q \in Calls : /\ call' = [call EXCEPT ![t] = q]
                         /\ \/ q = Idle
                            \/ /\ q.at = "closeall" /\ q.l = call[t].l /\ q.s = {}
                               /\ q.todo = call[t].todo /\ q.saw = call[t].saw /\ q.saw # {}
  BY <1>0, EndedIs
<1>6. q.s \subseteq Known /\ q.saw \subseteq Known /\ q.at \notin {"start", "check", "register"}
  BY <1>1, <1>5, IdleIs
<1>9. \A f \in DOMAIN files : files'[f] \in Seq(Line)
  BY <1>0 DEF SessionsInv, TypeOK
<1>10. Stage(t, q, sess')
  <2>1. Stage(t, call[t], sess)
    BY DEF SessionsInv
  <2> QED
    BY <1>5, <2>1, IdleIs DEF Stage
<1>11. ASSUME RegistryInv
       PROVE  Watch(t, q, sess', active, mu)
  <2>1. /\ \A r \in call[t].saw : Gone(r, sess, active) \/ sess[r].id \in call[t].todo \/ call[t].s = {r}
        /\ s \notin Range(active)
    BY <1>0, <1>1, <1>11 DEF RegistryInv, Watch
  <2>2. \A r \in call[t].saw : Gone(r, sess, active) => Gone(r, sess', active)
    BY <1>1, <1>4 DEF Gone
  <2>3. Gone(s, sess', active)
    BY <1>1, <1>4, <2>1 DEF Gone
  <2>4. \A r \in call[t].saw : Gone(r, sess', active) \/ sess'[r].id \in call[t].todo
    BY <1>1, <1>4, <2>1, <2>2, <2>3
  <2> QED
    BY <1>5, <2>4, IdleIs DEF Watch
<1>12. call[t].at \notin {"register", "endlock", "enddelete"} /\ sess[s].mu \subseteq {t}
       /\ UNCHANGED <<clock, active, mu>> /\ DOMAIN files' = DOMAIN files
  BY <1>0, <1>1
<1> QED
  BY <1>1, <1>2, <1>3, <1>5, <1>6, <1>9, <1>10, <1>11, <1>12, HandKeeps

\* End takes its session out of the registry, and no other.
LEMMA EndDeleteKeeps ==
  ASSUME SessionsInv, NEW t \in Threads, EndDelete(t)
  PROVE  Keeps
<1> DEFINE s == S(t)
           i == sess[s].id
           l == Parent(t)
<1>0. call[t].at = "enddelete" /\ active' = Without(active, i) /\ mu' = [mu EXCEPT ![l] = {}]
      /\ Goto(t, "endinfo") /\ UNCHANGED <<clock, sess, files>>
  BY DEF EndDelete, At, Unlock
<1>1. call[t].s = {s} /\ s \in Known /\ s \in DOMAIN sess /\ sess[s].mu = {t} /\ sess[s].closed
      /\ call[t].saw \subseteq Known /\ Range(active) \subseteq Known
  BY <1>0, CallIs DEF SessionsInv, Stage, Private
<1>2. l \in Loggers /\ call \in [Threads -> Calls] /\ active \in MapsOf(SessionIDs, Sessions)
      /\ Stage(t, call[t], sess) /\ mu \in [Loggers -> SUBSET Threads]
  BY <1>1 DEF SessionsInv, TypeOK, Parent, Session
<1> HIDE DEF s, i, l
<1>3. PICK q \in Calls : /\ call' = [call EXCEPT ![t] = q]
                         /\ q.at = "endinfo" /\ q.l = call[t].l /\ q.id = call[t].id /\ q.s = call[t].s
                         /\ q.todo = call[t].todo /\ q.saw = call[t].saw
  BY <1>0, GotoIs
<1>4. \A u \in Threads : call'[u] = IF u = t THEN q ELSE call[u]
  BY <1>2, <1>3
<1>5. DOMAIN active' = DOMAIN active \ {i} /\ \A j \in DOMAIN active' : active'[j] = active[j]
  BY <1>0 DEF Without, Restrict
<1>6. \A r : r \in Range(active') <=> \E j \in DOMAIN active' : active'[j] = r
  BY DEF Range
<1>7. Range(active') \subseteq Range(active)
  BY <1>5, <1>6, RangeIs
<1>8. Stage(t, q, sess)
  BY <1>0, <1>2, <1>3 DEF Stage
<1>9. SessionsInv'
  <2>1. active' \in MapsOf(SessionIDs, Sessions)
    BY <1>0, <1>2, WithoutType
  <2>2. mu' \in [Loggers -> SUBSET Threads]
    BY <1>0, <1>2
  <2>3. q.s \subseteq Known /\ q.saw \subseteq Known
    BY <1>1, <1>3
  <2> QED
    BY <1>0, <1>3, <1>7, <1>8, <2>1, <2>2, <2>3, MoveKeeps
<1>10. ASSUME OneLogger, RegistryInv
       PROVE  RegistryInv'
  <2>1. /\ mu[l] = {t} /\ i \in DOMAIN active /\ active[i] = s
        /\ \A r \in call[t].saw : Gone(r, sess, active) \/ sess[r].id \in call[t].todo \/ call[t].s = {r}
    BY <1>0, <1>1, <1>2, <1>10 DEF RegistryInv, Watch, i
  <2>2. Known' = Known /\ sess' = sess
    BY <1>0, <1>2, <1>3, KnownStays
  <2>3. \A j \in DOMAIN active : sess[active[j]].id = j /\ (sess[active[j]].closed => Busy(active[j]) # {})
    BY <1>10 DEF RegistryInv, Listed
  <2>4. \A j \in DOMAIN active' : active'[j] # s
    BY <1>5, <2>3 DEF i
  <2>5. \A r : Gone(r, sess, active) => Gone(r, sess', active')
    BY <1>7, <2>2 DEF Gone
  <2>6. Listed'
    <3>1. ASSUME NEW r \in Known, ~sess[r].closed
          PROVE  r \in Range(active')
      <4>1. PICK j \in DOMAIN active : active[j] = r
        BY <1>10, <3>1, RangeIs DEF RegistryInv, Listed
      <4>2. j # i
        BY <1>1, <2>1, <3>1, <4>1
      <4> QED
        BY <1>5, <1>6, <4>1, <4>2
    <3>2. ASSUME NEW j \in DOMAIN active'
          PROVE  sess[active'[j]].id = j /\ (sess[active'[j]].closed => Busy(active[j])' # {})
      <4>1. j \in DOMAIN active /\ active'[j] = active[j]
        BY <1>5
      <4>2. ASSUME sess[active[j]].closed
            PROVE  \E u \in Threads : call'[u].at \in {"endlock", "enddelete"} /\ call'[u].s = {active'[j]}
        <5>1. PICK u \in Threads : call[u].at \in {"endlock", "enddelete"} /\ call[u].s = {active[j]}
          BY <2>3, <4>1, <4>2 DEF Busy
        <5>2. u # t
          BY <1>1, <2>4, <4>1, <5>1
        <5> QED
          BY <1>4, <4>1, <5>1, <5>2
      <4>3. Busy(active[j])' = {u \in Threads : call'[u].at \in {"endlock", "enddelete"} /\ call'[u].s = {active'[j]}}
        BY DEF Busy
      <4> QED
        BY <2>3, <4>1, <4>2, <4>3
    <3> QED
      BY <2>2, <3>1, <3>2 DEF Listed
  <2>7. Watch(t, q, sess', active', mu')
    <3>1. \A r \in q.saw : Gone(r, sess', active') \/ sess'[r].id \in q.todo \/ q.s = {r}
      BY <1>3, <2>1, <2>2, <2>5
    <3>2. \A r \in q.s : r \notin Range(active')
      BY <1>1, <1>3, <1>6, <2>4
    <3> QED
      BY <1>3, <3>1, <3>2 DEF Watch
  <2>8. ASSUME NEW u \in Threads, u # t
        PROVE  Watch(u, call[u], sess', active', mu')
    <3>1. Watch(u, call[u], sess, active, mu) /\ Stage(u, call[u], sess)
      BY <1>10 DEF RegistryInv, SessionsInv
    <3>2. call[u].at \notin {"check", "register", "header", "enddelete"}
      BY <1>2, <1>10, <2>1, <2>8, OneHolder
    <3>3. ASSUME call[u].at = "endlock", NEW r \in call[u].s
          PROVE  sess'[r].id \in DOMAIN active' /\ active'[sess'[r].id] = r
      <4>1. sess[r].id \in DOMAIN active /\ active[sess[r].id] = r
        BY <3>1, <3>3 DEF Watch
      <4>2. r # s
        BY <1>1, <2>8, <3>1, <3>3 DEF Stage
      <4>3. sess[r].id # i
        BY <2>1, <4>1, <4>2
      <4> QED
        BY <1>5, <2>2, <4>1, <4>3
    <3>4. call[u].at = "endinfo" => \A r \in call[u].s : r \notin Range(active')
      BY <1>7, <3>1 DEF Watch
    <3>5. \A r \in call[u].saw : Gone(r, sess', active') \/ sess'[r].id \in call[u].todo \/ call[u].s = {r}
      BY <2>2, <2>5, <3>1 DEF Watch
    <3> QED
      BY <3>2, <3>3, <3>4, <3>5 DEF Watch
  <2>9. \A u \in Threads : Watch(u, call'[u], sess', active', mu')
    BY <1>4, <2>7, <2>8
  <2>10. \A u \in Threads : Watch(u, call[u], sess, active, mu)'
    BY <2>9 DEF Watch, Gone
  <2> QED
    BY <2>6, <2>10 DEF RegistryInv
<1> QED
  BY <1>9, <1>10 DEF Keeps

\* StartSession makes a session, which is its thread's alone for now, and an
\* empty file for it.
LEMMA StartMakeKeeps ==
  ASSUME SessionsInv, NEW t \in Threads, call[t].at = "check",
         NEW n \in Nat, DOMAIN sess = 1..n, NEW s, s = n + 1,
         NEW name \in FileName, NEW e \in Session, e.id = ID(t), e.file = name, ~e.closed,
         NEW q \in Calls, q.at = "register", q.l = call[t].l, q.id = call[t].id, q.s = {s}, q.saw = {},
         ID(t) \notin DOMAIN active, files' = Put(files, name, <<>>), sess' = Put(sess, s, e),
         call' = [call EXCEPT ![t] = q], UNCHANGED <<clock, active, mu>>
  PROVE  Keeps
<1> DEFINE i == ID(t)
           l == LoggerOf(t)
<1>1. call[t] \in Calls /\ call \in [Threads -> Calls] /\ i \in SessionIDs /\ l \in Loggers
      /\ call[t].id = {i} /\ call[t].l = {l} /\ call[t].saw = {} /\ e.id = i /\ i \notin DOMAIN active
  BY CallIs DEF SessionsInv, TypeOK, Stage
<1> HIDE DEF i, l
<1>3. s = n + 1 /\ DOMAIN sess' = 1..s /\ s \notin DOMAIN sess /\ DOMAIN sess' = DOMAIN sess \cup {s}
  <2>1. DOMAIN sess' = DOMAIN sess \cup {s}
    BY DEF Put
  <2>2. \A r : r \in 1..s <=> r \in 1..n \/ r = s
    OBVIOUS
  <2>3. s \notin 1..n
    OBVIOUS
  <2> QED
    BY <2>1, <2>2, <2>3
<1>4. sess'[s] = e /\ \A r \in DOMAIN sess : sess'[r] = sess[r]
  BY <1>3 DEF Put
<1>5. Space' /\ s \in Sessions
  <2> DEFINE m == Cardinality(Starting)
             k == Cardinality(Starting')
  <2>1. q.at \notin {"start", "check"}
    OBVIOUS
  <2>2. t \in Starting /\ IsFiniteSet(Starting) /\ Starting' = Starting \ {t} /\ m \in Nat /\ k = m - 1
        /\ IsFiniteSet(Starting')
    BY <1>1, <2>1, StartingIs
  <2>3. k \in Nat
    BY <2>2, FS_CardinalityType
  <2>4. Cardinality(DOMAIN sess) = n /\ Cardinality(DOMAIN sess') = s
    BY <1>3, NumberedIs
  <2>5. n + m <= MaxSessions
    BY <2>4 DEF SessionsInv, Space
  <2> HIDE DEF m, k
  <2>6. s + k <= MaxSessions /\ s \in 1..MaxSessions
    BY <1>3, <2>2, <2>3, <2>5, BoundsAssumption
  <2> QED
    BY <2>4, <2>6 DEF Space, Sessions, k
<1>6. q \in Calls /\ q.at = "register" /\ q.l = {l} /\ q.id = {i} /\ q.s = {s} /\ q.saw = {}
  BY <1>1
<1>7. \A u \in Threads : call'[u] = IF u = t THEN q ELSE call[u]
  BY <1>1
<1>8. e \in Session /\ name \in FileName /\ e.id = i /\ e.file = name /\ ~e.closed
  BY <1>1
<1>9. /\ Range(active) \subseteq Known /\ Known \subseteq DOMAIN sess
      /\ \A u \in Threads : call[u].saw \subseteq Known /\ call[u].s \subseteq DOMAIN sess
  BY DEF SessionsInv, Private, Known, TypeOK, Stage
<1>10. Known' = Known
  <2>1. \A r : r \in Known' <=> r \in DOMAIN sess' /\ \A u \in Threads : call'[u].at = "register" => r \notin call'[u].s
    BY DEF Known, At
  <2>2. s \notin Known'
    <3>1. call'[t].at = "register" /\ s \in call'[t].s
      BY <1>6, <1>7
    <3> QED
      BY <2>1, <3>1
  <2>3. \A r \in DOMAIN sess : r \notin q.s
    BY <1>3, <1>6
  <2>4. \A r \in DOMAIN sess : r \in Known' <=> \A u \in Threads : call'[u].at = "register" => r \notin call'[u].s
    BY <1>3, <2>1
  <2>5. \A r \in DOMAIN sess : r \in Known' <=> r \in Known
    BY <1>7, <2>3, <2>4, KnownIs
  <2>6. \A r \in Known' : r \in DOMAIN sess
    BY <1>3, <2>1, <2>2
  <2> QED
    BY <1>9, <2>5, <2>6
<1>11. name \in DOMAIN files' /\ files'[name] = <<>> /\ DOMAIN files \subseteq DOMAIN files'
       /\ \A f \in DOMAIN files' : f = name \/ (f \in DOMAIN files /\ files'[f] = files[f])
  BY DEF Put
<1>12. TypeOK'
  <2>1. DOMAIN sess' \subseteq Sessions /\ \A r \in DOMAIN sess' : sess'[r] \in Session
    BY <1>3, <1>4, <1>5, <1>8 DEF SessionsInv, TypeOK
  <2>2. DOMAIN files' \subseteq FileName /\ \A f \in DOMAIN files' : files'[f] \in Seq(Line)
    <3>1. DOMAIN files \subseteq FileName /\ \A f \in DOMAIN files : files[f] \in Seq(Line)
      BY DEF SessionsInv, TypeOK
    <3>2. <<>> \in Seq(Line)
      BY EmptySeq
    <3> QED
      BY <1>8, <1>11, <3>1, <3>2
  <2>3. call' \in [Threads -> Calls]
    BY <1>1, <1>6
  <2> QED
    BY <2>1, <2>2, <2>3 DEF SessionsInv, TypeOK
<1>13. Numbered'
  BY <1>3 DEF Numbered
<1>14. Private'
  <2>1. active' = active
    OBVIOUS
  <2>2. \A u \in Threads : call'[u].saw \subseteq Known /\ (call'[u].at # "register" => call'[u].s \subseteq Known)
    BY <1>6, <1>7 DEF SessionsInv, Private
  <2>3. \A u, v \in Threads : u # v /\ call'[u].at = "register" /\ call'[v].at = "register" =>
          call'[u].s \cap call'[v].s = {}
    BY <1>3, <1>6, <1>7, <1>9 DEF SessionsInv, Private
  <2> QED
    BY <1>9, <1>10, <2>1, <2>2, <2>3 DEF Private
<1>15. Filed'
  <2>1. \A r \in DOMAIN sess : sess'[r].file \in DOMAIN files'
    BY <1>4, <1>11 DEF SessionsInv, Filed
  <2>2. sess'[s].file \in DOMAIN files'
    BY <1>4, <1>8, <1>11
  <2> QED
    BY <1>3, <2>1, <2>2 DEF Filed
<1>16. ASSUME NEW u \in Threads
       PROVE  Stage(u, call'[u], sess')
  <2>1. CASE u = t
    <3>1. call'[u] = q /\ s \in DOMAIN sess' /\ sess'[s].id = i /\ ~sess'[s].closed
      BY <1>3, <1>4, <1>7, <1>8, <2>1
    <3>2. Stage(t, q, sess')
      BY <1>1, <1>6, <3>1 DEF Stage
    <3> QED
      BY <2>1, <3>1, <3>2
  <2>2. CASE u # t
    <3>1. Stage(u, call[u], sess) /\ call'[u] = call[u] /\ call[u].s \subseteq DOMAIN sess
      BY <1>7, <1>9, <2>2 DEF SessionsInv
    <3>2. \A r \in call[u].s : sess'[r] = sess[r] /\ r \in DOMAIN sess'
      BY <1>3, <1>4, <3>1
    <3>3. Stage(u, call[u], sess')
      BY <3>1, <3>2 DEF Stage
    <3> QED
      BY <3>1, <3>3
  <2> QED
    BY <2>1, <2>2
<1>17. SessionsInv'
  <2>1. \A u \in Threads : Stage(u, call[u], sess)'
    BY <1>16 DEF Stage
  <2> QED
    BY <1>5, <1>12, <1>13, <1>14, <1>15, <2>1 DEF SessionsInv
<1>18. ASSUME OneLogger, RegistryInv
       PROVE  RegistryInv'
  <2>1. Watch(t, q, sess', active', mu')
    <3>1. \A k \in Loggers : mu[k] = {t}
      BY <1>18 DEF RegistryInv, Watch
    <3>2. mu' = mu /\ active' = active
      OBVIOUS
    <3> QED
      BY <1>1, <1>6, <3>1, <3>2 DEF Watch
  <2>2. \A r \in DOMAIN sess : sess'[r].id = sess[r].id /\ sess'[r].closed = sess[r].closed
    BY <1>4
  <2>3. DOMAIN sess \subseteq DOMAIN sess'
    BY <1>3
  <2> QED
    BY <1>6, <1>10, <1>18, <2>1, <2>2, <2>3, WatchKeeps
<1> QED
  BY <1>17, <1>18 DEF Keeps

\* A session that StartSession makes is of its type.
LEMMA MadeIs ==
  ASSUME NEW i \in SessionIDs, NEW l \in Loggers, NEW name \in FileName
  PROVE  \E e \in Session : /\ e = [id |-> i, logger |-> l, file |-> name, mu |-> {}, closed |-> FALSE]
                            /\ e.id = i /\ e.file = name /\ ~e.closed
<1> DEFINE e == [id |-> i, logger |-> l, file |-> name, mu |-> {}, closed |-> FALSE]
<1>1. e \in Session /\ e.id = i /\ e.file = name /\ ~e.closed
  BY DEF Session
<1> QED
  BY <1>1

\* StartSession makes its session where the ID is free, with the next number.
LEMMA StartCheckKeeps ==
  ASSUME SessionsInv, NEW t \in Threads, StartCheck(t)
  PROVE  Keeps
<1> DEFINE s == Cardinality(DOMAIN sess) + 1
           name == <<Service[LoggerOf(t)], ID(t), clock>>
           rec == [id |-> ID(t), logger |-> LoggerOf(t), file |-> name, mu |-> {}, closed |-> FALSE]
           q == [call[t] EXCEPT !.at = "register", !.s = {s}]
<1>0. call[t].at = "check"
  BY DEF StartCheck, At
<1>1. CASE Unlock(LoggerOf(t)) /\ Done(t) /\ UNCHANGED <<clock, active, sess, files>>
  BY <1>0, <1>1, StartFailKeeps
<1>2. CASE /\ ~Exists(ID(t))
           /\ files' = Put(files, name, <<>>)
           /\ sess' = Put(sess, s, rec)
           /\ call' = [call EXCEPT ![t].at = "register", ![t].s = {s}]
           /\ UNCHANGED <<clock, active, mu>>
  <2>1. call[t] \in Calls /\ call \in [Threads -> Calls] /\ ID(t) \in SessionIDs /\ LoggerOf(t) \in Loggers
        /\ call[t].saw = {} /\ clock \in 0..MaxSecond
    BY <1>0, CallIs DEF SessionsInv, TypeOK, Stage
  <2>2. PICK n \in Nat : DOMAIN sess = 1..n
    BY DEF SessionsInv, Numbered
  <2>3. s = n + 1 /\ s \in Sessions
    <3>1. Cardinality(DOMAIN sess) = n
      BY <2>2, NumberedIs
    <3>2. t \in Starting /\ IsFiniteSet(Starting)
      <4>1. Starting \subseteq Threads
        BY DEF Starting
      <4> QED
        BY <1>0, <4>1, FS_Subset, BoundsAssumption DEF Starting
    <3>3. Cardinality(Starting) \in Nat /\ Cardinality(Starting) # 0
      BY <3>2, FS_CardinalityType, FS_EmptySet
    <3>4. n + Cardinality(Starting) <= MaxSessions
      BY <3>1 DEF SessionsInv, Space
    <3>5. n + 1 \in 1..MaxSessions
      BY <3>3, <3>4, BoundsAssumption
    <3> QED
      BY <3>1, <3>5 DEF Sessions
  <2>4. call' = [call EXCEPT ![t] = q]
    BY <1>2, <2>1
  <2>5. name \in FileName
    BY <2>1 DEF FileName
  <2> HIDE DEF s, name
  <2>6. PICK e \in Session : e = rec /\ e.id = ID(t) /\ e.file = name /\ ~e.closed
    BY <2>1, <2>5, MadeIs
  <2>7. {s} \in SUBSET Sessions
    BY <2>3
  <2>8. q \in Calls /\ q.at = "register" /\ q.l = call[t].l /\ q.id = call[t].id /\ q.s = {s} /\ q.saw = {}
    BY <2>1, <2>7 DEF Calls
  <2>9. ID(t) \notin DOMAIN active /\ files' = Put(files, name, <<>>) /\ sess' = Put(sess, s, e)
        /\ UNCHANGED <<clock, active, mu>>
    BY <1>2, <2>6 DEF Exists
  <2> HIDE DEF q
  <2> QED
    BY <1>0, <2>2, <2>3, <2>4, <2>5, <2>6, <2>8, <2>9, StartMakeKeeps
<1>3. \/ Unlock(LoggerOf(t)) /\ Done(t) /\ UNCHANGED <<clock, active, sess, files>>
      \/ /\ ~Exists(ID(t))
         /\ files' = Put(files, name, <<>>)
         /\ sess' = Put(sess, s, rec)
         /\ call' = [call EXCEPT ![t].at = "register", ![t].s = {s}]
         /\ UNCHANGED <<clock, active, mu>>
  BY DEF StartCheck
<1> QED
  BY <1>1, <1>2, <1>3

\* StartSession registers its session, under an ID that is still free, and
\* anybody may have a pointer to it from now on.
LEMMA StartRegisterKeeps ==
  ASSUME SessionsInv, NEW t \in Threads, StartRegister(t)
  PROVE  Keeps
<1>. PICK s, i, l : s = S(t) /\ i = ID(t) /\ l = LoggerOf(t)
  OBVIOUS
<1>0. call[t].at = "register" /\ active' = Put(active, i, s)
      /\ Goto(t, "header") /\ UNCHANGED <<clock, mu, sess, files>>
  BY DEF StartRegister, At
<1>1. /\ call[t].s = {s} /\ s \in DOMAIN sess /\ s \in Sessions /\ call[t].saw = {}
      /\ call[t].id = {i} /\ i \in SessionIDs /\ call[t].l = {l} /\ l \in Loggers
      /\ sess[s].id = i /\ ~sess[s].closed
  BY <1>0, CallIs DEF SessionsInv, TypeOK, Stage
<1>2. call \in [Threads -> Calls] /\ active \in MapsOf(SessionIDs, Sessions)
      /\ mu \in [Loggers -> SUBSET Threads] /\ Stage(t, call[t], sess)
  BY <1>1 DEF SessionsInv, TypeOK
<1>4. PICK q \in Calls : /\ call' = [call EXCEPT ![t] = q]
                         /\ q.at = "header" /\ q.l = call[t].l /\ q.id = call[t].id /\ q.s = call[t].s
                         /\ q.todo = call[t].todo /\ q.saw = call[t].saw
  BY <1>0, GotoIs
<1>5. \A u \in Threads : call'[u] = IF u = t THEN q ELSE call[u]
  BY <1>2, <1>4
<1>6. s \notin Known /\ Known \subseteq DOMAIN sess /\ Range(active) \subseteq Known
      /\ \A u \in Threads : /\ call[u].saw \subseteq Known
                            /\ call[u].at # "register" => call[u].s \subseteq Known
                            /\ u # t /\ call[u].at = "register" => s \notin call[u].s
  BY <1>0, <1>1, KnownIs DEF SessionsInv, Private
<1>7. Known' = Known \cup {s}
  <2>1. \A r : r \in Known' <=> r \in DOMAIN sess /\ \A u \in Threads : call'[u].at = "register" => r \notin call'[u].s
    BY <1>0 DEF Known, At
  <2>2. s \in Known'
    BY <1>1, <1>4, <1>5, <1>6, <2>1
  <2>3. \A r : r # s => (r \in Known' <=> r \in Known)
    BY <1>0, <1>1, <1>4, <1>5, <2>1, KnownIs
  <2> QED
    BY <2>2, <2>3
<1>8. i \in DOMAIN active' /\ active'[i] = s /\ DOMAIN active' = DOMAIN active \cup {i}
      /\ \A j \in DOMAIN active : j # i => active'[j] = active[j]
  BY <1>0 DEF Put
<1>9. \A r : r \in Range(active') <=> \E j \in DOMAIN active' : active'[j] = r
  BY DEF Range
<1>10. Range(active') \subseteq Range(active) \cup {s}
  BY <1>8, <1>9, RangeIs
<1>12. TypeOK'
  <2>1. active' \in MapsOf(SessionIDs, Sessions)
    BY <1>0, <1>1, <1>2, PutType
  <2>2. call' \in [Threads -> Calls]
    BY <1>2, <1>4
  <2> QED
    BY <1>0, <2>1, <2>2 DEF SessionsInv, TypeOK
<1>13. Numbered'
  BY <1>0 DEF SessionsInv, Numbered
<1>14. Space'
  <2>1. Starting' = Starting \ {t} /\ t \notin Starting
    BY <1>0, <1>2, <1>4, StartingIs
  <2>2. Starting' = Starting /\ sess' = sess
    BY <1>0, <2>1
  <2> QED
    BY <2>2 DEF SessionsInv, Space
<1>15. Private'
  <2>1. Range(active') \subseteq Known'
    BY <1>6, <1>7, <1>10
  <2>2. \A u \in Threads : call'[u].saw \subseteq Known' /\ (call'[u].at # "register" => call'[u].s \subseteq Known')
    BY <1>1, <1>4, <1>5, <1>6, <1>7
  <2>3. \A u, v \in Threads : u # v /\ call'[u].at = "register" /\ call'[v].at = "register" =>
          call'[u].s \cap call'[v].s = {}
    BY <1>4, <1>5 DEF SessionsInv, Private
  <2> QED
    BY <2>1, <2>2, <2>3 DEF Private
<1>16. Filed'
  BY <1>0 DEF SessionsInv, Filed
<1>17. Stage(t, q, sess)
  BY <1>0, <1>1, <1>2, <1>4 DEF Stage
<1>18. SessionsInv'
  <2>1. \A u \in Threads : Stage(u, call'[u], sess')
    BY <1>0, <1>5, <1>17 DEF SessionsInv
  <2>2. \A u \in Threads : Stage(u, call[u], sess)'
    BY <2>1 DEF Stage
  <2> QED
    BY <1>12, <1>13, <1>14, <1>15, <1>16, <2>2 DEF SessionsInv
<1>19. ASSUME OneLogger, RegistryInv
       PROVE  RegistryInv'
  <2>1. mu[l] = {t} /\ i \notin DOMAIN active /\ sess' = sess
    BY <1>0, <1>1, <1>19 DEF RegistryInv, Watch
  <2>2. \A j \in DOMAIN active : active'[j] = active[j] /\ j # i
    BY <1>8, <2>1
  <2>3. Range(active) \subseteq Range(active')
    BY <1>8, <1>9, <2>2, RangeIs
  <2>4. Listed'
    <3>1. ASSUME NEW r \in Known', ~sess[r].closed
          PROVE  r \in Range(active')
      <4>1. CASE r = s
        BY <1>8, <1>9, <4>1
      <4>2. CASE r \in Known
        BY <1>19, <2>3, <3>1, <4>2 DEF RegistryInv, Listed
      <4> QED
        BY <1>7, <4>1, <4>2
    <3>2. ASSUME NEW j \in DOMAIN active'
          PROVE  sess[active'[j]].id = j /\ (sess[active'[j]].closed => Busy(active[j])' # {})
      <4>1. CASE j = i
        BY <1>1, <1>8, <4>1
      <4>2. CASE j # i
        <5>1. j \in DOMAIN active /\ active'[j] = active[j]
          BY <1>8, <3>2, <4>2
        <5>2. sess[active[j]].id = j /\ (sess[active[j]].closed => Busy(active[j]) # {})
          BY <1>19, <5>1 DEF RegistryInv, Listed
        <5>3. ASSUME sess[active[j]].closed
              PROVE  \E u \in Threads : call'[u].at \in {"endlock", "enddelete"} /\ call'[u].s = {active'[j]}
          <6>1. PICK u \in Threads : call[u].at \in {"endlock", "enddelete"} /\ call[u].s = {active[j]}
            BY <5>2, <5>3 DEF Busy
          <6> QED
            BY <1>0, <1>5, <5>1, <6>1
        <5>4. Busy(active[j])' = {u \in Threads : call'[u].at \in {"endlock", "enddelete"} /\ call'[u].s = {active'[j]}}
          BY DEF Busy
        <5> QED
          BY <5>1, <5>2, <5>3, <5>4
      <4> QED
        BY <4>1, <4>2
    <3> QED
      BY <2>1, <3>1, <3>2 DEF Listed
  <2>5. Watch(t, q, sess', active', mu')
    <3>1. \A k \in Loggers : mu'[k] = {t}
      BY <1>0, <1>19 DEF RegistryInv, Watch
    <3> QED
      BY <1>1, <1>4, <3>1 DEF Watch
  <2>6. ASSUME NEW u \in Threads, u # t
        PROVE  Watch(u, call[u], sess', active', mu')
    <3>1. Watch(u, call[u], sess, active, mu) /\ call[u].saw \subseteq Known
      BY <1>6, <1>19 DEF RegistryInv
    <3>2. call[u].at \notin {"check", "register", "header", "enddelete"}
      BY <1>1, <1>19, <2>1, <2>6, OneHolder
    <3>3. call[u].s \subseteq Known /\ s \notin call[u].s
      BY <1>6, <3>2
    <3>4. ASSUME call[u].at = "endlock", NEW r \in call[u].s
          PROVE  sess'[r].id \in DOMAIN active' /\ active'[sess'[r].id] = r
      BY <1>8, <2>1, <2>2, <3>1, <3>4 DEF Watch
    <3>5. call[u].at = "endinfo" => \A r \in call[u].s : r \notin Range(active')
      BY <1>10, <3>1, <3>3 DEF Watch
    <3>6. \A r \in call[u].saw : Gone(r, sess, active) => Gone(r, sess', active')
      BY <1>6, <1>10, <2>1, <3>1 DEF Gone
    <3>7. \A r \in call[u].saw : Gone(r, sess', active') \/ sess'[r].id \in call[u].todo \/ call[u].s = {r}
      BY <2>1, <3>1, <3>6 DEF Watch
    <3> QED
      BY <3>2, <3>4, <3>5, <3>7 DEF Watch
  <2>7. \A u \in Threads : Watch(u, call'[u], sess', active', mu')
    BY <1>5, <2>5, <2>6
  <2>8. \A u \in Threads : Watch(u, call[u], sess, active, mu)'
    BY <2>7 DEF Watch, Gone
  <2> QED
    BY <2>4, <2>8 DEF RegistryInv
<1> QED
  BY <1>18, <1>19 DEF Keeps

\* It writes the header, if nobody has closed the file, and lets go.
LEMMA StartHeaderKeeps ==
  ASSUME SessionsInv, NEW t \in Threads, StartHeader(t)
  PROVE  Keeps
<1> DEFINE s == S(t)
           l == LoggerOf(t)
<1>0. call[t].at = "header" /\ files' \in Header(s) /\ mu' = [mu EXCEPT ![l] = {}]
      /\ Goto(t, "startinfo") /\ UNCHANGED <<clock, active, sess>>
  BY DEF StartHeader, At, Unlock
<1>1. /\ call[t].s = {s} /\ s \in DOMAIN sess /\ l \in Loggers /\ call[t].saw = {}
      /\ call[t].s \subseteq Known /\ Stage(t, call[t], sess)
  BY <1>0, CallIs DEF SessionsInv, Stage, Private
<1> HIDE DEF s, l
<1>2. DOMAIN files' = DOMAIN files /\ \A f \in DOMAIN files : files'[f] \in Seq(Line)
  <2>1. files' = files \/ files' = Write(s, "started")
    BY <1>0 DEF Header
  <2> QED
    BY <1>1, <2>1, WriteIs DEF SessionsInv, TypeOK
<1>3. PICK q \in Calls : /\ call' = [call EXCEPT ![t] = q]
                         /\ q.at = "startinfo" /\ q.l = call[t].l /\ q.id = call[t].id /\ q.s = call[t].s
                         /\ q.todo = call[t].todo /\ q.saw = call[t].saw
  BY <1>0, GotoIs
<1>4. mu' \in [Loggers -> SUBSET Threads] /\ active \in MapsOf(SessionIDs, Sessions)
      /\ call \in [Threads -> Calls]
  BY <1>0 DEF SessionsInv, TypeOK
<1>5. sess' = sess /\ active' = active /\ clock' = clock
  BY <1>0
<1>6. Stage(t, q, sess')
  BY <1>0, <1>1, <1>3, <1>5 DEF Stage
<1>7. SessionsInv'
  <2>1. q.s \subseteq Known /\ q.saw \subseteq Known /\ q.at # "register" /\ q.at \notin {"start", "check"}
    BY <1>1, <1>3
  <2> QED
    BY <1>0, <1>2, <1>3, <1>4, <1>5, <1>6, <2>1, StepKeeps
<1>8. ASSUME OneLogger, RegistryInv
      PROVE  RegistryInv'
  <2>1. mu[l] \subseteq {t}
    BY <1>0, <1>1, <1>8 DEF RegistryInv, Watch
  <2>2. Watch(t, q, sess', active', mu')
    BY <1>1, <1>3 DEF Watch
  <2>3. Known' = Known
    BY <1>0, <1>3, <1>4, <1>5, KnownStays
  <2> QED
    BY <1>0, <1>1, <1>3, <1>5, <1>8, <2>1, <2>2, <2>3, WatchKeeps
<1> QED
  BY <1>7, <1>8 DEF Keeps

\* The clock goes on, or nothing happens.
LEMMA TickKeeps ==
  ASSUME SessionsInv, UNCHANGED <<active, mu, sess, files, call>>, clock' \in 0..MaxSecond
  PROVE  Keeps
<1>1. active' = active /\ mu' = mu /\ sess' = sess /\ files' = files /\ call' = call
  OBVIOUS
<1>2. Known' = Known /\ Starting' = Starting
  BY <1>1 DEF Known, Starting, At
<1>3. TypeOK' /\ Numbered' /\ Space' /\ Private'
  BY <1>1, <1>2 DEF SessionsInv, TypeOK, Numbered, Space, Private
<1>4. Filed'
  BY <1>1 DEF SessionsInv, Filed
<1>5. \A t \in Threads : Stage(t, call[t], sess)'
  BY <1>1 DEF SessionsInv, Stage
<1>6. RegistryInv => RegistryInv'
  <2>1. ASSUME Listed
        PROVE  Listed'
    <3>1. \A i \in DOMAIN active : Busy(active[i])' = Busy(active[i])
      BY <1>1 DEF Busy
    <3> QED
      BY <1>1, <1>2, <2>1, <3>1 DEF Listed
  <2>2. ASSUME NEW t \in Threads, Watch(t, call[t], sess, active, mu)
        PROVE  Watch(t, call[t], sess, active, mu)'
    BY <1>1, <2>2 DEF Watch, Gone
  <2> QED
    BY <2>1, <2>2 DEF RegistryInv
<1> QED
  BY <1>3, <1>4, <1>5, <1>6 DEF SessionsInv, Keeps

\* Every call and every step of it keeps what there is to keep.
LEMMA NextKeeps == SessionsInv /\ [Next]_vars => Keeps
<1> SUFFICES ASSUME SessionsInv, [Next]_vars PROVE Keeps
  OBVIOUS
<1>1. CASE Tick
  <2>1. clock \in 0..MaxSecond
    BY DEF SessionsInv, TypeOK
  <2>2. UNCHANGED <<active, mu, sess, files, call>> /\ clock' \in 0..MaxSecond
    BY <1>1, <2>1, BoundsAssumption DEF Tick
  <2> QED
    BY <2>2, TickKeeps
<1>2. CASE UNCHANGED vars
  <2>1. UNCHANGED <<active, mu, sess, files, call>> /\ clock' \in 0..MaxSecond
    BY <1>2 DEF vars, SessionsInv, TypeOK
  <2> QED
    BY <2>1, TickKeeps
<1>3. ASSUME NEW t \in Threads, Call(t)
      PROVE  Keeps
  <2>1. CASE \E l \in Loggers, i \in SessionIDs : StartSession(t, l, i)
    BY <2>1, StartSessionKeeps
  <2>2. CASE \E s \in DOMAIN sess : Log(t, s)
    BY <2>2, LogKeeps DEF Log, Reachable
  <2>3. CASE \E s \in DOMAIN sess : End(t, s)
    BY <2>3, LogKeeps DEF End, Reachable
  <2>4. CASE \E l \in Loggers : CloseAllSessions(t, l)
    BY <2>4, CloseAllSessionsKeeps
  <2> QED
    BY <1>3, <2>1, <2>2, <2>3, <2>4 DEF Call
<1>4. ASSUME NEW t \in Threads, LogWrite(t)
      PROVE  Keeps
  <2>1. CASE sess[S(t)].closed
    BY <1>4, <2>1, LogClosedKeeps DEF LogWrite, At
  <2>2. CASE ~sess[S(t)].closed
    BY <1>4, <2>2, LogOpenKeeps DEF LogWrite, At
  <2> QED
    BY <2>1, <2>2
<1>5. ASSUME NEW t \in Threads, EndClose(t)
      PROVE  Keeps
  <2>1. CASE sess[S(t)].closed
    BY <1>5, <2>1, EndClosedKeeps DEF EndClose, At
  <2>2. CASE ~sess[S(t)].closed
    BY <1>5, <2>2, EndOpenKeeps
  <2> QED
    BY <2>1, <2>2
<1>6. ASSUME NEW t \in Threads, Step(t)
      PROVE  Keeps
  BY <1>4, <1>5, <1>6, StartLockKeeps, StartCheckKeeps, StartRegisterKeeps, StartHeaderKeeps,
     StartInfoKeeps, LogEntryKeeps, EndLockKeeps, EndDeleteKeeps, EndInfoKeeps, SnapshotKeeps, CloseNextKeeps, CloseReturnKeeps DEF Step
<1> QED
  BY <1>1, <1>2, <1>3, <1>6 DEF Next

\* No session, and nobody at work on one.
LEMMA InitKeeps == Init => SessionsInv /\ RegistryInv
<1> SUFFICES ASSUME Init PROVE SessionsInv /\ RegistryInv
  OBVIOUS
<1>1. /\ clock = 0 /\ mu = [l \in Loggers |-> {}] /\ \A t \in Threads : call[t] = Idle
      /\ DOMAIN active = {} /\ DOMAIN sess = {} /\ DOMAIN files = {}
      /\ active \in MapsOf(SessionIDs, Sessions) /\ call = [t \in Threads |-> Idle]
  BY EmptyMapIs DEF Init
<1>2. Known = {} /\ Range(active) = {}
  BY <1>1 DEF Known, Range
<1>3. TypeOK
  BY <1>1, BoundsAssumption, IdleIs DEF TypeOK
<1>4. Numbered
  <2>1. DOMAIN sess = 1..0
    BY <1>1
  <2> QED
    BY <2>1 DEF Numbered
<1>5. Space
  <2>1. Starting = {}
    BY <1>1, IdleIs DEF Starting
  <2> QED
    BY <1>1, <2>1, FS_EmptySet, BoundsAssumption DEF Space
<1>6. Private /\ Filed
  BY <1>1, <1>2, IdleIs DEF Private, Filed
<1>7. Listed
  BY <1>1, <1>2 DEF Listed
<1>8. \A t \in Threads : Stage(t, call[t], sess) /\ Watch(t, call[t], sess, active, mu)
  BY <1>1, IdleIs
<1> QED
  BY <1>3, <1>4, <1>5, <1>6, <1>7, <1>8 DEF SessionsInv, RegistryInv

\* The invariant of any loggers holds throughout.
LEMMA SessionsHold == Spec => []SessionsInv
<1>1. Init => SessionsInv
  BY InitKeeps
<1>2. SessionsInv /\ [Next]_vars => SessionsInv'
  BY NextKeeps DEF Keeps
<1>3. Spec => Init /\ [][Next]_vars
  BY PTL DEF Spec
<1> QED
  BY <1>1, <1>2, <1>3, PTL

\* That of one logger, too.
LEMMA RegistryHolds ==
  ASSUME OneLogger
  PROVE  Spec => [](SessionsInv /\ RegistryInv)
<1>1. Init => SessionsInv /\ RegistryInv
  BY InitKeeps
<1>2. (SessionsInv /\ RegistryInv) /\ [Next]_vars => (SessionsInv /\ RegistryInv)'
  BY NextKeeps DEF Keeps
<1>3. Spec => Init /\ [][Next]_vars
  BY PTL DEF Spec
<1> QED
  BY <1>1, <1>2, <1>3, PTL

\* The registry, the sessions, their files and the calls keep their types.
THEOREM SessionsTypeCorrect == Spec => []TypeOK
<1>1. SessionsInv => TypeOK
  BY DEF SessionsInv
<1> QED
  BY <1>1, SessionsHold, PTL

-----------------------------------------------------------------------------
(* Sessions of loggers that share one mutex: the files.                     *)

\* The header of s is written.
Headed(s) == s \in Known /\ \A t \in Threads : call[t].at = "header" => s \notin call[t].s

\* A file that one session has is empty until the header is written and tells
\* the session's story from then on.
Told(s) == LET f == files[sess[s].file]
           IN  IF Headed(s)
               THEN f # <<>> /\ \A k \in DOMAIN f :
                      f[k] = <<s, IF k = 1 THEN "started"
                                  ELSE IF k = Len(f) /\ sess[s].closed THEN "ended" ELSE "line">>
               ELSE f = <<>>

\* Nobody else comes at a session before its header.
Untouched ==
  \A t \in Threads : call[t].at = "header" => \A s \in call[t].s :
    ~sess[s].closed /\ \A u \in Threads \ {t} : s \notin call[u].s

FilesInv == Untouched /\ \A s \in DOMAIN sess : Alone(s) => Told(s)

\* Who finds the mutex free finds every header written.
LEMMA AllHeaded ==
  ASSUME OneLogger, SessionsInv, RegistryInv, NEW l \in Loggers, Free(l), NEW t \in Threads
  PROVE  call[t].at # "header"
BY DEF RegistryInv, Watch, Free

\* Which headers are written does not depend on a thread that writes none.
LEMMA HeadedStays ==
  ASSUME NEW t \in Threads, NEW q, call' = [call EXCEPT ![t] = q], call \in [Threads -> Calls],
         call[t].at \notin {"register", "header"}, q.at \notin {"register", "header"},
         DOMAIN sess' = DOMAIN sess, NEW s
  PROVE  Headed(s)' <=> Headed(s)
<1>1. \A u \in Threads : call'[u] = IF u = t THEN q ELSE call[u]
  OBVIOUS
<1>2. Known' = Known
  BY KnownStays
<1>3. Headed(s)' <=> s \in Known' /\ \A u \in Threads : call'[u].at = "header" => s \notin call'[u].s
  BY DEF Headed
<1> QED
  BY <1>1, <1>2, <1>3 DEF Headed

\* A step of a thread that writes nothing and comes at no session whose header
\* is not written.
LEMMA QuietFiles ==
  ASSUME SessionsInv, FilesInv, NEW t \in Threads, NEW q, call' = [call EXCEPT ![t] = q],
         call[t].at \notin {"register", "header"}, q.at \notin {"register", "header"},
         q.s \subseteq call[t].s \/ \A u \in Threads : call[u].at = "header" => q.s \cap call[u].s = {},
         files' = files, DOMAIN sess' = DOMAIN sess,
         \A s \in DOMAIN sess : sess'[s].file = sess[s].file /\ sess'[s].closed = sess[s].closed
  PROVE  FilesInv'
<1>1. call \in [Threads -> Calls]
  BY DEF SessionsInv, TypeOK
<1>2. \A u \in Threads : call'[u] = IF u = t THEN q ELSE call[u]
  BY <1>1
<1>3. \A s : Headed(s)' <=> Headed(s)
  BY <1>1, HeadedStays
<1>4. Untouched'
  <2>1. ASSUME NEW u \in Threads, call'[u].at = "header", NEW s \in call'[u].s
        PROVE  ~sess'[s].closed /\ \A v \in Threads \ {u} : s \notin call'[v].s
    <3>1. u # t /\ call[u].at = "header" /\ s \in call[u].s
      BY <1>2, <2>1
    <3>2. s \in DOMAIN sess
      BY <3>1 DEF SessionsInv, Stage
    <3>3. ~sess[s].closed /\ \A v \in Threads \ {u} : s \notin call[v].s
      BY <3>1 DEF FilesInv, Untouched
    <3> QED
      BY <1>2, <3>1, <3>2, <3>3
  <2> QED
    BY <2>1 DEF Untouched
<1>5. ASSUME NEW s \in DOMAIN sess', Alone(s)'
      PROVE  Told(s)'
  <2>1. Told(s)
    BY <1>5 DEF FilesInv, Alone
  <2> QED
    BY <1>3, <1>5, <2>1 DEF Told
<1> QED
  BY <1>4, <1>5 DEF FilesInv

\* A call begins, and one of Log or End only with a session whose header is
\* written.
LEMMA CallFiles ==
  ASSUME OneLogger, SessionsInv, RegistryInv, FilesInv, NEW t \in Threads, Call(t)
  PROVE  FilesInv'
<1>1. ASSUME NEW q, Enter(t, q), UNCHANGED <<sess, files>>, q.at \notin {"register", "header"},
             \A u \in Threads : call[u].at = "header" => q.s \cap call[u].s = {}
      PROVE  FilesInv'
  <2>1. call[t].at = "idle" /\ call' = [call EXCEPT ![t] = q] /\ sess' = sess /\ files' = files
    BY <1>1 DEF Enter, At
  <2>3. DOMAIN sess' = DOMAIN sess
        /\ \A s \in DOMAIN sess : sess'[s].file = sess[s].file /\ sess'[s].closed = sess[s].closed
    BY <2>1
  <2> QED
    BY <1>1, <2>1, <2>3, QuietFiles
<1>2. CASE \E l \in Loggers, i \in SessionIDs : StartSession(t, l, i)
  <2>1. PICK l \in Loggers, i \in SessionIDs : StartSession(t, l, i)
    BY <1>2
  <2> DEFINE q == [Idle EXCEPT !.at = "start", !.l = {l}, !.id = {i}]
  <2>2. q.at = "start" /\ q.s = {}
    BY DEF Idle
  <2>3. Enter(t, q) /\ UNCHANGED <<sess, files>>
    BY <2>1 DEF StartSession
  <2> HIDE DEF q
  <2> QED
    BY <1>1, <2>2, <2>3
<1>3. ASSUME NEW s \in Reachable, NEW step \in {"log", "end"},
             Enter(t, [Idle EXCEPT !.at = step, !.s = {s}]), UNCHANGED <<sess, files>>
      PROVE  FilesInv'
  <2> DEFINE q == [Idle EXCEPT !.at = step, !.s = {s}]
  <2>1. q.at = step /\ q.s = {s}
    BY DEF Idle
  <2>2. Enter(t, q)
    BY <1>3
  <2> HIDE DEF q
  <2>3. ASSUME NEW u \in Threads, call[u].at = "header"
        PROVE  s \notin call[u].s
    <3>1. s \in call[u].s => \E l \in Loggers : Free(l)
      BY <1>3, <2>3 DEF Reachable, At
    <3> QED
      BY <2>3, <3>1, AllHeaded
  <2>4. \A u \in Threads : call[u].at = "header" => q.s \cap call[u].s = {}
    BY <2>1, <2>3
  <2> QED
    BY <1>1, <1>3, <2>1, <2>2, <2>4
<1>4. CASE \E s \in DOMAIN sess : Log(t, s) \/ End(t, s)
  BY <1>3, <1>4 DEF Log, End
<1>5. CASE \E l \in Loggers : CloseAllSessions(t, l)
  <2>1. PICK l \in Loggers : CloseAllSessions(t, l)
    BY <1>5
  <2> DEFINE q == [Idle EXCEPT !.at = "snapshot", !.l = {l}]
  <2>2. q.at = "snapshot" /\ q.s = {}
    BY DEF Idle
  <2>3. Enter(t, q) /\ UNCHANGED <<sess, files>>
    BY <2>1 DEF CloseAllSessions
  <2> HIDE DEF q
  <2> QED
    BY <1>1, <2>2, <2>3
<1> QED
  BY <1>2, <1>4, <1>5 DEF Call

\* A call on its way goes on, or is over.
LEMMA GoFiles ==
  ASSUME SessionsInv, FilesInv, NEW t \in Threads, call[t].at \notin {"register", "header"},
         Done(t) \/ Ended(t) \/ \E step \in {"check", "endlock", "enddelete", "endinfo"} : Goto(t, step),
         files' = files, DOMAIN sess' = DOMAIN sess,
         \A s \in DOMAIN sess : sess'[s].file = sess[s].file /\ sess'[s].closed = sess[s].closed
  PROVE  FilesInv'
<1>1. \E q : /\ call' = [call EXCEPT ![t] = q] /\ q.at \notin {"register", "header"}
             /\ q.s \subseteq call[t].s
  <2>1. CASE Done(t)
    BY <2>1, IdleIs DEF Done
  <2>2. CASE Ended(t)
    BY <2>2, EndedIs, IdleIs
  <2>3. CASE \E step \in {"check", "endlock", "enddelete", "endinfo"} : Goto(t, step)
    BY <2>3, GotoIs
  <2> QED
    BY <2>1, <2>2, <2>3
<1> QED
  BY <1>1, QuietFiles

\* Giving a session's mutex back changes nothing else of it.
LEMMA GivenIs ==
  ASSUME SessionsInv, NEW s \in DOMAIN sess, NEW m \in SUBSET Threads, sess' = [sess EXCEPT ![s].mu = m]
  PROVE  /\ DOMAIN sess' = DOMAIN sess
         /\ \A r \in DOMAIN sess : sess'[r].file = sess[r].file /\ sess'[r].closed = sess[r].closed
<1>1. sess[s] \in Session
  BY DEF SessionsInv, TypeOK
<1>2. PICK e \in Session : e = [sess[s] EXCEPT !.mu = m] /\ e.file = sess[s].file /\ e.closed = sess[s].closed
  BY <1>1, SessionIs
<1>3. sess' = [sess EXCEPT ![s] = e]
  BY <1>2
<1> QED
  BY <1>2, <1>3

\* CloseAllSessions looks up only while nobody writes a header.
LEMMA CloseFiles ==
  ASSUME OneLogger, SessionsInv, RegistryInv, FilesInv, NEW t \in Threads, Snapshot(t) \/ CloseNext(t)
  PROVE  FilesInv'
<1>1. call[t] \in Calls /\ call \in [Threads -> Calls]
  BY DEF SessionsInv, TypeOK
<1>2. call[t].at \in {"snapshot", "closeall"} /\ sess' = sess /\ files' = files
  BY DEF Snapshot, CloseNext, At
<1>3. \A u \in Threads : call[u].at # "header"
  <2>1. Stage(t, call[t], sess) /\ Free(LoggerOf(t))
    BY DEF SessionsInv, Snapshot, CloseNext
  <2>2. LoggerOf(t) \in Loggers
    BY <1>2, <2>1 DEF Stage, LoggerOf
  <2> QED
    BY <2>1, <2>2, AllHeaded
<1>4. \E q : call' = [call EXCEPT ![t] = q] /\ q.at \notin {"register", "header"}
  <2>1. CASE Done(t)
    BY <2>1, IdleIs DEF Done
  <2>2. CASE call' = [call EXCEPT ![t].at = "closeall", ![t].todo = DOMAIN active, ![t].saw = Range(active)]
    <3> DEFINE q == [call[t] EXCEPT !.at = "closeall", !.todo = DOMAIN active, !.saw = Range(active)]
    <3>1. q.at = "closeall"
      BY <1>1 DEF Calls
    <3>2. call' = [call EXCEPT ![t] = q]
      BY <1>1, <2>2
    <3> HIDE DEF q
    <3> QED
      BY <3>1, <3>2
  <2>3. CASE CloseNext(t)
    <3>1. PICK i \in call[t].todo :
            call' = [call EXCEPT ![t].todo = @ \ {i},
                                 ![t].at = IF i \in DOMAIN active THEN "end" ELSE @,
                                 ![t].s = {active[j] : j \in {i} \cap DOMAIN active}]
      BY <2>3 DEF CloseNext
    <3> DEFINE found == {active[j] : j \in {i} \cap DOMAIN active}
    <3> HIDE DEF found
    <3> DEFINE at == IF i \in DOMAIN active THEN "end" ELSE call[t].at
               q == [call[t] EXCEPT !.todo = @ \ {i}, !.at = at, !.s = found]
    <3>2. at \notin {"register", "header"}
      BY <1>2
    <3>3. call' = [call EXCEPT ![t] = q]
      BY <1>1, <3>1 DEF found
    <3> HIDE DEF at
    <3>4. q.at = at
      BY <1>1 DEF Calls
    <3> HIDE DEF q
    <3> QED
      BY <3>2, <3>3, <3>4
  <2> QED
    BY <2>1, <2>2, <2>3 DEF Snapshot
<1> QED
  BY <1>1, <1>2, <1>3, <1>4, QuietFiles

\* Nobody but the thread itself has the session it ends or logs to before its
\* header, and it has none: the header is written.
LEMMA HandHeaded ==
  ASSUME SessionsInv, FilesInv, NEW t \in Threads, call[t].at \in {"log", "end"}
  PROVE  Headed(S(t))
<1>1. call[t].s = {S(t)} /\ S(t) \in Known
  BY CallIs
<1>2. \A u \in Threads : call[u].at = "header" => S(t) \notin call[u].s
  BY <1>1 DEF FilesInv, Untouched
<1> QED
  BY <1>1, <1>2 DEF Headed

\* The story with one more line, which is the last of a closed session.
LEMMA StoryGrows ==
  ASSUME NEW f \in Seq(Line), NEW s, NEW what \in {"line", "ended"}, NEW g, g = Append(f, <<s, what>>),
         f # <<>>, \A k \in DOMAIN f : f[k] = <<s, IF k = 1 THEN "started" ELSE "line">>
  PROVE  g # <<>> /\ \A k \in DOMAIN g :
           g[k] = <<s, IF k = 1 THEN "started" ELSE IF k = Len(g) /\ what = "ended" THEN "ended" ELSE "line">>
<1>1. /\ Len(g) = Len(f) + 1 /\ g[Len(f) + 1] = <<s, what>> /\ DOMAIN g = 1..(Len(f) + 1)
      /\ DOMAIN f = 1..Len(f) /\ Len(f) \in Nat /\ \A k \in DOMAIN f : g[k] = f[k]
  OBVIOUS
<1>2. Len(f) # 0
  BY EmptySeq
<1>3. ASSUME NEW k \in DOMAIN g
      PROVE  g[k] = <<s, IF k = 1 THEN "started" ELSE IF k = Len(g) /\ what = "ended" THEN "ended" ELSE "line">>
  <2>1. CASE k = Len(f) + 1
    BY <1>1, <1>2, <2>1
  <2>2. CASE k # Len(f) + 1
    <3>1. k \in DOMAIN f /\ k # Len(g)
      BY <1>1, <1>3, <2>2
    <3> QED
      BY <1>1, <3>1
  <2> QED
    BY <2>1, <2>2
<1>4. g # <<>>
  BY <1>1
<1> QED
  BY <1>3, <1>4

\* Log and End add their line to the file of a session that is open.
LEMMA WriteFiles ==
  ASSUME SessionsInv, FilesInv, NEW t \in Threads, call[t].at \in {"log", "end"}, ~sess[S(t)].closed,
         NEW what \in {"line", "ended"}, files' = Write(S(t), what),
         NEW step \in {"logentry", "endlock"}, Goto(t, step),
         NEW e \in Session, sess' = [sess EXCEPT ![S(t)] = e],
         e.file = sess[S(t)].file, e.closed <=> what = "ended"
  PROVE  FilesInv'
<1>. PICK s : s = S(t)
  OBVIOUS
<1>1. call[t].s = {s} /\ s \in DOMAIN sess /\ Headed(s) /\ ~sess[s].closed
  BY CallIs, HandHeaded
<1>2. /\ DOMAIN files' = DOMAIN files /\ files'[sess[s].file] = Append(files[sess[s].file], <<s, what>>)
      /\ \A f \in DOMAIN files : f # sess[s].file => files'[f] = files[f]
  BY <1>1, WriteIs
<1>3. DOMAIN sess' = DOMAIN sess /\ sess'[s] = e /\ \A r \in DOMAIN sess : r # s => sess'[r] = sess[r]
  BY <1>1
<1>4. e.file = sess[s].file /\ (e.closed <=> what = "ended")
  OBVIOUS
<1>5. PICK q \in Calls : call' = [call EXCEPT ![t] = q] /\ q.at = step /\ q.s = call[t].s
  BY GotoIs
<1>6. call \in [Threads -> Calls] /\ \A r \in DOMAIN sess : sess[r].file \in DOMAIN files
      /\ \A f \in DOMAIN files : files[f] \in Seq(Line)
  BY DEF SessionsInv, TypeOK, Filed
<1>7. \A u \in Threads : call'[u] = IF u = t THEN q ELSE call[u]
  BY <1>5, <1>6
<1>8. \A r : Headed(r)' <=> Headed(r)
  <2>1. call[t].at \notin {"register", "header"} /\ q.at \notin {"register", "header"}
    BY <1>5
  <2> QED
    BY <1>3, <1>5, <1>6, <2>1, HeadedStays
<1>9. Untouched'
  <2>1. ASSUME NEW u \in Threads, call'[u].at = "header", NEW r \in call'[u].s
        PROVE  ~sess'[r].closed /\ \A v \in Threads \ {u} : r \notin call'[v].s
    <3>1. u # t /\ call[u].at = "header" /\ r \in call[u].s
      BY <1>5, <1>7, <2>1
    <3>2. ~sess[r].closed /\ \A v \in Threads \ {u} : r \notin call[v].s
      BY <3>1 DEF FilesInv, Untouched
    <3>3. r # s /\ r \in DOMAIN sess
      BY <1>1, <3>1, <3>2 DEF SessionsInv, Stage
    <3> QED
      BY <1>3, <1>5, <1>7, <3>2, <3>3
  <2> QED
    BY <2>1 DEF Untouched
<1>10. ASSUME NEW r \in DOMAIN sess, Alone(r)'
       PROVE  Told(r)'
  <2>1. Alone(r) /\ Told(r)
    BY <1>3, <1>4, <1>10 DEF FilesInv, Alone
  <2>2. CASE r = s
    <3> DEFINE f == files[sess[s].file]
               g == Append(f, <<s, what>>)
    <3>1. f \in Seq(Line) /\ f # <<>> /\ \A k \in DOMAIN f : f[k] = <<s, IF k = 1 THEN "started" ELSE "line">>
      BY <1>1, <1>6, <2>1, <2>2 DEF Told
    <3>2. files'[sess'[s].file] = g
      BY <1>2, <1>3, <1>4
    <3>3. g = Append(f, <<s, what>>)
      OBVIOUS
    <3> HIDE DEF f, g
    <3>4. g # <<>> /\ \A k \in DOMAIN g :
            g[k] = <<s, IF k = 1 THEN "started" ELSE IF k = Len(g) /\ what = "ended" THEN "ended" ELSE "line">>
      BY <3>1, <3>3, StoryGrows
    <3>5. sess'[s].closed <=> what = "ended"
      BY <1>3, <1>4
    <3>6. Headed(s)'
      BY <1>1, <1>8
    <3> QED
      BY <2>2, <3>2, <3>4, <3>5, <3>6 DEF Told
  <2>3. CASE r # s
    <3>1. sess[r].file # sess[s].file
      BY <1>1, <2>1, <2>3 DEF Alone
    <3>2. files'[sess'[r].file] = files[sess[r].file] /\ sess'[r] = sess[r]
      BY <1>2, <1>3, <1>6, <2>3, <3>1
    <3> QED
      BY <1>8, <2>1, <3>2 DEF Told
  <2> QED
    BY <2>2, <2>3
<1> QED
  BY <1>3, <1>9, <1>10 DEF FilesInv

\* A new session has an empty file and no header; no other session that has a
\* file to itself had this one.
LEMMA MakeFiles ==
  ASSUME SessionsInv, FilesInv, NEW t \in Threads, call[t].at = "check",
         NEW s, s \notin DOMAIN sess, NEW e, sess' = Put(sess, s, e), files' = Put(files, e.file, <<>>),
         NEW q, call' = [call EXCEPT ![t] = q], q.at = "register", q.s = {s}
  PROVE  FilesInv'
<1>1. call \in [Threads -> Calls] /\ \A u \in Threads : call'[u] = IF u = t THEN q ELSE call[u]
  BY DEF SessionsInv, TypeOK
<1>2. DOMAIN sess' = DOMAIN sess \cup {s} /\ sess'[s] = e /\ \A r \in DOMAIN sess : sess'[r] = sess[r]
  BY DEF Put
<1>3. files'[e.file] = <<>> /\ \A f \in DOMAIN files : f # e.file => files'[f] = files[f]
  BY DEF Put
<1>4. \A r \in DOMAIN sess : Headed(r)' <=> Headed(r)
  <2>1. \A r : Headed(r)' <=> /\ r \in DOMAIN sess'
                              /\ \A u \in Threads : call'[u].at \in {"register", "header"} => r \notin call'[u].s
    BY DEF Headed, Known, At
  <2>2. \A r : Headed(r) <=> /\ r \in DOMAIN sess
                             /\ \A u \in Threads : call[u].at \in {"register", "header"} => r \notin call[u].s
    BY DEF Headed, Known, At
  <2> QED
    BY <1>1, <1>2, <2>1, <2>2
<1>5. ~Headed(s)'
  <2>1. Known' = DOMAIN sess' \ UNION {call'[u].s : u \in {v \in Threads : call'[v].at = "register"}}
    BY DEF Known, At
  <2>2. s \notin Known'
    BY <1>1, <2>1
  <2> QED
    BY <2>2 DEF Headed
<1>6. Untouched'
  <2>1. ASSUME NEW u \in Threads, call'[u].at = "header", NEW r \in call'[u].s
        PROVE  ~sess'[r].closed /\ \A v \in Threads \ {u} : r \notin call'[v].s
    <3>1. u # t /\ call[u].at = "header" /\ r \in call[u].s
      BY <1>1, <2>1
    <3>2. ~sess[r].closed /\ \A v \in Threads \ {u} : r \notin call[v].s
      BY <3>1 DEF FilesInv, Untouched
    <3>3. r \in DOMAIN sess
      BY <3>1 DEF SessionsInv, Stage
    <3> QED
      BY <1>1, <1>2, <3>2, <3>3
  <2> QED
    BY <2>1 DEF Untouched
<1>7. ASSUME NEW r \in DOMAIN sess', Alone(r)'
      PROVE  Told(r)'
  <2>1. CASE r = s
    BY <1>2, <1>3, <1>5, <2>1 DEF Told
  <2>2. CASE r # s
    <3>1. r \in DOMAIN sess /\ sess'[r] = sess[r]
      BY <1>2, <2>2
    <3>2. \A x \in DOMAIN sess' : sess'[x].file = sess'[r].file => x = r
      BY <1>7 DEF Alone
    <3>3. sess[r].file # e.file /\ Alone(r)
      BY <1>2, <2>2, <3>1, <3>2 DEF Alone
    <3>4. Told(r) /\ sess[r].file \in DOMAIN files
      BY <3>1, <3>3 DEF FilesInv, SessionsInv, Filed
    <3>5. files'[sess'[r].file] = files[sess[r].file]
      BY <1>3, <3>1, <3>3, <3>4
    <3> QED
      BY <1>4, <3>1, <3>4, <3>5 DEF Told
  <2> QED
    BY <2>1, <2>2
<1> QED
  BY <1>6, <1>7 DEF FilesInv

\* A session that is registered has no header yet, and nobody else comes at it
\* in that step.
LEMMA RegisterFiles ==
  ASSUME SessionsInv, FilesInv, NEW t \in Threads, StartRegister(t)
  PROVE  FilesInv'
<1>1. call[t].at = "register" /\ Goto(t, "header") /\ sess' = sess /\ files' = files
  BY DEF StartRegister, At
<1>2. PICK q \in Calls : call' = [call EXCEPT ![t] = q] /\ q.at = "header" /\ q.s = call[t].s
  BY <1>1, GotoIs
<1>3. call \in [Threads -> Calls] /\ \A u \in Threads : call'[u] = IF u = t THEN q ELSE call[u]
  BY <1>2 DEF SessionsInv, TypeOK
<1>4. \A r : Headed(r)' <=> Headed(r)
  <2>1. \A r : Headed(r)' <=> /\ r \in DOMAIN sess'
                              /\ \A u \in Threads : call'[u].at \in {"register", "header"} => r \notin call'[u].s
    BY DEF Headed, Known, At
  <2>2. \A r : Headed(r) <=> /\ r \in DOMAIN sess
                             /\ \A u \in Threads : call[u].at \in {"register", "header"} => r \notin call[u].s
    BY DEF Headed, Known, At
  <2> QED
    BY <1>1, <1>2, <1>3, <2>1, <2>2
<1>5. Untouched'
  <2>1. ASSUME NEW u \in Threads, call'[u].at = "header", NEW r \in call'[u].s
        PROVE  ~sess'[r].closed /\ \A v \in Threads \ {u} : r \notin call'[v].s
    <3>1. r \in call[u].s /\ \A v \in Threads : call'[v].s = call[v].s
      BY <1>2, <1>3, <2>1
    <3>2. CASE u = t
      <4>1. r \notin Known /\ ~sess[r].closed
        BY <1>1, <3>1, <3>2, KnownIs DEF SessionsInv, Stage
      <4>2. ASSUME NEW v \in Threads \ {u}
            PROVE  r \notin call[v].s
        BY <1>1, <3>1, <3>2, <4>1 DEF SessionsInv, Private
      <4> QED
        BY <1>1, <3>1, <4>1, <4>2
    <3>3. CASE u # t
      BY <1>1, <1>3, <2>1, <3>1, <3>3 DEF FilesInv, Untouched
    <3> QED
      BY <3>2, <3>3
  <2> QED
    BY <2>1 DEF Untouched
<1>6. \A r \in DOMAIN sess' : Alone(r)' => Told(r)'
  BY <1>1, <1>4 DEF FilesInv, Alone, Told
<1> QED
  BY <1>5, <1>6 DEF FilesInv

\* The header is the first line of a file nobody has closed.
LEMMA HeaderFiles ==
  ASSUME SessionsInv, FilesInv, NEW t \in Threads, StartHeader(t)
  PROVE  FilesInv'
<1>. PICK s : s = S(t)
  OBVIOUS
<1>1. call[t].at = "header" /\ files' \in Header(s) /\ Goto(t, "startinfo") /\ sess' = sess
  BY DEF StartHeader, At
<1>2. call[t].s = {s} /\ s \in DOMAIN sess /\ s \in Known
  BY <1>1, CallIs
<1>3. ~sess[s].closed /\ ~Headed(s) /\ \A u \in Threads \ {t} : s \notin call[u].s
  BY <1>1, <1>2 DEF FilesInv, Untouched, Headed
<1>4. files' = Write(s, "started")
  BY <1>1, <1>3 DEF Header
<1>5. /\ files'[sess[s].file] = Append(files[sess[s].file], <<s, "started">>)
      /\ \A f \in DOMAIN files : f # sess[s].file => files'[f] = files[f]
  BY <1>2, <1>4, WriteIs
<1>6. PICK q \in Calls : call' = [call EXCEPT ![t] = q] /\ q.at = "startinfo" /\ q.s = call[t].s
  BY <1>1, GotoIs
<1>7. call \in [Threads -> Calls] /\ \A u \in Threads : call'[u] = IF u = t THEN q ELSE call[u]
  BY <1>6 DEF SessionsInv, TypeOK
<1>8. \A r \in DOMAIN sess : Headed(r)' <=> Headed(r) \/ r = s
  <2>1. \A r : Headed(r)' <=> /\ r \in DOMAIN sess'
                              /\ \A u \in Threads : call'[u].at \in {"register", "header"} => r \notin call'[u].s
    BY DEF Headed, Known, At
  <2>2. \A r : Headed(r) <=> /\ r \in DOMAIN sess
                             /\ \A u \in Threads : call[u].at \in {"register", "header"} => r \notin call[u].s
    BY DEF Headed, Known, At
  <2> QED
    BY <1>1, <1>2, <1>3, <1>6, <1>7, <2>1, <2>2
<1>9. Untouched'
  <2>1. ASSUME NEW u \in Threads, call'[u].at = "header", NEW r \in call'[u].s
        PROVE  ~sess'[r].closed /\ \A v \in Threads \ {u} : r \notin call'[v].s
    <3>1. call[u].at = "header" /\ r \in call[u].s /\ \A v \in Threads : call'[v].s = call[v].s
      BY <1>6, <1>7, <2>1
    <3> QED
      BY <1>1, <3>1 DEF FilesInv, Untouched
  <2> QED
    BY <2>1 DEF Untouched
<1>10. ASSUME NEW r \in DOMAIN sess, Alone(r)
       PROVE  Told(r)'
  <2>1. Told(r)
    BY <1>10 DEF FilesInv
  <2>2. CASE r = s
    <3>1. files[sess[s].file] = <<>>
      BY <1>3, <2>1, <2>2 DEF Told
    <3> DEFINE f == <<<<s, "started">>>>
    <3>2. files'[sess'[s].file] = f
      BY <1>1, <1>5, <3>1
    <3>3. f # <<>> /\ \A k \in DOMAIN f : k = 1 /\ f[k] = <<s, "started">>
      OBVIOUS
    <3> HIDE DEF f
    <3>4. Headed(s)'
      BY <1>2, <1>8
    <3> QED
      BY <2>2, <3>2, <3>3, <3>4 DEF Told
  <2>3. CASE r # s
    <3>1. sess[r].file \in DOMAIN files /\ sess[r].file # sess[s].file
      BY <1>2, <1>10, <2>3 DEF Alone, SessionsInv, Filed
    <3>2. files'[sess'[r].file] = files[sess[r].file]
      BY <1>1, <1>5, <3>1
    <3> QED
      BY <1>1, <1>8, <2>1, <2>3, <3>2 DEF Told
  <2> QED
    BY <2>2, <2>3
<1>11. \A r \in DOMAIN sess : Alone(r)' => Alone(r)
  BY <1>1 DEF Alone
<1> QED
  BY <1>1, <1>9, <1>10, <1>11 DEF FilesInv

\* Every call and every step of it keeps the files.
LEMMA NextFiles ==
  ASSUME OneLogger, SessionsInv, RegistryInv, FilesInv, [Next]_vars
  PROVE  FilesInv'
<1>1. CASE Tick \/ UNCHANGED vars
  <2>1. sess' = sess /\ files' = files /\ call' = call
    BY <1>1 DEF Tick, vars
  <2>2. \A s : Headed(s)' <=> Headed(s)
    BY <2>1 DEF Headed, Known, At
  <2>3. Untouched'
    BY <2>1 DEF FilesInv, Untouched
  <2>4. \A s \in DOMAIN sess' : Alone(s)' => Told(s)'
    BY <2>1, <2>2 DEF FilesInv, Alone, Told
  <2> QED
    BY <2>3, <2>4 DEF FilesInv
<1>2. ASSUME NEW t \in Threads, StartCheck(t)
      PROVE  FilesInv'
  <2>1. call[t] \in Calls /\ call \in [Threads -> Calls] /\ call[t].at = "check"
    BY <1>2 DEF SessionsInv, TypeOK, StartCheck, At
  <2>2. CASE Done(t) /\ UNCHANGED <<sess, files>>
    BY <2>1, <2>2, GoFiles
  <2> DEFINE s == Cardinality(DOMAIN sess) + 1
             e == [id |-> ID(t), logger |-> LoggerOf(t), file |-> <<Service[LoggerOf(t)], ID(t), clock>>,
                   mu |-> {}, closed |-> FALSE]
             q == [call[t] EXCEPT !.at = "register", !.s = {s}]
  <2>3. \/ Done(t) /\ UNCHANGED <<sess, files>>
        \/ /\ files' = Put(files, e.file, <<>>) /\ sess' = Put(sess, s, e)
           /\ call' = [call EXCEPT ![t].at = "register", ![t].s = {s}]
    BY <1>2 DEF StartCheck
  <2>4. q.at = "register" /\ q.s = {s}
    BY <2>1 DEF Calls
  <2>5. s \notin DOMAIN sess
    <3>1. PICK n \in Nat : DOMAIN sess = 1..n
      BY DEF SessionsInv, Numbered
    <3>2. s = n + 1
      BY <3>1, NumberedIs
    <3> QED
      BY <3>1, <3>2
  <2>6. CASE /\ files' = Put(files, e.file, <<>>) /\ sess' = Put(sess, s, e)
             /\ call' = [call EXCEPT ![t].at = "register", ![t].s = {s}]
    <3>1. call' = [call EXCEPT ![t] = q]
      BY <2>1, <2>6
    <3> HIDE DEF s, e, q
    <3> QED
      BY <2>1, <2>4, <2>5, <2>6, <3>1, MakeFiles
  <2> QED
    BY <2>2, <2>3, <2>6
<1>3. ASSUME NEW t \in Threads, LogWrite(t) \/ EndClose(t)
      PROVE  FilesInv'
  <2>1. call[t].at \in {"log", "end"}
    BY <1>3 DEF LogWrite, EndClose, At
  <2>2. CASE sess[S(t)].closed
    BY <1>3, <2>1, <2>2, GoFiles DEF LogWrite, EndClose
  <2>3. CASE ~sess[S(t)].closed
    <3> DEFINE s == S(t)
               e == [sess[s] EXCEPT !.mu = {t}]
               f == [sess[s] EXCEPT !.closed = TRUE, !.mu = {t}]
    <3>1. s \in DOMAIN sess /\ sess[s] \in Session /\ {t} \in SUBSET Threads
      BY <2>1, CallIs DEF SessionsInv, TypeOK
    <3>2. e \in Session /\ e.file = sess[s].file /\ ~e.closed
      BY <2>3, <3>1 DEF Session
    <3>3. f \in Session /\ f.file = sess[s].file /\ f.closed
      BY <3>1 DEF Session
    <3>4. \/ sess' = [sess EXCEPT ![s] = e] /\ files' = Write(s, "line") /\ Goto(t, "logentry")
          \/ sess' = [sess EXCEPT ![s] = f] /\ files' = Write(s, "ended") /\ Goto(t, "endlock")
      BY <1>3, <2>3 DEF LogWrite, EndClose
    <3> HIDE DEF e, f
    <3> QED
      BY <2>1, <2>3, <3>2, <3>3, <3>4, WriteFiles
  <2> QED
    BY <2>2, <2>3
<1>4. ASSUME NEW t \in Threads, LogEntry(t) \/ EndInfo(t)
      PROVE  FilesInv'
  <2>1. call[t].at \in {"logentry", "endinfo"} /\ (Done(t) \/ Ended(t)) /\ files' = files
        /\ sess' = [sess EXCEPT ![S(t)].mu = {}]
    BY <1>4 DEF LogEntry, EndInfo, At
  <2>2. S(t) \in DOMAIN sess /\ {} \in SUBSET Threads
    BY <2>1, CallIs
  <2> QED
    BY <2>1, <2>2, GivenIs, GoFiles
<1>5. ASSUME NEW t \in Threads,
             StartLock(t) \/ StartInfo(t) \/ EndLock(t) \/ EndDelete(t) \/ CloseReturn(t)
      PROVE  FilesInv'
  <2>1. /\ call[t].at \in {"start", "startinfo", "endlock", "enddelete", "closeall"}
        /\ Done(t) \/ \E step \in {"check", "enddelete", "endinfo"} : Goto(t, step)
        /\ sess' = sess /\ files' = files
    BY <1>5 DEF StartLock, StartInfo, EndLock, EndDelete, CloseReturn, At
  <2> QED
    BY <2>1, GoFiles
<1>6. ASSUME NEW t \in Threads, Step(t)
      PROVE  FilesInv'
  BY <1>2, <1>3, <1>4, <1>5, <1>6, RegisterFiles, HeaderFiles, CloseFiles DEF Step
<1> QED
  BY <1>1, <1>6, CallFiles DEF Next

\* Where the registry has one mutex, however many threads and sessions, and
\* however their calls overlap, a file that one session has holds its start,
\* its lines and, if and only if it is closed, its end.  A logger from
\* ForService can end a session before its header is written.
THEOREM TheFileComplete ==
  ASSUME OneLogger
  PROVE  Spec => []FileComplete
<1>1. Init => SessionsInv /\ RegistryInv /\ FilesInv
  <2>1. ASSUME Init
        PROVE  FilesInv
    <3>1. DOMAIN sess = {} /\ \A t \in Threads : call[t] = Idle
      BY <2>1, EmptyMapIs DEF Init
    <3> QED
      BY <3>1, IdleIs DEF FilesInv, Untouched
  <2> QED
    BY <2>1, InitKeeps
<1>2. (SessionsInv /\ RegistryInv /\ FilesInv) /\ [Next]_vars => (SessionsInv /\ RegistryInv /\ FilesInv)'
  BY NextKeeps, NextFiles DEF Keeps
<1>3. ASSUME SessionsInv, FilesInv
      PROVE  FileComplete
  <2> SUFFICES ASSUME NEW s \in Known, Alone(s)
               PROVE  LET f == files[sess[s].file]
                      IN  \A k \in DOMAIN f :
                            f[k] = <<s, IF k = 1 THEN "started"
                                        ELSE IF k = Len(f) /\ sess[s].closed THEN "ended" ELSE "line">>
    BY DEF FileComplete
  <2>1. Told(s)
    BY <1>3 DEF Known, FilesInv
  <2>2. files[sess[s].file] = <<>> => DOMAIN files[sess[s].file] = {}
    OBVIOUS
  <2> QED
    BY <2>1, <2>2 DEF Told
<1>4. Spec => Init /\ [][Next]_vars
  BY PTL DEF Spec
<1> QED
  BY <1>1, <1>2, <1>3, <1>4, PTL

\* Where the registry has one mutex, it holds every open session under its ID,
\* and of the others only those that are being ended.
THEOREM TheRegistryExact ==
  ASSUME OneLogger
  PROVE  Spec => []RegistryExact
<1>1. SessionsInv /\ RegistryInv => RegistryExact
  BY RangeIs DEF RegistryInv, Listed, RegistryExact, Open
<1> QED
  BY <1>1, RegistryHolds, PTL

\* There CloseAllSessions leaves none of the sessions it saw open or in the
\* registry, whoever else was ending them.
THEOREM TheCloseAllEnds ==
  ASSUME OneLogger
  PROVE  Spec => []CloseAllEnds
<1>1. SessionsInv /\ RegistryInv => CloseAllEnds
  <2> SUFFICES ASSUME SessionsInv, RegistryInv, NEW t \in Threads, call[t].at = "closeall", call[t].todo = {},
                      NEW s \in call[t].saw
               PROVE  sess[s].closed /\ s \notin Range(active)
    BY DEF CloseAllEnds, At
  <2>1. call[t].s = {}
    BY DEF SessionsInv, Stage
  <2>2. Gone(s, sess, active)
    BY <2>1 DEF RegistryInv, Watch
  <2> QED
    BY <2>2 DEF Gone
<1> QED
  BY <1>1, RegistryHolds, PTL

\* There the registry is guarded as the package promises, too; with a logger
\* from ForService it is not (MCLoggerChildren).
THEOREM TheMapGuarded ==
  ASSUME OneLogger
  PROVE  Spec => []MapGuarded
<1>1. SessionsInv /\ RegistryInv => MapGuarded
  <2> SUFFICES ASSUME SessionsInv, RegistryInv, NEW t \in Threads, NEW u \in Threads,
                      call[t].at \in {"check", "register", "enddelete"},
                      call[u].at \in {"check", "register", "enddelete"}
               PROVE  t = u
    BY DEF MapGuarded
  <2>1. \E l \in Loggers : TRUE
    BY CallIs DEF SessionsInv, TypeOK, Session
  <2>2. \A l \in Loggers : mu[l] = {t} /\ mu[l] = {u}
    BY DEF RegistryInv, Watch
  <2> QED
    BY <2>1, <2>2
<1> QED
  BY <1>1, RegistryHolds, PTL

-----------------------------------------------------------------------------
(* Locks, with any number of loggers.                                       *)

\* Whose call is r has Logger.mu of l where it works on the registry, and
\* Session.mu of s from finding it open to the end of the call.
LoggerHeld(l, r, se) ==
  \/ r.at \in {"check", "register", "header"} /\ r.l = {l}
  \/ r.at = "enddelete" /\ \E s \in DOMAIN se : r.s = {s} /\ se[s].logger = l
SessionHeld(s, r) == r.at \in {"logentry", "endlock", "enddelete", "endinfo"} /\ r.s = {s}

\* Nobody else has a mutex, and none stays with a call that is past needing it.
Holders ==
  /\ \A l \in Loggers : \A u \in mu[l] : LoggerHeld(l, call[u], sess)
  /\ \A s \in DOMAIN sess : \A u \in sess[s].mu : SessionHeld(s, call[u])

\* A step of thread t, which takes and gives back for itself only.
LEMMA HoldersKeep ==
  ASSUME SessionsInv, Holders, NEW t \in Threads, \A u \in Threads \ {t} : call'[u] = call[u],
         \A s \in DOMAIN sess : s \in DOMAIN sess' /\ sess'[s].logger = sess[s].logger,
         \A l \in Loggers : \A u \in mu'[l] :
           (u # t /\ u \in mu[l]) \/ (u = t /\ LoggerHeld(l, call'[t], sess')),
         \A s \in DOMAIN sess' : \A u \in sess'[s].mu :
           (u # t /\ s \in DOMAIN sess /\ u \in sess[s].mu) \/ (u = t /\ SessionHeld(s, call'[t]))
  PROVE  Holders'
<1>1. mu \in [Loggers -> SUBSET Threads] /\ \A s \in DOMAIN sess : sess[s].mu \subseteq Threads
  BY DEF SessionsInv, TypeOK, Session
<1>2. ASSUME NEW l \in Loggers, NEW u \in mu'[l]
      PROVE  LoggerHeld(l, call'[u], sess')
  <2>1. CASE u # t
    <3>1. u \in mu[l] /\ call'[u] = call[u]
      BY <1>1, <1>2, <2>1
    <3>2. LoggerHeld(l, call[u], sess)
      BY <3>1 DEF Holders
    <3> QED
      BY <3>1, <3>2 DEF LoggerHeld
  <2>2. CASE u = t
    BY <1>2, <2>2
  <2> QED
    BY <2>1, <2>2
<1>3. ASSUME NEW s \in DOMAIN sess', NEW u \in sess'[s].mu
      PROVE  SessionHeld(s, call'[u])
  <2>1. CASE u # t
    <3>1. s \in DOMAIN sess /\ u \in sess[s].mu
      BY <1>3, <2>1
    <3>2. call'[u] = call[u] /\ SessionHeld(s, call[u])
      BY <1>1, <2>1, <3>1 DEF Holders
    <3> QED
      BY <3>2
  <2>2. CASE u = t
    BY <1>3, <2>2
  <2> QED
    BY <2>1, <2>2
<1> QED
  BY <1>2, <1>3 DEF Holders

\* A step at which t has no mutex, and takes none.
LEMMA QuietHolders ==
  ASSUME SessionsInv, Holders, NEW t \in Threads, \A u \in Threads \ {t} : call'[u] = call[u],
         call[t].at \notin {"check", "register", "header", "logentry", "endlock", "enddelete", "endinfo"},
         mu' = mu, sess' = sess
  PROVE  Holders'
<1>1. \A l \in Loggers : t \notin mu[l]
  BY DEF Holders, LoggerHeld
<1>2. \A s \in DOMAIN sess : t \notin sess[s].mu
  BY DEF Holders, SessionHeld
<1> QED
  BY <1>1, <1>2, HoldersKeep

\* What a step leaves of the other calls.
LEMMA OthersAre ==
  ASSUME SessionsInv, NEW t \in Threads
  PROVE  /\ \A step : Goto(t, step) => \A u \in Threads \ {t} : call'[u] = call[u]
         /\ \A r : Enter(t, r) => \A u \in Threads \ {t} : call'[u] = call[u]
         /\ Done(t) \/ Ended(t) => \A u \in Threads \ {t} : call'[u] = call[u]
BY DEF SessionsInv, TypeOK, Goto, Enter, Done, Ended

\* A session's mutex changes hands.
LEMMA HandIs ==
  ASSUME SessionsInv, NEW s \in DOMAIN sess, NEW m \in SUBSET Threads,
         \/ sess' = [sess EXCEPT ![s].mu = m]
         \/ sess' = [sess EXCEPT ![s].closed = TRUE, ![s].mu = m]
  PROVE  /\ DOMAIN sess' = DOMAIN sess /\ sess'[s].mu = m
         /\ \A r \in DOMAIN sess : /\ sess'[r].logger = sess[r].logger
                                   /\ r # s => sess'[r].mu = sess[r].mu
<1>1. sess[s] \in Session
  BY DEF SessionsInv, TypeOK
<1> DEFINE e == [sess[s] EXCEPT !.mu = m]
           f == [sess[s] EXCEPT !.closed = TRUE, !.mu = m]
<1>2. e.mu = m /\ e.logger = sess[s].logger
  BY <1>1 DEF Session
<1>3. f.mu = m /\ f.logger = sess[s].logger
  BY <1>1 DEF Session
<1>4. sess' = [sess EXCEPT ![s] = e] \/ sess' = [sess EXCEPT ![s] = f]
  OBVIOUS
<1> HIDE DEF e, f
<1> QED
  BY <1>2, <1>3, <1>4

\* StartSession takes the logger's mutex with nothing in hand,
LEMMA StartLockHolders ==
  ASSUME SessionsInv, Holders, NEW t \in Threads, StartLock(t)
  PROVE  Holders'
<1>1. call[t].at = "start" /\ Lock(t, LoggerOf(t)) /\ Goto(t, "check") /\ sess' = sess
  BY DEF StartLock, At
<1>2. call[t].l = {LoggerOf(t)} /\ LoggerOf(t) \in Loggers
  BY <1>1, CallIs
<1>3. PICK q \in Calls : call' = [call EXCEPT ![t] = q] /\ q.at = "check" /\ q.l = call[t].l
  BY <1>1, GotoIs
<1>4. call'[t] = q
  BY <1>3 DEF SessionsInv, TypeOK
<1>5. \A l \in Loggers : t \notin mu[l]
  BY <1>1 DEF Holders, LoggerHeld
<1>6. \A s \in DOMAIN sess : t \notin sess[s].mu
  BY <1>1 DEF Holders, SessionHeld
<1>7. \A l \in Loggers : mu'[l] = IF l = LoggerOf(t) THEN {t} ELSE mu[l]
  BY <1>1 DEF SessionsInv, TypeOK, Lock
<1>8. LoggerHeld(LoggerOf(t), call'[t], sess')
  BY <1>2, <1>3, <1>4 DEF LoggerHeld
<1>9. \A l \in Loggers : \A u \in mu'[l] :
        (u # t /\ u \in mu[l]) \/ (u = t /\ LoggerHeld(l, call'[t], sess'))
  BY <1>5, <1>7, <1>8
<1>10. \A s \in DOMAIN sess' : \A u \in sess'[s].mu : u # t /\ s \in DOMAIN sess /\ u \in sess[s].mu
  BY <1>1, <1>6
<1>11. \A u \in Threads \ {t} : call'[u] = call[u]
  BY <1>1, OthersAre
<1> QED
  BY <1>1, <1>9, <1>10, <1>11, HoldersKeep

\* keeps it while it makes the session, whose own mutex is free,
LEMMA StartMakeHolders ==
  ASSUME SessionsInv, Holders, NEW t \in Threads, call[t].at = "check", mu' = mu,
         call' = [call EXCEPT ![t].at = "register", ![t].s = {Cardinality(DOMAIN sess) + 1}],
         NEW e, e.mu = {}, sess' = Put(sess, Cardinality(DOMAIN sess) + 1, e)
  PROVE  Holders'
<1> DEFINE s == Cardinality(DOMAIN sess) + 1
<1>1. call \in [Threads -> Calls] /\ call[t] \in Calls
  BY DEF SessionsInv, TypeOK
<1>2. call'[t].at = "register" /\ call'[t].l = call[t].l /\ \A u \in Threads \ {t} : call'[u] = call[u]
  <2>1. call'[t] = [call[t] EXCEPT !.at = "register", !.s = {s}]
    BY <1>1
  <2> HIDE DEF s
  <2> QED
    BY <1>1, <2>1 DEF Calls
<1>3. s \notin DOMAIN sess
  <2>1. PICK n \in Nat : DOMAIN sess = 1..n
    BY DEF SessionsInv, Numbered
  <2>2. s = n + 1
    BY <2>1, NumberedIs
  <2> QED
    BY <2>1, <2>2
<1>4. sess' = Put(sess, s, e)
  OBVIOUS
<1> HIDE DEF s
<1>5. DOMAIN sess' = DOMAIN sess \cup {s} /\ sess'[s] = e /\ \A r \in DOMAIN sess : sess'[r] = sess[r]
  BY <1>3, <1>4 DEF Put
<1>6. ASSUME NEW l \in Loggers, NEW u \in mu'[l]
      PROVE  (u # t /\ u \in mu[l]) \/ (u = t /\ LoggerHeld(l, call'[t], sess'))
  <2>1. u = t => LoggerHeld(l, call[t], sess)
    BY <1>6 DEF Holders
  <2>2. u = t => call[t].l = {l}
    BY <2>1 DEF LoggerHeld
  <2> QED
    BY <1>2, <1>6, <2>2 DEF LoggerHeld
<1>7. \A r \in DOMAIN sess : t \notin sess[r].mu
  BY DEF Holders, SessionHeld
<1>8. \A r \in DOMAIN sess' : \A u \in sess'[r].mu : u # t /\ r \in DOMAIN sess /\ u \in sess[r].mu
  BY <1>5, <1>7
<1>9. \A r \in DOMAIN sess : r \in DOMAIN sess' /\ sess'[r].logger = sess[r].logger
  BY <1>5
<1> QED
  BY <1>2, <1>6, <1>8, <1>9, HoldersKeep

\* while it registers that,
LEMMA StartRegisterHolders ==
  ASSUME SessionsInv, Holders, NEW t \in Threads, StartRegister(t)
  PROVE  Holders'
<1>1. call[t].at = "register" /\ Goto(t, "header") /\ mu' = mu /\ sess' = sess
  BY DEF StartRegister, At
<1>2. PICK q \in Calls : call' = [call EXCEPT ![t] = q] /\ q.at = "header" /\ q.l = call[t].l
  BY <1>1, GotoIs
<1>3. call'[t] = q /\ \A u \in Threads \ {t} : call'[u] = call[u]
  BY <1>2 DEF SessionsInv, TypeOK
<1>4. \A l \in Loggers : t \in mu[l] => LoggerHeld(l, call'[t], sess')
  BY <1>1, <1>2, <1>3 DEF Holders, LoggerHeld
<1>5. \A s \in DOMAIN sess : t \notin sess[s].mu
  BY <1>1 DEF Holders, SessionHeld
<1> QED
  BY <1>1, <1>3, <1>4, <1>5, HoldersKeep

\* and gives it back on every way out, before it logs.
LEMMA StartUnlockHolders ==
  ASSUME SessionsInv, Holders, NEW t \in Threads, call[t].at \in {"check", "header"}, Unlock(LoggerOf(t)),
         \A u \in Threads \ {t} : call'[u] = call[u], sess' = sess
  PROVE  Holders'
<1>1. call[t].l = {LoggerOf(t)} /\ LoggerOf(t) \in Loggers
  BY CallIs
<1>2. \A l \in Loggers : mu'[l] = IF l = LoggerOf(t) THEN {} ELSE mu[l]
  BY DEF SessionsInv, TypeOK, Unlock
<1>3. \A l \in Loggers : t \in mu[l] => l = LoggerOf(t)
  BY <1>1 DEF Holders, LoggerHeld
<1>4. \A s \in DOMAIN sess : t \notin sess[s].mu
  BY DEF Holders, SessionHeld
<1> QED
  BY <1>2, <1>3, <1>4, HoldersKeep

\* Log and End take a session's mutex with nothing in hand,
LEMMA TakeHolders ==
  ASSUME SessionsInv, Holders, NEW t \in Threads, call[t].at \in {"log", "end"}, mu' = mu,
         \/ sess' = [sess EXCEPT ![S(t)].mu = {t}]
         \/ sess' = [sess EXCEPT ![S(t)].closed = TRUE, ![S(t)].mu = {t}],
         NEW step \in {"logentry", "endlock"}, Goto(t, step)
  PROVE  Holders'
<1>1. call[t].s = {S(t)} /\ S(t) \in DOMAIN sess
  BY CallIs
<1>2. PICK q \in Calls : call' = [call EXCEPT ![t] = q] /\ q.at = step /\ q.s = call[t].s
  BY GotoIs
<1>3. call'[t] = q /\ \A u \in Threads \ {t} : call'[u] = call[u]
  BY <1>2 DEF SessionsInv, TypeOK
<1>4. /\ DOMAIN sess' = DOMAIN sess /\ sess'[S(t)].mu = {t}
      /\ \A r \in DOMAIN sess : /\ sess'[r].logger = sess[r].logger
                                /\ r # S(t) => sess'[r].mu = sess[r].mu
  <2>1. {t} \in SUBSET Threads
    OBVIOUS
  <2> QED
    BY <1>1, <2>1, HandIs
<1>5. \A l \in Loggers : t \notin mu[l]
  BY DEF Holders, LoggerHeld
<1>6. \A s \in DOMAIN sess : t \notin sess[s].mu
  BY DEF Holders, SessionHeld
<1>7. SessionHeld(S(t), call'[t])
  BY <1>1, <1>2, <1>3 DEF SessionHeld
<1>8. \A s \in DOMAIN sess' : \A u \in sess'[s].mu :
        (u # t /\ s \in DOMAIN sess /\ u \in sess[s].mu) \/ (u = t /\ SessionHeld(s, call'[t]))
  BY <1>4, <1>6, <1>7
<1> QED
  BY <1>3, <1>4, <1>5, <1>8, HoldersKeep

\* and give it back when they have logged.
LEMMA GiveHolders ==
  ASSUME SessionsInv, Holders, NEW t \in Threads, call[t].at \in {"logentry", "endinfo"}, mu' = mu,
         sess' = [sess EXCEPT ![S(t)].mu = {}], \A u \in Threads \ {t} : call'[u] = call[u]
  PROVE  Holders'
<1>1. call[t].s = {S(t)} /\ S(t) \in DOMAIN sess
  BY CallIs
<1>2. /\ DOMAIN sess' = DOMAIN sess /\ sess'[S(t)].mu = {}
      /\ \A r \in DOMAIN sess : /\ sess'[r].logger = sess[r].logger
                                /\ r # S(t) => sess'[r].mu = sess[r].mu
  <2>1. {} \in SUBSET Threads
    OBVIOUS
  <2> QED
    BY <1>1, <2>1, HandIs
<1>3. \A l \in Loggers : t \notin mu[l]
  BY DEF Holders, LoggerHeld
<1>4. \A s \in DOMAIN sess : t \in sess[s].mu => s = S(t)
  BY <1>1 DEF Holders, SessionHeld
<1> QED
  BY <1>2, <1>3, <1>4, HoldersKeep

\* End takes the logger's mutex too,
LEMMA EndLockHolders ==
  ASSUME SessionsInv, Holders, NEW t \in Threads, EndLock(t)
  PROVE  Holders'
<1>1. call[t].at = "endlock" /\ Lock(t, Parent(t)) /\ Goto(t, "enddelete") /\ sess' = sess
  BY DEF EndLock, At
<1>2. call[t].s = {S(t)} /\ S(t) \in DOMAIN sess
  BY <1>1, CallIs
<1>3. PICK q \in Calls : call' = [call EXCEPT ![t] = q] /\ q.at = "enddelete" /\ q.s = call[t].s
  BY <1>1, GotoIs
<1>4. call'[t] = q /\ \A u \in Threads \ {t} : call'[u] = call[u]
  BY <1>3 DEF SessionsInv, TypeOK
<1>5. \A l \in Loggers : t \notin mu[l]
  BY <1>1 DEF Holders, LoggerHeld
<1>6. \A l \in Loggers : mu'[l] = IF l = Parent(t) THEN {t} ELSE mu[l]
  BY <1>1 DEF SessionsInv, TypeOK, Lock
<1>7. LoggerHeld(Parent(t), call'[t], sess')
  BY <1>1, <1>2, <1>3, <1>4 DEF LoggerHeld, Parent
<1>8. \A l \in Loggers : \A u \in mu'[l] :
        (u # t /\ u \in mu[l]) \/ (u = t /\ LoggerHeld(l, call'[t], sess'))
  BY <1>5, <1>6, <1>7
<1>9. \A s \in DOMAIN sess : t \in sess[s].mu => SessionHeld(s, call'[t])
  BY <1>2, <1>3, <1>4 DEF Holders, SessionHeld
<1> QED
  BY <1>1, <1>4, <1>8, <1>9, HoldersKeep

\* and gives that back before it logs.
LEMMA EndDeleteHolders ==
  ASSUME SessionsInv, Holders, NEW t \in Threads, EndDelete(t)
  PROVE  Holders'
<1>1. call[t].at = "enddelete" /\ Unlock(Parent(t)) /\ Goto(t, "endinfo") /\ sess' = sess
  BY DEF EndDelete, At
<1>2. call[t].s = {S(t)} /\ S(t) \in DOMAIN sess
  BY <1>1, CallIs
<1>3. PICK q \in Calls : call' = [call EXCEPT ![t] = q] /\ q.at = "endinfo" /\ q.s = call[t].s
  BY <1>1, GotoIs
<1>4. call'[t] = q /\ \A u \in Threads \ {t} : call'[u] = call[u]
  BY <1>3 DEF SessionsInv, TypeOK
<1>5. \A l \in Loggers : mu'[l] = IF l = Parent(t) THEN {} ELSE mu[l]
  BY <1>1 DEF SessionsInv, TypeOK, Unlock
<1>6. \A l \in Loggers : t \in mu[l] => l = Parent(t)
  BY <1>1, <1>2 DEF Holders, LoggerHeld, Parent
<1>7. \A s \in DOMAIN sess : t \in sess[s].mu => SessionHeld(s, call'[t])
  BY <1>2, <1>3, <1>4 DEF Holders, SessionHeld
<1> QED
  BY <1>1, <1>4, <1>5, <1>6, <1>7, HoldersKeep

\* No other step touches a mutex.
LEMMA NextHolders == SessionsInv /\ Holders /\ [Next]_vars => Holders'
<1> SUFFICES ASSUME SessionsInv, Holders, [Next]_vars PROVE Holders'
  OBVIOUS
<1>1. CASE Tick \/ UNCHANGED vars
  <2>1. mu' = mu /\ sess' = sess /\ call' = call
    BY <1>1 DEF Tick, vars
  <2> QED
    BY <2>1 DEF Holders
<1>2. ASSUME NEW t \in Threads, Call(t)
      PROVE  Holders'
  <2>1. call[t].at = "idle" /\ mu' = mu /\ sess' = sess /\ \A u \in Threads \ {t} : call'[u] = call[u]
    BY <1>2, OthersAre DEF Call, StartSession, Log, End, CloseAllSessions, Enter, At
  <2> QED
    BY <2>1, QuietHolders
<1>3. ASSUME NEW t \in Threads, StartCheck(t)
      PROVE  Holders'
  <2> DEFINE e == [id |-> ID(t), logger |-> LoggerOf(t), file |-> <<Service[LoggerOf(t)], ID(t), clock>>,
                   mu |-> {}, closed |-> FALSE]
             s == Cardinality(DOMAIN sess) + 1
  <2>1. call[t].at = "check"
        /\ \/ Unlock(LoggerOf(t)) /\ Done(t) /\ sess' = sess
           \/ /\ sess' = Put(sess, s, e) /\ mu' = mu
              /\ call' = [call EXCEPT ![t].at = "register", ![t].s = {s}]
    BY <1>3 DEF StartCheck, At
  <2>2. e.mu = {}
    OBVIOUS
  <2> HIDE DEF e
  <2> QED
    BY <2>1, <2>2, OthersAre, StartUnlockHolders, StartMakeHolders
<1>4. ASSUME NEW t \in Threads, StartHeader(t)
      PROVE  Holders'
  BY <1>4, OthersAre, StartUnlockHolders DEF StartHeader, At
<1>5. ASSUME NEW t \in Threads, LogWrite(t)
      PROVE  Holders'
  <2>1. CASE sess[S(t)].closed
    <3>1. call[t].at = "log" /\ mu' = mu /\ sess' = sess /\ Done(t)
      BY <1>5, <2>1 DEF LogWrite, At
    <3> QED
      BY <3>1, OthersAre, QuietHolders
  <2>2. CASE ~sess[S(t)].closed
    <3>1. call[t].at = "log" /\ mu' = mu /\ sess' = [sess EXCEPT ![S(t)].mu = {t}] /\ Goto(t, "logentry")
      BY <1>5, <2>2 DEF LogWrite, At
    <3> QED
      BY <3>1, TakeHolders
  <2> QED
    BY <2>1, <2>2
<1>6. ASSUME NEW t \in Threads, EndClose(t)
      PROVE  Holders'
  <2>1. CASE sess[S(t)].closed
    <3>1. call[t].at = "end" /\ mu' = mu /\ sess' = sess /\ Ended(t)
      BY <1>6, <2>1 DEF EndClose, At
    <3> QED
      BY <3>1, OthersAre, QuietHolders
  <2>2. CASE ~sess[S(t)].closed
    <3>1. call[t].at = "end" /\ mu' = mu /\ Goto(t, "endlock")
          /\ sess' = [sess EXCEPT ![S(t)].closed = TRUE, ![S(t)].mu = {t}]
      BY <1>6, <2>2 DEF EndClose, At
    <3> QED
      BY <3>1, TakeHolders
  <2> QED
    BY <2>1, <2>2
<1>7. ASSUME NEW t \in Threads, LogEntry(t) \/ EndInfo(t)
      PROVE  Holders'
  <2>1. call[t].at \in {"logentry", "endinfo"} /\ mu' = mu /\ sess' = [sess EXCEPT ![S(t)].mu = {}]
        /\ (Done(t) \/ Ended(t))
    BY <1>7 DEF LogEntry, EndInfo, Entry, At
  <2> QED
    BY <2>1, OthersAre, GiveHolders
<1>8. ASSUME NEW t \in Threads, StartInfo(t) \/ Snapshot(t) \/ CloseNext(t) \/ CloseReturn(t)
      PROVE  Holders'
  <2>1. call[t].at \in {"startinfo", "snapshot", "closeall"} /\ mu' = mu /\ sess' = sess
    BY <1>8 DEF StartInfo, Snapshot, CloseNext, CloseReturn, Entry, At
  <2>2. \A u \in Threads \ {t} : call'[u] = call[u]
    BY <1>8 DEF StartInfo, Snapshot, CloseNext, CloseReturn, Done, SessionsInv, TypeOK
  <2> QED
    BY <2>1, <2>2, QuietHolders
<1>9. ASSUME NEW t \in Threads, Step(t)
      PROVE  Holders'
  BY <1>3, <1>4, <1>5, <1>6, <1>7, <1>8, <1>9, StartLockHolders, StartRegisterHolders,
     EndLockHolders, EndDeleteHolders DEF Step
<1> QED
  BY <1>1, <1>2, <1>9 DEF Next

\* However many loggers, sessions and threads: whoever has a session's mutex
\* waits for nothing but a logger's, and whoever has that waits for nothing.
THEOREM TheNoCircularWait == Spec => []NoCircularWait
<1>1. Init => Holders
  BY DEF Init, Holders, EmptyMap
<1>2. ASSUME SessionsInv, Holders
      PROVE  NoCircularWait
  <2>1. ASSUME NEW t \in Threads, NEW u \in WaitsFor(t)
        PROVE  /\ u \in Threads
               /\ \/ call[u].at \in {"check", "register", "header", "enddelete"}
                  \/ /\ call[u].at \in {"logentry", "endlock", "endinfo"}
                     /\ call[t].at \in {"log", "end"}
    <3>1. call[t] \in Calls /\ mu \in [Loggers -> SUBSET Threads] /\ \A s \in DOMAIN sess : sess[s] \in Session
      BY <1>2 DEF SessionsInv, TypeOK
    <3>2. /\ call[t].l \subseteq Loggers
          /\ \A s \in DOMAIN sess : sess[s].logger \in Loggers /\ sess[s].mu \subseteq Threads
      BY <3>1 DEF Calls, Session
    <3>3. call[t].at \in {"log", "logentry", "end", "endlock", "endinfo"} => call[t].s \subseteq DOMAIN sess
      <4>1. Stage(t, call[t], sess)
        BY <1>2 DEF SessionsInv
      <4> QED
        BY <4>1 DEF Stage
    <3>4. \/ \E l \in Loggers : u \in mu[l]
          \/ call[t].at \in {"log", "end"} /\ \E s \in DOMAIN sess : u \in sess[s].mu
      BY <2>1, <3>2, <3>3 DEF WaitsFor
    <3>5. CASE \E l \in Loggers : u \in mu[l]
      <4>1. PICK l \in Loggers : u \in mu[l]
        BY <3>5
      <4>2. u \in Threads
        BY <3>1, <4>1
      <4>3. LoggerHeld(l, call[u], sess)
        BY <1>2, <4>1 DEF Holders
      <4> QED
        BY <4>2, <4>3 DEF LoggerHeld
    <3>6. CASE call[t].at \in {"log", "end"} /\ \E s \in DOMAIN sess : u \in sess[s].mu
      <4>1. PICK s \in DOMAIN sess : u \in sess[s].mu
        BY <3>6
      <4>2. u \in Threads
        BY <3>2, <4>1
      <4>3. SessionHeld(s, call[u])
        BY <1>2, <4>1 DEF Holders
      <4> QED
        BY <3>6, <4>2, <4>3 DEF SessionHeld
    <3> QED
      BY <3>4, <3>5, <3>6
  <2>2. \A t \in Threads : call[t].at \in {"check", "register", "header", "enddelete"} => WaitsFor(t) = {}
    BY DEF WaitsFor
  <2> QED
    BY <2>1, <2>2 DEF NoCircularWait
<1>3. Init => SessionsInv
  BY InitKeeps
<1>4. (SessionsInv /\ Holders) /\ [Next]_vars => (SessionsInv /\ Holders)'
  BY NextKeeps, NextHolders DEF Keeps
<1>5. Spec => Init /\ [][Next]_vars
  BY PTL DEF Spec
<1> QED
  BY <1>1, <1>2, <1>3, <1>4, <1>5, PTL
=============================================================================
