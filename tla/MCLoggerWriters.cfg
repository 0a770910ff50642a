CONSTANTS
  Loggers = {main, child}
  Writers = {w1, w2}
  Threads = {t1}
  Levels = {1, 3}
  MaxWriters = 5
SPECIFICATION WritersSpec
SYMMETRY Alike
INVARIANTS WritersTypeOK WritersKept EntryDelivered
