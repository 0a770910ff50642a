CONSTANTS
  Threads = {t1, t2}
  Loggers = {main, child}
  Service <- OneName
  SessionIDs = {a, b}
  MaxSessions = 2
  MaxLines = 1
  MaxSecond = 0
SPECIFICATION Spec
INVARIANT MapGuarded
