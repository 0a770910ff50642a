CONSTANTS
  Threads = {t1, t2}
  Loggers = {main}
  Service <- OneName
  SessionIDs = {a, b}
  MaxSessions = 2
  MaxLines = 2
  MaxSecond = 1
SPECIFICATION Spec
INVARIANTS TypeOK RegistryExact FileComplete CloseAllEnds NoCircularWait
PROPERTY CallsReturn
