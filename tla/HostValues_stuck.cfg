SPECIFICATION HostSpec
CONSTANTS
  Key = {k1}
  Stub = {s1, s2, s3}
  Thread = {t1, t2}
  NoStub = none
  MaxClones = 2
  MaxQueue = 2
INVARIANTS NeverStuck
CHECK_DEADLOCK FALSE
